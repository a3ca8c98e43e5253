-------------------------- MODULE MobileCapabilities --------------------------
(* MobileCapabilitiesCubit and the API pipeline under it: the snapshot of what *)
(* the server grants, loaded with two requests at once, each tried once more   *)
(* when nothing answers; and its refresh when some other request is denied.    *)
(* What the server grants changes at any time and is known by its number.      *)
EXTENDS Naturals

CONSTANTS
    Loads,        \* running calls of _performLoad; more than one is an error
    MaxAccess,    \* bound: changes of what the server grants
    MaxRefreshes  \* bound: calls of load() and refresh() by the app

ASSUME BoundAssumption == MaxAccess \in Nat \ {0} /\ MaxRefreshes \in Nat

VARIABLES
    access,       \* server: the number of the grants in force
    denials,      \* 403 answers to other requests on their way: grants they saw
    status,       \* MobileCapabilitiesState.status
    snapshot,     \* the grants of the last successful load: [me, runtime]; 0 none
    problem,      \* MobileCapabilitiesState.problem
    active,       \* _activeLoad is set
    queued,       \* _refreshQueued
    loads,        \* the calls of _performLoad with their requests
    closed,
    invalidated,  \* history: the latest grants a denial made known
    failures,     \* history: how the requests of the last failed load failed
    refreshes

state == <<status, snapshot, problem>>
cubit == <<state, active, queued, closed>>
vars == <<access, denials, cubit, loads, invalidated, failures, refreshes>>

Paths == {"me", "runtime"}
Sent == [at |-> "sent", tries |-> 1, grants |-> 0]
NewLoad == [on |-> TRUE, get |-> [p \in Paths |-> Sent]]
NoLoad == [on |-> FALSE, get |-> [p \in Paths |-> Sent]]
NoGrants == [p \in Paths |-> 0]

Init ==
    /\ access = 1 /\ denials = {}
    /\ status = "initial" /\ snapshot = NoGrants /\ problem = "none"
    /\ active = FALSE /\ queued = FALSE /\ closed = FALSE
    /\ loads = [l \in Loads |-> NoLoad]
    /\ invalidated = 0 /\ failures = {} /\ refreshes = 0

Loaded == snapshot # NoGrants

-----------------------------------------------------------------------------
(* The cubit.                                                                   *)

\* _startLoad and the synchronous part of _performLoad; running is what is left
\* of the calls before.
Starts(running, refreshing) ==
    /\ \E l \in Loads :
          /\ ~running[l].on
          /\ loads' = [running EXCEPT ![l] = NewLoad]
    /\ active' = TRUE
    /\ status' = IF refreshing THEN "refreshing" ELSE "loading"
    /\ problem' = "none"

\* Mutant of StartLoad: a running load is not looked for.
StartLoadAlways(refreshing) == Starts(loads, refreshing)

StartLoad(refreshing) ==
    IF active THEN UNCHANGED <<loads, active, status, problem>> ELSE Starts(loads, refreshing)

Load ==
    /\ ~closed /\ refreshes < MaxRefreshes /\ refreshes' = refreshes + 1
    /\ ~Loaded
    /\ StartLoad(FALSE)
    /\ UNCHANGED <<access, denials, snapshot, queued, closed, invalidated, failures>>

\* Mutant of DoRefresh: a running load is taken to be recent enough.
DoRefreshJoining ==
    IF active THEN UNCHANGED <<loads, active, status, problem, queued>>
    ELSE StartLoad(Loaded) /\ UNCHANGED queued

DoRefresh ==
    IF active THEN queued' = TRUE /\ UNCHANGED <<loads, active, status, problem>>
    ELSE StartLoad(Loaded) /\ UNCHANGED queued

Refresh ==
    /\ ~closed /\ refreshes < MaxRefreshes /\ refreshes' = refreshes + 1
    /\ DoRefresh
    /\ UNCHANGED <<access, denials, snapshot, closed, invalidated, failures>>

\* capabilityInvalidations reaches the cubit.
Invalidation ==
    /\ ~closed
    /\ \E g \in denials :
          /\ denials' = denials \ {g}
          /\ invalidated' = IF g > invalidated THEN g ELSE invalidated
    /\ DoRefresh
    /\ UNCHANGED <<access, snapshot, closed, failures, refreshes>>

\* The finally block of _performLoad: the queued refresh begins at once.
Finally(l, nowLoaded) ==
    LET rest == [loads EXCEPT ![l] = NoLoad] IN
    IF queued
    THEN Starts(rest, nowLoaded) /\ queued' = FALSE
    ELSE loads' = rest /\ active' = FALSE /\ UNCHANGED queued

\* Both requests are answered: the snapshot is theirs, although the grants may
\* have changed between the two.
Succeeds(l) ==
    /\ loads[l].on /\ \A p \in Paths : loads[l].get[p].at = "ok"
    /\ snapshot' = [p \in Paths |-> loads[l].get[p].grants]
    /\ IF queued THEN Finally(l, TRUE)
       ELSE Finally(l, TRUE) /\ status' = "ready" /\ problem' = "none"
    /\ ~closed
    /\ UNCHANGED <<access, denials, closed, invalidated, failures, refreshes>>

\* fetchCapabilities waits for both requests; a failure reaches it as the error
\* of the pair, which none of its clauses but the last knows.
Problem == "invalid_response"

Failing(l) ==
    /\ loads[l].on
    /\ \A p \in Paths : loads[l].get[p].at \in {"ok", "denied", "network"}
    /\ \E p \in Paths : loads[l].get[p].at # "ok"
    /\ failures' = {loads[l].get[p].at : p \in Paths} \ {"ok"}
    /\ IF queued THEN Finally(l, Loaded)
       ELSE Finally(l, Loaded) /\ status' = "failed" /\ problem' = Problem
    /\ ~closed
    /\ UNCHANGED <<access, denials, snapshot, closed, invalidated, refreshes>>

\* Of a closed cubit emit throws; nothing is shown any more, and the queued
\* refresh fails as it begins, with _activeLoad set.
Abandons(l) ==
    /\ closed /\ loads[l].on
    /\ \A p \in Paths : loads[l].get[p].at # "sent"
    /\ loads' = [loads EXCEPT ![l] = NoLoad]
    /\ active' = queued /\ queued' = FALSE
    /\ UNCHANGED <<access, denials, state, closed, invalidated, failures, refreshes>>

Close ==
    /\ ~closed /\ closed' = TRUE
    /\ UNCHANGED <<access, denials, state, active, queued, loads, invalidated, failures, refreshes>>

-----------------------------------------------------------------------------
(* The requests and the server.                                                 *)

Get(l, p) == loads[l].get[p]
Gets(l, p, get) == loads' = [loads EXCEPT ![l].get[p] = get]

Answered(l, p) ==
    /\ loads[l].on /\ Get(l, p).at = "sent"
    /\ Gets(l, p, [Get(l, p) EXCEPT !.at = "ok", !.grants = access])
    /\ UNCHANGED <<access, denials, cubit, invalidated, failures, refreshes>>

\* Mutant of Denied: a denied load invalidates the capabilities, too.
DeniedInvalidates(l, p) ==
    /\ loads[l].on /\ Get(l, p).at = "sent"
    /\ Gets(l, p, [Get(l, p) EXCEPT !.at = "denied"])
    /\ denials' = denials \cup {access}
    /\ UNCHANGED <<access, cubit, invalidated, failures, refreshes>>

\* A 403 to a request that loads the capabilities refreshes nothing.
Denied(l, p) ==
    /\ loads[l].on /\ Get(l, p).at = "sent"
    /\ Gets(l, p, [Get(l, p) EXCEPT !.at = "denied"])
    /\ UNCHANGED <<access, denials, cubit, invalidated, failures, refreshes>>

\* Nothing answers: the read is tried once more.
Unanswered(l, p) ==
    /\ loads[l].on /\ Get(l, p).at = "sent"
    /\ IF Get(l, p).tries = 1
       THEN Gets(l, p, [Get(l, p) EXCEPT !.tries = 2])
       ELSE Gets(l, p, [Get(l, p) EXCEPT !.at = "network"])
    /\ UNCHANGED <<access, denials, cubit, invalidated, failures, refreshes>>

\* Another request of the app is denied; and what is granted changes.
OtherDenied ==
    /\ access > invalidated /\ access \notin denials
    /\ denials' = denials \cup {access}
    /\ UNCHANGED <<access, cubit, loads, invalidated, failures, refreshes>>

AccessChanges ==
    /\ access < MaxAccess /\ access' = access + 1
    /\ UNCHANGED <<denials, cubit, loads, invalidated, failures, refreshes>>

-----------------------------------------------------------------------------
Request(l, p) == Answered(l, p) \/ Denied(l, p) \/ Unanswered(l, p)
Ends(l) == Succeeds(l) \/ Failing(l) \/ Abandons(l)
Next ==
    \/ Load \/ Refresh \/ Invalidation \/ Close
    \/ \E l \in Loads : Ends(l) \/ \E p \in Paths : Request(l, p)
    \/ OtherDenied \/ AccessChanges

Spec == Init /\ [][Next]_vars

\* Requests end (the client has timeouts), what is awaited goes on, and events
\* of a stream are delivered.
FairSpec ==
    /\ Spec /\ WF_vars(Invalidation)
    /\ \A l \in Loads : WF_vars(Ends(l)) /\ \A p \in Paths : WF_vars(Request(l, p))

-----------------------------------------------------------------------------
\* Every variable keeps its type, and what the state shows fits what runs: a
\* loading state has its load, and a queued refresh a load to wait for.
TypeOK ==
    /\ access \in 1 .. MaxAccess /\ denials \subseteq 1 .. MaxAccess
    /\ status \in {"initial", "loading", "ready", "refreshing", "failed"}
    /\ snapshot \in [Paths -> 0 .. MaxAccess] /\ problem \in {"none", "invalid_response"}
    /\ invalidated \in 0 .. MaxAccess
    /\ ~closed => (active <=> status \in {"loading", "refreshing"})
    /\ queued => active
    /\ status = "refreshing" => Loaded

\* One load runs at a time, whatever load(), refresh() and invalidations overlap
\* (_startLoad), so no older answer replaces a newer one.
OneLoad == \A l, m \in Loads : loads[l].on /\ loads[m].on => l = m

\* After a denial made changed grants known, the snapshot catches up with them,
\* also when the denial arrived while an older load was running - unless that
\* load failed ("Keeps effective capabilities current", line 31).
CatchesUp ==
    \A g \in 1 .. MaxAccess :
        invalidated >= g ~> \/ \A p \in Paths : snapshot[p] >= g
                            \/ status = "failed" \/ closed

\* The cubit does not load for ever, even if the capabilities themselves are
\* denied.
LoadsEnd == active ~> ~active \/ closed

-----------------------------------------------------------------------------
(* What the documentation says and the code does not keep.                     *)

\* "HTTP status, or zero when no response was received"
\* (mobile_api_problem.dart:28): a problem without a status does not stand for
\* answers the server did give.
ProblemTold == status = "failed" /\ problem = "invalid_response" => "denied" \notin failures
=============================================================================
