---------------------- MODULE MobileCapabilities_proofs ----------------------
(* Theorems about MobileCapabilities, for every value of its constants: types, *)
(* and that one load runs at a time. Neither is inductive alone: a load begins *)
(* where no other is active, so what is active must be known of what runs; and *)
(* a refresh shows a snapshot only because answered requests brought grants.   *)
EXTENDS MobileCapabilities, TLAPS

USE BoundAssumption DEF BoundAssumption

RequestRecord == [at : {"sent", "ok", "denied", "network"}, tries : 1 .. 2, grants : 0 .. MaxAccess]
LoadRecord == [on : BOOLEAN, get : [Paths -> RequestRecord]]

\* Loads are well typed, and an answered request has grants.
LoadsOK ==
    /\ loads \in [Loads -> LoadRecord]
    /\ \A l \in Loads, p \in Paths : loads[l].get[p].at = "ok" => loads[l].get[p].grants # 0

FlagsOK == active \in BOOLEAN /\ queued \in BOOLEAN /\ closed \in BOOLEAN

\* A load that runs is the active one.
RunningActive == \A l \in Loads : loads[l].on => active

IInv == TypeOK /\ FlagsOK /\ LoadsOK /\ RunningActive /\ OneLoad

-----------------------------------------------------------------------------
(* Parts of steps.                                                             *)

LEMMA LoadType == NoLoad \in LoadRecord /\ NewLoad \in LoadRecord
<1>1. Sent \in RequestRecord
  <2>1. 1 \in 1 .. 2 /\ 0 \in 0 .. MaxAccess
    OBVIOUS
  <2>2. QED
    BY <2>1 DEF Sent, RequestRecord
<1>2. [p \in Paths |-> Sent] \in [Paths -> RequestRecord]
  BY <1>1
<1>3. QED
  BY <1>2 DEF NoLoad, NewLoad, LoadRecord

LEMMA NotAnswered ==
  ASSUME NEW p \in Paths
  PROVE  NoLoad.get[p].at # "ok" /\ NewLoad.get[p].at # "ok"
BY DEF NoLoad, NewLoad, Sent

\* Where nothing runs, a load that starts is the only one.
LEMMA StartsOne ==
  ASSUME NEW running \in [Loads -> LoadRecord], NEW refreshing \in BOOLEAN,
         \A l \in Loads : ~running[l].on,
         \A l \in Loads, p \in Paths : running[l].get[p].at = "ok" => running[l].get[p].grants # 0,
         Starts(running, refreshing)
  PROVE  LoadsOK' /\ RunningActive' /\ OneLoad' /\ active'
<1>1. PICK l \in Loads : loads' = [running EXCEPT ![l] = NewLoad]
  BY DEF Starts
<1>2. active'
  BY DEF Starts
<1>3. LoadsOK'
  BY <1>1, LoadType, NotAnswered DEF LoadsOK
<1>4. \A m \in Loads : loads'[m].on => m = l
  BY <1>1
<1>5. QED
  BY <1>2, <1>3, <1>4 DEF RunningActive, OneLoad

\* The same for a load asked for by the app.
LEMMA StartLoadOne ==
  ASSUME IInv, NEW refreshing \in BOOLEAN, StartLoad(refreshing)
  PROVE  LoadsOK' /\ RunningActive' /\ OneLoad' /\ active'
<1>1. CASE active
  BY <1>1 DEF StartLoad, IInv, LoadsOK, RunningActive, OneLoad
<1>2. CASE ~active
  <2>1. \A l \in Loads : ~loads[l].on
    BY <1>2 DEF IInv, RunningActive
  <2>2. Starts(loads, refreshing)
    BY <1>2 DEF StartLoad
  <2>3. QED
    BY <2>1, <2>2, StartsOne DEF IInv, LoadsOK
<1>3. QED
  BY <1>1, <1>2

LEMMA DoRefreshOne ==
  ASSUME IInv, DoRefresh
  PROVE  LoadsOK' /\ RunningActive' /\ OneLoad' /\ active'
<1>1. CASE active
  BY <1>1 DEF DoRefresh, IInv, LoadsOK, RunningActive, OneLoad
<1>2. CASE ~active
  <2>1. StartLoad(Loaded) /\ Loaded \in BOOLEAN
    BY <1>2 DEF DoRefresh, Loaded
  <2>2. QED
    BY <2>1, StartLoadOne
<1>3. QED
  BY <1>1, <1>2

\* And for the queued refresh after the load that ran.
LEMMA FinallyOne ==
  ASSUME IInv, NEW l \in Loads, loads[l].on, NEW nowLoaded \in BOOLEAN, Finally(l, nowLoaded)
  PROVE  LoadsOK' /\ RunningActive' /\ OneLoad' /\ active' = queued
<1> DEFINE rest == [loads EXCEPT ![l] = NoLoad]
<1>1. rest \in [Loads -> LoadRecord]
  BY LoadType DEF IInv, LoadsOK
<1>2. \A m \in Loads : ~rest[m].on
  BY DEF IInv, OneLoad, LoadsOK, NoLoad
<1>3. \A m \in Loads, p \in Paths : rest[m].get[p].at = "ok" => rest[m].get[p].grants # 0
  BY NotAnswered DEF IInv, LoadsOK
<1>4. CASE queued
  <2>1. Starts(rest, nowLoaded)
    BY <1>4 DEF Finally
  <2>2. active' = TRUE
    BY <2>1 DEF Starts
  <2>3. QED
    BY <1>1, <1>2, <1>3, <1>4, <2>1, <2>2, StartsOne DEF IInv, FlagsOK
<1>5. CASE ~queued
  <2>1. loads' = rest /\ active' = FALSE
    BY <1>5 DEF Finally
  <2>2. QED
    BY <1>1, <1>2, <1>3, <1>5, <2>1 DEF LoadsOK, RunningActive, OneLoad, IInv, FlagsOK
<1>6. QED
  BY <1>4, <1>5 DEF IInv, FlagsOK

\* A request of a load that moves on starts and ends no load.
LEMMA GetsOne ==
  ASSUME IInv, NEW l \in Loads, NEW p \in Paths, NEW get \in RequestRecord,
         get.at = "ok" => get.grants # 0, Gets(l, p, get), active' = active
  PROVE  LoadsOK' /\ RunningActive' /\ OneLoad'
<1> USE DEF IInv, LoadsOK, Gets
<1>1. loads[l] \in LoadRecord /\ loads[l].get \in [Paths -> RequestRecord]
  BY DEF LoadRecord
<1>2. loads' \in [Loads -> LoadRecord]
  BY <1>1 DEF LoadRecord
<1>3. \A m \in Loads : loads'[m].on = loads[m].on
  BY <1>1 DEF LoadRecord
<1>4. \A m \in Loads, q \in Paths :
         loads'[m].get[q] = IF m = l /\ q = p THEN get ELSE loads[m].get[q]
  BY <1>1 DEF LoadRecord
<1>5. \A m \in Loads, q \in Paths : loads'[m].get[q].at = "ok" => loads'[m].get[q].grants # 0
  BY <1>4
<1>6. QED
  BY <1>2, <1>3, <1>5 DEF RunningActive, OneLoad

\* What a starting load shows: a refresh where there is a snapshot.
LEMMA StartLoadType ==
  ASSUME TypeOK, FlagsOK, NEW refreshing \in BOOLEAN, refreshing => Loaded, StartLoad(refreshing),
         snapshot' = snapshot, closed' = closed
  PROVE  /\ status' \in {"initial", "loading", "ready", "refreshing", "failed"}
         /\ problem' \in {"none", "invalid_response"}
         /\ ~closed' => (active' <=> status' \in {"loading", "refreshing"})
         /\ status' = "refreshing" => Loaded'
         /\ active' \in BOOLEAN /\ active'
<1>1. CASE active
  BY <1>1 DEF StartLoad, TypeOK, FlagsOK, Loaded
<1>2. CASE ~active
  BY <1>2 DEF StartLoad, Starts, Loaded
<1>3. QED
  BY <1>1, <1>2

LEMMA DoRefreshType ==
  ASSUME TypeOK, FlagsOK, DoRefresh, snapshot' = snapshot, closed' = closed
  PROVE  /\ status' \in {"initial", "loading", "ready", "refreshing", "failed"}
         /\ problem' \in {"none", "invalid_response"}
         /\ ~closed' => (active' <=> status' \in {"loading", "refreshing"})
         /\ status' = "refreshing" => Loaded'
         /\ active' \in BOOLEAN /\ queued' \in BOOLEAN /\ active'
<1>1. CASE active
  BY <1>1 DEF DoRefresh, TypeOK, FlagsOK, Loaded
<1>2. CASE ~active
  <2>1. StartLoad(Loaded) /\ queued' = queued /\ Loaded \in BOOLEAN
    BY <1>2 DEF DoRefresh, Loaded
  <2>2. QED
    BY <2>1, StartLoadType DEF FlagsOK
<1>3. QED
  BY <1>1, <1>2

\* What the end of a load shows: of the queued refresh, or nothing new.
LEMMA FinallyType ==
  ASSUME FlagsOK, NEW l \in Loads, NEW nowLoaded \in BOOLEAN, Finally(l, nowLoaded)
  PROVE  /\ queued => /\ status' = IF nowLoaded THEN "refreshing" ELSE "loading"
                      /\ problem' = "none"
         /\ active' = queued /\ queued' = FALSE
BY DEF FlagsOK, Finally, Starts

-----------------------------------------------------------------------------
(* Steps.                                                                      *)

LEMMA InitInv == Init => IInv
<1> SUFFICES ASSUME Init PROVE IInv
  OBVIOUS
<1>1. NoGrants \in [Paths -> 0 .. MaxAccess] /\ 1 \in 1 .. MaxAccess /\ 0 \in 0 .. MaxAccess
  BY DEF NoGrants
<1>2. TypeOK
  BY <1>1 DEF Init, TypeOK, Loaded
<1>3. LoadsOK
  BY LoadType, NotAnswered DEF Init, LoadsOK
<1>4. \A l \in Loads : ~loads[l].on
  BY DEF Init, NoLoad
<1>5. QED
  BY <1>2, <1>3, <1>4 DEF Init, IInv, FlagsOK, RunningActive, OneLoad

\* load() and refresh(), and a refresh because of a denial.
LEMMA LoadStep ==
  ASSUME IInv, Load
  PROVE  IInv'
<1>1. LoadsOK' /\ RunningActive' /\ OneLoad'
  BY StartLoadOne DEF Load
<1>2. TypeOK' /\ FlagsOK'
  BY StartLoadType DEF Load, IInv, TypeOK, FlagsOK
<1>3. QED
  BY <1>1, <1>2 DEF IInv

LEMMA RefreshStep ==
  ASSUME IInv, Refresh
  PROVE  IInv'
<1>1. LoadsOK' /\ RunningActive' /\ OneLoad'
  BY DoRefreshOne DEF Refresh
<1>2. TypeOK' /\ FlagsOK'
  BY DoRefreshType DEF Refresh, IInv, TypeOK, FlagsOK
<1>3. QED
  BY <1>1, <1>2 DEF IInv

LEMMA InvalidationStep ==
  ASSUME IInv, Invalidation
  PROVE  IInv'
<1>1. LoadsOK' /\ RunningActive' /\ OneLoad'
  BY DoRefreshOne DEF Invalidation
<1>2. denials' \subseteq 1 .. MaxAccess /\ invalidated' \in 0 .. MaxAccess
  BY DEF Invalidation, IInv, TypeOK
<1>3. TypeOK' /\ FlagsOK'
  BY <1>2, DoRefreshType DEF Invalidation, IInv, TypeOK, FlagsOK
<1>4. QED
  BY <1>1, <1>3 DEF IInv

\* A load ends.
LEMMA SucceedsStep ==
  ASSUME IInv, NEW l \in Loads, Succeeds(l)
  PROVE  IInv'
<1>1. Finally(l, TRUE) /\ loads[l].on
  BY DEF Succeeds
<1>2. LoadsOK' /\ RunningActive' /\ OneLoad'
  BY <1>1, FinallyOne
<1>3. snapshot' \in [Paths -> 0 .. MaxAccess] /\ Loaded'
  <2>1. \A p \in Paths : loads[l].get[p].grants \in 0 .. MaxAccess /\ loads[l].get[p].grants # 0
    BY DEF Succeeds, IInv, LoadsOK, LoadRecord, RequestRecord
  <2>2. snapshot' = [p \in Paths |-> loads[l].get[p].grants] /\ "me" \in Paths
    BY DEF Succeeds, Paths
  <2>3. snapshot'["me"] # NoGrants["me"]
    BY <2>1, <2>2 DEF NoGrants
  <2>4. QED
    BY <2>1, <2>2, <2>3 DEF Loaded
<1>4. /\ status' = IF queued THEN "refreshing" ELSE "ready"
      /\ problem' = "none"
      /\ active' = queued /\ queued' = FALSE
  BY <1>1, FinallyType DEF Succeeds, IInv
<1>5. TypeOK' /\ FlagsOK'
  BY <1>3, <1>4 DEF Succeeds, IInv, TypeOK, FlagsOK
<1>6. QED
  BY <1>2, <1>5 DEF IInv

LEMMA FailingStep ==
  ASSUME IInv, NEW l \in Loads, Failing(l)
  PROVE  IInv'
<1>1. Finally(l, Loaded) /\ loads[l].on /\ Loaded \in BOOLEAN
  BY DEF Failing, Loaded
<1>2. LoadsOK' /\ RunningActive' /\ OneLoad'
  BY <1>1, FinallyOne
<1>3. /\ status' = IF queued THEN (IF Loaded THEN "refreshing" ELSE "loading") ELSE "failed"
      /\ problem' \in {"none", "invalid_response"}
      /\ active' = queued /\ queued' = FALSE
  BY <1>1, FinallyType DEF Failing, IInv, Problem
<1>4. Loaded' = Loaded
  BY DEF Failing, Loaded
<1>5. TypeOK' /\ FlagsOK'
  BY <1>3, <1>4 DEF Failing, IInv, TypeOK, FlagsOK
<1>6. QED
  BY <1>2, <1>5 DEF IInv

LEMMA AbandonsStep ==
  ASSUME IInv, NEW l \in Loads, Abandons(l)
  PROVE  IInv'
<1>1. \A m \in Loads : ~loads'[m].on
  BY DEF Abandons, IInv, LoadsOK, OneLoad, NoLoad
<1>2. LoadsOK'
  BY LoadType, NotAnswered DEF Abandons, IInv, LoadsOK
<1>3. TypeOK' /\ FlagsOK'
  BY DEF Abandons, IInv, TypeOK, FlagsOK, state, Loaded
<1>4. QED
  BY <1>1, <1>2, <1>3 DEF IInv, RunningActive, OneLoad

LEMMA CloseStep ==
  ASSUME IInv, Close
  PROVE  IInv'
BY DEF Close, IInv, TypeOK, FlagsOK, LoadsOK, RunningActive, OneLoad, state, Loaded

\* A request of a load is answered, denied or not answered.
LEMMA RequestStep ==
  ASSUME IInv, NEW l \in Loads, NEW p \in Paths, Request(l, p)
  PROVE  IInv'
<1>1. Get(l, p) \in RequestRecord
  BY DEF IInv, LoadsOK, LoadRecord, Get
<1>2. access \in 0 .. MaxAccess /\ access # 0
  BY DEF IInv, TypeOK
<1>3. active' = active /\ TypeOK' /\ FlagsOK'
  BY DEF Request, Answered, Denied, Unanswered, IInv, TypeOK, FlagsOK, cubit, state, Loaded
<1>4. CASE Answered(l, p)
  <2>1. [Get(l, p) EXCEPT !.at = "ok", !.grants = access] \in RequestRecord
    BY <1>1, <1>2 DEF RequestRecord
  <2>2. [Get(l, p) EXCEPT !.at = "ok", !.grants = access].grants # 0
    BY <1>1, <1>2 DEF RequestRecord
  <2>3. QED
    BY <1>3, <1>4, <2>1, <2>2, GetsOne DEF Answered, IInv
<1>5. CASE Denied(l, p)
  <2>1. [Get(l, p) EXCEPT !.at = "denied"] \in RequestRecord
    BY <1>1 DEF RequestRecord
  <2>2. [Get(l, p) EXCEPT !.at = "denied"].at # "ok"
    BY <1>1 DEF RequestRecord
  <2>3. QED
    BY <1>3, <1>5, <2>1, <2>2, GetsOne DEF Denied, IInv
<1>6. CASE Unanswered(l, p)
  <2>1. /\ [Get(l, p) EXCEPT !.tries = 2] \in RequestRecord
        /\ [Get(l, p) EXCEPT !.at = "network"] \in RequestRecord
    BY <1>1 DEF RequestRecord
  <2>2. /\ [Get(l, p) EXCEPT !.tries = 2].at # "ok"
        /\ [Get(l, p) EXCEPT !.at = "network"].at # "ok"
    BY <1>1, <1>6 DEF RequestRecord, Unanswered
  <2>3. QED
    BY <1>3, <1>6, <2>1, <2>2, GetsOne DEF Unanswered, IInv
<1>7. QED
  BY <1>4, <1>5, <1>6 DEF Request

\* Another request is denied, and the grants change.
LEMMA EnvironmentStep ==
  ASSUME IInv, OtherDenied \/ AccessChanges
  PROVE  IInv'
<1>0. access \in 1 .. MaxAccess /\ denials \subseteq 1 .. MaxAccess
  BY DEF IInv, TypeOK
<1>1. access' \in 1 .. MaxAccess /\ denials' \subseteq 1 .. MaxAccess
  <2>1. CASE OtherDenied
    BY <1>0, <2>1 DEF OtherDenied
  <2>2. CASE AccessChanges
    BY <1>0, <2>2 DEF AccessChanges
  <2>3. QED
    BY <2>1, <2>2
<1>2. UNCHANGED <<cubit, loads, invalidated>>
  BY DEF OtherDenied, AccessChanges
<1>3. QED
  BY <1>1, <1>2 DEF IInv, TypeOK, FlagsOK, LoadsOK, RunningActive, OneLoad, cubit, state, Loaded

LEMMA NextInv == IInv /\ [Next]_vars => IInv'
<1> SUFFICES ASSUME IInv, [Next]_vars PROVE IInv'
  OBVIOUS
<1>1. CASE UNCHANGED vars
  BY <1>1 DEF vars, IInv, TypeOK, FlagsOK, LoadsOK, RunningActive, OneLoad, cubit, state, Loaded
<1>2. CASE Load
  BY <1>2, LoadStep
<1>3. CASE Refresh
  BY <1>3, RefreshStep
<1>4. CASE Invalidation
  BY <1>4, InvalidationStep
<1>5. CASE Close
  BY <1>5, CloseStep
<1>6. ASSUME NEW l \in Loads, Ends(l) PROVE IInv'
  BY <1>6, SucceedsStep, FailingStep, AbandonsStep DEF Ends
<1>7. ASSUME NEW l \in Loads, NEW p \in Paths, Request(l, p) PROVE IInv'
  BY <1>7, RequestStep
<1>8. CASE OtherDenied \/ AccessChanges
  BY <1>8, EnvironmentStep
<1>9. QED
  BY <1>1, <1>2, <1>3, <1>4, <1>5, <1>6, <1>7, <1>8 DEF Next

-----------------------------------------------------------------------------
\* The invariant holds in every state.
THEOREM Invariant == Spec => []IInv
BY InitInv, NextInv, PTL DEF Spec

\* What the state shows fits what runs, for any bounds and any number of calls.
THEOREM TypeCorrect == Spec => []TypeOK
<1>1. IInv => TypeOK
  BY DEF IInv
<1>2. QED
  BY <1>1, Invariant, PTL

\* Two loads never run at once (_startLoad), however load(), refresh(), the
\* queued refresh and invalidations overlap.
THEOREM LoadsAlone == Spec => []OneLoad
<1>1. IInv => OneLoad
  BY DEF IInv
<1>2. QED
  BY <1>1, Invariant, PTL
=============================================================================
