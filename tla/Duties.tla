------------------------------- MODULE Duties -------------------------------
(* DutiesCubit: loads of the availability requests and optimistic answers to   *)
(* them, which overlap. The server takes part: a load reads it, and an answer  *)
(* is applied or rejected, at some moment before the app hears of it, and what *)
(* the app hears may be lost.                                                  *)
EXTENDS Naturals, Functions

CONSTANTS
    Requests,   \* availability requests: one per event and service
    Answers,    \* available, if needs must, not available
    NotSet,     \* no answer
    Loads,      \* bound: loads under way at the same time
    MaxLoads,   \* bound: loads
    MaxAnswers  \* bound: answers

ASSUME NotSetAssumption == NotSet \notin Answers
ASSUME BoundAssumption == MaxLoads \in Nat /\ MaxAnswers \in Nat

VARIABLES
    state,       \* DutiesState; requests is empty until the first load
    generation,  \* _generation
    loads,       \* load awaiting the repository
    answers,     \* answer awaiting the repository
    server,      \* the answer the server has
    closed,
    sent,        \* answers sent
    raced,       \* history: requests answered between a load's read and its answer
    lost         \* history: requests whose answer was applied and never confirmed

vars == <<state, generation, loads, answers, server, closed, sent, raced, lost>>

Status == Answers \cup {NotSet}
NoRequests == [r \in {} |-> NotSet]
NoLoad == [phase |-> "none", generation |-> 0, read |-> NoRequests, missed |-> {}]
NoAnswer == [phase |-> "none", request |-> NotSet, status |-> NotSet]

Init ==
    /\ state = [status |-> "initial", requests |-> NoRequests, pending |-> {},
                readOnly |-> FALSE, failure |-> FALSE]
    /\ generation = 0
    /\ loads = [l \in Loads |-> NoLoad]
    /\ answers = [r \in Requests |-> NoAnswer]
    /\ server \in [Requests -> Status]
    /\ closed = FALSE /\ sent = 0
    /\ raced = {} /\ lost = {}

-----------------------------------------------------------------------------
\* copyWith forgets the failure unless it is given.
Load ==
    /\ ~closed /\ generation < MaxLoads
    /\ generation' = generation + 1
    /\ state' = [state EXCEPT !.status = "loading", !.failure = FALSE]
    /\ \E l \in Loads :
          /\ loads[l].phase = "none"
          /\ loads' = [loads EXCEPT ![l] = [phase |-> "sent", generation |-> generation',
                                            read |-> NoRequests, missed |-> {}]]
    /\ UNCHANGED <<answers, server, closed, sent, raced, lost>>

\* The server answers the second of the load's requests.
Read(l) ==
    /\ loads[l].phase = "sent"
    /\ loads' = [loads EXCEPT ![l].phase = "read", ![l].read = server]
    /\ UNCHANGED <<state, generation, answers, server, closed, sent, raced, lost>>

Current(l) == loads[l].generation = generation
LoadReturns(l) ==
    /\ loads' = [loads EXCEPT ![l] = NoLoad]
    /\ UNCHANGED <<generation, answers, server, closed, sent, lost>>

Loaded(l) ==
    /\ loads[l].phase = "read" /\ Current(l)
    /\ state' = [state EXCEPT !.status = "ready", !.requests = loads[l].read, !.failure = FALSE]
    /\ raced' = (raced \cup loads[l].missed)
    /\ LoadReturns(l)

LoadFails(l) ==
    /\ loads[l].phase # "none" /\ Current(l)
    /\ state' = [state EXCEPT !.status = "failure", !.failure = TRUE]
    /\ UNCHANGED raced
    /\ LoadReturns(l)

\* Mutant of LoadDropped: the older answer is shown.
LoadShown(l) ==
    /\ loads[l].phase = "read" /\ ~Current(l)
    /\ state' = [state EXCEPT !.status = "ready", !.requests = loads[l].read, !.failure = FALSE]
    /\ UNCHANGED raced
    /\ LoadReturns(l)

LoadDropped(l) ==
    /\ loads[l].phase # "none" /\ ~Current(l)
    /\ UNCHANGED <<state, raced>>
    /\ LoadReturns(l)

-----------------------------------------------------------------------------
\* The view shows a card for request r: neither the spinner nor the failure.
CardShown(r) ==
    /\ r \in DOMAIN state.requests
    /\ state.status \in {"loading", "ready"}

Replaced(requests, r, status) ==
    IF r \in DOMAIN requests THEN [requests EXCEPT ![r] = status] ELSE requests

Answer(r, status) ==
    /\ ~closed /\ sent < MaxAnswers
    /\ CardShown(r) /\ status # state.requests[r]
    /\ ~state.readOnly /\ r \notin state.pending
    /\ state' = [state EXCEPT !.requests = Replaced(@, r, status), !.pending = @ \cup {r},
                              !.failure = FALSE]
    /\ answers' = [answers EXCEPT
          ![r] = [phase |-> "sent", request |-> state.requests[r], status |-> status]]
    /\ sent' = sent + 1
    /\ UNCHANGED <<generation, loads, server, closed, raced, lost>>

\* The server takes the answer; a load that has been read misses it.
Applies(r) ==
    /\ answers[r].phase = "sent"
    /\ server' = [server EXCEPT ![r] = answers[r].status]
    /\ answers' = [answers EXCEPT ![r].phase = "applied"]
    /\ loads' = [l \in Loads |-> IF loads[l].phase = "read"
                                 THEN [loads[l] EXCEPT !.missed = @ \cup {r}] ELSE loads[l]]
    /\ UNCHANGED <<state, generation, closed, sent, raced, lost>>

\* The event has started, or the token may not write.
Rejects(r) ==
    /\ answers[r].phase = "sent"
    /\ \E outcome \in {"rejected", "forbidden"} :
          answers' = [answers EXCEPT ![r].phase = outcome]
    /\ UNCHANGED <<state, generation, loads, server, closed, sent, raced, lost>>

ReadOnly(outcome) == state.readOnly \/ outcome = "forbidden"

\* What submitAvailability returns: what the server confirmed, or the request as it was.
Kept(r, outcome) == IF outcome = "applied" THEN answers[r].status ELSE answers[r].request

Settled(r, outcome) == state.pending \ {r}

AnswerEnds(r, outcome) ==
    /\ state' = [state EXCEPT !.requests = Replaced(@, r, Kept(r, outcome)),
                              !.pending = Settled(r, outcome),
                              !.readOnly = ReadOnly(outcome), !.failure = FALSE]
    /\ answers' = [answers EXCEPT ![r] = NoAnswer]
    /\ UNCHANGED <<generation, loads, server, closed, sent, raced>>

Answered(r) ==
    /\ answers[r].phase \in {"applied", "rejected", "forbidden"}
    /\ AnswerEnds(r, answers[r].phase)
    /\ UNCHANGED lost

\* The connection fails before or after the server had the answer.
AnswerLost(r) ==
    /\ answers[r].phase # "none"
    /\ AnswerEnds(r, "network")
    /\ lost' = IF answers[r].phase = "applied" THEN lost \cup {r} ELSE lost

\* What arrives at a closed cubit is dropped.
Close ==
    /\ ~closed /\ closed' = TRUE
    /\ loads' = [l \in Loads |-> NoLoad]
    /\ answers' = [r \in Requests |-> NoAnswer]
    /\ UNCHANGED <<state, generation, server, sent, raced, lost>>

LoadEnds(l) == Loaded(l) \/ LoadFails(l) \/ LoadDropped(l)
Next ==
    \/ Load \/ Close
    \/ \E l \in Loads : Read(l) \/ LoadEnds(l)
    \/ \E r \in Requests :
          \/ \E status \in Status : Answer(r, status)
          \/ Applies(r) \/ Rejects(r) \/ Answered(r) \/ AnswerLost(r)

Spec == Init /\ [][Next]_vars

-----------------------------------------------------------------------------
\* Every variable keeps its type; the pending requests are those being answered.
TypeOK ==
    /\ state \in [status : {"initial", "loading", "ready", "failure"},
                  requests : [Requests -> Status] \cup {NoRequests},
                  pending : SUBSET Requests, readOnly : BOOLEAN, failure : BOOLEAN]
    /\ generation \in 0 .. MaxLoads /\ sent \in 0 .. MaxAnswers
    /\ \A l \in Loads :
          /\ loads[l].phase \in {"none", "sent", "read"}
          /\ loads[l].missed \subseteq Requests
    /\ \A r \in Requests :
          answers[r].phase \in {"none", "sent", "applied", "rejected", "forbidden"}
    /\ server \in [Requests -> Status]
    /\ ~closed => state.pending = {r \in Requests : answers[r].phase # "none"}
    /\ raced \subseteq Requests /\ lost \subseteq Requests

\* Nothing is under way, and a list is shown.
Quiet ==
    /\ state.status = "ready" /\ ~closed
    /\ \A l \in Loads : loads[l].phase = "none"
    /\ \A r \in Requests : answers[r].phase = "none"

ShownButFor(exempt) == Quiet => \A r \in Requests \ exempt : state.requests[r] = server[r]

\* Once everything has arrived the answers shown are the server's, in whatever
\* order loads and answers overlapped, but for requests answered between the read
\* of a load and its arrival, and for lost confirmations.
SettledShown == ShownButFor(raced \cup lost)

\* "switch to a read-only notice after the first denied answer and never retry it
\* silently" (README.md:12): a denial lasts, and nothing is sent after it.
DenialLasts == [][state.readOnly => state'.readOnly /\ sent' = sent]_vars

-----------------------------------------------------------------------------
(* What the documentation says and the code does not keep.                     *)

\* "Answers are applied optimistically and reverted when the server rejects them."
\* (README.md:15): an accepted answer is not taken off the screen by a load that
\* read the server before it.
AcceptedShown == ShownButFor(lost)

\* The same line: an answer that the server has accepted is not reverted, though
\* its confirmation is lost.
RevertedOnlyIfRejected == ShownButFor(raced)

\* The view reads `state.failure!` when the status is failure (duties_view.dart:97).
FailureTold == state.status = "failure" => state.failure
=============================================================================
