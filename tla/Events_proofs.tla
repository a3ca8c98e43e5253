----------------------------- MODULE Events_proofs -----------------------------
(* Theorems about the two lists of the events package, for any requests,       *)
(* answers, ranges and bounds.                                                 *)
(* Duties: the types, and that the answers shown are the server's once         *)
(* everything has arrived. What is shown agrees with the server only when      *)
(* nothing is under way; the invariant says of each step of an answer and of   *)
(* each load where, meanwhile, the server's answer is kept.                    *)
(* EventsList: the types, and that the events shown are those of the days      *)
(* shown. An answer to "more" is put behind the events its request began with, *)
(* so the invariant says what those were, and that only one request is still   *)
(* wanted.                                                                     *)
EXTENDS Duties, EventsList, SequenceTheorems, TLAPS

USE NotSetAssumption, BoundAssumption DEF NotSetAssumption, BoundAssumption

Lists == [Requests -> Status] \cup {NoRequests}
StateRecord == [status : {"initial", "loading", "ready", "failure"}, requests : Lists,
                pending : SUBSET Requests, readOnly : BOOLEAN, failure : BOOLEAN]
LoadRecord == [phase : {"none", "sent", "read"}, generation : Nat, read : Lists,
               missed : SUBSET Requests]
AnswerRecord == [phase : {"none", "sent", "applied", "rejected", "forbidden"},
                 request : Status, status : Status]

Types ==
    /\ state \in StateRecord
    /\ generation \in 0 .. MaxLoads /\ sent \in 0 .. MaxAnswers
    /\ loads \in [Loads -> LoadRecord]
    /\ answers \in [Requests -> AnswerRecord]
    /\ server \in [Requests -> Status]
    /\ closed \in BOOLEAN
    /\ raced \in SUBSET Requests /\ lost \in SUBSET Requests

\* Only a load that has not been read has no list, and a list is shown once ready.
ListsOK ==
    /\ \A l \in Loads : loads[l].phase = "read" => loads[l].read \in [Requests -> Status]
    /\ state.status = "ready" => state.requests \in [Requests -> Status]

PendingOK == ~closed => \A r \in Requests : r \in state.pending <=> answers[r].phase # "none"

\* Where the server's answer to r is: on the screen, in the answer under way, and
\* in every load that was read and did not miss it.
Agrees(r) ==
    /\ answers[r].phase = "none" /\ r \in DOMAIN state.requests => state.requests[r] = server[r]
    /\ answers[r].phase \in {"sent", "rejected", "forbidden"} => answers[r].request = server[r]
    /\ answers[r].phase = "applied" => answers[r].status = server[r]
    /\ \A l \in Loads : loads[l].phase = "read" =>
          r \in loads[l].missed \/ loads[l].read[r] = server[r]

Trusted(r) == r \notin raced /\ r \notin lost
Agreement == ~closed => \A r \in Requests : Trusted(r) => Agrees(r)

IInv == Types /\ ListsOK /\ PendingOK /\ Agreement

-----------------------------------------------------------------------------
(* Lists and records.                                                          *)

LEMMA NoRequestsDomain == DOMAIN NoRequests = {}
BY DEF NoRequests

LEMMA NoLoadType == NoLoad \in LoadRecord /\ NoLoad.phase = "none"
BY DEF NoLoad, LoadRecord, Lists

LEMMA NoAnswerType == NoAnswer \in AnswerRecord /\ NoAnswer.phase = "none"
BY DEF NoAnswer, AnswerRecord, Status

\* One entry is replaced, if there is a list.
LEMMA ReplacedType ==
  ASSUME NEW requests \in Lists, NEW r \in Requests, NEW status \in Status
  PROVE  /\ Replaced(requests, r, status) \in Lists
         /\ requests \in [Requests -> Status] =>
               Replaced(requests, r, status) \in [Requests -> Status]
         /\ DOMAIN Replaced(requests, r, status) = DOMAIN requests
         /\ r \in DOMAIN requests => Replaced(requests, r, status)[r] = status
         /\ \A q \in Requests \ {r} : q \in DOMAIN requests =>
               Replaced(requests, r, status)[q] = requests[q]
<1>1. CASE requests \in [Requests -> Status]
  BY <1>1 DEF Replaced, Lists
<1>2. CASE requests = NoRequests
  <2>1. r \notin DOMAIN requests
    BY <1>2, NoRequestsDomain
  <2>2. Replaced(requests, r, status) = requests
    BY <2>1 DEF Replaced
  <2>3. QED
    BY <2>1, <2>2
<1>3. QED
  BY <1>1, <1>2 DEF Lists

-----------------------------------------------------------------------------
(* Steps of loads.                                                             *)

LEMMA InitInv == Init => IInv
<1> SUFFICES ASSUME Init PROVE IInv
  OBVIOUS
<1>1. /\ state \in StateRecord /\ state.requests = NoRequests /\ state.pending = {}
      /\ state.status = "initial"
  BY DEF Init, StateRecord, Lists
<1>2. \A l \in Loads : loads[l] = NoLoad
  BY DEF Init
<1>3. \A r \in Requests : answers[r] = NoAnswer
  BY DEF Init
<1>4. loads \in [Loads -> LoadRecord] /\ answers \in [Requests -> AnswerRecord]
  BY NoLoadType, NoAnswerType DEF Init
<1>5. generation \in 0 .. MaxLoads /\ sent \in 0 .. MaxAnswers
  BY DEF Init
<1>6. Types
  BY <1>1, <1>4, <1>5 DEF Init, Types
<1>7. ListsOK /\ PendingOK
  BY <1>1, <1>2, <1>3, NoLoadType, NoAnswerType DEF ListsOK, PendingOK
<1>8. Agreement
  BY <1>1, <1>2, <1>3, NoLoadType, NoAnswerType, NoRequestsDomain DEF Agreement, Agrees
<1>9. QED
  BY <1>6, <1>7, <1>8 DEF IInv

LEMMA LoadStep ==
  ASSUME IInv, Load
  PROVE  IInv'
<1>1. generation \in Nat /\ generation' = generation + 1 /\ generation' \in 0 .. MaxLoads
  BY DEF Load, IInv, Types
<1>2. /\ state' \in StateRecord /\ state'.requests = state.requests
      /\ state'.pending = state.pending /\ state'.status = "loading"
  BY DEF Load, IInv, Types, StateRecord
<1>3. PICK l \in Loads :
         /\ loads[l].phase = "none"
         /\ loads' = [loads EXCEPT ![l] = [phase |-> "sent", generation |-> generation',
                                           read |-> NoRequests, missed |-> {}]]
  BY DEF Load
<1> DEFINE new == [phase |-> "sent", generation |-> generation', read |-> NoRequests,
                   missed |-> {}]
<1>4. new \in LoadRecord /\ new.phase = "sent"
  BY <1>1 DEF LoadRecord, Lists
<1> HIDE DEF new
<1>5. \A m \in Loads : loads'[m] = IF m = l THEN new ELSE loads[m]
  BY <1>3 DEF IInv, Types, new
<1>6. Types'
  BY <1>1, <1>2, <1>3, <1>4 DEF Load, IInv, Types, new
<1>7. ListsOK' /\ PendingOK'
  BY <1>2, <1>4, <1>5 DEF Load, IInv, ListsOK, PendingOK
<1>8. Agreement'
  BY <1>2, <1>4, <1>5 DEF Load, IInv, Agreement, Agrees, Trusted
<1>9. QED
  BY <1>6, <1>7, <1>8 DEF IInv

LEMMA ReadStep ==
  ASSUME IInv, NEW l \in Loads, Read(l)
  PROVE  IInv'
<1>1. loads[l] \in LoadRecord /\ server \in [Requests -> Status]
  BY DEF IInv, Types
<1> DEFINE new == [loads[l] EXCEPT !.phase = "read", !.read = server]
<1>2. new \in LoadRecord /\ new.phase = "read" /\ new.read = server
  BY <1>1 DEF LoadRecord, Lists
<1>3. loads' = [loads EXCEPT ![l] = new]
  BY DEF Read
<1> HIDE DEF new
<1>4. \A m \in Loads : loads'[m] = IF m = l THEN new ELSE loads[m]
  BY <1>3 DEF IInv, Types
<1>5. Types'
  BY <1>2, <1>3 DEF Read, IInv, Types
<1>6. ListsOK' /\ PendingOK'
  BY <1>1, <1>2, <1>4 DEF Read, IInv, ListsOK, PendingOK
<1>7. Agreement'
  <2> SUFFICES ASSUME ~closed, NEW r \in Requests, Trusted(r) PROVE Agrees(r)'
    BY DEF Read, Agreement, Trusted
  <2>1. Agrees(r) /\ UNCHANGED <<state, answers, server>>
    BY DEF Read, IInv, Agreement
  <2>2. \A m \in Loads : loads'[m].phase = "read" =>
           r \in loads'[m].missed \/ loads'[m].read[r] = server[r]
    BY <1>2, <1>4, <2>1 DEF Agrees
  <2>3. QED
    BY <2>1, <2>2 DEF Agrees
<1>8. QED
  BY <1>5, <1>6, <1>7 DEF IInv

\* A load is over.
LEMMA LoadReturnsStep ==
  ASSUME Types, ListsOK, NEW l \in Loads, LoadReturns(l)
  PROVE  /\ loads' \in [Loads -> LoadRecord]
         /\ \A m \in Loads : loads'[m].phase = "read" => loads'[m] = loads[m]
<1>1. \A m \in Loads : loads'[m] = IF m = l THEN NoLoad ELSE loads[m]
  BY DEF LoadReturns, Types
<1>2. loads' \in [Loads -> LoadRecord]
  BY NoLoadType DEF LoadReturns, Types
<1>3. QED
  BY <1>1, <1>2, NoLoadType

LEMMA LoadedStep ==
  ASSUME IInv, NEW l \in Loads, Loaded(l)
  PROVE  IInv'
<1>1. /\ loads' \in [Loads -> LoadRecord]
      /\ \A m \in Loads : loads'[m].phase = "read" => loads'[m] = loads[m]
  BY LoadReturnsStep DEF Loaded, IInv
<1>2. /\ loads[l].read \in [Requests -> Status] /\ loads[l].missed \in SUBSET Requests
      /\ loads[l].phase = "read"
  BY DEF Loaded, IInv, ListsOK, Types, LoadRecord
<1>3. /\ state' \in StateRecord /\ state'.requests = loads[l].read
      /\ state'.pending = state.pending
  BY <1>2 DEF Loaded, IInv, Types, StateRecord, Lists
<1>4. /\ UNCHANGED <<generation, answers, server, closed, sent, lost>>
      /\ raced' = raced \cup loads[l].missed
  BY DEF Loaded, LoadReturns
<1>5. Types'
  BY <1>1, <1>2, <1>3, <1>4 DEF IInv, Types
<1>6. ListsOK' /\ PendingOK'
  BY <1>1, <1>2, <1>3, <1>4 DEF IInv, ListsOK, PendingOK
<1>7. Agreement'
  BY <1>1, <1>2, <1>3, <1>4 DEF IInv, Agreement, Agrees, Trusted
<1>8. QED
  BY <1>5, <1>6, <1>7 DEF IInv

LEMMA LoadEndsStep ==
  ASSUME IInv, NEW l \in Loads, LoadFails(l) \/ LoadDropped(l)
  PROVE  IInv'
<1>1. /\ loads' \in [Loads -> LoadRecord]
      /\ \A m \in Loads : loads'[m].phase = "read" => loads'[m] = loads[m]
  BY LoadReturnsStep DEF LoadFails, LoadDropped, IInv
<1>2. /\ state' \in StateRecord /\ state'.requests = state.requests
      /\ state'.pending = state.pending
      /\ state'.status \in {state.status, "failure"}
  <2>1. CASE LoadFails(l)
    BY <2>1 DEF LoadFails, IInv, Types, StateRecord
  <2>2. CASE LoadDropped(l)
    BY <2>2 DEF LoadDropped, IInv, Types
  <2>3. QED
    BY <2>1, <2>2
<1>3. UNCHANGED <<generation, answers, server, closed, sent, lost, raced>>
  BY DEF LoadFails, LoadDropped, LoadReturns
<1>4. Types'
  BY <1>1, <1>2, <1>3 DEF IInv, Types
<1>5. ListsOK' /\ PendingOK'
  BY <1>1, <1>2, <1>3 DEF IInv, ListsOK, PendingOK
<1>6. Agreement'
  BY <1>1, <1>2, <1>3 DEF IInv, Agreement, Agrees, Trusted
<1>7. QED
  BY <1>4, <1>5, <1>6 DEF IInv

-----------------------------------------------------------------------------
(* Steps of answers.                                                           *)

LEMMA AnswerStep ==
  ASSUME IInv, NEW r \in Requests, NEW status \in Status, Answer(r, status)
  PROVE  IInv'
<1>1. /\ state \in StateRecord /\ state.requests \in Lists /\ r \in DOMAIN state.requests
      /\ state.pending \in SUBSET Requests
  BY DEF Answer, CardShown, IInv, Types, StateRecord
<1>2. state.requests \in [Requests -> Status]
  BY <1>1, NoRequestsDomain DEF Lists
<1> DEFINE list == Replaced(state.requests, r, status)
           new == [phase |-> "sent", request |-> state.requests[r], status |-> status]
<1>3. /\ list \in [Requests -> Status] /\ list \in Lists
      /\ \A q \in Requests \ {r} : list[q] = state.requests[q]
  BY <1>1, <1>2, ReplacedType
<1>4. state' = [state EXCEPT !.requests = list, !.pending = @ \cup {r}, !.failure = FALSE]
  BY DEF Answer
<1> HIDE DEF list
<1>5. /\ state' \in StateRecord /\ state'.requests = list
      /\ state'.pending = state.pending \cup {r}
  BY <1>1, <1>3, <1>4 DEF StateRecord
<1>6. new \in AnswerRecord /\ new.phase = "sent" /\ new.request = state.requests[r]
  BY <1>2 DEF AnswerRecord
<1>7. answers' = [answers EXCEPT ![r] = new]
  BY DEF Answer
<1> HIDE DEF new
<1>8. \A q \in Requests : answers'[q] = IF q = r THEN new ELSE answers[q]
  BY <1>7 DEF IInv, Types
<1>9. UNCHANGED <<generation, loads, server, closed, raced, lost>> /\ ~closed
  BY DEF Answer
<1>10. sent' \in 0 .. MaxAnswers
  BY DEF Answer, IInv, Types
<1>11. Types'
  BY <1>5, <1>6, <1>7, <1>9, <1>10 DEF IInv, Types
<1>12. ListsOK'
  BY <1>3, <1>5, <1>9 DEF IInv, ListsOK
<1>13. PendingOK'
  BY <1>5, <1>6, <1>8, <1>9 DEF IInv, PendingOK
<1>14. answers[r].phase = "none"
  BY <1>9 DEF Answer, IInv, PendingOK
<1>15. Agreement'
  <2> SUFFICES ASSUME NEW q \in Requests, Trusted(q) PROVE Agrees(q)'
    BY <1>9 DEF Agreement, Trusted
  <2>1. Agrees(q)
    BY <1>9 DEF IInv, Agreement
  <2>2. CASE q = r
    BY <1>1, <1>6, <1>8, <1>9, <1>14, <2>1, <2>2 DEF Agrees
  <2>3. CASE q # r
    BY <1>2, <1>3, <1>5, <1>8, <1>9, <2>1, <2>3 DEF Agrees
  <2>4. QED
    BY <2>2, <2>3
<1>16. QED
  BY <1>11, <1>12, <1>13, <1>15 DEF IInv

LEMMA AppliesStep ==
  ASSUME IInv, NEW r \in Requests, Applies(r)
  PROVE  IInv'
<1>1. /\ answers[r] \in AnswerRecord /\ answers[r].status \in Status
      /\ answers[r].phase = "sent" /\ server \in [Requests -> Status]
  BY DEF Applies, IInv, Types, AnswerRecord
<1> DEFINE new == [answers[r] EXCEPT !.phase = "applied"]
<1>2. new \in AnswerRecord /\ new.phase = "applied" /\ new.status = answers[r].status
  BY <1>1 DEF AnswerRecord
<1>3. answers' = [answers EXCEPT ![r] = new]
  BY DEF Applies
<1> HIDE DEF new
<1>4. \A q \in Requests : answers'[q] = IF q = r THEN new ELSE answers[q]
  BY <1>3 DEF IInv, Types
<1>5. /\ server' \in [Requests -> Status] /\ server'[r] = answers[r].status
      /\ \A q \in Requests \ {r} : server'[q] = server[q]
  BY <1>1 DEF Applies
<1>6. ASSUME NEW l \in Loads
      PROVE  /\ loads'[l] \in LoadRecord
             /\ loads'[l].phase = loads[l].phase /\ loads'[l].read = loads[l].read
             /\ loads[l].missed \subseteq loads'[l].missed
             /\ loads[l].phase = "read" => r \in loads'[l].missed
  <2>1. loads[l] \in LoadRecord
    BY DEF IInv, Types
  <2>2. CASE loads[l].phase = "read"
    <3>1. loads'[l] = [loads[l] EXCEPT !.missed = @ \cup {r}]
      BY <2>2 DEF Applies
    <3>2. QED
      BY <2>1, <3>1 DEF LoadRecord
  <2>3. CASE loads[l].phase # "read"
    BY <2>1, <2>3 DEF Applies
  <2>4. QED
    BY <2>2, <2>3
<1>7. loads' \in [Loads -> LoadRecord]
  <2>1. loads' = [l \in Loads |-> loads'[l]]
    BY DEF Applies
  <2>2. QED
    BY <1>6, <2>1
<1>8. UNCHANGED <<state, generation, closed, sent, raced, lost>>
  BY DEF Applies
<1>9. Types'
  BY <1>2, <1>3, <1>5, <1>7, <1>8 DEF IInv, Types
<1>10. ListsOK' /\ PendingOK'
  BY <1>1, <1>2, <1>4, <1>6, <1>8 DEF IInv, ListsOK, PendingOK
<1>11. Agreement'
  <2> SUFFICES ASSUME ~closed, NEW q \in Requests, Trusted(q) PROVE Agrees(q)'
    BY <1>8 DEF Agreement, Trusted
  <2>1. Agrees(q)
    BY DEF IInv, Agreement
  <2>2. CASE q = r
    BY <1>2, <1>4, <1>5, <1>6, <2>2 DEF Agrees
  <2>3. CASE q # r
    BY <1>4, <1>5, <1>6, <1>8, <2>1, <2>3 DEF Agrees
  <2>4. QED
    BY <2>2, <2>3
<1>12. QED
  BY <1>9, <1>10, <1>11 DEF IInv

LEMMA RejectsStep ==
  ASSUME IInv, NEW r \in Requests, Rejects(r)
  PROVE  IInv'
<1>1. answers[r] \in AnswerRecord /\ answers[r].phase = "sent"
  BY DEF Rejects, IInv, Types
<1>2. PICK outcome \in {"rejected", "forbidden"} :
         answers' = [answers EXCEPT ![r].phase = outcome]
  BY DEF Rejects
<1> DEFINE new == [answers[r] EXCEPT !.phase = outcome]
<1>3. new \in AnswerRecord /\ new.phase = outcome /\ new.request = answers[r].request
  BY <1>1 DEF AnswerRecord
<1>4. answers' = [answers EXCEPT ![r] = new]
  BY <1>2
<1> HIDE DEF new
<1>5. \A q \in Requests : answers'[q] = IF q = r THEN new ELSE answers[q]
  BY <1>4 DEF IInv, Types
<1>6. UNCHANGED <<state, generation, loads, server, closed, sent, raced, lost>>
  BY DEF Rejects
<1>7. Types'
  BY <1>3, <1>4, <1>6 DEF IInv, Types
<1>8. ListsOK' /\ PendingOK'
  BY <1>1, <1>3, <1>5, <1>6 DEF IInv, ListsOK, PendingOK
<1>9. Agreement'
  BY <1>1, <1>3, <1>5, <1>6 DEF IInv, Agreement, Agrees, Trusted
<1>10. QED
  BY <1>7, <1>8, <1>9 DEF IInv

\* An answer ends well for the agreement if what it leaves is the server's answer.
LEMMA AnswerEndsStep ==
  ASSUME IInv, NEW r \in Requests, NEW outcome, AnswerEnds(r, outcome),
         lost' \in SUBSET Requests, lost \subseteq lost',
         r \notin raced /\ r \notin lost' /\ ~closed => Kept(r, outcome) = server[r]
  PROVE  IInv'
<1>1. /\ state \in StateRecord /\ state.requests \in Lists
      /\ state.pending \in SUBSET Requests
      /\ (state.status = "ready" => state.requests \in [Requests -> Status])
  BY DEF IInv, Types, StateRecord, ListsOK
<1>2. Kept(r, outcome) \in Status
  <2>1. answers[r] \in AnswerRecord
    BY DEF IInv, Types
  <2>2. QED
    BY <2>1 DEF Kept, AnswerRecord
<1> DEFINE list == Replaced(state.requests, r, Kept(r, outcome))
           pending == state.pending \ {r}
<1>3. /\ list \in Lists /\ DOMAIN list = DOMAIN state.requests
      /\ (state.requests \in [Requests -> Status] => list \in [Requests -> Status])
      /\ (r \in DOMAIN state.requests => list[r] = Kept(r, outcome))
      /\ \A q \in Requests \ {r} : q \in DOMAIN state.requests => list[q] = state.requests[q]
  BY <1>1, <1>2, ReplacedType
<1>4. ReadOnly(outcome) \in BOOLEAN
  BY <1>1 DEF ReadOnly, StateRecord
<1>5. state' = [state EXCEPT !.requests = list, !.pending = pending,
                             !.readOnly = ReadOnly(outcome), !.failure = FALSE]
  BY DEF AnswerEnds, Settled
<1> HIDE DEF list
<1>6. /\ state' \in StateRecord /\ state'.requests = list /\ state'.pending = pending
      /\ state'.status = state.status
  BY <1>1, <1>3, <1>4, <1>5 DEF StateRecord
<1>7. \A q \in Requests : answers'[q] = IF q = r THEN NoAnswer ELSE answers[q]
  BY DEF AnswerEnds, IInv, Types
<1>8. answers' \in [Requests -> AnswerRecord]
  BY NoAnswerType DEF AnswerEnds, IInv, Types
<1>9. UNCHANGED <<generation, loads, server, closed, sent, raced>>
  BY DEF AnswerEnds
<1>10. Types'
  BY <1>6, <1>8, <1>9 DEF IInv, Types
<1>11. ListsOK'
  BY <1>1, <1>3, <1>6, <1>9 DEF IInv, ListsOK
<1>12. PendingOK'
  BY <1>6, <1>7, <1>9, NoAnswerType DEF IInv, PendingOK
<1>13. Agreement'
  <2> SUFFICES ASSUME ~closed, NEW q \in Requests, Trusted(q)' PROVE Agrees(q)'
    BY <1>9 DEF Agreement
  <2>1. Agrees(q) /\ q \notin raced /\ q \notin lost'
    BY <1>9 DEF IInv, Agreement, Trusted
  <2>2. CASE q = r
    BY <1>3, <1>6, <1>7, <1>9, <2>1, <2>2, NoAnswerType DEF Agrees
  <2>3. CASE q # r
    BY <1>3, <1>6, <1>7, <1>9, <2>1, <2>3 DEF Agrees
  <2>4. QED
    BY <2>2, <2>3
<1>14. QED
  BY <1>10, <1>11, <1>12, <1>13 DEF IInv

LEMMA AnsweredStep ==
  ASSUME IInv, NEW r \in Requests, Answered(r)
  PROVE  IInv'
<1>1. AnswerEnds(r, answers[r].phase) /\ lost' = lost /\ lost \in SUBSET Requests
  BY DEF Answered, IInv, Types
<1>2. r \notin raced /\ r \notin lost /\ ~closed => Kept(r, answers[r].phase) = server[r]
  BY DEF Answered, Kept, IInv, Agreement, Agrees, Trusted
<1>3. QED
  BY <1>1, <1>2, AnswerEndsStep

LEMMA AnswerLostStep ==
  ASSUME IInv, NEW r \in Requests, AnswerLost(r)
  PROVE  IInv'
<1>1. /\ AnswerEnds(r, "network") /\ lost \in SUBSET Requests
      /\ lost' = IF answers[r].phase = "applied" THEN lost \cup {r} ELSE lost
  BY DEF AnswerLost, IInv, Types
<1>2. answers[r].phase \in {"sent", "applied", "rejected", "forbidden"}
  BY DEF AnswerLost, IInv, Types, AnswerRecord
<1>3. r \notin raced /\ r \notin lost' /\ ~closed => Kept(r, "network") = server[r]
  BY <1>1, <1>2 DEF Kept, IInv, Agreement, Agrees, Trusted
<1>4. lost' \in SUBSET Requests /\ lost \subseteq lost'
  BY <1>1
<1>5. QED
  BY <1>1, <1>3, <1>4, AnswerEndsStep

LEMMA CloseStep ==
  ASSUME IInv, Close
  PROVE  IInv'
<1>1. loads' \in [Loads -> LoadRecord] /\ \A l \in Loads : loads'[l].phase = "none"
  BY NoLoadType DEF Close
<1>2. answers' \in [Requests -> AnswerRecord]
  BY NoAnswerType DEF Close
<1>3. QED
  BY <1>1, <1>2 DEF Close, IInv, Types, ListsOK, PendingOK, Agreement

LEMMA StutterStep ==
  ASSUME IInv, UNCHANGED vars
  PROVE  IInv'
BY DEF vars, IInv, Types, ListsOK, PendingOK, Agreement, Agrees, Trusted

LEMMA NextInv == IInv /\ [Next]_vars => IInv'
<1> SUFFICES ASSUME IInv, [Next]_vars PROVE IInv'
  OBVIOUS
<1>1. CASE UNCHANGED vars
  BY <1>1, StutterStep
<1>2. CASE Load \/ Close
  BY <1>2, LoadStep, CloseStep
<1>3. ASSUME NEW l \in Loads, Read(l) \/ LoadEnds(l) PROVE IInv'
  BY <1>3, ReadStep, LoadedStep, LoadEndsStep DEF LoadEnds
<1>4. ASSUME NEW r \in Requests, NEW status \in Status, Answer(r, status) PROVE IInv'
  BY <1>4, AnswerStep
<1>5. ASSUME NEW r \in Requests, Applies(r) \/ Rejects(r) PROVE IInv'
  BY <1>5, AppliesStep, RejectsStep
<1>6. ASSUME NEW r \in Requests, Answered(r) \/ AnswerLost(r) PROVE IInv'
  BY <1>6, AnsweredStep, AnswerLostStep
<1>7. QED
  BY <1>1, <1>2, <1>3, <1>4, <1>5, <1>6 DEF Next

-----------------------------------------------------------------------------
(* Results.                                                                    *)

THEOREM Invariant == Spec => []IInv
BY InitInv, NextInv, PTL DEF Spec

\* Every variable keeps its type, and the pending requests are those whose answer
\* is under way.
THEOREM TypeCorrect == Spec => []TypeOK
<1>1. ASSUME IInv PROVE TypeOK
  <2>1. /\ state \in [status : {"initial", "loading", "ready", "failure"},
                      requests : [Requests -> Status] \cup {NoRequests},
                      pending : SUBSET Requests, readOnly : BOOLEAN, failure : BOOLEAN]
        /\ generation \in 0 .. MaxLoads /\ sent \in 0 .. MaxAnswers
        /\ server \in [Requests -> Status]
        /\ raced \subseteq Requests /\ lost \subseteq Requests
    BY <1>1 DEF IInv, Types, StateRecord, Lists
  <2>2. \A l \in Loads : loads[l].phase \in {"none", "sent", "read"}
                         /\ loads[l].missed \subseteq Requests
    BY <1>1 DEF IInv, Types, LoadRecord
  <2>3. \A r \in Requests :
           answers[r].phase \in {"none", "sent", "applied", "rejected", "forbidden"}
    BY <1>1 DEF IInv, Types, AnswerRecord
  <2>4. ~closed => state.pending = {r \in Requests : answers[r].phase # "none"}
    BY <1>1, <2>1 DEF IInv, PendingOK
  <2>5. QED
    BY <2>1, <2>2, <2>3, <2>4 DEF TypeOK
<1>2. QED
  BY <1>1, Invariant, PTL

\* Once everything has arrived, the answers shown are the server's, but for
\* requests answered between the read of a load and its arrival, and for lost
\* confirmations; for any number of requests, loads and answers.
THEOREM Settles == Spec => []SettledShown
<1>1. ASSUME IInv PROVE SettledShown
  <2> SUFFICES ASSUME Quiet, NEW r \in Requests, r \notin raced, r \notin lost
               PROVE  state.requests[r] = server[r]
    BY DEF SettledShown, ShownButFor
  <2>1. state.requests \in [Requests -> Status] /\ answers[r].phase = "none"
    BY <1>1 DEF Quiet, IInv, ListsOK
  <2>2. Agrees(r)
    BY <1>1 DEF Quiet, IInv, Agreement, Trusted
  <2>3. QED
    BY <2>1, <2>2 DEF Agrees
<1>2. QED
  BY <1>1, Invariant, PTL

\* A denial lasts, and no answer is sent after it.
THEOREM Denied == Spec => DenialLasts
<1>1. ASSUME IInv, [Next]_vars, state.readOnly PROVE state'.readOnly /\ sent' = sent
  <2>1. state \in StateRecord
    BY <1>1 DEF IInv, Types
  <2>2. CASE UNCHANGED vars
    BY <1>1, <2>2 DEF vars
  <2>3. CASE Load \/ Close
    BY <1>1, <2>1, <2>3 DEF Load, Close, StateRecord
  <2>4. ASSUME NEW l \in Loads, Read(l) \/ LoadEnds(l) PROVE state'.readOnly /\ sent' = sent
    BY <1>1, <2>1, <2>4
       DEF Read, LoadEnds, Loaded, LoadFails, LoadDropped, LoadReturns, StateRecord
  <2>5. ASSUME NEW r \in Requests, NEW status \in Status
        PROVE  ~Answer(r, status)
    BY <1>1 DEF Answer
  <2>6. ASSUME NEW r \in Requests, Applies(r) \/ Rejects(r)
        PROVE  state'.readOnly /\ sent' = sent
    BY <1>1, <2>6 DEF Applies, Rejects
  <2>7. ASSUME NEW r \in Requests, NEW outcome, AnswerEnds(r, outcome)
        PROVE  state'.readOnly /\ sent' = sent
    BY <1>1, <2>1, <2>7 DEF AnswerEnds, ReadOnly, StateRecord
  <2>8. ASSUME NEW r \in Requests, Answered(r) \/ AnswerLost(r)
        PROVE  state'.readOnly /\ sent' = sent
    BY <2>7, <2>8 DEF Answered, AnswerLost
  <2>9. QED
    BY <1>1, <2>2, <2>3, <2>4, <2>5, <2>6, <2>8 DEF Next
<1>2. QED
  BY <1>1, Invariant, PTL DEF Spec, DenialLasts

-----------------------------------------------------------------------------
(* The event list.                                                             *)

USE DaysAssumption, EventsBoundAssumption DEF DaysAssumption, EventsBoundAssumption

EventsShown == [status : {"initial", "loading", "ready", "loadingMore", "failure"},
          events : Seq(Int), from : Int, days : 0 .. MaxDays,
          onlyMine : BOOLEAN, failure : BOOLEAN]
EventsCall == [kind : {"none", "reload", "more"}, generation : Nat, previous : EventsShown,
         asked : Int \X Int]

\* The events of s are those of its days.
Complete(s) == s.events = Days(s.from, EndOf(s))

EventsTyped ==
    /\ eventsState \in EventsShown /\ eventsGeneration \in 0 .. MaxRequests
    /\ eventsCalls \in [EventCalls -> EventsCall]
    /\ eventsClosed \in BOOLEAN /\ torn \in BOOLEAN

\* No call is younger than the generation, and at most one is wanted.
OneWanted ==
    /\ \A c \in EventCalls : eventsCalls[c].generation =< eventsGeneration
    /\ \A c, d \in EventCalls : CurrentEvents(c) /\ CurrentEvents(d) => c = d

\* A reload asks for the days that are shown.
ReloadAsks ==
    \A c \in EventCalls : CurrentEvents(c) /\ eventsCalls[c].kind = "reload" =>
        /\ eventsState.from = eventsCalls[c].asked[1]
        /\ EndOf(eventsState) = eventsCalls[c].asked[2]

\* "More" asks for the days behind those it began with, whose events were shown.
MoreAsks ==
    \A c \in EventCalls : CurrentEvents(c) /\ eventsCalls[c].kind = "more" =>
        /\ eventsCalls[c].asked[1] = EndOf(eventsCalls[c].previous) + 1
        /\ eventsCalls[c].asked[2] >= EndOf(eventsCalls[c].previous)
        /\ eventsCalls[c].asked[2] - eventsCalls[c].previous.from =< MaxDays
        /\ torn \/ Complete(eventsCalls[c].previous)

\* After a failure the events are those of the range, or there are none.
KeptAfterFailure ==
    eventsState.status = "failure" /\ ~torn /\ eventsState.events # <<>> => Complete(eventsState)

EventsInv ==
    /\ EventsTyped /\ OneWanted /\ ReloadAsks /\ MoreAsks
    /\ KeptAfterFailure /\ RangeLoadedUnlessTorn

-----------------------------------------------------------------------------
(* Days.                                                                        *)

\* The days from a to b are a sequence as long as there are days.
LEMMA DaysProperties ==
  ASSUME NEW a \in Int, NEW b \in Int, b >= a - 1
  PROVE  /\ Days(a, b) \in Seq(Int)
         /\ Len(Days(a, b)) = b - a + 1
         /\ \A i \in 1 .. b - a + 1 : Days(a, b)[i] = a + i - 1
<1>1. b - a + 1 \in Nat
  OBVIOUS
<1>2. Days(a, b) \in [1 .. b - a + 1 -> Int]
  BY DEF Days
<1> QED
  BY <1>1, <1>2 DEF Days

\* Days that follow each other make one range.
LEMMA DaysFollow ==
  ASSUME NEW a \in Int, NEW b \in Int, NEW c \in Int, b >= a - 1, c >= b
  PROVE  Days(a, b) \o Days(b + 1, c) = Days(a, c)
<1> DEFINE s == Days(a, b)
           t == Days(b + 1, c)
           u == Days(a, c)
<1>1. s \in Seq(Int) /\ Len(s) = b - a + 1 /\ \A i \in 1 .. b - a + 1 : s[i] = a + i - 1
  BY DaysProperties
<1>2. t \in Seq(Int) /\ Len(t) = c - b /\ \A i \in 1 .. c - b : t[i] = b + i
  <2>1. b + 1 \in Int /\ c >= (b + 1) - 1 /\ c - (b + 1) + 1 = c - b
    OBVIOUS
  <2>2. /\ t \in Seq(Int) /\ Len(t) = c - (b + 1) + 1
        /\ \A i \in 1 .. c - (b + 1) + 1 : t[i] = (b + 1) + i - 1
    BY <2>1, DaysProperties
  <2>3. \A i \in Int : (b + 1) + i - 1 = b + i
    OBVIOUS
  <2> HIDE DEF t
  <2> QED
    BY <2>1, <2>2, <2>3
<1>3. u \in Seq(Int) /\ Len(u) = c - a + 1 /\ \A i \in 1 .. c - a + 1 : u[i] = a + i - 1
  <2>1. c >= a - 1
    OBVIOUS
  <2> QED
    BY <2>1, DaysProperties
<1> HIDE DEF s, t, u
<1>4. /\ s \o t \in Seq(Int)
      /\ Len(s \o t) = Len(s) + Len(t)
      /\ \A i \in 1 .. Len(s) + Len(t) :
            (s \o t)[i] = IF i <= Len(s) THEN s[i] ELSE t[i - Len(s)]
  BY <1>1, <1>2, ConcatProperties
<1>5. Len(s \o t) = Len(u)
  BY <1>1, <1>2, <1>3, <1>4
<1>6. ASSUME NEW i \in 1 .. Len(u) PROVE (s \o t)[i] = u[i]
  <2>1. CASE i <= Len(s)
    BY <1>1, <1>2, <1>3, <1>4, <2>1
  <2>2. CASE ~(i <= Len(s))
    <3>1. i - Len(s) \in 1 .. c - b
      BY <1>1, <1>2, <1>3, <2>2
    <3>2. (s \o t)[i] = t[i - Len(s)]
      <4>1. i \in 1 .. Len(s) + Len(t)
        BY <1>4, <1>5
      <4> QED
        BY <1>4, <2>2, <4>1
    <3>3. t[i - Len(s)] = b + (i - Len(s))
      BY <1>2, <3>1
    <3> QED
      BY <1>1, <1>3, <3>2, <3>3
  <2> QED
    BY <2>1, <2>2
<1> QED
  BY <1>3, <1>4, <1>5, <1>6, SeqEqual DEF s, t, u

-----------------------------------------------------------------------------
(* Steps.                                                                       *)

\* A request begins: it alone is wanted, for no call has its generation.
LEMMA BeginStep ==
  ASSUME EventsInv, NEW kind \in {"reload", "more"}, NEW shown \in EventsShown,
         NEW asked \in Int \X Int,
         Begin(kind, shown, asked),
         shown.status \in {"loading", "loadingMore"},
         shown.status = "loadingMore" /\ ~torn => Complete(shown),
         kind = "reload" => shown.from = asked[1] /\ EndOf(shown) = asked[2],
         kind = "more" => /\ asked[1] = EndOf(eventsState) + 1
                          /\ asked[2] >= EndOf(eventsState)
                          /\ asked[2] - eventsState.from =< MaxDays
                          /\ torn \/ Complete(eventsState)
  PROVE  EventsInv'
<1> DEFINE new == [kind |-> kind, generation |-> eventsGeneration + 1, previous |-> eventsState,
                   asked |-> asked]
<1>1. /\ eventsGeneration \in Nat /\ eventsGeneration' = eventsGeneration + 1
      /\ eventsGeneration' \in 0 .. MaxRequests
      /\ eventsState' = shown /\ UNCHANGED <<eventsClosed, torn>>
  BY DEF Begin, EventsInv, EventsTyped
<1>2. PICK c \in EventCalls : eventsCalls' = [eventsCalls EXCEPT ![c] = new]
  BY <1>1 DEF Begin
<1>3. new \in EventsCall
  BY <1>1 DEF EventsCall, EventsInv, EventsTyped
<1>4. EventsTyped'
  BY <1>1, <1>2, <1>3 DEF EventsInv, EventsTyped
<1>5. /\ eventsCalls'[c] = new
      /\ \A d \in EventCalls : d # c => eventsCalls'[d] = eventsCalls[d]
  BY <1>2 DEF EventsInv, EventsTyped
<1>6. \A d \in EventCalls :
        eventsCalls[d].generation \in Nat /\ eventsCalls[d].generation =< eventsGeneration
  BY DEF EventsInv, EventsTyped, OneWanted, EventsCall
<1>7. \A d \in EventCalls : CurrentEvents(d)' => d = c
  BY <1>1, <1>5, <1>6 DEF CurrentEvents
<1>8. OneWanted'
  BY <1>1, <1>5, <1>6, <1>7 DEF OneWanted
<1>9. ReloadAsks' /\ MoreAsks'
  BY <1>1, <1>5, <1>7 DEF ReloadAsks, MoreAsks, EndOf, Complete
<1>10. KeptAfterFailure' /\ RangeLoadedUnlessTorn'
  BY <1>1 DEF KeptAfterFailure, RangeLoadedUnlessTorn, Complete
<1> QED
  BY <1>4, <1>8, <1>9, <1>10 DEF EventsInv

\* Reloading a range.
LEMMA ReloadStep ==
  ASSUME EventsInv, NEW from \in Int, NEW days \in 0 .. MaxDays, Reload(from, days)
  PROVE  EventsInv'
<1> DEFINE shown == [eventsState EXCEPT !.status = "loading", !.from = from, !.days = days,
                        !.events = IF eventsState.from = from THEN @ ELSE <<>>, !.failure = FALSE]
<1>1. shown \in EventsShown
  <2>1. (IF eventsState.from = from THEN eventsState.events ELSE <<>>) \in Seq(Int)
    BY DEF EventsInv, EventsTyped, EventsShown
  <2> QED
    BY <2>1 DEF EventsInv, EventsTyped, EventsShown
<1>2. <<from, from + days>> \in Int \X Int
  OBVIOUS
<1>3. Begin("reload", shown, <<from, from + days>>)
  BY DEF Reload
<1>4. shown.status = "loading" /\ shown.from = from /\ EndOf(shown) = from + days
  BY DEF EndOf, EventsInv, EventsTyped, EventsShown
<1> HIDE DEF shown
<1> QED
  BY <1>1, <1>2, <1>3, <1>4, BeginStep

\* Asking for more days.
LEMMA MoreStep ==
  ASSUME EventsInv, LoadMore
  PROVE  EventsInv'
<1> DEFINE shown == [eventsState EXCEPT !.status = "loadingMore", !.failure = FALSE]
           asked == <<EndOf(eventsState) + 1, eventsState.from + Grown>>
<1>1. eventsState \in EventsShown
  BY DEF EventsInv, EventsTyped
<1>2. Grown \in eventsState.days .. MaxDays
  BY <1>1 DEF Grown, EventsShown, LoadMore
<1>3. shown \in EventsShown /\ asked \in Int \X Int
  <2>1. EndOf(eventsState) + 1 \in Int /\ eventsState.from + Grown \in Int
    BY <1>1, <1>2 DEF EventsShown, EndOf
  <2>2. shown \in EventsShown
    BY <1>1 DEF EventsShown
  <2> QED
    BY <2>1, <2>2
<1>4. torn \/ Complete(eventsState)
  BY <1>1
     DEF LoadMore, ListShown, EventsInv, KeptAfterFailure, RangeLoadedUnlessTorn, Complete,
         EventsShown
<1>5. shown.status = "loadingMore" /\ (Complete(eventsState) => Complete(shown))
  BY <1>1 DEF Complete, EndOf, EventsShown
<1>6. /\ asked[1] = EndOf(eventsState) + 1 /\ asked[2] >= EndOf(eventsState)
      /\ asked[2] - eventsState.from =< MaxDays
  BY <1>1, <1>2 DEF EndOf, EventsShown
<1>7. Begin("more", shown, asked)
  BY DEF LoadMore
<1> HIDE DEF shown, asked
<1> QED
  BY <1>3, <1>4, <1>5, <1>6, <1>7, BeginStep

\* A call that returns is wanted no more, and the others stay as they are.
LEMMA ReturnStep ==
  ASSUME EventsInv, NEW c \in EventCalls, EventsReturn(c)
  PROVE  /\ eventsCalls' \in [EventCalls -> EventsCall]
         /\ OneWanted'
         /\ UNCHANGED <<eventsGeneration, eventsClosed>>
         /\ \A d \in EventCalls : CurrentEvents(d)' => d # c /\ CurrentEvents(d)
         /\ \A d \in EventCalls : d # c => eventsCalls'[d] = eventsCalls[d]
<1>1. First \in EventsShown
  BY DEF First, EventsShown
<1>2. NoCall \in EventsCall /\ NoCall.generation = 0
  BY <1>1 DEF NoCall, EventsCall
<1>3. eventsCalls' = [eventsCalls EXCEPT ![c] = NoCall] /\ UNCHANGED <<eventsGeneration, eventsClosed>>
  BY DEF EventsReturn
<1>4. eventsCalls' \in [EventCalls -> EventsCall]
  BY <1>2, <1>3 DEF EventsInv, EventsTyped
<1>5. eventsCalls'[c] = NoCall /\ \A d \in EventCalls : d # c => eventsCalls'[d] = eventsCalls[d]
  BY <1>3 DEF EventsInv, EventsTyped
<1>6. \A d \in EventCalls : CurrentEvents(d)' => d # c /\ CurrentEvents(d)
  BY <1>3, <1>5 DEF CurrentEvents
<1>7. OneWanted'
  BY <1>2, <1>3, <1>5, <1>6 DEF OneWanted, EventsInv, EventsTyped
<1> QED
  BY <1>3, <1>4, <1>5, <1>6, <1>7

\* An answer, or an error, that is wanted: afterwards no call is.
LEMMA WantedReturns ==
  ASSUME EventsInv, NEW c \in EventCalls, CurrentEvents(c), EventsReturn(c),
         eventsState' \in EventsShown, torn' \in BOOLEAN, KeptAfterFailure', RangeLoadedUnlessTorn'
  PROVE  EventsInv'
<1>1. \A d \in EventCalls : ~CurrentEvents(d)'
  BY ReturnStep DEF EventsInv, OneWanted
<1>2. EventsTyped' /\ OneWanted'
  BY ReturnStep DEF EventsInv, EventsTyped
<1> QED
  BY <1>1, <1>2 DEF EventsInv, ReloadAsks, MoreAsks

\* The range shown is answered as a whole.
LEMMA ReloadedStep ==
  ASSUME EventsInv, NEW c \in EventCalls, EventsReloaded(c)
  PROVE  EventsInv'
<1> DEFINE asked == eventsCalls[c].asked
<1>1. eventsState \in EventsShown /\ asked \in Int \X Int
  BY DEF EventsInv, EventsTyped, EventsCall
<1>2. /\ CurrentEvents(c) /\ EventsReturn(c)
      /\ eventsState.from = asked[1] /\ EndOf(eventsState) = asked[2] /\ torn' = FALSE
  BY DEF EventsReloaded, EventsInv, ReloadAsks
<1>3. Days(asked[1], asked[2]) \in Seq(Int)
  <2>1. asked[1] \in Int /\ asked[2] \in Int /\ asked[2] >= asked[1] - 1
    BY <1>1, <1>2 DEF EndOf, EventsShown
  <2> QED
    BY <2>1, DaysProperties
<1>4. eventsState' = [eventsState EXCEPT !.status = "ready", !.failure = FALSE,
                                         !.events = Days(asked[1], asked[2])]
  BY DEF EventsReloaded
<1>5. /\ eventsState' \in EventsShown /\ eventsState'.status = "ready"
      /\ eventsState'.from = asked[1] /\ EndOf(eventsState') = asked[2]
      /\ eventsState'.events = Days(asked[1], asked[2])
  BY <1>1, <1>2, <1>3, <1>4 DEF EventsShown, EndOf
<1>6. KeptAfterFailure' /\ RangeLoadedUnlessTorn'
  BY <1>5 DEF KeptAfterFailure, RangeLoadedUnlessTorn, EndOf
<1> QED
  BY <1>2, <1>5, <1>6, WantedReturns

\* More days follow those the request began with.
LEMMA MoreLoadedStep ==
  ASSUME EventsInv, NEW c \in EventCalls, LoadedMore(c)
  PROVE  EventsInv'
<1> DEFINE asked == eventsCalls[c].asked
           previous == eventsCalls[c].previous
           grown == previous.events \o Days(asked[1], asked[2])
<1>1. previous \in EventsShown /\ asked \in Int \X Int
  BY DEF EventsInv, EventsTyped, EventsCall
<1>2. /\ CurrentEvents(c) /\ EventsReturn(c) /\ torn' = torn
      /\ asked[1] = EndOf(previous) + 1 /\ asked[2] >= EndOf(previous)
      /\ asked[2] - previous.from =< MaxDays
      /\ torn \/ Complete(previous)
  BY DEF LoadedMore, EventsInv, MoreAsks
<1>3. EndOf(previous) \in Int /\ EndOf(previous) >= previous.from /\ previous.from \in Int
  BY <1>1 DEF EndOf, EventsShown
<1>4. Days(asked[1], asked[2]) \in Seq(Int)
  <2>1. asked[1] \in Int /\ asked[2] \in Int /\ asked[2] >= asked[1] - 1
    BY <1>1, <1>2, <1>3
  <2> QED
    BY <2>1, DaysProperties
<1>5. grown \in Seq(Int)
  BY <1>1, <1>4, ConcatProperties DEF EventsShown
<1>6. Complete(previous) => grown = Days(previous.from, asked[2])
  <2>1. asked[2] \in Int /\ EndOf(previous) >= previous.from - 1
    BY <1>1, <1>3
  <2>2. Days(previous.from, EndOf(previous)) \o Days(EndOf(previous) + 1, asked[2])
            = Days(previous.from, asked[2])
    BY <1>2, <1>3, <2>1, DaysFollow
  <2> QED
    BY <1>2, <2>2 DEF Complete
<1>7. eventsState' = [previous EXCEPT !.status = "ready", !.failure = FALSE, !.events = grown,
                                      !.days = asked[2] - previous.from]
  BY DEF LoadedMore
<1>8. asked[2] - previous.from \in 0 .. MaxDays
  BY <1>1, <1>2, <1>3
<1> HIDE DEF grown
<1>9. /\ eventsState' \in EventsShown /\ eventsState'.status = "ready"
      /\ eventsState'.from = previous.from /\ EndOf(eventsState') = asked[2]
      /\ eventsState'.events = grown
  <2>1. eventsState' \in EventsShown
    BY <1>1, <1>5, <1>7, <1>8 DEF EventsShown
  <2>2. /\ eventsState'.status = "ready" /\ eventsState'.from = previous.from
        /\ eventsState'.days = asked[2] - previous.from /\ eventsState'.events = grown
    BY <1>1, <1>7 DEF EventsShown
  <2> QED
    BY <1>1, <1>3, <2>1, <2>2 DEF EndOf
<1>10. KeptAfterFailure' /\ RangeLoadedUnlessTorn'
  BY <1>2, <1>6, <1>9 DEF KeptAfterFailure, RangeLoadedUnlessTorn, EndOf
<1> QED
  BY <1>2, <1>9, <1>10, WantedReturns DEF EventsInv, EventsTyped

\* What is kept after a failure is of the range, or torn says that it is not.
LEMMA FailStep ==
  ASSUME EventsInv, NEW c \in EventCalls, EventsFail(c)
  PROVE  EventsInv'
<1> DEFINE kept == IF eventsCalls[c].kind = "more" THEN eventsCalls[c].previous ELSE eventsState
<1>1. kept \in EventsShown
  BY DEF EventsInv, EventsTyped, EventsCall
<1>2. /\ CurrentEvents(c) /\ EventsReturn(c)
      /\ eventsState' = [kept EXCEPT !.status = "failure", !.failure = TRUE]
      /\ torn' = (torn \/ (kept.events # <<>> /\ kept.events # Days(kept.from, EndOf(kept))))
  BY DEF EventsFail
<1> HIDE DEF kept
<1>3. torn' \in BOOLEAN
  BY <1>2
<1>4. /\ eventsState' \in EventsShown /\ eventsState'.status = "failure"
      /\ eventsState'.from = kept.from /\ EndOf(eventsState') = EndOf(kept)
      /\ eventsState'.events = kept.events
  BY <1>1, <1>2 DEF EventsShown, EndOf
<1>5. KeptAfterFailure' /\ RangeLoadedUnlessTorn'
  BY <1>2, <1>4 DEF KeptAfterFailure, RangeLoadedUnlessTorn, Complete, EndOf
<1> QED
  BY <1>2, <1>3, <1>4, <1>5, WantedReturns

\* An answer that is not wanted changes nothing else.
LEMMA DroppedStep ==
  ASSUME EventsInv, NEW c \in EventCalls, EventsDropped(c)
  PROVE  EventsInv'
<1>1. EventsReturn(c) /\ UNCHANGED <<eventsState, torn>>
  BY DEF EventsDropped
<1>2. EventsTyped' /\ OneWanted'
  BY <1>1, ReturnStep DEF EventsInv, EventsTyped
<1>3. ReloadAsks' /\ MoreAsks'
  BY <1>1, ReturnStep DEF EventsInv, ReloadAsks, MoreAsks, EndOf, Complete
<1> QED
  BY <1>1, <1>2, <1>3 DEF EventsInv, KeptAfterFailure, RangeLoadedUnlessTorn, EndOf, Complete

\* The filter is not part of the range.
LEMMA FilterStep ==
  ASSUME EventsInv, ShowOnlyMine
  PROVE  EventsInv'
<1>1. /\ eventsState' \in EventsShown
      /\ eventsState'.from = eventsState.from /\ eventsState'.days = eventsState.days
      /\ eventsState'.events = eventsState.events /\ eventsState'.status = eventsState.status
      /\ UNCHANGED <<eventsGeneration, eventsCalls, eventsClosed, torn>>
  BY DEF ShowOnlyMine, EventsInv, EventsTyped, EventsShown
<1> QED
  BY <1>1
     DEF EventsInv, EventsTyped, OneWanted, CurrentEvents, ReloadAsks, MoreAsks,
         KeptAfterFailure,
              RangeLoadedUnlessTorn, EndOf, Complete

\* Nothing is wanted of a closed cubit.
LEMMA CloseEventsStep ==
  ASSUME EventsInv, CloseEvents
  PROVE  EventsInv'
<1>1. First \in EventsShown
  BY DEF First, EventsShown
<1>2. NoCall \in EventsCall /\ NoCall.generation = 0
  BY <1>1 DEF NoCall, EventsCall
<1>3. \A c \in EventCalls : eventsCalls'[c] = NoCall
  BY DEF CloseEvents
<1>4. EventsTyped'
  BY <1>2 DEF CloseEvents, EventsInv, EventsTyped
<1>5. \A c \in EventCalls : ~CurrentEvents(c)'
  BY <1>3 DEF CurrentEvents
<1>6. OneWanted'
  BY <1>2, <1>3, <1>4, <1>5 DEF OneWanted, EventsTyped
<1> QED
  BY <1>4, <1>5, <1>6 DEF CloseEvents, EventsInv, ReloadAsks, MoreAsks, KeptAfterFailure,
                         RangeLoadedUnlessTorn, EndOf, Complete

-----------------------------------------------------------------------------
(* The theorems.                                                                *)

\* The invariant holds at first, and every step keeps it.
LEMMA EventsInitInv == EventsInit => EventsInv
<1> SUFFICES ASSUME EventsInit PROVE EventsInv
  OBVIOUS
<1>1. First \in EventsShown
  BY DEF First, EventsShown
<1>2. NoCall \in EventsCall /\ NoCall.generation = 0
  BY <1>1 DEF NoCall, EventsCall
<1>3. \A c \in EventCalls : eventsCalls[c] = NoCall
  BY DEF EventsInit
<1>4. EventsTyped
  <2>1. eventsCalls \in [EventCalls -> EventsCall]
    BY <1>2 DEF EventsInit
  <2>2. eventsGeneration \in 0 .. MaxRequests
    BY DEF EventsInit
  <2> QED
    BY <1>1, <2>1, <2>2 DEF EventsInit, EventsTyped
<1>5. OneWanted
  BY <1>2, <1>3 DEF EventsInit, OneWanted, CurrentEvents
<1> QED
  BY <1>3, <1>4, <1>5
     DEF EventsInit, First, EventsInv, ReloadAsks, MoreAsks, CurrentEvents, KeptAfterFailure,
                    RangeLoadedUnlessTorn

LEMMA EventsNextInv == EventsInv /\ [EventsNext]_eventsVars => EventsInv'
<1> SUFFICES ASSUME EventsInv, [EventsNext]_eventsVars PROVE EventsInv'
  OBVIOUS
<1>1. CASE LoadEvents
  BY <1>1, ReloadStep DEF LoadEvents, EventsInv, EventsTyped, EventsShown
<1>2. CASE ChangeRange
  <2>1. PICK range \in Ranges : Reload(range[1], range[2])
    BY <1>2 DEF ChangeRange
  <2>2. range[1] \in Int /\ range[2] \in 0 .. MaxDays
    OBVIOUS
  <2> QED
    BY <2>1, <2>2, ReloadStep
<1>3. CASE ShowOnlyMine
  BY <1>3, FilterStep
<1>4. CASE LoadMore
  BY <1>4, MoreStep
<1>5. CASE CloseEvents
  BY <1>5, CloseEventsStep
<1>6. ASSUME NEW c \in EventCalls, EventsEnd(c) PROVE EventsInv'
  BY <1>6, ReloadedStep, MoreLoadedStep, FailStep, DroppedStep DEF EventsEnd
<1>7. CASE UNCHANGED eventsVars
  BY <1>7
     DEF eventsVars, EventsInv, EventsTyped, OneWanted, CurrentEvents, ReloadAsks, MoreAsks,
              KeptAfterFailure, RangeLoadedUnlessTorn, EndOf, Complete
<1> QED
  BY <1>1, <1>2, <1>3, <1>4, <1>5, <1>6, <1>7 DEF EventsNext

LEMMA EventsInductive == EventsSpec => []EventsInv
BY EventsInitInv, EventsNextInv, PTL DEF EventsSpec

\* Every variable keeps its type, and no range is longer than the server accepts.
THEOREM EventsTypeCorrect == EventsSpec => []EventsTypeOK
<1>1. EventsInv => EventsTypeOK
  BY DEF EventsInv, EventsTyped, OneWanted, EventsTypeOK, EventsShown
<1> QED
  BY <1>1, EventsInductive, PTL

\* Whatever is asked for and however the answers come back, the events shown are
\* those of the days shown, each once and in order, unless a failure has left
\* those of another range.
THEOREM RangeComplete == EventsSpec => []RangeLoadedUnlessTorn
<1>1. EventsInv => RangeLoadedUnlessTorn
  BY DEF EventsInv
<1> QED
  BY <1>1, EventsInductive, PTL

=============================================================================
