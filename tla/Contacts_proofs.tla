---------------------------- MODULE Contacts_proofs ----------------------------
(* Theorems about the list and the drafts of the contacts package.             *)
(* ContactsList, for any queries, sorts, pages and number of requests: the     *)
(* rows shown answer the question shown, and the list implements LatestResult. *)
(* An answer is put into the state its request began with, so the invariant    *)
(* says of each request what that state was, and of the one still wanted that  *)
(* its state shows what is shown now.                                          *)
(* ContactDrafts, for any drafts, contents, pages, submissions and faults: a   *)
(* draft is applied once, kept until it is applied and called a conflict only  *)
(* when it is stale, and a busy page has a submission at work. A draft is      *)
(* copied between the store, the page and the submissions, so the invariant    *)
(* says of every copy that it has the key it was created with and a version    *)
(* that the contact has had.                                                   *)
EXTENDS ContactsList, ContactDrafts, SequenceTheorems, TLAPS

USE FirstAssumption, ListAssumption DEF FirstAssumption, ListAssumption

Statuses == {"initial", "loading", "ready", "loadingMore", "empty", "failure"}
Call == [kind : {"none", "first", "more"}, generation : Nat, previous : State]

\* The rows of s answer its question, and without a row there is one page.
Answers(s) ==
    /\ \A i \in DOMAIN s.rows :
          s.rows[i].query = s.query /\ s.rows[i].sort = s.sort /\ s.rows[i].page = i
    /\ s.rows # <<>> => Len(s.rows) = s.page
    /\ s.rows = <<>> => s.page = 1 /\ s.lastPage = 1

\* A call began with rows that answer its question: none, or all but the last.
Begun(call) ==
    /\ Answers(call.previous)
    /\ call.kind = "first" => call.previous.rows = <<>>
    /\ call.kind = "more" => call.previous.rows # <<>> /\ call.previous.page < MaxPage

CallsOK ==
    /\ calls \in [Calls -> Call]
    /\ \A c \in Calls : calls[c].kind # "none" => Begun(calls[c])
    /\ \A c \in Calls : calls[c].generation =< generation

\* At most one call is wanted.
OneCurrent == \A c, d \in Calls : Current(c) /\ Current(d) => c = d

\* While it is, the state waits and shows what the call began with.
CurrentOK ==
    \A c \in Calls : Current(c) =>
        /\ state.status \in {"loading", "loadingMore"}
        /\ state.query = calls[c].previous.query
        /\ state.sort = calls[c].previous.sort
        /\ state.rows = calls[c].previous.rows

ListInv ==
    /\ state \in State /\ generation \in 0 .. MaxRequests /\ closed \in BOOLEAN
    /\ Answers(state) /\ CallsOK /\ OneCurrent /\ CurrentOK

-----------------------------------------------------------------------------
(* Parts of steps.                                                             *)

LEMMA BlankType ==
  ASSUME NEW status \in Statuses, NEW query \in Queries, NEW sort \in Sorts
  PROVE  Blank(status, query, sort) \in State /\ Answers(Blank(status, query, sort))
<1>1. <<>> \in Seq(Row) /\ 1 \in 1 .. MaxPage
  OBVIOUS
<1>2. QED
  BY <1>1 DEF Blank, State, Answers, Statuses, Sources

LEMMA NoCallType == NoCall \in Call /\ NoCall.kind = "none" /\ NoCall.generation = 0
BY BlankType DEF NoCall, Call, Statuses

\* A request begins: it alone is wanted, for no call has its generation.
LEMMA BeginStep ==
  ASSUME ListInv, NEW kind \in {"first", "more"}, NEW shown \in State, NEW previous \in State,
         Begin(kind, shown, previous), Answers(shown),
         Begun([kind |-> kind, generation |-> generation + 1, previous |-> previous]),
         shown.status \in {"loading", "loadingMore"}, shown.query = previous.query,
         shown.sort = previous.sort, shown.rows = previous.rows
  PROVE  ListInv'
<1> DEFINE new == [kind |-> kind, generation |-> generation + 1, previous |-> previous]
<1>1. generation \in Nat /\ generation' = generation + 1 /\ generation' \in 0 .. MaxRequests
  BY DEF Begin, ListInv
<1>2. PICK c \in Calls : calls' = [calls EXCEPT ![c] = new]
  BY <1>1 DEF Begin
<1>3. new \in Call
  BY <1>1 DEF Call
<1>4. CallsOK'
  <2>1. calls' \in [Calls -> Call]
    BY <1>2, <1>3 DEF ListInv, CallsOK
  <2>2. \A d \in Calls : calls'[d].kind # "none" => Begun(calls'[d])
    BY <1>2 DEF ListInv, CallsOK
  <2>3. \A d \in Calls : calls'[d].generation =< generation'
    BY <1>1, <1>2 DEF ListInv, CallsOK, Call
  <2>4. QED
    BY <2>1, <2>2, <2>3 DEF CallsOK, Begun
<1>5. \A d \in Calls : Current(d)' => d = c
  BY <1>1, <1>2 DEF ListInv, CallsOK, Call, Current
<1>6. OneCurrent'
  BY <1>5 DEF OneCurrent
<1>7. CurrentOK'
  <2>1. calls'[c].previous = previous /\ state' = shown
    BY <1>2 DEF Begin, ListInv, CallsOK
  <2>2. QED
    BY <1>5, <2>1 DEF CurrentOK
<1>8. QED
  BY <1>1, <1>4, <1>6, <1>7 DEF ListInv, Begin

\* A request ends: if it was the wanted one, none is wanted.
LEMMA ReturnStep ==
  ASSUME ListInv, NEW c \in Calls, Return(c)
  PROVE  /\ CallsOK' /\ OneCurrent' /\ generation' = generation /\ closed' = closed
         /\ \A d \in Calls : Current(d)' => Current(d) /\ d # c /\ calls'[d] = calls[d]
<1>1. \A d \in Calls : calls'[d] = IF d = c THEN NoCall ELSE calls[d]
  BY DEF Return, ListInv, CallsOK
<1>2. generation' = generation /\ closed' = closed /\ generation \in Nat
  BY DEF Return, ListInv
<1>3. CallsOK'
  <2>1. calls' \in [Calls -> Call]
    BY NoCallType DEF Return, ListInv, CallsOK
  <2>2. \A d \in Calls : calls'[d].kind # "none" => Begun(calls'[d])
    BY <1>1, NoCallType DEF ListInv, CallsOK
  <2>3. \A d \in Calls : calls'[d].generation =< generation'
    BY <1>1, <1>2, NoCallType DEF ListInv, CallsOK
  <2>4. QED
    BY <2>1, <2>2, <2>3 DEF CallsOK, Begun
<1>4. \A d \in Calls : Current(d)' => Current(d) /\ d # c /\ calls'[d] = calls[d]
  BY <1>1, <1>2, NoCallType DEF Current
<1>5. OneCurrent'
  BY <1>4 DEF ListInv, OneCurrent
<1>6. QED
  BY <1>2, <1>3, <1>4, <1>5

\* After the wanted request any state that answers its question will do.
LEMMA WantedStep ==
  ASSUME ListInv, NEW c \in Calls, Current(c), Return(c), state' \in State, Answers(state')
  PROVE  ListInv'
<1>1. \A d \in Calls : ~Current(d)'
  BY ReturnStep DEF ListInv, OneCurrent
<1>2. QED
  BY <1>1, ReturnStep DEF ListInv, CurrentOK, Answers

-----------------------------------------------------------------------------
(* Steps.                                                                      *)

LEMMA ListInitInv == ListInit => ListInv
<1> SUFFICES ASSUME ListInit PROVE ListInv
  OBVIOUS
<1>1. state \in State /\ Answers(state)
  BY BlankType DEF ListInit, Statuses
<1>2. \A c \in Calls : calls[c] = NoCall
  BY DEF ListInit
<1>3. CallsOK
  BY <1>2, NoCallType DEF ListInit, CallsOK
<1>4. \A c \in Calls : ~Current(c)
  BY <1>2, NoCallType DEF Current
<1>5. generation \in 0 .. MaxRequests
  BY DEF ListInit
<1>6. closed \in BOOLEAN
  BY DEF ListInit
<1>7. OneCurrent /\ CurrentOK
  BY <1>4 DEF OneCurrent, CurrentOK
<1>8. QED
  BY <1>1, <1>3, <1>5, <1>6, <1>7 DEF ListInv

LEMMA LoadFirstPageStep ==
  ASSUME ListInv, NEW query \in Queries, NEW sort \in Sorts, LoadFirstPage(query, sort)
  PROVE  ListInv'
<1> DEFINE shown == Blank("loading", query, sort)
           previous == Blank("initial", query, sort)
<1>1. /\ shown \in State /\ Answers(shown)
      /\ previous \in State /\ Answers(previous)
  BY BlankType DEF Statuses
<1>2. /\ shown.status = "loading" /\ shown.query = previous.query
      /\ shown.sort = previous.sort /\ shown.rows = previous.rows /\ previous.rows = <<>>
  BY DEF Blank
<1>3. Begun([kind |-> "first", generation |-> generation + 1, previous |-> previous])
  BY <1>1, <1>2 DEF Begun
<1>4. Begin("first", shown, previous)
  BY DEF LoadFirstPage
<1> HIDE DEF shown, previous
<1>5. QED
  BY <1>1, <1>2, <1>3, <1>4, BeginStep

LEMMA LoadMoreStep ==
  ASSUME ListInv, LoadMore
  PROVE  ListInv' /\ state.rows # <<>>
<1> DEFINE shown == [state EXCEPT !.status = "loadingMore", !.failure = FALSE]
<1>1. state \in State /\ Answers(state)
  BY DEF ListInv
<1>2. /\ shown \in State /\ shown.status = "loadingMore" /\ shown.query = state.query
      /\ shown.sort = state.sort /\ shown.rows = state.rows
      /\ shown.page = state.page /\ shown.lastPage = state.lastPage
  BY <1>1 DEF State
<1>3. Answers(shown)
  BY <1>1, <1>2 DEF Answers
<1>4. /\ state.page \in 1 .. MaxPage /\ state.lastPage \in 1 .. MaxPage
      /\ state.page < state.lastPage
  BY <1>1 DEF LoadMore, MayLoadMore, State
<1>5. state.rows # <<>> /\ state.page < MaxPage
  BY <1>1, <1>4 DEF Answers
<1>6. Begun([kind |-> "more", generation |-> generation + 1, previous |-> state])
  BY <1>1, <1>5 DEF Begun
<1>7. Begin("more", shown, state)
  BY DEF LoadMore
<1> HIDE DEF shown
<1>8. QED
  BY <1>1, <1>2, <1>3, <1>5, <1>6, <1>7, BeginStep

\* The page an answer brings is the next one.
LEMMA RequestedNext ==
  ASSUME ListInv, NEW c \in Calls, Current(c)
  PROVE  /\ Requested(c) \in 1 .. MaxPage
         /\ Requested(c) = Len(calls[c].previous.rows) + 1
<1>1. calls[c] \in Call /\ Begun(calls[c]) /\ calls[c].kind \in {"first", "more"}
  BY DEF ListInv, CallsOK, Current, Call
<1>2. calls[c].previous \in State /\ calls[c].previous.page \in 1 .. MaxPage
  BY <1>1 DEF Call, State
<1>3. CASE calls[c].kind = "first"
  BY <1>1, <1>3 DEF Requested, Begun
<1>4. CASE calls[c].kind = "more"
  <2>1. Requested(c) = calls[c].previous.page + 1
    BY <1>4 DEF Requested
  <2>2. calls[c].previous.page < MaxPage /\ Len(calls[c].previous.rows) = calls[c].previous.page
    BY <1>1, <1>4 DEF Begun, Answers
  <2>3. QED
    BY <1>2, <2>1, <2>2
<1>5. QED
  BY <1>1, <1>3, <1>4

LEMMA ArrivesStep ==
  ASSUME ListInv, NEW c \in Calls, Arrives(c)
  PROVE  /\ ListInv'
         /\ state'.status = "ready" /\ state'.query = calls[c].previous.query
         /\ state'.sort = calls[c].previous.sort
         /\ \E row \in Row :
               /\ state'.rows = Append(calls[c].previous.rows, row)
               /\ row.query = calls[c].previous.query /\ row.sort = calls[c].previous.sort
               /\ row.page = Len(calls[c].previous.rows) + 1
<1> DEFINE before == calls[c].previous
<1>1. Current(c) /\ Return(c)
  BY DEF Arrives
<1>2. before \in State /\ Answers(before)
  BY <1>1 DEF ListInv, CallsOK, Current, Call, Begun
<1>3. PICK source \in Sources, lastPage \in 1 .. MaxPage :
         LET row == [query |-> before.query, sort |-> before.sort, page |-> Requested(c),
                     source |-> source]
         IN state' = [before EXCEPT !.status = "ready", !.rows = Append(@, row),
                                    !.page = Requested(c), !.lastPage = lastPage,
                                    !.source = source, !.failure = FALSE]
  BY DEF Arrives
<1> DEFINE row == [query |-> before.query, sort |-> before.sort, page |-> Requested(c),
                   source |-> source]
<1>4. /\ before.rows \in Seq(Row) /\ before.query \in Queries /\ before.sort \in Sorts
      /\ before.page \in 1 .. MaxPage
  BY <1>2 DEF State
<1>5. Requested(c) \in 1 .. MaxPage /\ Requested(c) = Len(before.rows) + 1
  BY <1>1, RequestedNext
<1>6. /\ row \in Row /\ row.query = before.query /\ row.sort = before.sort
      /\ row.page = Len(before.rows) + 1
  BY <1>4, <1>5 DEF Row
<1>7. /\ state'.status = "ready" /\ state'.query = before.query /\ state'.sort = before.sort
      /\ state'.rows = Append(before.rows, row) /\ state'.page = Requested(c)
      /\ state'.lastPage = lastPage
  BY <1>2, <1>3 DEF State
<1> HIDE DEF row
<1>8. Append(before.rows, row) \in Seq(Row)
  BY <1>4, <1>6
<1>9. state' \in State
  BY <1>2, <1>3, <1>5, <1>8 DEF State, row
<1>10. Answers(state')
  <2> DEFINE rows == Append(before.rows, row)
  <2>1. Len(rows) = Len(before.rows) + 1 /\ rows # <<>>
    BY <1>4, <1>6
  <2>2. \A i \in DOMAIN rows :
           rows[i].query = before.query /\ rows[i].sort = before.sort /\ rows[i].page = i
    <3>1. TAKE i \in DOMAIN rows
    <3>2. CASE i = Len(before.rows) + 1
      <4>1. before.rows \in Seq(Row) /\ row \in Row
        BY <1>4, <1>6
      <4>2. rows[Len(before.rows) + 1] = row
        BY <4>1, AppendProperties
      <4>3. QED
        BY <1>6, <3>2, <4>2
    <3>3. CASE i # Len(before.rows) + 1
      <4>1. i \in DOMAIN before.rows /\ rows[i] = before.rows[i]
        BY <1>4, <1>6, <3>1, <3>3
      <4>2. QED
        BY <1>2, <4>1 DEF Answers
    <3>4. QED
      BY <3>2, <3>3
  <2>3. state'.rows = rows /\ state'.query = before.query /\ state'.sort = before.sort
        /\ state'.page = Len(rows)
    BY <1>5, <1>7, <2>1
  <2> HIDE DEF rows
  <2>4. QED
    BY <2>1, <2>2, <2>3 DEF Answers
<1>11. QED
  BY <1>1, <1>6, <1>7, <1>9, <1>10, WantedStep

\* No answer, an empty one or an error: the rows stay.
LEMMA EndsEmptyStep ==
  ASSUME ListInv, NEW c \in Calls, ArrivesEmpty(c) \/ RequestFails(c)
  PROVE  /\ ListInv' /\ state'.status \in {"empty", "failure"}
         /\ state'.query = calls[c].previous.query /\ state'.sort = calls[c].previous.sort
         /\ state'.rows = calls[c].previous.rows
<1> DEFINE before == calls[c].previous
<1>1. Current(c) /\ Return(c)
  BY DEF ArrivesEmpty, RequestFails
<1>2. before \in State /\ Answers(before)
  BY <1>1 DEF ListInv, CallsOK, Current, Call, Begun
<1>3. CASE ArrivesEmpty(c)
  <2>1. PICK source \in Sources : state' = [before EXCEPT !.status = "empty", !.source = source]
    BY <1>3 DEF ArrivesEmpty
  <2>2. /\ state' \in State /\ state'.status = "empty" /\ state'.query = before.query
        /\ state'.sort = before.sort /\ state'.rows = before.rows
        /\ state'.page = before.page /\ state'.lastPage = before.lastPage
    BY <1>2, <2>1 DEF State
  <2>3. Answers(state')
    BY <1>2, <2>2 DEF Answers
  <2>4. QED
    BY <1>1, <2>2, <2>3, WantedStep
<1>4. CASE RequestFails(c)
  <2>1. state' = [before EXCEPT !.status = "failure", !.failure = TRUE]
    BY <1>4 DEF RequestFails
  <2>2. /\ state' \in State /\ state'.status = "failure" /\ state'.query = before.query
        /\ state'.sort = before.sort /\ state'.rows = before.rows
        /\ state'.page = before.page /\ state'.lastPage = before.lastPage
    BY <1>2, <2>1 DEF State
  <2>3. Answers(state')
    BY <1>2, <2>2 DEF Answers
  <2>4. QED
    BY <1>1, <2>2, <2>3, WantedStep
<1>5. QED
  BY <1>3, <1>4

LEMMA DroppedStep ==
  ASSUME ListInv, NEW c \in Calls, Dropped(c)
  PROVE  ListInv'
<1>1. state' = state /\ Return(c)
  BY DEF Dropped
<1>2. CurrentOK'
  BY <1>1, ReturnStep DEF ListInv, CurrentOK
<1>3. QED
  BY <1>1, <1>2, ReturnStep DEF ListInv

LEMMA CloseListStep ==
  ASSUME ListInv, Close
  PROVE  ListInv'
<1>1. \A c \in Calls : calls'[c] = NoCall
  BY DEF Close
<1>2. CallsOK'
  BY <1>1, NoCallType DEF Close, ListInv, CallsOK
<1>3. \A c \in Calls : ~Current(c)'
  BY <1>1, NoCallType DEF Current
<1>4. QED
  BY <1>2, <1>3 DEF Close, ListInv, OneCurrent, CurrentOK

LEMMA ListStutterStep ==
  ASSUME ListInv, UNCHANGED listVars
  PROVE  ListInv'
BY DEF listVars, ListInv, CallsOK, Begun, OneCurrent, CurrentOK, Current

LEMMA ListNextInv == ListInv /\ [ListNext]_listVars => ListInv'
<1> SUFFICES ASSUME ListInv, [ListNext]_listVars PROVE ListInv'
  OBVIOUS
<1>1. CASE UNCHANGED listVars
  BY <1>1, ListStutterStep
<1>2. state.query \in Queries /\ state.sort \in Sorts
  BY DEF ListInv, State
<1>3. CASE Load
  BY <1>2, <1>3, LoadFirstPageStep DEF Load
<1>4. CASE Search \/ ChangeSort
  BY <1>2, <1>4, LoadFirstPageStep DEF Search, ChangeSort
<1>5. CASE LoadMore
  BY <1>5, LoadMoreStep
<1>6. CASE Retry
  BY <1>3, <1>5, <1>6 DEF Retry
<1>7. CASE Close
  BY <1>7, CloseListStep
<1>8. ASSUME NEW c \in Calls, RequestEnds(c) PROVE ListInv'
  BY <1>8, ArrivesStep, EndsEmptyStep, DroppedStep DEF RequestEnds
<1>9. QED
  BY <1>1, <1>3, <1>4, <1>5, <1>6, <1>7, <1>8 DEF ListNext

-----------------------------------------------------------------------------
(* Results.                                                                    *)

THEOREM ListInvariant == ListSpec => []ListInv
BY ListInitInv, ListNextInv, PTL DEF ListSpec

\* Every variable keeps its type, the page shown and its bound among them.
THEOREM ListTypeCorrect == ListSpec => []ListTypeOK
<1>1. ASSUME ListInv PROVE ListTypeOK
  <2>1. generation \in Nat /\ calls \in [Calls -> Call]
    BY <1>1 DEF ListInv, CallsOK
  <2>2. \A c \in Calls : calls[c].generation \in 0 .. generation
    BY <1>1, <2>1 DEF ListInv, CallsOK, Call
  <2>3. calls \in [Calls -> [kind : {"none", "first", "more"}, generation : 0 .. generation,
                             previous : State]]
    BY <2>1, <2>2 DEF Call
  <2>4. QED
    BY <1>1, <2>3 DEF ListInv, ListTypeOK
<1>2. QED
  BY <1>1, ListInvariant, PTL

\* The rows shown are the pages 1 .. page of the question shown, each once and
\* in order, whatever was searched and paged in between.
THEOREM RowsAnswer == ListSpec => []RowsAnswerQuestion
<1>1. ListInv => RowsAnswerQuestion
  BY DEF ListInv, Answers, RowsAnswerQuestion
<1>2. QED
  BY <1>1, ListInvariant, PTL

\* What the list shows when nothing but its calls changes.
LEMMA ShownUnchanged ==
  ASSUME state' = state
  PROVE  UNCHANGED Latest!vars
BY DEF Latest!vars

LEMMA AskStep ==
  ASSUME NEW query \in Queries, NEW sort \in Sorts, LoadFirstPage(query, sort)
  PROVE  Latest!Next
<1>1. state' = Blank("loading", query, sort)
  BY DEF LoadFirstPage, Begin
<1>2. <<query, sort>> \in Questions
  BY DEF Questions
<1>3. Latest!Ask(<<query, sort>>)
  BY <1>1 DEF Latest!Ask, Blank
<1>4. QED
  BY <1>2, <1>3 DEF Latest!Next

LEMMA AskMoreStep ==
  ASSUME ListInv, LoadMore
  PROVE  Latest!Next
<1>1. state' = [state EXCEPT !.status = "loadingMore", !.failure = FALSE] /\ state \in State
  BY DEF LoadMore, Begin, ListInv
<1>2. /\ state'.status = "loadingMore" /\ state'.rows = state.rows
      /\ state'.query = state.query /\ state'.sort = state.sort
  BY <1>1 DEF State
<1>3. state.status \notin {"loading", "loadingMore"} /\ state.rows # <<>>
  BY LoadMoreStep DEF LoadMore, MayLoadMore
<1>4. Latest!AskMore
  BY <1>2, <1>3 DEF Latest!AskMore
<1>5. QED
  BY <1>4 DEF Latest!Next

LEMMA ShowStep ==
  ASSUME ListInv, NEW c \in Calls, Arrives(c)
  PROVE  Latest!Next
<1>1. /\ state.status \in {"loading", "loadingMore"} /\ state.query = calls[c].previous.query
      /\ state.sort = calls[c].previous.sort /\ state.rows = calls[c].previous.rows
  BY DEF ListInv, CurrentOK, Arrives
<1>2. PICK row \in Row :
         /\ state'.rows = Append(state.rows, row)
         /\ row.query = state.query /\ row.sort = state.sort
         /\ row.page = Len(state.rows) + 1
  BY <1>1, ArrivesStep
<1>3. state'.status = "ready" /\ state'.query = state.query /\ state'.sort = state.sort
  BY <1>1, ArrivesStep
<1>4. <<state.query, state.sort>> \in Questions /\ Len(state.rows) + 1 \in 1 .. MaxPage
  BY <1>1, RequestedNext DEF ListInv, State, Questions, Arrives
<1>5. row \in Rows[<<state.query, state.sort>>][Len(state.rows) + 1]
  BY <1>2, <1>4 DEF Rows
<1>6. (state'.status \in {"loading", "loadingMore"}) = FALSE
  BY <1>3
<1>7. Latest!Show
  BY <1>1, <1>2, <1>3, <1>5, <1>6, Zenon DEF Latest!Show
<1>8. QED
  BY <1>7 DEF Latest!Next

LEMMA FailStep ==
  ASSUME ListInv, NEW c \in Calls, ArrivesEmpty(c) \/ RequestFails(c)
  PROVE  Latest!Next
<1>1. /\ state.status \in {"loading", "loadingMore"} /\ state.query = calls[c].previous.query
      /\ state.sort = calls[c].previous.sort /\ state.rows = calls[c].previous.rows
  BY DEF ListInv, CurrentOK, ArrivesEmpty, RequestFails
<1>2. /\ state'.status \in {"empty", "failure"} /\ state'.query = state.query
      /\ state'.sort = state.sort /\ state'.rows = state.rows
  BY <1>1, EndsEmptyStep
<1>3. Latest!Fail
  BY <1>1, <1>2 DEF Latest!Fail
<1>4. QED
  BY <1>3 DEF Latest!Next

LEMMA StepImplements == ListInv /\ [ListNext]_listVars => [Latest!Next]_(Latest!vars)
<1> SUFFICES ASSUME ListInv, [ListNext]_listVars PROVE [Latest!Next]_(Latest!vars)
  OBVIOUS
<1>1. CASE UNCHANGED listVars \/ Close
  <2>1. state' = state
    BY <1>1 DEF listVars, Close
  <2>2. QED
    BY <2>1, ShownUnchanged
<1>2. state.query \in Queries /\ state.sort \in Sorts
  BY DEF ListInv, State
<1>3. CASE Load
  BY <1>2, <1>3, AskStep DEF Load
<1>4. CASE Search \/ ChangeSort
  BY <1>2, <1>4, AskStep DEF Search, ChangeSort
<1>5. CASE LoadMore
  BY <1>5, AskMoreStep
<1>6. CASE Retry
  BY <1>3, <1>5, <1>6 DEF Retry
<1>7. ASSUME NEW c \in Calls, RequestEnds(c) PROVE [Latest!Next]_(Latest!vars)
  <2>1. CASE Arrives(c)
    BY <2>1, ShowStep
  <2>2. CASE ArrivesEmpty(c) \/ RequestFails(c)
    BY <2>2, FailStep
  <2>3. CASE Dropped(c)
    BY <2>3, ShownUnchanged DEF Dropped
  <2>4. QED
    BY <1>7, <2>1, <2>2, <2>3 DEF RequestEnds
<1>8. QED
  BY <1>1, <1>3, <1>4, <1>5, <1>6, <1>7 DEF ListNext

LEMMA InitImplements == ListInit => Latest!Init
<1> SUFFICES ASSUME ListInit PROVE Latest!Init
  OBVIOUS
<1>1. /\ state.query = FirstQuery /\ state.sort = FirstSort /\ state.rows = <<>>
      /\ state.status = "initial"
  BY DEF ListInit, Blank
<1>2. QED
  BY <1>1 DEF Latest!Init, Questions

\* The list gives what LatestResult promises: a late answer never reaches the
\* screen, pages come once and in order, and a failure takes none away.
THEOREM Implements == ListSpec => LatestResultSpec
<1>1. Latest!Init /\ [][Latest!Next]_(Latest!vars) => LatestResultSpec
  BY DEF LatestResultSpec, Latest!Spec
<1>2. QED
  BY <1>1, InitImplements, StepImplements, ListInvariant, PTL DEF ListSpec

-----------------------------------------------------------------------------
(* The drafts.                                                                 *)

USE DraftsAssumption, BoundAssumption DEF DraftsAssumption, BoundAssumption

AtWork == {"request", "answered", "invalidate", "delete"}
Page == [id : Nat, draft : Draft \cup {NoDraft}, status : Shown]
Task == [at : {"free", "dialog"} \cup AtWork, page : Nat, draft : Draft \cup {NoDraft},
         outcome : {"none", "success", "keyInvalid", "versionConflict", "invalid", "network",
                    "error"}]

\* The key is that of the draft, the base a version that the contact v has had,
\* and not its last if the draft is called a conflict.
GoodDraft(d, v) ==
    /\ d \in Draft /\ d.key = <<d.id, 0>> /\ d.base =< v
    /\ d.state = "conflict" => d.base \in 1 .. v - 1

Types ==
    /\ version \in 1 .. MaxVersion /\ opened \in Nat
    /\ page \in Page /\ tasks \in [Tasks -> Task]

StoreGood ==
    /\ DOMAIN store \subseteq Drafts
    /\ \A x \in DOMAIN store : GoodDraft(store[x], version) /\ store[x].id = x

PageGood == page = Closed \/ (page.id \in 1 .. opened /\ GoodDraft(page.draft, version))

\* A submission at work has a draft; what the server has answered is so.
TasksGood ==
    \A t \in Tasks :
        /\ tasks[t].at # "free" => tasks[t].page >= 1
        /\ tasks[t].at = "dialog" => page # Closed /\ page.id = tasks[t].page
        /\ tasks[t].at \in AtWork => GoodDraft(tasks[t].draft, version)
        /\ tasks[t].at = "answered" /\ tasks[t].outcome = "versionConflict" =>
              tasks[t].draft.base \in 1 .. version - 1
        /\ \/ tasks[t].at = "answered" /\ tasks[t].outcome = "success"
           \/ tasks[t].at \in {"invalidate", "delete"}
           => tasks[t].draft.id \in Applied

\* The server applies each key once, and the keys are those of the drafts.
RepliesGood ==
    /\ \A r \in replies : r.key = <<r.key[1], 0>>
    /\ \A r, s \in replies : r.key = s.key => r = s

IInv == Types /\ StoreGood /\ PageGood /\ TasksGood /\ RepliesGood /\ SubmittingAtWork

USE DEF server, bounds

-----------------------------------------------------------------------------
(* Pieces of the actions.                                                       *)

\* What the page shows changes nothing of its draft.
LEMMA Shows ==
  ASSUME IInv, NEW t \in Tasks, tasks[t].at # "free", NEW status \in Shown, Show(t, status),
         UNCHANGED <<version, opened>>
  PROVE  /\ page' \in Page /\ PageGood'
         /\ page'.id = page.id /\ (page' = Closed <=> page = Closed)
         /\ page'.status = IF page.id = tasks[t].page THEN status ELSE page.status
<1> USE DEF IInv, Types, PageGood, Closed, TasksGood
<1>1. CASE page.id = tasks[t].page
  <2>1. page' = [page EXCEPT !.status = status] /\ page.id # 0
    BY <1>1 DEF Show, Task
  <2>2. /\ page' \in Page /\ page'.id = page.id /\ page'.draft = page.draft
        /\ page'.status = status
    BY <2>1 DEF Page
  <2> QED
    BY <1>1, <2>1, <2>2
<1>2. CASE page.id # tasks[t].page
  BY <1>2 DEF Show
<1> QED
  BY <1>1, <1>2

\* A submission that ends frees the page if that is still there.
LEMMA Finishes ==
  ASSUME IInv, NEW t \in Tasks, tasks[t].at # "free", NEW status \in Shown \ {"submitting"},
         Ends(t, status), UNCHANGED <<version, replies, opened>>
  PROVE  Types' /\ PageGood' /\ TasksGood' /\ SubmittingAtWork'
<1>1. /\ page' \in Page /\ PageGood' /\ page'.id = page.id /\ (page' = Closed <=> page = Closed)
      /\ page'.status = IF page.id = tasks[t].page THEN status ELSE page.status
  BY Shows DEF Ends
<1>2. Free \in Task /\ Free.at = "free"
  BY DEF Free, Task
<1>3. /\ tasks' \in [Tasks -> Task] /\ tasks'[t] = Free
      /\ \A u \in Tasks \ {t} : tasks'[u] = tasks[u]
  BY <1>2 DEF Ends, IInv, Types
<1>4. TasksGood'
  BY <1>1, <1>2, <1>3 DEF IInv, TasksGood, AtWork, Applied
<1>5. SubmittingAtWork'
  BY <1>1, <1>3 DEF IInv, SubmittingAtWork
<1> QED
  BY <1>1, <1>3, <1>4, <1>5 DEF IInv, Types

\* A saved draft is the one of the page.
LEMMA Saves ==
  ASSUME IInv, page # Closed, NEW c \in Contents, SaveDraft(c), UNCHANGED <<version, opened>>
  PROVE  /\ page' \in Page /\ PageGood' /\ StoreGood'
         /\ page'.id = page.id /\ page' # Closed /\ page'.status = "localSaved"
<1> DEFINE d == [page.draft EXCEPT !.content = c, !.state = "local"]
<1>1. page \in Page /\ page.id \in 1 .. opened /\ GoodDraft(page.draft, version)
  BY DEF IInv, Types, PageGood
<1>2. /\ d \in Draft /\ d.id = page.draft.id /\ d.key = page.draft.key
      /\ d.base = page.draft.base /\ d.state = "local"
  BY <1>1 DEF GoodDraft, Draft, States
<1>3. GoodDraft(d, version)
  BY <1>1, <1>2 DEF GoodDraft
<1>4. /\ page' = [page EXCEPT !.draft = d, !.status = "localSaved"]
      /\ store' = Put(store, d.id, d)
  BY DEF SaveDraft
<1> HIDE DEF d
<1>5. /\ page' \in Page /\ page'.id = page.id /\ page'.draft = d
      /\ page'.status = "localSaved"
  BY <1>1, <1>2, <1>4 DEF Page, Shown
<1>6. d.id \in Drafts
  BY <1>2 DEF Draft
<1>7. StoreGood'
  BY <1>3, <1>4, <1>6 DEF StoreGood, Put, IInv
<1> QED
  BY <1>1, <1>3, <1>5, <1>7 DEF PageGood, Closed

\* A draft that is written is the only one that changes in the store.
LEMMA Puts ==
  ASSUME StoreGood, NEW d, GoodDraft(d, version), store' = Put(store, d.id, d),
         UNCHANGED version
  PROVE  StoreGood'
<1>1. d.id \in Drafts
  BY DEF GoodDraft, Draft
<1> QED
  BY <1>1 DEF StoreGood, Put

\* A draft that another edit makes older stays good.
LEMMA Ages ==
  ASSUME NEW d, NEW v \in Nat, NEW w \in Nat, v =< w, GoodDraft(d, v)
  PROVE  GoodDraft(d, w)
BY DEF GoodDraft, Draft

\* A confirmed dialog asks with the page's draft, unless the draft cannot be
\* written.
LEMMA Confirms ==
  ASSUME IInv, NEW t \in Tasks, Confirm(t)
  PROVE  /\ page # Closed /\ page.id = tasks[t].page /\ page.id \in 1 .. opened
         /\ tasks[t].at = "dialog" /\ GoodDraft(page.draft, version)
         /\ UNCHANGED <<version, replies, saved, opened>>
         /\ \/ /\ store' = Put(store, page.draft.id, page.draft)
               /\ tasks' \in [Tasks -> Task]
               /\ tasks'[t].at = "request" /\ tasks'[t].draft = page.draft
               /\ tasks'[t].page = tasks[t].page
               /\ \A u \in Tasks \ {t} : tasks'[u] = tasks[u]
               /\ page' \in Page /\ page'.id = page.id /\ page'.draft = page.draft
               /\ page'.status = "submitting"
            \/ Ends(t, "storageFailure") /\ UNCHANGED store
<1>1. tasks[t].at = "dialog" /\ page # Closed /\ page.id = tasks[t].page
  BY DEF Confirm, At, IInv, TasksGood
<1>2. page \in Page /\ page.id \in 1 .. opened /\ GoodDraft(page.draft, version)
  BY <1>1 DEF IInv, Types, PageGood
<1>3. CASE page' = [page EXCEPT !.draft = page.draft, !.status = "submitting"]
  <2>1. /\ page' \in Page /\ page'.id = page.id /\ page'.draft = page.draft
        /\ page'.status = "submitting"
    BY <1>2, <1>3 DEF Page, Shown
  <2>2. CASE tasks' = [tasks EXCEPT ![t].at = "request", ![t].draft = page.draft]
    <3>1. page.draft \in Draft
      BY <1>2 DEF GoodDraft
    <3>2. /\ tasks' \in [Tasks -> Task]
          /\ tasks'[t].at = "request" /\ tasks'[t].draft = page.draft
          /\ tasks'[t].page = tasks[t].page
          /\ \A u \in Tasks \ {t} : tasks'[u] = tasks[u]
      BY <2>2, <3>1 DEF IInv, Types, Task, AtWork
    <3> QED
      BY <1>1, <1>2, <2>1, <2>2, <3>2 DEF Confirm, Submitted
  <2>3. CASE tasks' # [tasks EXCEPT ![t].at = "request", ![t].draft = page.draft]
    BY <1>1, <1>2, <2>1, <2>3 DEF Confirm, Submitted
  <2> QED
    BY <2>2, <2>3
<1>4. CASE page' # [page EXCEPT !.draft = page.draft, !.status = "submitting"]
  BY <1>1, <1>2, <1>4 DEF Confirm, Submitted
<1> QED
  BY <1>3, <1>4

\* A submission saves and opens a dialog, unless it cannot save.
LEMMA Submits ==
  ASSUME IInv, Submit
  PROVE  /\ page # Closed /\ UNCHANGED <<version, replies, opened>>
         /\ page' \in Page /\ PageGood' /\ StoreGood'
         /\ page'.id = page.id /\ page' # Closed /\ page'.status # "submitting"
         /\ \/ \E t \in Tasks :
                  /\ tasks[t] = Free
                  /\ tasks' \in [Tasks -> Task]
                  /\ tasks'[t].at = "dialog" /\ tasks'[t].page = page.id
                  /\ \A u \in Tasks \ {t} : tasks'[u] = tasks[u]
            \/ UNCHANGED tasks
<1>1. page # Closed /\ UNCHANGED <<version, replies, opened>>
  BY DEF Submit
<1>2. ASSUME NEW c \in Contents, NEW t \in Tasks, SaveDraft(c), tasks[t] = Free,
             tasks' = [tasks EXCEPT ![t] = [Free EXCEPT !.at = "dialog", !.page = page.id]]
      PROVE  /\ page' \in Page /\ PageGood' /\ StoreGood'
             /\ page'.id = page.id /\ page' # Closed /\ page'.status # "submitting"
             /\ tasks' \in [Tasks -> Task]
             /\ tasks'[t].at = "dialog" /\ tasks'[t].page = page.id
             /\ \A u \in Tasks \ {t} : tasks'[u] = tasks[u]
  <2> DEFINE dialog == [Free EXCEPT !.at = "dialog", !.page = page.id]
  <2>1. page.id \in Nat
    BY DEF IInv, Types, Page
  <2>2. dialog \in Task /\ dialog.at = "dialog" /\ dialog.page = page.id
    BY <2>1 DEF Free, Task
  <2>3. tasks' = [tasks EXCEPT ![t] = dialog]
    BY <1>2
  <2> HIDE DEF dialog
  <2>4. /\ tasks' \in [Tasks -> Task] /\ tasks'[t] = dialog
        /\ \A u \in Tasks \ {t} : tasks'[u] = tasks[u]
    BY <2>2, <2>3 DEF IInv, Types
  <2> QED
    BY <1>1, <1>2, <2>2, <2>4, Saves
<1>3. CASE SaveFails /\ UNCHANGED tasks
  <2>1. page \in Page /\ page.id \in 1 .. opened /\ GoodDraft(page.draft, version)
    BY <1>1 DEF IInv, Types, PageGood
  <2>2. page' = [page EXCEPT !.status = "storageFailure"] /\ UNCHANGED store
    BY <1>3 DEF SaveFails
  <2>3. /\ page' \in Page /\ page'.id = page.id /\ page'.draft = page.draft
        /\ page'.status = "storageFailure"
    BY <2>1, <2>2 DEF Page, Shown
  <2> QED
    BY <1>1, <1>3, <2>1, <2>2, <2>3 DEF PageGood, StoreGood, IInv, Closed
<1> QED
  BY <1>1, <1>2, <1>3 DEF Submit

\* The server answers, and has applied what it calls a success.
LEMMA Serves ==
  ASSUME IInv, NEW t \in Tasks, Serve(t)
  PROVE  /\ tasks[t].at = "request" /\ GoodDraft(tasks[t].draft, version)
         /\ version' \in version .. MaxVersion
         /\ replies \subseteq replies'
         /\ UNCHANGED <<store, page, saved, opened>>
         /\ \E outcome \in {"success", "keyInvalid", "versionConflict", "invalid"} :
               /\ Answer(t, outcome)
               /\ outcome = "success" => tasks[t].draft.id \in Applied'
               /\ outcome = "versionConflict" => tasks[t].draft.base \in 1 .. version - 1
<1> DEFINE d == tasks[t].draft
           before == {r \in replies : r.key = d.key}
<1>1. /\ tasks[t].at = "request" /\ GoodDraft(d, version) /\ version \in 1 .. MaxVersion
      /\ d.base \in 0 .. MaxVersion /\ d.base =< version /\ d.key[1] = d.id
  BY DEF Serve, At, IInv, TasksGood, AtWork, Types, GoodDraft, Draft
<1>2. UNCHANGED <<store, page, saved, opened>>
  BY DEF Serve
<1>3. CASE before # {}
  <2>1. d.id \in Applied
    BY <1>1, <1>3 DEF Applied
  <2>2. /\ UNCHANGED <<version, replies>>
        /\ Answer(t, IF d.content \in {r.content : r \in before}
                     THEN "success" ELSE "keyInvalid")
    BY <1>3 DEF Serve
  <2> QED
    BY <1>1, <1>2, <2>1, <2>2 DEF Applied
<1>4. CASE before = {} /\ d.base \notin {0, version}
  <2>1. Answer(t, "versionConflict") /\ UNCHANGED <<version, replies>>
    BY <1>4 DEF Serve
  <2>2. d.base \in 1 .. version - 1
    BY <1>1, <1>4
  <2> QED
    BY <1>1, <1>2, <2>1, <2>2
<1>5. CASE before = {} /\ d.base \in {0, version}
  <2>1. \/ Answer(t, "invalid") /\ UNCHANGED <<version, replies>>
        \/ /\ Answer(t, "success")
           /\ replies' = replies \cup {[key |-> d.key, content |-> d.content]}
           /\ \/ UNCHANGED version
              \/ version < MaxVersion /\ version' = version + 1
    BY <1>5 DEF Serve
  <2>2. CASE Answer(t, "invalid") /\ UNCHANGED <<version, replies>>
    BY <1>1, <1>2, <2>2
  <2>3. CASE /\ Answer(t, "success")
             /\ replies' = replies \cup {[key |-> d.key, content |-> d.content]}
             /\ version' \in version .. MaxVersion
    <3>1. PICK r \in replies' : r.key = d.key
      <4> DEFINE new == [key |-> d.key, content |-> d.content]
      <4>1. new \in replies' /\ new.key = d.key
        BY <2>3
      <4> QED
        BY <4>1
    <3>2. d.id \in Applied'
      BY <1>1, <3>1 DEF Applied
    <3> QED
      BY <1>1, <1>2, <2>3, <3>2
  <2> QED
    BY <1>1, <2>1, <2>2, <2>3
<1> QED
  BY <1>3, <1>4, <1>5

\* A submission that failed is kept in a state of its own.
LEMMA Retains ==
  ASSUME IInv, NEW t \in Tasks, Retain(t)
  PROVE  /\ tasks[t].at = "answered" /\ UNCHANGED <<version, replies, opened>>
         /\ tasks[t].outcome # "success"
         /\ \E reason \in Shown \ {"submitting"} : Ends(t, reason)
         /\ StoreGood'
<1> DEFINE reason == Retained(tasks[t].outcome)
           d == tasks[t].draft
           kept == [d EXCEPT !.state = reason]
<1>1. /\ tasks[t].at = "answered" /\ UNCHANGED <<version, replies, opened>>
      /\ tasks[t].outcome # "success" /\ reason \in {"conflict", "unsent", "validationFailure"}
      /\ reason = "conflict" <=> tasks[t].outcome = "versionConflict"
  BY DEF Retain, At, Retained
<1>2. /\ GoodDraft(d, version)
      /\ tasks[t].outcome = "versionConflict" => d.base \in 1 .. version - 1
  BY <1>1 DEF IInv, TasksGood, AtWork
<1>3. /\ kept \in Draft /\ kept.id = d.id /\ kept.key = d.key /\ kept.base = d.base
      /\ kept.state = reason
  BY <1>1, <1>2 DEF GoodDraft, Draft, States
<1>4. GoodDraft(kept, version)
  BY <1>1, <1>2, <1>3 DEF GoodDraft
<1>5. \/ store' = Put(store, d.id, kept) /\ Ends(t, reason)
      \/ Ends(t, "storageFailure") /\ UNCHANGED store
  BY DEF Retain
<1>6. StoreGood'
  <2>1. CASE store' = Put(store, d.id, kept)
    <3> HIDE DEF kept
    <3> QED
      BY <1>1, <1>3, <1>4, <2>1, Puts DEF IInv
  <2>2. CASE UNCHANGED store
    BY <1>1, <2>2 DEF IInv, StoreGood
  <2> QED
    BY <1>5, <2>1, <2>2
<1> QED
  BY <1>1, <1>5, <1>6 DEF Shown

\* Every step keeps the types.
LEMMA TypesKept ==
  ASSUME IInv, [Next]_vars
  PROVE  Types'
<1> USE DEF IInv, Types, Page, Task, AtWork, Closed, Free, Shown, States, Draft,
            GoodDraft, NoDraft, TasksGood, StoreGood, PageGood
<1>1. CASE Open
  BY <1>1 DEF Open, Openable, Range, Drafts, Keys
<1>2. CASE Save
  <2>1. CASE \E c \in Contents : SaveDraft(c)
    BY <1>2, <2>1, Saves DEF Save
  <2>2. CASE SaveFails
    BY <1>2, <2>2 DEF Save, SaveFails, Shown
  <2> QED
    BY <1>2, <2>1, <2>2 DEF Save
<1>3. CASE Submit
  BY <1>3, Submits
<1>4. CASE Leave
  BY <1>4 DEF Leave
<1>5. ASSUME NEW x \in Drafts, Discard(x) PROVE Types'
  BY <1>5 DEF Discard, Drop, Restrict
<1>6. CASE OtherEdit
  BY <1>6 DEF OtherEdit
<1>7. CASE Kill
  BY <1>7 DEF Kill
<1>8. ASSUME NEW t \in Tasks, Cancel(t) PROVE Types'
  BY <1>8 DEF Cancel
<1>9. ASSUME NEW t \in Tasks, Confirm(t) PROVE Types'
  <2>1. CASE /\ store' = Put(store, page.draft.id, page.draft)
             /\ tasks' \in [Tasks -> Task]
             /\ tasks'[t].at = "request" /\ tasks'[t].draft = page.draft
             /\ tasks'[t].page = tasks[t].page
             /\ \A u \in Tasks \ {t} : tasks'[u] = tasks[u]
             /\ page' \in Page /\ page'.id = page.id /\ page'.draft = page.draft
             /\ page'.status = "submitting"
    BY <1>9, <2>1, Confirms
  <2>2. CASE Ends(t, "storageFailure") /\ UNCHANGED store
    BY <1>9, <2>2, Confirms, Finishes DEF Shown
  <2> QED
    BY <1>9, <2>1, <2>2, Confirms
<1>10. ASSUME NEW t \in Tasks, Serve(t) PROVE Types'
  BY <1>10 DEF Serve, At, Answer
<1>11. ASSUME NEW t \in Tasks, Lost(t) PROVE Types'
  BY <1>11 DEF Lost, Fails, Works, Answer
<1>12. ASSUME NEW t \in Tasks, Retain(t) PROVE Types'
  BY <1>12, Retains, Finishes
<1>13. ASSUME NEW t \in Tasks, Refused(t) PROVE Types'
  BY <1>13, Finishes DEF Refused, At, Shown
<1>14. ASSUME NEW t \in Tasks, Complete(t) PROVE Types'
  <2>1. CASE Goto(t, "invalidate") /\ UNCHANGED page
    BY <1>14, <2>1 DEF Complete, Goto, At
  <2>2. CASE Ends(t, "storageFailure")
    BY <1>14, <2>2, Finishes DEF Complete, At, Shown
  <2> QED
    BY <1>14, <2>1, <2>2 DEF Complete
<1>15. ASSUME NEW t \in Tasks, Invalidate(t) PROVE Types'
  <2>1. CASE Goto(t, "delete") /\ UNCHANGED page
    BY <1>15, <2>1 DEF Invalidate, Goto, At
  <2>2. CASE Ends(t, "storageFailure")
    BY <1>15, <2>2, Finishes DEF Invalidate, At, Shown
  <2> QED
    BY <1>15, <2>1, <2>2 DEF Invalidate
<1>16. ASSUME NEW t \in Tasks, Delete(t) PROVE Types'
  <2>1. \E status \in {"saved", "storageFailure"} : Ends(t, status)
    BY <1>16 DEF Delete
  <2> QED
    BY <1>16, <2>1, Finishes DEF Delete, At, Shown
<1>17. CASE UNCHANGED vars
  BY <1>17 DEF vars
<1> QED
  BY <1>1, <1>2, <1>3, <1>4, <1>5, <1>6, <1>7, <1>8, <1>9, <1>10, <1>11, <1>12, <1>13,
     <1>14, <1>15, <1>16, <1>17
     DEF Next, User, Submission

\* The drafts in the store.
LEMMA StoreGoodKept ==
  ASSUME IInv, [Next]_vars, Types'
  PROVE  StoreGood'
<1> USE DEF IInv, Types, StoreGood, PageGood, TasksGood, GoodDraft, AtWork, Draft, Page,
            Task, States, Closed
<1>1. CASE Open
  BY <1>1 DEF Open, Openable, Range, Drafts, Keys
<1>2. CASE Save
  <2>1. CASE \E c \in Contents : SaveDraft(c)
    BY <1>2, <2>1, Saves DEF Save
  <2>2. CASE SaveFails
    BY <1>2, <2>2 DEF Save, SaveFails, Shown
  <2> QED
    BY <1>2, <2>1, <2>2 DEF Save
<1>3. CASE Submit
  BY <1>3, Submits
<1>4. CASE Leave
  BY <1>4 DEF Leave
<1>5. ASSUME NEW x \in Drafts, Discard(x) PROVE StoreGood'
  BY <1>5 DEF Discard, Drop, Restrict
<1>6. CASE OtherEdit
  BY <1>6 DEF OtherEdit
<1>7. CASE Kill
  BY <1>7 DEF Kill
<1>8. ASSUME NEW t \in Tasks, Cancel(t) PROVE StoreGood'
  BY <1>8 DEF Cancel
<1>9. ASSUME NEW t \in Tasks, Confirm(t) PROVE StoreGood'
  <2>1. CASE /\ store' = Put(store, page.draft.id, page.draft)
             /\ tasks' \in [Tasks -> Task]
             /\ tasks'[t].at = "request" /\ tasks'[t].draft = page.draft
             /\ tasks'[t].page = tasks[t].page
             /\ \A u \in Tasks \ {t} : tasks'[u] = tasks[u]
             /\ page' \in Page /\ page'.id = page.id /\ page'.draft = page.draft
             /\ page'.status = "submitting"
    BY <1>9, <2>1, Confirms, Puts
  <2>2. CASE Ends(t, "storageFailure") /\ UNCHANGED store
    BY <1>9, <2>2, Confirms
  <2> QED
    BY <1>9, <2>1, <2>2, Confirms
<1>10. ASSUME NEW t \in Tasks, Serve(t) PROVE StoreGood'
  BY <1>10 DEF Serve, At, Answer
<1>11. ASSUME NEW t \in Tasks, Lost(t) PROVE StoreGood'
  BY <1>11 DEF Lost, Fails, Works, Answer
<1>12. ASSUME NEW t \in Tasks, Retain(t) PROVE StoreGood'
  BY <1>12, Retains
<1>13. ASSUME NEW t \in Tasks, Refused(t) PROVE StoreGood'
  BY <1>13 DEF Refused, At, Ends, Show
<1>14. ASSUME NEW t \in Tasks, Complete(t) PROVE StoreGood'
  BY <1>14 DEF Complete, Fails, Works, At, Goto, Ends, Show
<1>15. ASSUME NEW t \in Tasks, Invalidate(t) PROVE StoreGood'
  BY <1>15 DEF Invalidate, Fails, Works, At, Goto, Ends, Show
<1>16. ASSUME NEW t \in Tasks, Delete(t) PROVE StoreGood'
  BY <1>16 DEF Delete, Drop, Fails, Works, At, Ends, Show, Restrict
<1>17. CASE UNCHANGED vars
  BY <1>17 DEF vars
<1> QED
  BY <1>1, <1>2, <1>3, <1>4, <1>5, <1>6, <1>7, <1>8, <1>9, <1>10, <1>11, <1>12, <1>13,
     <1>14, <1>15, <1>16, <1>17
     DEF Next, User, Submission

\* The draft of the page.
LEMMA PageGoodKept ==
  ASSUME IInv, [Next]_vars, Types'
  PROVE  PageGood'
<1> USE DEF IInv, Types, PageGood, StoreGood, GoodDraft, AtWork, Draft, Page, Task,
            States, Closed, TasksGood
<1>1. CASE Open
  BY <1>1 DEF Open, Openable, Range, Drafts, Keys
<1>2. CASE Save
  <2>1. CASE \E c \in Contents : SaveDraft(c)
    BY <1>2, <2>1, Saves DEF Save
  <2>2. CASE SaveFails
    BY <1>2, <2>2 DEF Save, SaveFails, Shown
  <2> QED
    BY <1>2, <2>1, <2>2 DEF Save
<1>3. CASE Submit
  BY <1>3, Submits
<1>4. CASE Leave
  BY <1>4 DEF Leave
<1>5. ASSUME NEW x \in Drafts, Discard(x) PROVE PageGood'
  BY <1>5 DEF Discard, Drop, Restrict
<1>6. CASE OtherEdit
  BY <1>6 DEF OtherEdit
<1>7. CASE Kill
  BY <1>7 DEF Kill
<1>8. ASSUME NEW t \in Tasks, Cancel(t) PROVE PageGood'
  BY <1>8 DEF Cancel
<1>9. ASSUME NEW t \in Tasks, Confirm(t) PROVE PageGood'
  <2>1. CASE /\ store' = Put(store, page.draft.id, page.draft)
             /\ tasks' \in [Tasks -> Task]
             /\ tasks'[t].at = "request" /\ tasks'[t].draft = page.draft
             /\ tasks'[t].page = tasks[t].page
             /\ \A u \in Tasks \ {t} : tasks'[u] = tasks[u]
             /\ page' \in Page /\ page'.id = page.id /\ page'.draft = page.draft
             /\ page'.status = "submitting"
    BY <1>9, <2>1, Confirms
  <2>2. CASE Ends(t, "storageFailure") /\ UNCHANGED store
    BY <1>9, <2>2, Confirms, Finishes DEF Shown
  <2> QED
    BY <1>9, <2>1, <2>2, Confirms
<1>10. ASSUME NEW t \in Tasks, Serve(t) PROVE PageGood'
  BY <1>10 DEF Serve, At, Answer
<1>11. ASSUME NEW t \in Tasks, Lost(t) PROVE PageGood'
  BY <1>11 DEF Lost, Fails, Works, Answer
<1>12. ASSUME NEW t \in Tasks, Retain(t) PROVE PageGood'
  BY <1>12, Retains, Finishes
<1>13. ASSUME NEW t \in Tasks, Refused(t) PROVE PageGood'
  BY <1>13, Finishes DEF Refused, At, Shown
<1>14. ASSUME NEW t \in Tasks, Complete(t) PROVE PageGood'
  <2>1. CASE Goto(t, "invalidate") /\ UNCHANGED page
    BY <1>14, <2>1 DEF Complete, Goto, At
  <2>2. CASE Ends(t, "storageFailure")
    BY <1>14, <2>2, Finishes DEF Complete, At, Shown
  <2> QED
    BY <1>14, <2>1, <2>2 DEF Complete
<1>15. ASSUME NEW t \in Tasks, Invalidate(t) PROVE PageGood'
  <2>1. CASE Goto(t, "delete") /\ UNCHANGED page
    BY <1>15, <2>1 DEF Invalidate, Goto, At
  <2>2. CASE Ends(t, "storageFailure")
    BY <1>15, <2>2, Finishes DEF Invalidate, At, Shown
  <2> QED
    BY <1>15, <2>1, <2>2 DEF Invalidate
<1>16. ASSUME NEW t \in Tasks, Delete(t) PROVE PageGood'
  <2>1. \E status \in {"saved", "storageFailure"} : Ends(t, status)
    BY <1>16 DEF Delete
  <2> QED
    BY <1>16, <2>1, Finishes DEF Delete, At, Shown
<1>17. CASE UNCHANGED vars
  BY <1>17 DEF vars
<1> QED
  BY <1>1, <1>2, <1>3, <1>4, <1>5, <1>6, <1>7, <1>8, <1>9, <1>10, <1>11, <1>12, <1>13,
     <1>14, <1>15, <1>16, <1>17
     DEF Next, User, Submission

\* The drafts of the submissions, and what the server has said of them.
LEMMA TasksGoodKept ==
  ASSUME IInv, [Next]_vars, Types'
  PROVE  TasksGood'
<1> USE DEF IInv, Types, TasksGood, GoodDraft, PageGood, AtWork, Page, Task, Closed, Free,
            Applied, RepliesGood, Draft
<1>1. CASE Open
  BY <1>1 DEF Open, Openable, Range, Drafts, Keys
<1>2. CASE Save
  <2>1. CASE \E c \in Contents : SaveDraft(c)
    BY <1>2, <2>1, Saves DEF Save
  <2>2. CASE SaveFails
    BY <1>2, <2>2 DEF Save, SaveFails, Shown
  <2> QED
    BY <1>2, <2>1, <2>2 DEF Save
<1>3. CASE Submit
  BY <1>3, Submits
<1>4. CASE Leave
  BY <1>4 DEF Leave
<1>5. ASSUME NEW x \in Drafts, Discard(x) PROVE TasksGood'
  BY <1>5 DEF Discard, Drop, Restrict
<1>6. CASE OtherEdit
  BY <1>6 DEF OtherEdit
<1>7. CASE Kill
  BY <1>7 DEF Kill
<1>8. ASSUME NEW t \in Tasks, Cancel(t) PROVE TasksGood'
  BY <1>8 DEF Cancel
<1>9. ASSUME NEW t \in Tasks, Confirm(t) PROVE TasksGood'
  <2>1. CASE /\ store' = Put(store, page.draft.id, page.draft)
             /\ tasks' \in [Tasks -> Task]
             /\ tasks'[t].at = "request" /\ tasks'[t].draft = page.draft
             /\ tasks'[t].page = tasks[t].page
             /\ \A u \in Tasks \ {t} : tasks'[u] = tasks[u]
             /\ page' \in Page /\ page'.id = page.id /\ page'.draft = page.draft
             /\ page'.status = "submitting"
    BY <1>9, <2>1, Confirms
  <2>2. CASE Ends(t, "storageFailure") /\ UNCHANGED store
    BY <1>9, <2>2, Confirms, Finishes DEF Shown
  <2> QED
    BY <1>9, <2>1, <2>2, Confirms
<1>10. ASSUME NEW t \in Tasks, Serve(t) PROVE TasksGood'
  <2>1. PICK outcome \in {"success", "keyInvalid", "versionConflict", "invalid"} :
              /\ Answer(t, outcome)
              /\ outcome = "success" => tasks[t].draft.id \in Applied'
              /\ outcome = "versionConflict" => tasks[t].draft.base \in 1 .. version - 1
    BY <1>10, Serves
  <2>2. /\ tasks'[t].at = "answered" /\ tasks'[t].outcome = outcome
        /\ tasks'[t].draft = tasks[t].draft /\ tasks'[t].page = tasks[t].page
        /\ \A u \in Tasks \ {t} : tasks'[u] = tasks[u]
    BY <2>1 DEF Answer
  <2>3. /\ tasks[t].at = "request" /\ version' \in version .. MaxVersion
        /\ Applied \subseteq Applied' /\ UNCHANGED page
    BY <1>10, Serves
  <2>4. \A u \in Tasks : tasks[u].at \in AtWork => GoodDraft(tasks[u].draft, version')
    BY <2>3, Ages
  <2>5. \A u \in Tasks \ {t} :
           tasks[u].at = "answered" /\ tasks[u].outcome = "versionConflict" =>
              tasks[u].draft.base \in 1 .. version' - 1
    BY <2>3
  <2>6. tasks[t].at \in AtWork /\ tasks[t].draft.base \in Nat
    BY <2>3
  <2>7. outcome = "versionConflict" => tasks[t].draft.base \in 1 .. version' - 1
    BY <2>1, <2>3, <2>6
  <2> SUFFICES ASSUME NEW u \in Tasks
               PROVE  /\ tasks'[u].at # "free" => tasks'[u].page >= 1
                      /\ tasks'[u].at = "dialog" =>
                            page' # Closed /\ page'.id = tasks'[u].page
                      /\ tasks'[u].at \in AtWork => GoodDraft(tasks'[u].draft, version')
                      /\ tasks'[u].at = "answered" /\ tasks'[u].outcome = "versionConflict" =>
                            tasks'[u].draft.base \in 1 .. version' - 1
                      /\ \/ tasks'[u].at = "answered" /\ tasks'[u].outcome = "success"
                         \/ tasks'[u].at \in {"invalidate", "delete"}
                         => tasks'[u].draft.id \in Applied'
    BY DEF TasksGood
  <2> HIDE DEF GoodDraft, Applied
  <2>8. CASE u = t
    BY <2>1, <2>2, <2>3, <2>4, <2>6, <2>7, <2>8
  <2>9. CASE u # t
    BY <2>2, <2>3, <2>4, <2>5, <2>9
  <2> QED
    BY <2>8, <2>9
<1>11. ASSUME NEW t \in Tasks, Lost(t) PROVE TasksGood'
  BY <1>11 DEF Lost, Fails, Works, Answer
<1>12. ASSUME NEW t \in Tasks, Retain(t) PROVE TasksGood'
  BY <1>12, Retains, Finishes
<1>13. ASSUME NEW t \in Tasks, Refused(t) PROVE TasksGood'
  BY <1>13, Finishes DEF Refused, At, Shown
<1>14. ASSUME NEW t \in Tasks, Complete(t) PROVE TasksGood'
  <2>1. CASE Goto(t, "invalidate") /\ UNCHANGED page
    BY <1>14, <2>1 DEF Complete, Goto, At
  <2>2. CASE Ends(t, "storageFailure")
    BY <1>14, <2>2, Finishes DEF Complete, At, Shown
  <2> QED
    BY <1>14, <2>1, <2>2 DEF Complete
<1>15. ASSUME NEW t \in Tasks, Invalidate(t) PROVE TasksGood'
  <2>1. CASE Goto(t, "delete") /\ UNCHANGED page
    BY <1>15, <2>1 DEF Invalidate, Goto, At
  <2>2. CASE Ends(t, "storageFailure")
    BY <1>15, <2>2, Finishes DEF Invalidate, At, Shown
  <2> QED
    BY <1>15, <2>1, <2>2 DEF Invalidate
<1>16. ASSUME NEW t \in Tasks, Delete(t) PROVE TasksGood'
  <2>1. \E status \in {"saved", "storageFailure"} : Ends(t, status)
    BY <1>16 DEF Delete
  <2> QED
    BY <1>16, <2>1, Finishes DEF Delete, At, Shown
<1>17. CASE UNCHANGED vars
  BY <1>17 DEF vars
<1> QED
  BY <1>1, <1>2, <1>3, <1>4, <1>5, <1>6, <1>7, <1>8, <1>9, <1>10, <1>11, <1>12, <1>13,
     <1>14, <1>15, <1>16, <1>17
     DEF Next, User, Submission

\* What the server has applied.
LEMMA RepliesGoodKept ==
  ASSUME IInv, [Next]_vars, Types'
  PROVE  RepliesGood'
<1> USE DEF IInv, Types, RepliesGood, TasksGood, GoodDraft, AtWork, Draft
<1>1. CASE Open
  BY <1>1 DEF Open, Openable, Range, Drafts, Keys
<1>2. CASE Save
  BY <1>2 DEF Save, SaveDraft, SaveFails, Busy, Put, Works, Fails
<1>3. CASE Submit
  BY <1>3 DEF Submit, SaveDraft, SaveFails, Busy, Put, Works, Fails
<1>4. CASE Leave
  BY <1>4 DEF Leave
<1>5. ASSUME NEW x \in Drafts, Discard(x) PROVE RepliesGood'
  BY <1>5 DEF Discard, Drop, Restrict
<1>6. CASE OtherEdit
  BY <1>6 DEF OtherEdit
<1>7. CASE Kill
  BY <1>7 DEF Kill
<1>8. ASSUME NEW t \in Tasks, Cancel(t) PROVE RepliesGood'
  BY <1>8 DEF Cancel
<1>9. ASSUME NEW t \in Tasks, Confirm(t) PROVE RepliesGood'
  BY <1>9 DEF Confirm, Put, Fails, Works, At, Ends, Submitted, Show
<1>10. ASSUME NEW t \in Tasks, Serve(t) PROVE RepliesGood'
  BY <1>10 DEF Serve, At, Answer
<1>11. ASSUME NEW t \in Tasks, Lost(t) PROVE RepliesGood'
  BY <1>11 DEF Lost, Fails, Works, Answer
<1>12. ASSUME NEW t \in Tasks, Retain(t) PROVE RepliesGood'
  BY <1>12 DEF Retain, Put, Fails, Works, At, Ends, Retained, Show
<1>13. ASSUME NEW t \in Tasks, Refused(t) PROVE RepliesGood'
  BY <1>13 DEF Refused, At, Ends, Show
<1>14. ASSUME NEW t \in Tasks, Complete(t) PROVE RepliesGood'
  BY <1>14 DEF Complete, Fails, Works, At, Goto, Ends, Show
<1>15. ASSUME NEW t \in Tasks, Invalidate(t) PROVE RepliesGood'
  BY <1>15 DEF Invalidate, Fails, Works, At, Goto, Ends, Show
<1>16. ASSUME NEW t \in Tasks, Delete(t) PROVE RepliesGood'
  BY <1>16 DEF Delete, Drop, Fails, Works, At, Ends, Show, Restrict
<1>17. CASE UNCHANGED vars
  BY <1>17 DEF vars
<1> QED
  BY <1>1, <1>2, <1>3, <1>4, <1>5, <1>6, <1>7, <1>8, <1>9, <1>10, <1>11, <1>12, <1>13,
     <1>14, <1>15, <1>16, <1>17
     DEF Next, User, Submission

\* A busy page has a submission.
LEMMA SubmittingAtWorkKept ==
  ASSUME IInv, [Next]_vars, Types'
  PROVE  SubmittingAtWork'
<1> USE DEF IInv, Types, SubmittingAtWork, TasksGood, AtWork, Page, Task, Closed, Free
<1>1. CASE Open
  BY <1>1 DEF Open, Openable, Range, Drafts, Keys
<1>2. CASE Save
  <2>1. CASE \E c \in Contents : SaveDraft(c)
    BY <1>2, <2>1, Saves DEF Save
  <2>2. CASE SaveFails
    BY <1>2, <2>2 DEF Save, SaveFails, Shown
  <2> QED
    BY <1>2, <2>1, <2>2 DEF Save
<1>3. CASE Submit
  BY <1>3, Submits
<1>4. CASE Leave
  BY <1>4 DEF Leave
<1>5. ASSUME NEW x \in Drafts, Discard(x) PROVE SubmittingAtWork'
  BY <1>5 DEF Discard, Drop, Restrict
<1>6. CASE OtherEdit
  BY <1>6 DEF OtherEdit
<1>7. CASE Kill
  BY <1>7 DEF Kill
<1>8. ASSUME NEW t \in Tasks, Cancel(t) PROVE SubmittingAtWork'
  BY <1>8 DEF Cancel
<1>9. ASSUME NEW t \in Tasks, Confirm(t) PROVE SubmittingAtWork'
  <2>1. CASE /\ store' = Put(store, page.draft.id, page.draft)
             /\ tasks' \in [Tasks -> Task]
             /\ tasks'[t].at = "request" /\ tasks'[t].draft = page.draft
             /\ tasks'[t].page = tasks[t].page
             /\ \A u \in Tasks \ {t} : tasks'[u] = tasks[u]
             /\ page' \in Page /\ page'.id = page.id /\ page'.draft = page.draft
             /\ page'.status = "submitting"
    BY <1>9, <2>1, Confirms
  <2>2. CASE Ends(t, "storageFailure") /\ UNCHANGED store
    BY <1>9, <2>2, Confirms, Finishes DEF Shown
  <2> QED
    BY <1>9, <2>1, <2>2, Confirms
<1>10. ASSUME NEW t \in Tasks, Serve(t) PROVE SubmittingAtWork'
  BY <1>10 DEF Serve, At, Answer
<1>11. ASSUME NEW t \in Tasks, Lost(t) PROVE SubmittingAtWork'
  BY <1>11 DEF Lost, Fails, Works, Answer
<1>12. ASSUME NEW t \in Tasks, Retain(t) PROVE SubmittingAtWork'
  BY <1>12, Retains, Finishes
<1>13. ASSUME NEW t \in Tasks, Refused(t) PROVE SubmittingAtWork'
  BY <1>13, Finishes DEF Refused, At, Shown
<1>14. ASSUME NEW t \in Tasks, Complete(t) PROVE SubmittingAtWork'
  <2>1. CASE Goto(t, "invalidate") /\ UNCHANGED page
    BY <1>14, <2>1 DEF Complete, Goto, At
  <2>2. CASE Ends(t, "storageFailure")
    BY <1>14, <2>2, Finishes DEF Complete, At, Shown
  <2> QED
    BY <1>14, <2>1, <2>2 DEF Complete
<1>15. ASSUME NEW t \in Tasks, Invalidate(t) PROVE SubmittingAtWork'
  <2>1. CASE Goto(t, "delete") /\ UNCHANGED page
    BY <1>15, <2>1 DEF Invalidate, Goto, At
  <2>2. CASE Ends(t, "storageFailure")
    BY <1>15, <2>2, Finishes DEF Invalidate, At, Shown
  <2> QED
    BY <1>15, <2>1, <2>2 DEF Invalidate
<1>16. ASSUME NEW t \in Tasks, Delete(t) PROVE SubmittingAtWork'
  <2>1. \E status \in {"saved", "storageFailure"} : Ends(t, status)
    BY <1>16 DEF Delete
  <2> QED
    BY <1>16, <2>1, Finishes DEF Delete, At, Shown
<1>17. CASE UNCHANGED vars
  BY <1>17 DEF vars
<1> QED
  BY <1>1, <1>2, <1>3, <1>4, <1>5, <1>6, <1>7, <1>8, <1>9, <1>10, <1>11, <1>12, <1>13,
     <1>14, <1>15, <1>16, <1>17
     DEF Next, User, Submission

\* The drafts in the store are those that were there, but for one that is
\* discarded or deleted.
LEMMA Leaves ==
  ASSUME IInv, [Next]_vars, NEW x \in DOMAIN store \ DOMAIN store'
  PROVE  x \in Applied \/ Discard(x)
<1> USE DEF IInv, Put, Drop, Restrict
<1>0. ASSUME NEW c \in Contents, SaveDraft(c) PROVE FALSE
  <2>1. DOMAIN store' = DOMAIN store \cup {page.draft.id}
    BY <1>0 DEF SaveDraft
  <2> QED
    BY <2>1
<1>1. CASE Open
  BY <1>1 DEF Open
<1>2. CASE Save
  BY <1>0, <1>2 DEF Save, SaveFails
<1>3. CASE Submit
  BY <1>0, <1>3 DEF Submit, SaveFails
<1>4. CASE Leave
  BY <1>4 DEF Leave
<1>5. ASSUME NEW y \in Drafts, Discard(y) PROVE Discard(x)
  <2>1. x = y
    BY <1>5 DEF Discard
  <2> QED
    BY <1>5, <2>1
<1>6. CASE OtherEdit
  BY <1>6 DEF OtherEdit
<1>7. CASE Kill
  BY <1>7 DEF Kill
<1>8. ASSUME NEW t \in Tasks, Cancel(t) PROVE FALSE
  BY <1>8 DEF Cancel
<1>9. ASSUME NEW t \in Tasks, Confirm(t) PROVE FALSE
  BY <1>9, Confirms
<1>10. ASSUME NEW t \in Tasks, Serve(t) PROVE FALSE
  BY <1>10 DEF Serve
<1>11. ASSUME NEW t \in Tasks, Lost(t) PROVE FALSE
  BY <1>11 DEF Lost
<1>12. ASSUME NEW t \in Tasks, Retain(t) PROVE FALSE
  BY <1>12 DEF Retain
<1>13. ASSUME NEW t \in Tasks, Refused(t) PROVE FALSE
  BY <1>13 DEF Refused
<1>14. ASSUME NEW t \in Tasks, Complete(t) PROVE FALSE
  BY <1>14 DEF Complete
<1>15. ASSUME NEW t \in Tasks, Invalidate(t) PROVE FALSE
  BY <1>15 DEF Invalidate
<1>16. ASSUME NEW t \in Tasks, Delete(t) PROVE x \in Applied
  <2>1. x = tasks[t].draft.id /\ tasks[t].at = "delete"
    BY <1>16 DEF Delete, At
  <2> QED
    BY <2>1 DEF TasksGood
<1>17. CASE UNCHANGED vars
  BY <1>17 DEF vars
<1> QED
  BY <1>1, <1>2, <1>3, <1>4, <1>5, <1>6, <1>7, <1>8, <1>9, <1>10, <1>11, <1>12, <1>13,
     <1>14, <1>15, <1>16, <1>17
     DEF Next, User, Submission

-----------------------------------------------------------------------------
(* The theorems.                                                                *)

\* The invariant holds at first, and every step keeps it.
LEMMA InitIInv == Init => IInv
<1> SUFFICES ASSUME Init PROVE IInv
  OBVIOUS
<1>1. Types
  <2>1. Free \in Task
    BY DEF Free, Task
  <2>2. Closed \in Page
    BY DEF Closed, Page, Shown
  <2> QED
    BY <2>1, <2>2 DEF Init, Types
<1>2. \A t \in Tasks : tasks[t].at = "free"
  BY DEF Init, Free
<1> QED
  BY <1>1, <1>2 DEF Init, IInv, StoreGood, PageGood, TasksGood, AtWork, RepliesGood,
                    SubmittingAtWork, Closed

LEMMA NextIInv == IInv /\ [Next]_vars => IInv'
<1> SUFFICES ASSUME IInv, [Next]_vars PROVE IInv'
  OBVIOUS
<1>1. Types'
  BY TypesKept
<1> QED
  BY <1>1, StoreGoodKept, PageGoodKept, TasksGoodKept, RepliesGoodKept, SubmittingAtWorkKept
     DEF IInv

LEMMA Inductive == Spec => []IInv
BY InitIInv, NextIInv, PTL DEF Spec

\* However often a draft is confirmed, lost and sent again, the server applies
\* it once: it is always sent under the key it was created with.
THEOREM DraftAppliedOnce == Spec => []AppliedOnce
<1>1. IInv => AppliedOnce
  BY DEF IInv, RepliesGood, AppliedOnce
<1> QED
  BY <1>1, Inductive, PTL

\* A draft is gone from the store only after the user has discarded it or the
\* server has applied it.
THEOREM DraftKept == Spec => KeptUntilApplied
<1>1. IInv /\ [Next]_vars =>
        [\A x \in DOMAIN store \ DOMAIN store' : x \in Applied \/ Discard(x)]_vars
  BY Leaves
<1> QED
  BY <1>1, Inductive, PTL DEF Spec, KeptUntilApplied

\* A draft that is called a conflict was made of a version that the contact has
\* left since.
THEOREM ConflictStale == Spec => []ConflictMeansStale
<1>1. IInv => ConflictMeansStale
  BY DEF IInv, StoreGood, GoodDraft, ConflictMeansStale
<1> QED
  BY <1>1, Inductive, PTL

\* A page whose fields are disabled has a submission at work.
THEOREM BusyAtWork == Spec => []SubmittingAtWork
<1>1. IInv => SubmittingAtWork
  BY DEF IInv
<1> QED
  BY <1>1, Inductive, PTL
=============================================================================
