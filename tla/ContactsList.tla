---------------------------- MODULE ContactsList ----------------------------
(* ContactsCubit: searches, sort changes and further pages whose answers come  *)
(* in any order, some from the offline cache, and are dropped by a request     *)
(* generation. A page of rows is abstracted to the request it answers.         *)
EXTENDS Naturals, Sequences, Functions

CONSTANTS
    Queries, Sorts,
    FirstQuery, FirstSort,   \* the empty query and the default sort
    Calls,                   \* bound: requests under way at the same time
    MaxPage,                 \* bound: pages of a result
    MaxRequests              \* bound: requests

ASSUME FirstAssumption == FirstQuery \in Queries /\ FirstSort \in Sorts
ASSUME ListAssumption == MaxPage \in Nat \ {0} /\ MaxRequests \in Nat

VARIABLES
    state,       \* ContactsState
    generation,  \* _requestGeneration
    calls,       \* loadMore and _loadFirstPage awaiting the repository
    closed

listVars == <<state, generation, calls, closed>>

Sources == {"remote", "cache"}
Row == [query : Queries, sort : Sorts, page : 1 .. MaxPage, source : Sources]
State == [status : {"initial", "loading", "ready", "loadingMore", "empty", "failure"},
          rows : Seq(Row), query : Queries, sort : Sorts, page : 1 .. MaxPage,
          lastPage : 1 .. MaxPage, source : Sources, failure : BOOLEAN]

Blank(status, query, sort) ==
    [status |-> status, rows |-> <<>>, query |-> query, sort |-> sort, page |-> 1,
     lastPage |-> 1, source |-> "remote", failure |-> FALSE]

NoCall == [kind |-> "none", generation |-> 0, previous |-> Blank("initial", FirstQuery, FirstSort)]

ListInit ==
    /\ state = Blank("initial", FirstQuery, FirstSort)
    /\ generation = 0
    /\ calls = [c \in Calls |-> NoCall]
    /\ closed = FALSE

-----------------------------------------------------------------------------
\* A request begins: previous is the state its answer is put into.
Begin(kind, shown, previous) ==
    /\ ~closed /\ generation < MaxRequests
    /\ generation' = generation + 1
    /\ state' = shown
    /\ \E c \in Calls :
          /\ calls[c].kind = "none"
          /\ calls' = [calls EXCEPT
                ![c] = [kind |-> kind, generation |-> generation', previous |-> previous]]
    /\ UNCHANGED closed

LoadFirstPage(query, sort) ==
    Begin("first", Blank("loading", query, sort), Blank("initial", query, sort))

Load == LoadFirstPage(state.query, state.sort)
Search == \E query \in Queries : LoadFirstPage(query, state.sort)
ChangeSort == \E sort \in Sorts : LoadFirstPage(state.query, sort)

MayLoadMore ==
    /\ state.page < state.lastPage
    /\ state.status \notin {"loading", "loadingMore"}

LoadMore ==
    /\ MayLoadMore
    /\ Begin("more", [state EXCEPT !.status = "loadingMore", !.failure = FALSE], state)

\* retry() asks for the first page if no row is shown, for the next otherwise.
Retry == IF state.rows = <<>> THEN Load ELSE LoadMore

-----------------------------------------------------------------------------
\* Mutant of Current: the generation is not compared.
CurrentAlways(c) == calls[c].kind # "none"

\* The answer of c is still wanted.
Current(c) == calls[c].kind # "none" /\ calls[c].generation = generation

Return(c) == calls' = [calls EXCEPT ![c] = NoCall] /\ UNCHANGED <<generation, closed>>

\* The number of the page that c asked for.
Requested(c) == IF calls[c].kind = "first" THEN 1 ELSE calls[c].previous.page + 1

Arrives(c) ==
    /\ Current(c)
    /\ \E source \in Sources, lastPage \in 1 .. MaxPage :
       LET before == calls[c].previous
           row == [query |-> before.query, sort |-> before.sort, page |-> Requested(c),
                   source |-> source]
       IN state' = [before EXCEPT !.status = "ready", !.rows = Append(@, row),
                                  !.page = Requested(c), !.lastPage = lastPage,
                                  !.source = source, !.failure = FALSE]
    /\ Return(c)

\* The first page has no items.
ArrivesEmpty(c) ==
    /\ Current(c) /\ calls[c].kind = "first"
    /\ \E source \in Sources :
          state' = [calls[c].previous EXCEPT !.status = "empty", !.source = source]
    /\ Return(c)

\* Mutant of RequestFails: the error is swallowed.
RequestFailsSilently(c) == Current(c) /\ UNCHANGED state /\ Return(c)

RequestFails(c) ==
    /\ Current(c)
    /\ state' = [calls[c].previous EXCEPT !.status = "failure", !.failure = TRUE]
    /\ Return(c)

\* The answer, or the error, of an older request.
Dropped(c) ==
    /\ calls[c].kind # "none" /\ ~Current(c)
    /\ UNCHANGED state
    /\ Return(c)

\* What arrives at a closed cubit is dropped, too.
Close ==
    /\ ~closed /\ closed' = TRUE
    /\ calls' = [c \in Calls |-> NoCall]
    /\ UNCHANGED <<state, generation>>

RequestEnds(c) == Arrives(c) \/ ArrivesEmpty(c) \/ RequestFails(c) \/ Dropped(c)
ListNext == Load \/ Search \/ ChangeSort \/ LoadMore \/ Retry \/ Close \/ \E c \in Calls : RequestEnds(c)

ListSpec == ListInit /\ [][ListNext]_listVars

\* A request ends: the client has timeouts.
ListFairSpec == ListSpec /\ \A c \in Calls : WF_listVars(RequestEnds(c))

-----------------------------------------------------------------------------
\* Every variable keeps its type, and no call is of a later generation.
ListTypeOK ==
    /\ state \in State
    /\ generation \in 0 .. MaxRequests
    /\ calls \in [Calls -> [kind : {"none", "first", "more"}, generation : 0 .. generation,
                            previous : State]]
    /\ closed \in BOOLEAN

\* The rows shown are the pages 1 .. page of the query and the sort shown, each
\* once and in order, whatever was searched and paged in between ("discarding
\* stale responses", contacts_cubit.dart:48).
RowsAnswerQuestion ==
    /\ \A i \in DOMAIN state.rows :
          /\ state.rows[i].query = state.query /\ state.rows[i].sort = state.sort
          /\ state.rows[i].page = i
    /\ state.rows # <<>> => Len(state.rows) = state.page

\* A loading state ends: each has a request whose answer is still wanted.
LoadingEnds == state.status \in {"loading", "loadingMore"} ~>
                   state.status \notin {"loading", "loadingMore"} \/ closed

\* The list gives what LatestResult promises: an empty result is the question's
\* answer without a row.
Questions == Queries \X Sorts
Rows == [q \in Questions |-> [p \in 1 .. MaxPage |->
            {r \in Row : r.query = q[1] /\ r.sort = q[2] /\ r.page = p}]]
Latest == INSTANCE LatestResult WITH
    question <- <<state.query, state.sort>>,
    rows <- state.rows,
    waiting <- state.status \in {"loading", "loadingMore"},
    Row <- Rows
LatestResultSpec == Latest!Spec

-----------------------------------------------------------------------------
(* What the documentation says and the code does not keep.                     *)

\* "visible offline provenance" (CHANGELOG.md:9): a list with rows of the cache
\* says so. The source of the last page replaces that of the pages before.
CachedTold ==
    (\E i \in DOMAIN state.rows : state.rows[i].source = "cache") => state.source = "cache"
=============================================================================
