----------------------------- MODULE EventsList -----------------------------
(* EventsCubit: a range of calendar days that is reloaded, replaced and grown, *)
(* with answers in any order. The server has one event a day; an event is the  *)
(* number of its day.                                                          *)
EXTENDS Integers, Sequences

CONSTANTS
    Today,
    Ranges,                  \* what the range sheet offers: <<from, days>>
    InitialDays, StepDays, MaxDays,
    EventCalls,              \* bound: requests under way at the same time
    MaxRequests              \* bound: requests

ASSUME DaysAssumption ==
    /\ Today \in Int
    /\ InitialDays \in Nat /\ StepDays \in Nat \ {0} /\ MaxDays \in Nat
    /\ InitialDays =< MaxDays
    /\ Ranges \subseteq Int \X (0 .. MaxDays)
ASSUME EventsBoundAssumption == MaxRequests \in Nat

VARIABLES
    eventsState,        \* EventsState
    eventsGeneration,   \* _generation
    eventsCalls,        \* loadMore and _reload awaiting the repository
    eventsClosed,
    torn                \* history: a range whose load failed still shows the events of another

eventsVars == <<eventsState, eventsGeneration, eventsCalls, eventsClosed, torn>>

Days(first, last) == [i \in 1 .. last - first + 1 |-> first + i - 1]
EndOf(s) == s.from + s.days

First == [status |-> "initial", events |-> <<>>, from |-> Today, days |-> InitialDays,
          onlyMine |-> FALSE, failure |-> FALSE]
NoCall == [kind |-> "none", generation |-> 0, previous |-> First, asked |-> <<0, 0>>]

EventsInit ==
    /\ eventsState = First
    /\ eventsGeneration = 0
    /\ eventsCalls = [c \in EventCalls |-> NoCall]
    /\ eventsClosed = FALSE
    /\ torn = FALSE

-----------------------------------------------------------------------------
\* A request for the days from asked[1] to asked[2] begins.
Begin(kind, shown, asked) ==
    /\ ~eventsClosed /\ eventsGeneration < MaxRequests
    /\ eventsGeneration' = eventsGeneration + 1
    /\ eventsState' = shown
    /\ \E c \in EventCalls :
          /\ eventsCalls[c] = NoCall
          /\ eventsCalls' = [eventsCalls EXCEPT
                ![c] = [kind |-> kind, generation |-> eventsGeneration',
                        previous |-> eventsState, asked |-> asked]]
    /\ UNCHANGED <<eventsClosed, torn>>

\* copyWith forgets the failure unless it is given.
Reload(from, days) ==
    Begin("reload", [eventsState EXCEPT !.status = "loading", !.from = from, !.days = days,
                                        !.events = IF eventsState.from = from THEN @ ELSE <<>>,
                                        !.failure = FALSE],
          <<from, from + days>>)

\* load, and refresh by pull, button and return from an event.
LoadEvents == Reload(eventsState.from, eventsState.days)
ChangeRange == \E range \in Ranges : Reload(range[1], range[2])

ShowOnlyMine ==
    /\ ~eventsClosed
    /\ eventsState' = [eventsState EXCEPT !.onlyMine = ~@]
    /\ UNCHANGED <<eventsGeneration, eventsCalls, eventsClosed, torn>>

\* The view has a list, and a button below it.
ListShown ==
    /\ eventsState.status # "initial"
    /\ eventsState.status \in {"loading", "failure"} => eventsState.events # <<>>

Grown == IF eventsState.days + StepDays > MaxDays THEN MaxDays ELSE eventsState.days + StepDays

LoadMore ==
    /\ ListShown
    /\ eventsState.days < MaxDays
    /\ eventsState.status \notin {"loading", "loadingMore"}
    /\ Begin("more", [eventsState EXCEPT !.status = "loadingMore", !.failure = FALSE],
             <<EndOf(eventsState) + 1, eventsState.from + Grown>>)

-----------------------------------------------------------------------------
\* Mutant of CurrentEvents: the generation is not compared.
CurrentAlways(c) == eventsCalls[c] # NoCall

CurrentEvents(c) == eventsCalls[c] # NoCall /\ eventsCalls[c].generation = eventsGeneration

EventsReturn(c) ==
    /\ eventsCalls' = [eventsCalls EXCEPT ![c] = NoCall]
    /\ UNCHANGED <<eventsGeneration, eventsClosed>>

EventsReloaded(c) ==
    /\ CurrentEvents(c) /\ eventsCalls[c].kind = "reload"
    /\ eventsState' = [eventsState EXCEPT !.status = "ready", !.failure = FALSE,
                                    !.events = Days(eventsCalls[c].asked[1], eventsCalls[c].asked[2])]
    /\ torn' = FALSE
    /\ EventsReturn(c)

LoadedMore(c) ==
    /\ CurrentEvents(c) /\ eventsCalls[c].kind = "more"
    /\ LET previous == eventsCalls[c].previous
           asked == eventsCalls[c].asked
       IN eventsState' = [previous EXCEPT !.status = "ready", !.failure = FALSE,
                                    !.events = @ \o Days(asked[1], asked[2]),
                                    !.days = asked[2] - previous.from]
    /\ UNCHANGED torn
    /\ EventsReturn(c)

\* A failed reload keeps what is shown now, a failed loadMore what was shown before.
EventsFail(c) ==
    /\ CurrentEvents(c)
    /\ LET kept == IF eventsCalls[c].kind = "more" THEN eventsCalls[c].previous ELSE eventsState
       IN /\ eventsState' = [kept EXCEPT !.status = "failure", !.failure = TRUE]
          /\ torn' = (torn \/ (kept.events # <<>> /\ kept.events # Days(kept.from, EndOf(kept))))
    /\ EventsReturn(c)

\* The answer, or the error, of an older request.
EventsDropped(c) ==
    /\ eventsCalls[c] # NoCall /\ ~CurrentEvents(c)
    /\ UNCHANGED <<eventsState, torn>>
    /\ EventsReturn(c)

CloseEvents ==
    /\ ~eventsClosed /\ eventsClosed' = TRUE
    /\ eventsCalls' = [c \in EventCalls |-> NoCall]
    /\ UNCHANGED <<eventsState, eventsGeneration, torn>>

EventsEnd(c) == EventsReloaded(c) \/ LoadedMore(c) \/ EventsFail(c) \/ EventsDropped(c)
EventsNext ==
    \/ LoadEvents \/ ChangeRange \/ ShowOnlyMine \/ LoadMore \/ CloseEvents
    \/ \E c \in EventCalls : EventsEnd(c)

EventsSpec == EventsInit /\ [][EventsNext]_eventsVars

-----------------------------------------------------------------------------
\* Every variable keeps its type; the range never exceeds what the server accepts.
EventsTypeOK ==
    /\ eventsState \in [status : {"initial", "loading", "ready", "loadingMore", "failure"},
                  events : Seq(Int), from : Int, days : 0 .. MaxDays,
                  onlyMine : BOOLEAN, failure : BOOLEAN]
    /\ eventsGeneration \in 0 .. MaxRequests
    /\ \A c \in EventCalls : eventsCalls[c].generation =< eventsGeneration
    /\ eventsClosed \in BOOLEAN /\ torn \in BOOLEAN

\* The events of the range shown are those of its days, each once and in order,
\* unless a failed reload had left events of another range.
RangeLoadedUnlessTorn ==
    eventsState.status \in {"ready", "loadingMore"} /\ ~torn =>
        eventsState.events = Days(eventsState.from, EndOf(eventsState))

-----------------------------------------------------------------------------
(* What the documentation says and the code does not keep.                     *)

\* "Number of days after [from] that are loaded." (events_cubit.dart:35)
RangeLoaded ==
    eventsState.status = "ready" => eventsState.events = Days(eventsState.from, EndOf(eventsState))

\* "Shows only events with own services or open availability requests."
\* (events_cubit.dart:117): only the user changes the filter, not an answer that
\* puts back the state from before the request.
FilterKept ==
    [][eventsState'.onlyMine # eventsState.onlyMine => eventsCalls' = eventsCalls]_eventsVars
=============================================================================
