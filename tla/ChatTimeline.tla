---------------------------- MODULE ChatTimeline ----------------------------
(* A room or thread timeline from the native client to its page: the tasks     *)
(* that watch and watch_typing spawn (Rust), the streams they feed, the        *)
(* controller that applies the batches (Dart), and the calls the page makes,   *)
(* which the bridge runs on a pool of threads in any order.                    *)
(*                                                                              *)
(* The SDK's timeline is external: its items with their local echoes, the      *)
(* older events on the server, and the notices of who is typing. Of an item    *)
(* its id, its key and its send state are kept.                                *)
EXTENDS DiffList, FiniteSets

CONSTANTS
    MaxEvents,      \* bound: messages, and choices of the user about them
    MaxNotices,     \* bound: times who types changes
    OlderPages,     \* pages of older events on the server
    NoticeBuffer    \* typing notices the SDK keeps for a slow reader

ASSUME TimelineAssumption ==
    {MaxEvents, MaxNotices, OlderPages, NoticeBuffer} \subseteq Nat /\ NoticeBuffer > 0

VARIABLES
    items,          \* SDK: the timeline, oldest first: [id, echo]
    typists,        \* SDK: [now, notices, told, count]: who types, notices not yet
                    \* read, whether the reader was told since it subscribed
    task,           \* of each stream: "none", "spawned", "running" or "ended"
    slot,           \* streams whose task is in watch_task or typing_task
    stream,         \* batches under way on each stream
    page,           \* TimelineController and its page
    handle,         \* the ChatTimeline: "held" or "dropped"
    pageCalls,      \* calls of ChatTimeline at work
    lagged,         \* history: the reader of the typing notices lagged
    older, events

timelineVars == <<items, typists, task, slot, stream, page, handle, pageCalls,
                  lagged, older, events>>

Streams == {"items", "typing"}
People == {"self", "other"}
PageCall(kind) == <<kind, 0>>

TimelineInit ==
    /\ items = <<>>
    /\ typists \in [now : {{}, {"other"}}, notices : {<<>>}, told : {FALSE}, count : {0}]
    /\ task = [s \in Streams |-> "none"] /\ slot = {}
    /\ stream = [s \in Streams |-> <<>>]
    /\ page = [open |-> TRUE, items |-> <<>>, typing |-> {}, paginating |-> FALSE,
               reachedStart |-> FALSE]
    /\ handle = "held"
    /\ pageCalls = {PageCall(s) : s \in Streams}
    /\ lagged = FALSE
    /\ older = OlderPages /\ events = 0

-----------------------------------------------------------------------------
(* What the stream makes of an item.                                            *)

\* An echo has its key until the server has given it an event id.
EventKey(item) == IF item.echo \in {"notSentYet", "sendingFailed"} THEN "local" ELSE "remote"

SendState(item) ==
    CASE item.echo = "notSentYet"    -> "sending"
      [] item.echo = "sendingFailed" -> "failed"
      [] OTHER                       -> "sent"

MapItem(item) == [id |-> item.id, key |-> EventKey(item), state |-> SendState(item)]
MapItems(s) == [i \in DOMAIN s |-> MapItem(s[i])]
MapDiff(d) == [d EXCEPT !.values = MapItems(@)]

\* Once the page is left, more messages change nothing for it.
Event == page.open /\ events < MaxEvents /\ events' = events + 1

Feeds(s, batch) == [stream EXCEPT ![s] = IF page.open THEN Append(@, batch) ELSE @]

\* The SDK changes its timeline; a running watch maps the diffs of the change.
Changed(next, diffs) ==
    /\ items' = next
    /\ stream' = IF task["items"] = "running"
                 THEN Feeds("items", [i \in DOMAIN diffs |-> MapDiff(diffs[i])]) ELSE stream

-----------------------------------------------------------------------------
(* The streams.                                                                 *)

\* watch, watch_typing: spawns the task, then puts it in its slot.
WatchSpawns(s) ==
    /\ PageCall(s) \in pageCalls /\ task[s] = "none"
    /\ task' = [task EXCEPT ![s] = "spawned"]
    /\ UNCHANGED <<items, typists, slot, stream, page, handle, pageCalls,
                   lagged, older, events>>

WatchReplaces(s) ==
    /\ PageCall(s) \in pageCalls /\ task[s] # "none"
    /\ slot' = slot \cup {s}
    /\ pageCalls' = pageCalls \ {PageCall(s)}
    /\ UNCHANGED <<items, typists, task, stream, page, handle, lagged, older,
                   events>>

\* Mutant of WatchBegins: only what changes from now on is sent.
WatchBeginsEmpty(s) ==
    /\ task[s] = "spawned"
    /\ task' = [task EXCEPT ![s] = "running"]
    /\ UNCHANGED <<items, typists, slot, stream, page, handle, pageCalls,
                   lagged, older, events>>

\* The task subscribes and sends what there is, of those who type nobody.
WatchBegins(s) ==
    /\ task[s] = "spawned"
    /\ task' = [task EXCEPT ![s] = "running"]
    /\ stream' = Feeds(s, IF s = "items" THEN <<Diff("reset", 0, MapItems(items))>> ELSE {})
    /\ UNCHANGED <<items, typists, slot, page, handle, pageCalls, lagged,
                   older, events>>

\* The SDK tells the readers who types and drops the oldest notice they missed.
Typing(who) ==
    /\ who # typists.now /\ typists.count < MaxNotices
    /\ LET queue == Append(typists.notices, who)
           full == Len(queue) > NoticeBuffer
           read == task["typing"] = "running"
       IN  /\ typists' = [now |-> who, told |-> read, count |-> typists.count + 1,
                  notices |-> IF ~read THEN <<>> ELSE IF full THEN Tail(queue) ELSE queue]
           /\ lagged' = (lagged \/ (read /\ full))
    /\ UNCHANGED <<items, task, slot, stream, page, handle, pageCalls, older,
                   events>>

\* typing.recv(); a reader that has lagged gets an error, which ends the loop.
TypingReceived ==
    /\ task["typing"] = "running" /\ typists.notices # <<>>
    /\ IF lagged
       THEN task' = [task EXCEPT !["typing"] = "ended"] /\ UNCHANGED stream
       ELSE stream' = Feeds("typing", Head(typists.notices) \ {"self"}) /\ UNCHANGED task
    /\ typists' = [typists EXCEPT !.notices = Tail(@)]
    /\ UNCHANGED <<items, slot, page, handle, pageCalls, lagged, older, events>>

\* A batch for a page whose streams Dart has cancelled: sink.add fails. What
\* brings it, a sync, may come at any time.
PageSinkClosed(s) ==
    /\ task[s] \in {"spawned", "running"}
    /\ ~page.open /\ PageCall("close") \notin pageCalls
    /\ task' = [task EXCEPT ![s] = "ended"]
    /\ UNCHANGED <<items, typists, slot, stream, page, handle, pageCalls,
                   lagged, older, events>>

Aborted(streams) == [s \in Streams |-> IF s \in streams THEN "ended" ELSE task[s]]

\* close, then the Dart streams are cancelled.
Close ==
    /\ PageCall("close") \in pageCalls /\ pageCalls' = pageCalls \ {PageCall("close")}
    /\ task' = Aborted(slot) /\ slot' = {}
    /\ stream' = [s \in Streams |-> <<>>]
    /\ UNCHANGED <<items, typists, page, handle, lagged, older, events>>

\* Mutant of DropTimeline: the timeline leaves its tasks to run.
DropTimelineAlone ==
    /\ handle = "held" /\ ~page.open /\ pageCalls = {}
    /\ handle' = "dropped"
    /\ UNCHANGED <<items, typists, task, slot, stream, page, pageCalls, lagged,
                   older, events>>

\* Nothing in Dart refers to the timeline any more, and no call runs.
DropTimeline ==
    /\ handle = "held" /\ ~page.open /\ pageCalls = {}
    /\ handle' = "dropped"
    /\ task' = Aborted(slot) /\ slot' = {}
    /\ UNCHANGED <<items, typists, stream, page, pageCalls, lagged, older,
                   events>>

-----------------------------------------------------------------------------
(* The messages of the timeline.                                                *)

Echoes == {i \in DOMAIN items : items[i].echo \notin {"none", "remote"}}
Sent(i, echo) == [items[i] EXCEPT !.echo = echo]
Sets(i, echo) ==
    Changed([items EXCEPT ![i] = Sent(i, echo)], <<Diff("set", i - 1, <<Sent(i, echo)>>)>>)

\* send_text or send_image: the SDK queues it and shows a local echo.
SendText ==
    /\ Event
    /\ LET item == [id |-> events', echo |-> "notSentYet"] IN
       Changed(Append(items, item), <<Diff("pushBack", 0, <<item>>)>>)
    /\ UNCHANGED <<typists, task, slot, page, handle, pageCalls, lagged, older>>

\* What the room has comes before the echoes.
FirstEcho(s) ==
    LET echoes == {i \in DOMAIN s : s[i].echo \notin {"none", "remote"}} IN
    IF echoes = {} THEN Len(s) + 1 ELSE CHOOSE i \in echoes : \A j \in echoes : i <= j

SyncMessage ==
    /\ Event
    /\ LET item == [id |-> events', echo |-> "none"] IN
       Changed(InsertAt(items, FirstEcho(items), item),
               <<Diff("insert", FirstEcho(items) - 1, <<item>>)>>)
    /\ UNCHANGED <<typists, task, slot, page, handle, pageCalls, lagged, older>>

\* The queue: an echo is sent, or fails; then the room's own copy replaces it.
QueueSends(i) ==
    /\ items[i].echo = "notSentYet"
    /\ \E echo \in {"sent", "sendingFailed"} : Sets(i, echo)
    /\ UNCHANGED <<typists, task, slot, page, handle, pageCalls, lagged, older,
                   events>>

RemoteEcho(i) ==
    /\ items[i].echo = "sent"
    /\ LET rest == RemoveAt(items, i)  at == FirstEcho(rest)
       IN  Changed(InsertAt(rest, at, Sent(i, "remote")),
                   <<Diff("remove", i - 1, <<>>), Diff("insert", at - 1, <<Sent(i, "remote")>>)>>)
    /\ UNCHANGED <<typists, task, slot, page, handle, pageCalls, lagged, older,
                   events>>

-----------------------------------------------------------------------------
(* What the page does.                                                          *)

\* The user chooses to retry or to discard a message that is shown as failed.
Choose(what) ==
    /\ Event
    /\ \E i \in DOMAIN page.items :
          /\ page.items[i].state = "failed" /\ page.items[i].key = "local"
          /\ pageCalls' = pageCalls \cup {<<what, page.items[i].id>>}
    /\ UNCHANGED <<items, typists, task, slot, stream, page, handle, lagged,
                   older>>

\* send_handle: the echo of this transaction, if it still is one.
SendHandle(id) == {i \in Echoes : items[i].id = id}

Retry(id) ==
    /\ <<"retry", id>> \in pageCalls /\ pageCalls' = pageCalls \ {<<"retry", id>>}
    /\ LET failed == {i \in SendHandle(id) : items[i].echo = "sendingFailed"} IN
       IF failed = {} THEN UNCHANGED <<items, stream>> ELSE \E i \in failed : Sets(i, "notSentYet")
    /\ UNCHANGED <<typists, task, slot, page, handle, lagged, older, events>>

\* cancel: takes an echo off that is not sent; NotFound for the room's copy.
Cancel(id) ==
    /\ <<"cancel", id>> \in pageCalls /\ pageCalls' = pageCalls \ {<<"cancel", id>>}
    /\ LET waiting == {i \in SendHandle(id) : items[i].echo # "sent"} IN
       IF waiting = {} THEN UNCHANGED <<items, stream>>
       ELSE \E i \in waiting : Changed(RemoveAt(items, i), <<Diff("remove", i - 1, <<>>)>>)
    /\ UNCHANGED <<typists, task, slot, page, handle, lagged, older, events>>

\* TimelineController.paginateBack
PaginateBack ==
    /\ page.open /\ ~page.paginating /\ ~page.reachedStart
    /\ page' = [page EXCEPT !.paginating = TRUE]
    /\ pageCalls' = pageCalls \cup {PageCall("paginate")}
    /\ UNCHANGED <<items, typists, task, slot, stream, handle, lagged, older,
                   events>>

\* paginate_back: older events come in front; true at the start of the room.
\* A failure leaves the flags as they were.
PaginateLoads ==
    /\ PageCall("paginate") \in pageCalls
    /\ pageCalls' = (pageCalls \ {PageCall("paginate")}) \cup
                       {PageCall(IF older <= 1 THEN "reachedStart" ELSE "paginated")}
    /\ IF older = 0 THEN UNCHANGED <<items, stream, older>>
       ELSE LET item == [id |-> 0 - older, echo |-> "none"] IN
            older' = older - 1 /\ Changed(<<item>> \o items, <<Diff("pushFront", 0, <<item>>)>>)
    /\ UNCHANGED <<typists, task, slot, page, handle, lagged, events>>

PaginateFails ==
    /\ PageCall("paginate") \in pageCalls /\ pageCalls' = pageCalls \ {PageCall("paginate")}
    /\ page' = [page EXCEPT !.paginating = FALSE]
    /\ UNCHANGED <<items, typists, task, slot, stream, handle, lagged, older,
                   events>>

PaginateReturns ==
    \E answer \in {"paginated", "reachedStart"} :
        /\ PageCall(answer) \in pageCalls
        /\ pageCalls' = pageCalls \ {PageCall(answer)}
        /\ page' = [page EXCEPT !.paginating = FALSE, !.reachedStart = answer = "reachedStart"]
        /\ UNCHANGED <<items, typists, task, slot, stream, handle, lagged,
                       older, events>>

\* The controller receives a batch of items, or who is typing.
Receive(s) ==
    /\ page.open /\ stream[s] # <<>>
    /\ page' = IF s = "items" THEN [page EXCEPT !.items = ApplyDiffs(@, Head(stream[s]))]
                              ELSE [page EXCEPT !.typing = Head(stream[s])]
    /\ stream' = [stream EXCEPT ![s] = Tail(@)]
    /\ UNCHANGED <<items, typists, task, slot, handle, pageCalls, lagged,
                   older, events>>

\* The page is left: TimelineController.dispose.
Dispose ==
    /\ page.open
    /\ page' = [page EXCEPT !.open = FALSE]
    /\ pageCalls' = pageCalls \cup {PageCall("close")}
    /\ UNCHANGED <<items, typists, task, slot, stream, handle, lagged, older,
                   events>>

StreamSteps ==
    \/ \E s \in Streams : WatchSpawns(s) \/ WatchReplaces(s) \/ WatchBegins(s) \/ PageSinkClosed(s)
    \/ TypingReceived \/ Close \/ DropTimeline
    \/ \E who \in SUBSET People : Typing(who)

MessageSteps ==
    \/ SendText \/ SyncMessage
    \/ \E i \in DOMAIN items : QueueSends(i) \/ RemoteEcho(i)
    \/ \E id \in 1 .. MaxEvents : Retry(id) \/ Cancel(id)

PageSteps ==
    \/ Choose("retry") \/ Choose("cancel")
    \/ PaginateBack \/ PaginateLoads \/ PaginateFails \/ PaginateReturns
    \/ \E s \in Streams : Receive(s)
    \/ Dispose

TimelineNext == StreamSteps \/ MessageSteps \/ PageSteps

TimelineSpec == TimelineInit /\ [][TimelineNext]_timelineVars

-----------------------------------------------------------------------------
(* Properties.                                                                  *)

\* What the page shows, once the batches under way have arrived, is the
\* timeline of the SDK with every echo in its state, from the first batch on
\* (timeline.rs line 353).
TimelineAgrees ==
    page.open /\ task["items"] = "running" =>
        Arrived(page.items, stream["items"]) = MapItems(items)

\* The page shows who else types now, once a notice has been read (timeline.rs
\* line 552); unless the reader lagged, which ends it.
TypingAgrees ==
    page.open /\ task["typing"] = "running" /\ typists.told /\ typists.notices = <<>> /\ ~lagged =>
        Last(<<page.typing>> \o stream["typing"]) = typists.now \ {"self"}

\* No task of a timeline outlives it: closing it or, where close was faster than
\* a watch, dropping it ends what was started (timeline.rs lines 584 and 613).
StreamsEnd ==
    handle = "dropped" => \A s \in Streams : task[s] \in {"none", "ended"}

\* Refuted: the typing stream goes on as long as its page.
TypingGoesOn == page.open => task["typing"] # "ended"

\* Refuted: once the streams have begun, the page shows who types.
TypingShown ==
    page.open /\ task["typing"] = "running" /\ stream["typing"] = <<>> /\ typists.notices = <<>> =>
        page.typing = typists.now \ {"self"}

\* Refuted: an action on a message finds it; cancel is documented to return
\* false for one that was sent, and reports NotFound for the room's copy.
CancelFinds ==
    \A id \in 1 .. MaxEvents : <<"cancel", id>> \in pageCalls => SendHandle(id) # {}

\* Refuted: no pagination ends after its page.
PaginationEndsFirst ==
    ~page.open => pageCalls \cap {PageCall("paginated"), PageCall("reachedStart")} = {}
=============================================================================
