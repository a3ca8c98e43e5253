------------------------------ MODULE RoomList ------------------------------
(* One room list from the native client to the screen: the task that           *)
(* watch_room_list spawns (Rust) turns the SDK's entries into batches of       *)
(* diffs, a stream carries them, and RoomListController (Dart) applies them.   *)
(* The generated bridge runs native calls on a pool of threads, so two of them *)
(* may arrive in either order.                                                  *)
(*                                                                              *)
(* The SDK is external: its sorted and filtered entries, the rooms it knows    *)
(* and the push rules it syncs. One pass of the task's select! is one action;  *)
(* of a room's summary only its id and its notification mode are kept.         *)
EXTENDS DiffList, FiniteSets

CONSTANTS
    Rooms,              \* the rooms of the account
    PageSize,           \* PAGE_SIZE
    MaxRoomChanges      \* bound: what users, other devices and the server change

ASSUME RoomListAssumption == PageSize \in Nat \ {0} /\ IsFiniteSet(Rooms)

VARIABLES
    room,       \* SDK: membership, push rule and cached mode of each room
    recent,     \* SDK: the rooms, most recent activity first
    owed,       \* SDK: what a sync still brings: rooms left here, push rules
    entries,    \* SDK: the dynamic entries stream of the task
    watch,      \* RoomListWatch and the locals of its task
    listCalls,  \* calls of ChatClient at work
    sink,       \* batches under way to Dart
    list,       \* RoomListController: rooms, filter, open
    raced,      \* history: a mode cached, or a filter sent, out of order
    roomChanges

roomsVars == <<room, recent, owed, entries, watch, listCalls, sink, list, raced,
               roomChanges>>

Memberships == {"invited", "joined", "left"}
Modes == {"all", "mute"}
RoomFilters == {"all", "invites"}
Orders == {s \in [1 .. Cardinality(Rooms) -> Rooms] : IsInjective(s)}

RoomCall(kind, id, value) == [kind |-> kind, id |-> id, value |-> value]
NoRoom == "none"

RoomsInit ==
    /\ room \in [Rooms -> [membership : Memberships, rule : {"all"}, cached : {"all"}]]
    /\ recent \in Orders
    /\ owed = [left |-> {}, rules |-> FALSE]
    /\ entries = [sorted |-> <<>>, dirty |-> {}, reset |-> FALSE]
    /\ watch = [task |-> "none", registered |-> FALSE, filter |-> "all", limit |-> PageSize,
                visible |-> <<>>, changed |-> FALSE, left |-> FALSE, commands |-> <<>>]
    /\ listCalls = {RoomCall("watch", NoRoom, "")}
    /\ sink = <<>>
    /\ list = [rooms |-> <<>>, filter |-> "all", open |-> TRUE]
    /\ raced = [modes |-> {}, filter |-> FALSE]
    /\ roomChanges = 0

-----------------------------------------------------------------------------
(* Diffs and summaries.                                                         *)

\* Only stored room data; the other fields follow the same way.
Summarize(r) == [id |-> r, mode |-> room[r].cached]
SummarizeAll(s) == [i \in DOMAIN s |-> Summarize(s[i])]
MapRoomDiff(d) == [d EXCEPT !.values = SummarizeAll(@)]

Ids(rooms) == [i \in DOMAIN rooms |-> rooms[i].id]
Position(s, r) == CHOOSE i \in DOMAIN s : s[i] = r
FirstOf(s, n) == SubSeq(s, 1, IF n < Len(s) THEN n ELSE Len(s))
Without(s, r) == IF Contains(s, r) THEN RemoveAt(s, Position(s, r)) ELSE s

\* The SDK's diffs for the change of one room between two lists: the room goes
\* (and the next one becomes visible), comes (and the last one has to go),
\* moves, or changes where it is. At an end it may name the end or the place.
Leaves(from, r) ==
    LET i == Position(from, r) IN
    {Diff("remove", i - 1, <<>>)} \cup {Diff("popFront", 0, <<>>) : k \in {1} \cap {i}}
        \cup {Diff("popBack", 0, <<>>) : k \in {Len(from)} \cap {i}}

Enters(to, r) ==
    LET i == Position(to, r) IN
    {Diff("insert", i - 1, <<r>>)} \cup {Diff("pushFront", 0, <<r>>) : k \in {1} \cap {i}}
        \cup {Diff("pushBack", 0, <<r>>) : k \in {Len(to)} \cap {i}}

SdkDiffs(from, to, r) ==
    LET was == Contains(from, r)  is == Contains(to, r) IN
    CASE was /\ is /\ Position(from, r) = Position(to, r) ->
            {<<Diff("set", Position(to, r) - 1, <<r>>)>>}
      [] was /\ is /\ Position(from, r) # Position(to, r) ->
            {<<g, c>> : g \in Leaves(from, r), c \in Enters(to, r)}
      [] was /\ ~is /\ Len(to) < Len(from) -> {<<g>> : g \in Leaves(from, r)}
      [] was /\ ~is /\ Len(to) = Len(from) ->
            {<<g, Diff("pushBack", 0, <<Last(to)>>)>> : g \in Leaves(from, r)}
      [] ~was /\ is /\ Len(to) > Len(from) -> {<<c>> : c \in Enters(to, r)}
      [] ~was /\ is /\ Len(to) = Len(from) ->
            {<<Diff("popBack", 0, <<>>), c>> : c \in Enters(to, r)}
      [] OTHER -> {<<>>}

Send(batch) == sink' = IF list.open THEN Append(sink, batch) ELSE sink
Emit(diffs) == Send([i \in DOMAIN diffs |-> MapRoomDiff(diffs[i])])

-----------------------------------------------------------------------------
(* The task.                                                                    *)

Running == watch.task = "running"

\* not_left on the live state of the room, then the category of the filter.
NotLeft(r) == room[r].membership # "left"
FilterFor(filter, r) == NotLeft(r) /\ (filter = "invites" => room[r].membership = "invited")

\* The SDK's entries of a filter, most recent first.
Matching(filter) ==
    LET chosen[n \in 0 .. Len(recent)] ==
            IF n = 0 THEN <<>>
            ELSE IF FilterFor(filter, recent[n]) THEN Append(chosen[n - 1], recent[n])
            ELSE chosen[n - 1]
    IN  chosen[Len(recent)]

\* Where the SDK puts a room: before the first one that is less recent.
Before(r, q) == Position(recent, r) < Position(recent, q)
Placed(s, r) ==
    LET others == Without(s, r)
        later == {i \in DOMAIN others : Before(r, others[i])}
        at == IF later = {} THEN Len(others) + 1
              ELSE CHOOSE i \in later : \A j \in later : i <= j
    IN  InsertAt(others, at, r)

Target(sorted) == FirstOf(sorted, watch.limit)
Grown == watch.visible # Target(entries.sorted)

\* Subscribes to settings and room updates, then opens the entries.
TaskStarts ==
    /\ watch.task = "spawned"
    /\ \/ watch' = [watch EXCEPT !.task = "running"] /\ entries' = [entries EXCEPT !.reset = TRUE]
       \/ watch' = [watch EXCEPT !.task = "ended"] /\ UNCHANGED entries
    /\ UNCHANGED <<room, recent, owed, listCalls, sink, list, raced, roomChanges>>

\* stream.next() after set_filter: the entries begin anew.
PollReset ==
    /\ Running /\ entries.reset
    /\ LET sorted == Matching(watch.filter) IN
       /\ entries' = [sorted |-> sorted, dirty |-> {}, reset |-> FALSE]
       /\ watch' = [watch EXCEPT !.visible = Target(sorted)]
       /\ Emit(<<Diff("reset", 0, Target(sorted))>>)
    /\ UNCHANGED <<room, recent, owed, listCalls, list, raced, roomChanges>>

\* stream.next() after add_one_page.
PollGrown ==
    /\ Running /\ ~entries.reset /\ Grown
    /\ LET more == SubSeq(Target(entries.sorted), Len(watch.visible) + 1,
                          Len(Target(entries.sorted)))
       IN  Emit(<<Diff("append", 0, more)>>)
    /\ watch' = [watch EXCEPT !.visible = Target(entries.sorted)]
    /\ UNCHANGED <<room, recent, owed, entries, listCalls, list, raced,
                   roomChanges>>

\* stream.next() after a sync has changed a room.
PollUpdate(r) ==
    /\ Running /\ ~entries.reset /\ ~Grown /\ r \in entries.dirty
    /\ LET sorted == IF FilterFor(watch.filter, r) THEN Placed(entries.sorted, r)
                     ELSE Without(entries.sorted, r)
       IN  /\ entries' = [entries EXCEPT !.sorted = sorted, !.dirty = @ \ {r}]
           /\ watch' = [watch EXCEPT !.visible = Target(sorted)]
           /\ \E diffs \in SdkDiffs(watch.visible, Target(sorted), r) :
                 IF diffs = <<>> THEN UNCHANGED sink ELSE Emit(diffs)
    /\ UNCHANGED <<room, recent, owed, listCalls, list, raced, roomChanges>>

\* settings_changes.recv(): refreshes the modes and sends the visible rooms again.
Refreshed == [r \in Rooms |-> IF Contains(watch.visible, r)
                              THEN [room[r] EXCEPT !.cached = room[r].rule] ELSE room[r]]

\* Mutant of RefreshModes: the rooms are refreshed and not sent.
RefreshModesSilently ==
    /\ Running /\ watch.changed
    /\ watch' = [watch EXCEPT !.changed = FALSE]
    /\ room' = Refreshed
    /\ UNCHANGED <<recent, owed, entries, listCalls, sink, list, raced,
                   roomChanges>>

RefreshModes ==
    /\ Running /\ watch.changed
    /\ watch' = [watch EXCEPT !.changed = FALSE]
    /\ room' = Refreshed
    /\ Send(<<Diff("reset", 0, [i \in DOMAIN watch.visible |->
                [id |-> watch.visible[i], mode |-> Refreshed[watch.visible[i]].cached]])>>)
    /\ raced' = [raced EXCEPT !.modes = @ \ Range(watch.visible)]
    /\ UNCHANGED <<recent, owed, entries, listCalls, list, roomChanges>>

Filtering == entries' = [entries EXCEPT !.reset = TRUE]

\* Mutant of RoomUpdate: the entries are left to the SDK.
RoomUpdateIgnored ==
    /\ Running /\ watch.left
    /\ watch' = [watch EXCEPT !.left = FALSE]
    /\ UNCHANGED <<room, recent, owed, entries, listCalls, sink, list, raced,
                   roomChanges>>

\* room_updates.recv(): rooms were left, or updates were lost.
RoomUpdate ==
    /\ Running /\ watch.left
    /\ watch' = [watch EXCEPT !.left = FALSE]
    /\ Filtering
    /\ UNCHANGED <<room, recent, owed, listCalls, sink, list, raced, roomChanges>>

\* command_receiver.recv()
Command ==
    /\ Running /\ watch.commands # <<>>
    /\ LET command == Head(watch.commands)
           rest == [watch EXCEPT !.commands = Tail(@)]
       IN  IF command = "loadMore"
           THEN /\ watch' = [rest EXCEPT !.limit = @ + PageSize]
                /\ UNCHANGED entries
           ELSE /\ watch' = IF command = "refilter" THEN rest ELSE [rest EXCEPT !.filter = command]
                /\ Filtering
    /\ UNCHANGED <<room, recent, owed, listCalls, sink, list, raced, roomChanges>>

\* A batch for a list whose stream Dart has cancelled: sink.add fails. What
\* brings it, a sync, may come at any time.
SinkClosed ==
    /\ Running /\ ~list.open /\ RoomCall("stop", NoRoom, "") \notin listCalls
    /\ watch' = [watch EXCEPT !.task = "ended"]
    /\ UNCHANGED <<room, recent, owed, entries, listCalls, sink, list, raced,
                   roomChanges>>

-----------------------------------------------------------------------------
(* Calls of ChatClient.                                                         *)

Takes(call) == call \in listCalls /\ listCalls' = listCalls \ {call}

\* watch_room_list: spawns the task, then enters it under its id.
ListSpawns ==
    /\ RoomCall("watch", NoRoom, "") \in listCalls /\ watch.task = "none"
    /\ watch' = [watch EXCEPT !.task = "spawned"]
    /\ UNCHANGED <<room, recent, owed, entries, listCalls, sink, list, raced,
                   roomChanges>>

ListRegisters ==
    /\ watch.task # "none" /\ Takes(RoomCall("watch", NoRoom, ""))
    /\ watch' = [watch EXCEPT !.registered = TRUE]
    /\ UNCHANGED <<room, recent, owed, entries, sink, list, raced, roomChanges>>

AbortedList ==
    IF watch.registered THEN [watch EXCEPT !.registered = FALSE, !.task = "aborted"] ELSE watch

\* stop_room_list; the stream has ended for Dart, which cancels it.
StopRoomList ==
    /\ Takes(RoomCall("stop", NoRoom, ""))
    /\ watch' = AbortedList
    /\ sink' = <<>>
    /\ UNCHANGED <<room, recent, owed, entries, list, raced, roomChanges>>

\* send_room_command: fails without a watch or after its task has ended.
Listening == watch.registered /\ watch.task # "ended"
Told(command) == IF Listening THEN [watch EXCEPT !.commands = Append(@, command)] ELSE watch

\* Told apart: the only call of its kind, or one another may overtake.
FilterCalls == {c \in listCalls : c.kind = "filter"}
FilterSent(filter) ==
    /\ Takes(RoomCall("filter", NoRoom, filter))
    /\ watch' = Told(filter)
    /\ raced' = [raced EXCEPT !.filter = @ \/ ~Listening]
    /\ UNCHANGED <<room, recent, owed, entries, sink, list, roomChanges>>

\* load_more_rooms
MoreSent ==
    /\ Takes(RoomCall("more", NoRoom, ""))
    /\ watch' = Told("loadMore")
    /\ UNCHANGED <<room, recent, owed, entries, sink, list, raced, roomChanges>>

\* refilter_room_lists, after leave_room has left the room.
Refilter(r) ==
    /\ Takes(RoomCall("leave", r, ""))
    /\ watch' = Told("refilter")
    /\ UNCHANGED <<room, recent, owed, entries, sink, list, raced, roomChanges>>

\* set_room_notification_mode, after the settings have set the rule. A sync that
\* has already brought the rules back is not repeated.
ModeCached(r, mode) ==
    /\ Takes(RoomCall("mode", r, mode))
    /\ room' = [room EXCEPT ![r].cached = mode]
    /\ raced' = [raced EXCEPT !.modes = IF room[r].rule # mode THEN @ \cup {r} ELSE @]
    /\ UNCHANGED <<recent, owed, entries, watch, sink, list, roomChanges>>

-----------------------------------------------------------------------------
(* What the user does; every call of it goes its own way to the native side.   *)

Changes == roomChanges < MaxRoomChanges /\ roomChanges' = roomChanges + 1
Calls(call) == call \notin listCalls /\ listCalls' = listCalls \cup {call}

\* RoomListController.setFilter
SetFilter(filter) ==
    /\ list.open /\ Changes /\ Calls(RoomCall("filter", NoRoom, filter))
    /\ list' = [list EXCEPT !.filter = filter]
    /\ raced' = [raced EXCEPT !.filter = FilterCalls # {}]
    /\ UNCHANGED <<room, recent, owed, entries, watch, sink>>

\* RoomListController.loadMore
LoadMore ==
    /\ list.open /\ Changes /\ Calls(RoomCall("more", NoRoom, ""))
    /\ UNCHANGED <<room, recent, owed, entries, watch, sink, list, raced>>

\* RoomListController.dispose
DisposeList ==
    /\ list.open /\ Calls(RoomCall("stop", NoRoom, ""))
    /\ list' = [list EXCEPT !.open = FALSE]
    /\ UNCHANGED <<room, recent, owed, entries, watch, sink, raced, roomChanges>>

\* A batch arrives at RoomListController.
Deliver ==
    /\ list.open /\ sink # <<>>
    /\ list' = [list EXCEPT !.rooms = ApplyDiffs(@, Head(sink))]
    /\ sink' = Tail(sink)
    /\ UNCHANGED <<room, recent, owed, entries, watch, listCalls, raced,
                   roomChanges>>

\* leave_room has left: the SDK updates the room but not its entries, and the
\* sync reports the room later.
LeaveRoom(r) ==
    /\ NotLeft(r) /\ Changes /\ Calls(RoomCall("leave", r, ""))
    /\ room' = [room EXCEPT ![r].membership = "left"]
    /\ owed' = [owed EXCEPT !.left = @ \cup {r}]
    /\ UNCHANGED <<recent, entries, watch, sink, list, raced>>

\* set_room_notification_mode has set the rule; the sync brings the rules back.
SetMode(r, mode) ==
    /\ NotLeft(r) /\ room[r].rule # mode /\ Changes /\ Calls(RoomCall("mode", r, mode))
    /\ room' = [room EXCEPT ![r].rule = mode]
    /\ owed' = [owed EXCEPT !.rules = TRUE]
    /\ UNCHANGED <<recent, entries, watch, sink, list, raced>>

-----------------------------------------------------------------------------
(* What a sync brings. A task that is not subscribed yet learns nothing.       *)

Dirty(r) == entries' = [entries EXCEPT !.dirty = IF Running THEN @ \cup {r} ELSE @]
Hears(flag) == watch' = [watch EXCEPT ![flag] = @ \/ Running]

SyncActivity(r) ==
    /\ NotLeft(r) /\ Changes /\ Dirty(r)
    /\ recent' = <<r>> \o Without(recent, r)
    /\ UNCHANGED <<room, owed, watch, listCalls, sink, list, raced>>

SyncMembership(r, membership) ==
    /\ room[r].membership # membership /\ r \notin owed.left /\ Changes
    /\ room' = [room EXCEPT ![r].membership = membership]
    /\ IF membership = "left" THEN Hears("left") /\ UNCHANGED entries
                              ELSE Dirty(r) /\ UNCHANGED watch
    /\ UNCHANGED <<recent, owed, listCalls, sink, list, raced>>

SyncLeft(r) ==
    /\ r \in owed.left
    /\ owed' = [owed EXCEPT !.left = @ \ {r}]
    /\ Hears("left")
    /\ UNCHANGED <<room, recent, entries, listCalls, sink, list, raced,
                   roomChanges>>

\* Another device has set the rule of a room.
SyncRule(r, mode) ==
    /\ room[r].rule # mode /\ Changes
    /\ room' = [room EXCEPT ![r].rule = mode]
    /\ owed' = [owed EXCEPT !.rules = TRUE]
    /\ UNCHANGED <<recent, entries, watch, listCalls, sink, list, raced>>

\* The rules of the server arrive; the SDK may or may not refresh the modes it
\* has cached.
SyncRules ==
    /\ owed.rules
    /\ owed' = [owed EXCEPT !.rules = FALSE]
    /\ \E refreshed \in {{}, Rooms} :
          room' = [r \in Rooms |-> IF r \in refreshed
                                   THEN [room[r] EXCEPT !.cached = room[r].rule] ELSE room[r]]
    /\ raced' = [raced EXCEPT !.modes = {r \in Rooms : room'[r].cached # room[r].rule}]
    /\ Hears("changed")
    /\ UNCHANGED <<recent, entries, listCalls, sink, list, roomChanges>>

\* stop_room_lists, when the client shuts down.
StopRoomLists ==
    /\ watch.registered
    /\ watch' = AbortedList
    /\ UNCHANGED <<room, recent, owed, entries, listCalls, sink, list, raced,
                   roomChanges>>

TaskSteps ==
    \/ TaskStarts \/ PollReset \/ PollGrown \/ RefreshModes \/ RoomUpdate \/ Command
    \/ SinkClosed
    \/ \E r \in Rooms : PollUpdate(r)

CallSteps ==
    \/ ListSpawns \/ ListRegisters \/ StopRoomList \/ StopRoomLists \/ MoreSent
    \/ \E f \in RoomFilters : FilterSent(f)
    \/ \E r \in Rooms : Refilter(r) \/ \E m \in Modes : ModeCached(r, m)

UserSteps ==
    \/ LoadMore \/ DisposeList \/ Deliver
    \/ \E f \in RoomFilters : SetFilter(f)
    \/ \E r \in Rooms : LeaveRoom(r) \/ \E m \in Modes : SetMode(r, m)

SyncSteps ==
    \/ SyncRules
    \/ \E r \in Rooms :
          \/ SyncActivity(r) \/ SyncLeft(r)
          \/ \E m \in Memberships : SyncMembership(r, m)
          \/ \E m \in Modes : SyncRule(r, m)

RoomsNext == TaskSteps \/ CallSteps \/ UserSteps \/ SyncSteps

RoomsSpec == RoomsInit /\ [][RoomsNext]_roomsVars

-----------------------------------------------------------------------------
(* Properties.                                                                  *)

\* The rooms and their order in the controller are, once the batches under way
\* have been applied, those the native task mirrors (room_list_controller.dart
\* line 34, rooms.rs line 159): no diff is lost, doubled or put one place off.
ListAgrees ==
    list.open => Ids(Arrived(list.rooms, sink)) = watch.visible

\* Nothing is under way: no call, command, news or batch.
RoomsSettled ==
    /\ Running /\ list.open /\ listCalls = {} /\ sink = <<>> /\ watch.commands = <<>>
    /\ ~watch.changed /\ ~watch.left /\ owed = [left |-> {}, rules |-> FALSE]
    /\ ~entries.reset /\ entries.dirty = {} /\ ~Grown

\* A list at rest shows the most recent rooms of the filter its page shows, and
\* no room that was left here or elsewhere, though leaving changes no entry of
\* the SDK (rooms.rs lines 134 and 257); unless two choices of a filter
\* overlapped or one was made before the watch was there.
SettledListShown ==
    RoomsSettled /\ ~raced.filter =>
        Ids(list.rooms) = FirstOf(Matching(list.filter), watch.limit)

\* A list at rest shows the notification mode the push rules give its rooms,
\* whoever set it (rooms.rs line 121); unless a call cached its mode after a
\* later rule had come, or the rule came while the room was not visible.
ModesShown ==
    RoomsSettled => \A i \in DOMAIN list.rooms :
        list.rooms[i].id \in raced.modes \/ list.rooms[i].mode = room[list.rooms[i].id].rule

\* Refuted: the filter is in force even if another was chosen quickly before or
\* it was chosen at once.
FilterShown == RoomsSettled => watch.filter = list.filter

\* Refuted: a list that was disposed of leaves no task behind; it does if
\* stop_room_list overtakes watch_room_list, until it finds its stream closed.
NoOrphan == ~list.open /\ listCalls = {} => watch.task \in {"none", "aborted", "ended"}

\* Refuted: no mode stays wrong.
ModesNeverRaced == RoomsSettled => raced.modes = {}
=============================================================================
