---------------------------- MODULE ChatConnector ----------------------------
(***************************************************************************)
(* ChatConnector of packages/ngotools_chat_module: signs the installation  *)
(* into the chat with a session NGO.Tools issues, renews its token, reacts *)
(* to withdrawn access and removes everything on disconnect.               *)
(*                                                                         *)
(* The connector runs its calls one after the other (_serial).  An action  *)
(* is the code of the running call between two awaits, taking the outcome  *)
(* of the awaited call.  Between them come timers, reports of the chat     *)
(* client, more calls, close(), time and the server.                       *)
(***************************************************************************)
EXTENDS Naturals, Sequences

CONSTANTS
  Accounts,     \* a Matrix user id on its homeserver
  NoAccount,
  MaxSessions,  \* bound: chat sessions issued
  MaxQueue,     \* bound: calls waiting
  MaxFaults,    \* bound: failing keychain and file system calls
  MaxCrashes    \* bound: times the app is killed

ASSUME ConnectorAssumption ==
  /\ NoAccount \notin Accounts
  /\ {MaxSessions, MaxQueue, MaxFaults, MaxCrashes} \subseteq Nat

\* A chat session, with the device it is bound to.
Session   == [account : Accounts, device : 1..MaxSessions]
NoSession == [account |-> NoAccount, device |-> 0]

\* The encrypted stores of a client that has not signed in yet.
Blank     == [account |-> NoAccount, device |-> MaxSessions + 1]

\* ChatDeviceRecord; its expiry is `due`.
Record    == [session : Session, prompted : BOOLEAN]
NoRecord  == [session |-> NoSession, prompted |-> FALSE]

VARIABLES
  \* the connector
  state,     \* the ChatConnectionState
  chat,      \* _client and what goes with it
  record,    \* _record
  queue,     \* calls waiting for the ones before
  call,      \* the running call
  closing,   \* close(): "no", "waiting" or "closed"
  ahead,     \* calls close() still waits for
  \* the device
  open,      \* a native client runs
  sync,      \* its sync service: "none", "running" or "stopped"
  store,     \* whose session the encrypted stores hold
  key,       \* the store key is in the keychain
  disk,      \* the record in the keychain
  due,       \* the recorded expiry is near
  \* the server
  server,    \* the chat session of the app's API token
  issued,    \* number of sessions issued
  \* history, read by no guard but the bounds
  ended,     \* disconnect ended the chat and nothing was called since
  undeleted, \* deleting the session on the server failed
  faults, crashes

calls     == <<queue, call, closing, ahead>>
native    == <<open, sync>>
device    == <<store, key, disk, due>>
remote    == <<server, issued>>
history   == <<ended, undeleted, faults, crashes>>
vars == <<state, chat, record, calls, native, device, remote, history>>

Operations == {"connect", "refresh", "disconnect", "mark"}

\* _client ("none", or the session state it reports), _syncing, whether
\* _unwatch is set, and _renewal, the scheduled renewal or retry.
Chat == [client : {"none", "signedOut", "active", "expired", "locked"},
         syncing : BOOLEAN, watching : BOOLEAN,
         timer : {"none", "renewal", "retry"}]

NoChat ==
  [client |-> "none", syncing |-> FALSE, watching |-> FALSE, timer |-> "none"]

\* What the running call waits for.
Awaits == {"idle", "account", "read", "key", "open", "restore", "create",
           "signIn", "write", "renew", "update", "rewrite", "sync", "delete",
           "mark", "dispose", "purge", "clearRecord", "clearKey"}

\* What follows once the client is closed and, for all but the last, the
\* stores are purged: sign in, purge again and sign in, two ways to withdrawn
\* access, connect again, disconnected; homeserver unavailable.
Afters == {"none", "create", "again", "withdrawn", "refused", "reconnect",
           "disconnected", "homeserver"}

Call == [op : Operations \cup {"none"}, at : Awaits, after : Afters,
         account : Accounts \cup {NoAccount},
         record : Record \cup {NoRecord}, session : Session \cup {NoSession}]

Running(op, at) ==
  [op |-> op, at |-> at, after |-> "none", account |-> NoAccount,
   record |-> NoRecord, session |-> NoSession]

Idle == Running("none", "idle")

TypeOK ==
  /\ state \in {"disconnected", "connecting", "connected", "homeserver",
                "withdrawn", "failed"}
  /\ chat \in Chat
  /\ record \in Record \cup {NoRecord}
  /\ queue \in Seq(Operations)
  /\ call \in Call
  /\ closing \in {"no", "waiting", "closed"} /\ ahead \in Nat
  /\ open \in BOOLEAN /\ sync \in {"none", "running", "stopped"}
  /\ store \in Session \cup {NoSession, Blank}
  /\ key \in BOOLEAN /\ due \in BOOLEAN
  /\ disk \in Record \cup {NoRecord}
  /\ server \in Session \cup {NoSession}
  /\ issued \in 0..MaxSessions
  /\ ended \in BOOLEAN /\ undeleted \in BOOLEAN
  /\ faults \in Nat /\ crashes \in Nat

Init ==
  /\ state = "disconnected" /\ chat = NoChat /\ record = NoRecord
  /\ queue = <<>> /\ call = Idle /\ closing = "no" /\ ahead = 0
  /\ open = FALSE /\ sync = "none"
  /\ store = NoSession /\ key = FALSE /\ disk = NoRecord /\ due = FALSE
  /\ server = NoSession /\ issued = 0
  /\ ended = FALSE /\ undeleted = FALSE
  /\ faults = 0 /\ crashes = 0

-----------------------------------------------------------------------------
(* Parts of calls.                                                         *)

At(at) == call.at = at

Await(at) == call' = [call EXCEPT !.at = at]

\* The call returns, and the next one may start.
Done ==
  /\ call' = Idle
  /\ ahead' = IF ahead > 0 THEN ahead - 1 ELSE 0

\* _emit
Emit(s) == state' = IF closing = "closed" THEN state ELSE s

Finish(s) == Done /\ Emit(s)

\* Mutant of CloseThen: the stores are purged under the running client.
PurgeOpen(c, after) ==
  /\ call' = [c EXCEPT !.at = "purge", !.after = after]
  /\ UNCHANGED <<state, chat, record, ahead>>

\* _closeClient up to its await; then c goes on as `after` says, most often
\* with the rest of _purge.
CloseThen(c, after) ==
  /\ chat' = NoChat
  /\ call' = [c EXCEPT !.at = "dispose", !.after = after,
                       !.session = NoSession, !.record = NoRecord]
  /\ UNCHANGED <<state, record, ahead>>

\* Mutant of Throw: a failed refresh is not tried again.
ThrowUnretried ==
  /\ Done
  /\ IF call.op = "connect" THEN Emit("failed") ELSE UNCHANGED state
  /\ UNCHANGED chat

\* What a call does with an exception other than a refusal.
Throw ==
  /\ Done
  /\ CASE call.op = "connect" -> Emit("failed") /\ UNCHANGED chat
       [] call.op = "refresh" ->
            /\ chat' = [chat EXCEPT !.timer = "retry"]
            /\ IF chat.client = "expired" THEN Emit("failed")
                                          ELSE UNCHANGED state
       [] OTHER -> UNCHANGED <<state, chat>>

\* _run: start syncing; then watch the client, schedule the renewal, emit.
SyncOrRun(c) ==
  IF ~chat.syncing
    THEN call' = [c EXCEPT !.at = "sync"] /\ UNCHANGED <<state, chat, ahead>>
    ELSE /\ chat' = [chat EXCEPT !.watching = TRUE, !.timer = "renewal"]
         /\ Finish("connected")

\* The end of _connect once a client is signed in: renew if due, then run.
RenewOrRun(c) ==
  IF due \/ chat.client = "expired"
    THEN call' = [c EXCEPT !.at = "renew"] /\ UNCHANGED <<state, chat, ahead>>
    ELSE SyncOrRun(c)

\* Mutant of UseRecord: the record of another account is used like one's own.
UseRecordOfAnyone(c, r) ==
  \/ r = NoRecord /\ CloseThen(c, "create")
  \/ /\ r # NoRecord /\ chat.client = "none"
     /\ call' = [c EXCEPT !.at = "key", !.record = r]
     /\ UNCHANGED <<state, chat, record, ahead>>
  \/ /\ r # NoRecord /\ chat.client # "none"
     /\ record' = r
     /\ RenewOrRun(c)

\* _connect with account c.account and the record r of this device.
UseRecord(c, r) ==
  \/ r = NoRecord /\ CloseThen(c, "create")
  \/ r # NoRecord /\ r.session.account # c.account /\ CloseThen(c, "again")
  \/ /\ r # NoRecord /\ r.session.account = c.account /\ chat.client = "none"
     /\ call' = [c EXCEPT !.at = "key", !.record = r]
     /\ UNCHANGED <<state, chat, record, ahead>>
  \/ /\ r # NoRecord /\ r.session.account = c.account /\ chat.client # "none"
     /\ record' = r
     /\ RenewOrRun(c)

-----------------------------------------------------------------------------
(* The queue, and the start of each call.                                  *)

Enqueue(op) ==
  /\ Len(queue) < MaxQueue
  /\ queue' = Append(queue, op)

\* connect(), refresh(), disconnect(), markRecoveryPromptSeen()
Request(op) ==
  /\ closing # "closed"
  /\ Enqueue(op)
  /\ ended' = FALSE
  /\ UNCHANGED <<state, chat, record, call, closing, ahead, native, device,
                 remote, undeleted, faults, crashes>>

StartConnect ==
  /\ call' = Running("connect", "account")
  /\ state' = "connecting"
  /\ UNCHANGED <<chat, record, ahead>>

\* refresh() does nothing without a session, or while its token is good.
StartRefresh ==
  /\ IF /\ chat.client # "none" /\ record # NoRecord
        /\ due \/ chat.client = "expired"
       THEN call' = Running("refresh", "renew") /\ UNCHANGED ahead
       ELSE Done
  /\ UNCHANGED <<state, chat, record>>

StartDisconnect ==
  /\ call' = Running("disconnect",
                     IF record = NoRecord THEN "read" ELSE "delete")
  /\ UNCHANGED <<state, chat, record, ahead>>

StartMark ==
  /\ IF record = NoRecord \/ record.prompted
       THEN Done /\ UNCHANGED record
       ELSE /\ record' = [record EXCEPT !.prompted = TRUE]
            /\ call' = Running("mark", "mark")
            /\ UNCHANGED ahead
  /\ UNCHANGED <<state, chat>>

\* `isClosed ? null : operation()`
Skip == Done /\ UNCHANGED <<state, chat, record>>

\* _serial: the first call in the queue starts.
Start ==
  /\ At("idle") /\ queue # <<>>
  /\ queue' = Tail(queue)
  /\ LET op == Head(queue) IN
       \/ closing = "closed" /\ Skip
       \/ closing # "closed" /\ op = "connect" /\ StartConnect
       \/ closing # "closed" /\ op = "refresh" /\ StartRefresh
       \/ closing # "closed" /\ op = "disconnect" /\ StartDisconnect
       \/ closing # "closed" /\ op = "mark" /\ StartMark
  /\ UNCHANGED <<closing, native, device, remote, history>>

-----------------------------------------------------------------------------
(* Answers of the API.                                                     *)

AccountActive(a) ==
  /\ At("account")
  /\ LET c == [call EXCEPT !.account = a] IN
       IF record # NoRecord
         THEN UseRecord(c, record)
         ELSE /\ call' = [c EXCEPT !.at = "read"]
              /\ UNCHANGED <<state, chat, record, ahead>>
  /\ UNCHANGED <<remote, undeleted>>

\* The account is locked, closed or missing.
AccountInactive ==
  /\ At("account")
  /\ CloseThen(call, "withdrawn")
  /\ UNCHANGED <<remote, undeleted>>

\* The homeserver does not run: told by the account, or by a refusal.
HomeserverUnavailable ==
  /\ call.at \in {"account", "create", "renew"}
  /\ CloseThen(call, "homeserver")
  /\ UNCHANGED <<remote, undeleted>>

\* createChatSession revokes an earlier session.  Its answer may be lost.
Created ==
  /\ At("create")
  /\ issued < MaxSessions
  /\ issued' = issued + 1
  /\ server' = [account |-> call.account, device |-> issued + 1]
  /\ \/ /\ call' = [call EXCEPT !.at = "key", !.session = server']
        /\ UNCHANGED <<state, chat, ahead>>
     \/ Throw
  /\ UNCHANGED <<record, undeleted>>

\* The server renews the session it has; without a client the code fails on
\* `_client!`.
Renewed ==
  /\ At("renew")
  /\ server # NoSession
  /\ IF chat.client # "none"
       THEN /\ call' = [call EXCEPT !.at = "update", !.session = server]
            /\ UNCHANGED <<state, chat, ahead>>
       ELSE Throw
  /\ UNCHANGED <<record, remote, undeleted>>

\* Mutant of SessionUnknown: signs in without purging the device.
SessionUnknownUnpurged ==
  /\ At("renew")
  /\ server = NoSession
  /\ call' = [Running("connect", "create")
               EXCEPT !.account = record.session.account]
  /\ UNCHANGED <<state, chat, record, ahead, remote, undeleted>>

\* no_chat_session
SessionUnknown ==
  /\ At("renew")
  /\ server = NoSession
  /\ CloseThen(call, "reconnect")
  /\ UNCHANGED <<remote, undeleted>>

\* no_chat_access
AccessRefused ==
  /\ call.at \in {"create", "renew"}
  /\ CloseThen(call, "refused")
  /\ UNCHANGED <<remote, undeleted>>

\* Any other refusal; unlike a missing answer it fails a refresh too.
OtherRefusal ==
  /\ call.at \in {"account", "create", "renew"}
  /\ Finish("failed")
  /\ UNCHANGED <<chat, record, remote, undeleted>>

\* No answer from the API, or an error of the chat client.
CallFails ==
  /\ call.at \in {"account", "create", "renew", "open", "restore", "signIn",
                  "update", "sync"}
  /\ Throw
  /\ UNCHANGED <<record, remote, undeleted>>

\* deleteChatSession, whose failure is ignored.
SessionDeleted ==
  /\ At("delete")
  /\ \/ server' = NoSession /\ UNCHANGED undeleted
     \/ undeleted' = TRUE /\ UNCHANGED server
  /\ CloseThen(call, "disconnected")
  /\ UNCHANGED issued

ApiAnswers ==
  /\ \/ \E a \in Accounts : AccountActive(a)
     \/ AccountInactive \/ HomeserverUnavailable \/ Created \/ Renewed
     \/ SessionUnknown \/ AccessRefused \/ OtherRefusal \/ CallFails
     \/ SessionDeleted
  /\ UNCHANGED <<queue, closing, native, device, ended, faults, crashes>>

-----------------------------------------------------------------------------
(* Answers of the keychain, the chat client and the file system.           *)

RecordRead ==
  /\ At("read")
  /\ \/ call.op = "connect" /\ UseRecord(call, disk)
     \/ /\ call.op = "disconnect" /\ disk = NoRecord
        /\ CloseThen(call, "disconnected")
     \/ /\ call.op = "disconnect" /\ disk # NoRecord
        /\ Await("delete")
        /\ UNCHANGED <<state, chat, record, ahead>>
  /\ UNCHANGED <<native, device>>

KeyRead ==
  /\ At("key")
  /\ key' = TRUE
  /\ Await("open")
  /\ UNCHANGED <<state, chat, record, ahead, native, store, disk, due>>

Opened ==
  /\ At("open")
  /\ open' = TRUE
  /\ chat' = [chat EXCEPT !.client = "signedOut"]
  /\ store' = IF store = NoSession THEN Blank ELSE store
  /\ Await(IF call.session = NoSession THEN "restore" ELSE "signIn")
  /\ UNCHANGED <<state, record, ahead, sync, key, disk, due>>

\* The native client, unless close() has taken it, reports an active session.
Activated ==
  chat' = IF chat.client = "none" THEN chat
                                  ELSE [chat EXCEPT !.client = "active"]

\* The stores hold a session of the recorded user, or the device starts afresh.
\* Without a client the code fails on `_client!`.
Restored ==
  /\ At("restore")
  /\ \/ store.account # call.record.session.account /\ CloseThen(call, "create")
     \/ /\ store.account = call.record.session.account
        /\ record' = call.record
        /\ \/ chat.client = "none" /\ Throw
           \/ /\ chat.client # "none"
              /\ Activated
              /\ Await(IF due THEN "renew" ELSE "sync")
              /\ UNCHANGED <<state, ahead>>
  /\ UNCHANGED <<native, device>>

SignedIn ==
  /\ At("signIn")
  /\ store' = call.session
  /\ Activated
  /\ Await("write")
  /\ UNCHANGED <<state, record, ahead, native, key, disk, due>>

\* Mutant of RecordWritten: the record is kept in memory only.
RecordUnwritten ==
  /\ At("write")
  /\ record' = [session |-> call.session, prompted |-> FALSE]
  /\ due' = FALSE
  /\ IF chat.client = "none" THEN Throw ELSE SyncOrRun(call)
  /\ UNCHANGED <<native, store, key, disk>>

RecordWritten ==
  /\ At("write")
  /\ disk' = [session |-> call.session, prompted |-> FALSE]
  /\ record' = disk'
  /\ due' = FALSE
  /\ IF chat.client = "none" THEN Throw ELSE SyncOrRun(call)
  /\ UNCHANGED <<native, store, key>>

\* A client that has not signed in has no token to replace (CallFails).
TokenUpdated ==
  /\ At("update")
  /\ chat.client # "signedOut"
  /\ Activated
  /\ Await("rewrite")
  /\ UNCHANGED <<state, record, ahead, native, device>>

\* The renewed expiry is stored: _connect goes on to run, _refresh is done.
RecordRewritten ==
  /\ At("rewrite")
  /\ disk' = record
  /\ due' = FALSE
  /\ \/ /\ call.op = "refresh"
        /\ chat' = [chat EXCEPT !.timer = "renewal"]
        /\ Finish("connected")
     \/ call.op = "connect" /\ chat.client # "none" /\ SyncOrRun(call)
     \/ call.op = "connect" /\ chat.client = "none" /\ Throw
  /\ UNCHANGED <<record, native, store, key>>

SyncStarted ==
  /\ At("sync")
  /\ sync' = "running"
  /\ chat' = [chat EXCEPT !.syncing = TRUE, !.watching = TRUE,
                          !.timer = "renewal"]
  /\ Finish("connected")
  /\ UNCHANGED <<record, open, device>>

MarkWritten ==
  /\ At("mark")
  /\ disk' = record
  /\ Done
  /\ UNCHANGED <<state, chat, record, native, store, key, due>>

\* Mutant of Disposed: the stores are not purged.
DisposedUnpurged ==
  /\ At("dispose")
  /\ open' = FALSE /\ sync' = "none"
  /\ IF call.after = "homeserver"
       THEN Finish("homeserver") /\ UNCHANGED record
       ELSE /\ Await("clearRecord") /\ record' = NoRecord
            /\ UNCHANGED <<state, ahead>>
  /\ UNCHANGED <<chat, device>>

Disposed ==
  /\ At("dispose")
  /\ open' = FALSE /\ sync' = "none"
  /\ IF call.after = "homeserver"
       THEN Finish("homeserver") /\ UNCHANGED record
       ELSE Await("purge") /\ record' = NoRecord /\ UNCHANGED <<state, ahead>>
  /\ UNCHANGED <<chat, device>>

\* _clients.purge(), then _devices.clear(): first the record, then the key.
StoresPurged ==
  /\ At("purge")
  /\ store' = NoSession
  /\ Await("clearRecord")
  /\ UNCHANGED <<state, chat, record, ahead, native, key, disk, due>>

RecordCleared ==
  /\ At("clearRecord")
  /\ disk' = NoRecord
  /\ Await("clearKey")
  /\ UNCHANGED <<state, chat, record, ahead, native, store, key, due>>

\* Mutant of KeyCleared: the old record is not forgotten after the purge.
KeyClearedAgain ==
  /\ At("clearKey")
  /\ key' = FALSE
  /\ call' = [call EXCEPT !.at = "dispose"]
  /\ UNCHANGED <<state, chat, ahead, record, native, store, disk, due>>

KeyCleared ==
  /\ At("clearKey")
  /\ key' = FALSE
  /\ \/ /\ call.after = "create"
        /\ Await("create")
        /\ UNCHANGED <<state, chat, ahead>>
     \/ /\ call.after = "again"
        /\ chat' = NoChat
        /\ call' = [call EXCEPT !.at = "dispose", !.after = "create"]
        /\ UNCHANGED <<state, ahead>>
     \/ /\ call.after = "reconnect"
        /\ call' = Running("connect", "account")
        /\ Emit("connecting")
        /\ UNCHANGED <<chat, ahead>>
     \/ /\ call.after \in {"withdrawn", "refused"}
        /\ Finish("withdrawn")
        /\ UNCHANGED chat
     \/ /\ call.after = "disconnected"
        /\ Finish("disconnected")
        /\ UNCHANGED chat
  /\ UNCHANGED <<record, native, store, disk, due>>

\* A failing keychain or file system call.  Nothing catches a purge that
\* fails while _handleRefusal or _disconnect runs it.
DeviceFails ==
  /\ call.at \in {"read", "key", "write", "rewrite", "mark", "purge",
                  "clearRecord", "clearKey"}
  /\ faults < MaxFaults
  /\ faults' = faults + 1
  /\ IF call.after \in {"refused", "reconnect", "disconnected"}
       THEN Done /\ UNCHANGED <<state, chat>>
       ELSE Throw
  /\ UNCHANGED <<record, queue, closing, native, device, remote, ended,
                 undeleted, crashes>>

DeviceAnswers ==
  /\ \/ RecordRead \/ KeyRead \/ Opened \/ Restored \/ SignedIn
     \/ RecordWritten \/ TokenUpdated \/ RecordRewritten \/ SyncStarted
     \/ MarkWritten \/ Disposed \/ StoresPurged \/ RecordCleared
     \/ KeyCleared
  /\ ended' = (At("clearKey") /\ call.after = "disconnected" /\ queue = <<>>)
  /\ UNCHANGED <<queue, closing, remote, undeleted, faults, crashes>>

-----------------------------------------------------------------------------
(* Around the calls.                                                       *)

TimerFires ==
  /\ chat.timer = "retry" \/ (chat.timer = "renewal" /\ due)
  /\ chat' = [chat EXCEPT !.timer = "none"]
  /\ Enqueue("refresh")
  /\ UNCHANGED <<state, record, call, closing, ahead, native, device, remote,
                 history>>

\* The chat client reports that its session expired or its account is
\* locked; its supervisor stops the sync service.
ClientReports(s) ==
  /\ chat.client \in {"active", "locked"} /\ chat.client # s
  /\ chat' = [chat EXCEPT !.client = s]
  /\ sync' = IF sync = "running" THEN "stopped" ELSE sync
  /\ IF chat.watching
       THEN Enqueue(IF s = "expired" THEN "refresh" ELSE "connect")
       ELSE UNCHANGED queue
  /\ UNCHANGED <<state, record, call, closing, ahead, open, device, remote,
                 history>>

TokenDue ==
  /\ ~due /\ disk # NoRecord
  /\ due' = TRUE
  /\ UNCHANGED <<state, chat, record, calls, native, store, key, disk, remote,
                 history>>

\* NGO.Tools ends the session.
ServerEnds ==
  /\ server # NoSession
  /\ server' = NoSession
  /\ UNCHANGED <<state, chat, record, calls, native, device, issued, history>>

\* close() waits for the calls made so far and closes the client.
Close ==
  /\ closing = "no"
  /\ closing' = "waiting"
  /\ ahead' = Len(queue) + IF At("idle") THEN 0 ELSE 1
  /\ UNCHANGED <<state, chat, record, queue, call, native, device, remote,
                 history>>

Closed ==
  /\ closing = "waiting" /\ ahead = 0
  /\ closing' = "closed"
  /\ chat' = NoChat
  /\ IF chat.client = "none" THEN UNCHANGED native
                             ELSE open' = FALSE /\ sync' = "none"
  /\ UNCHANGED <<state, record, queue, call, ahead, device, remote, history>>

\* The app is killed and starts again, with a new connector.
Crash ==
  /\ crashes < MaxCrashes
  /\ crashes' = crashes + 1
  /\ state' = "disconnected" /\ chat' = NoChat /\ record' = NoRecord
  /\ queue' = <<>> /\ call' = Idle /\ closing' = "no" /\ ahead' = 0
  /\ open' = FALSE /\ sync' = "none"
  /\ UNCHANGED <<device, remote, ended, undeleted, faults>>

Step == Start \/ ApiAnswers \/ DeviceAnswers \/ DeviceFails

Next ==
  \/ Step
  \/ \E op \in Operations : Request(op)
  \/ \E s \in {"expired", "locked"} : ClientReports(s)
  \/ TimerFires \/ TokenDue \/ ServerEnds
  \/ Close \/ Closed \/ Crash

Spec == Init /\ [][Next]_vars
FairSpec == Spec /\ WF_vars(Step) /\ WF_vars(Closed)

-----------------------------------------------------------------------------
(* What must hold.                                                         *)

\* Stores are opened, and deleted, only while no client runs on them ("no
\* client may be open").
ClientAlone == call.at \in {"open", "purge"} /\ closing = "no" => ~open

\* As long as there are stores, their key is in the keychain: no failure or
\* kill at any point of a sign-in or a purge leaves stores that cannot be
\* opened, with which every later connect would fail.
KeyKept == store # NoSession => key

\* The record, in memory and in the keychain, names the device that the
\* stores are signed in as.
RecordNamesDevice ==
  /\ record # NoRecord => disk.session = record.session
  /\ disk # NoRecord /\ store \notin {NoSession, Blank}
       => store = disk.session

\* A renewed token goes to the device it was issued for ("Renewal keeps the
\* device, so keys and verification stay").
RenewalKeepsDevice == At("update") /\ store # Blank => call.session = store

Gone == ~open /\ store = NoSession /\ disk = NoRecord /\ ~key

\* After disconnect(), and once access was withdrawn, nothing of the chat is
\* left on the device; and a connect that has read the account of another user
\* than the former one (line 124) renews and syncs only a client of that user:
\* the former stores are gone, or were never signed in.
NothingLeft ==
  /\ ended \/ state = "withdrawn" => Gone
  /\ call.op = "connect" /\ call.at \in {"renew", "update", "rewrite", "sync"}
       => store = Blank \/ store.account = call.account

\* A connected chat never forgets to renew its token: the timer is set, or a
\* call that will set it again waits.
RenewalScheduled ==
  state = "connected" /\ At("idle") /\ closing = "no" /\ faults = 0
    => chat.timer # "none" \/ queue # <<>>

\* Every call returns (the API client and the chat client answer or fail), so
\* the queue goes on, and close(), which waits for the queue, does.
CallsEnd ==
  /\ ~At("idle") ~> At("idle")
  /\ closing = "waiting" ~> closing # "waiting"

-----------------------------------------------------------------------------
(* What the documentation says and the code does not keep.                 *)

\* Disconnecting "ends the chat session": the server has none of this
\* installation left, unless deleting it failed.
DisconnectEndsSession == ended /\ ~undeleted => server = NoSession

\* ChatConnected: "The chat runs", that is, its active client syncs.
ConnectedSyncs ==
  /\ state = "connected" /\ At("idle") /\ queue = <<>> /\ closing = "no"
  /\ chat.client = "active"
  => sync = "running"

\* connect() "signs in or restores the chat session and starts syncing": no
\* sync without a session.
SyncsSignedIn == At("sync") => chat.client # "signedOut"

\* ChatConnecting: "Signing in or restoring the chat session".
ConnectingConnects ==
  state = "connecting" /\ closing = "no" => call.op = "connect"
=============================================================================
