------------------------ MODULE ChatConnector_proofs ------------------------
(* Theorems about ChatConnector, for every value of its constants: types; that *)
(* only one client opens the stores; that stores, key, record and session stay *)
(* those of one device, whatever await fails and wherever the app is killed;   *)
(* that disconnect() leaves nothing; and that a renewal stays scheduled.       *)
(*                                                                             *)
(* None is inductive. Every await of a call is a state others see, and what    *)
(* comes next relies on what the earlier ones did: DeviceInv says, for each    *)
(* await, what a removal has taken away by then, what a sign-in and a restore  *)
(* rely on, and who owns the native client. CallInv says what a call of the    *)
(* connector may count on while others queue: a removed chat stays removed, a  *)
(* client is kept through the calls that use it, and a token that is due has   *)
(* its timer or its refresh in the queue.                                      *)
EXTENDS ChatConnector, TLAPS

USE ConnectorAssumption DEF ConnectorAssumption

Removing == {"dispose", "purge", "clearRecord", "clearKey"}

\* The places a call of each kind waits at, and what it removes the chat for.
OpSteps ==
  /\ call.op = "none" <=> At("idle")
  /\ call.op = "connect" => call.at \notin {"idle", "delete", "mark"}
  /\ call.op = "refresh" => call.at \in {"renew", "update", "rewrite"} \cup Removing
  /\ call.op = "disconnect" => call.at \in {"read", "delete"} \cup Removing
  /\ call.op = "mark" => At("mark")
  /\ call.at \in Removing =>
       \/ call.op = "connect" /\ call.after \notin {"none", "disconnected"}
       \/ call.op = "refresh" /\ call.after \in {"refused", "reconnect", "homeserver"}
       \/ call.op = "disconnect" /\ call.after = "disconnected"
  /\ call.at \in Removing \ {"dispose"} => call.after # "homeserver"

\* A connect that has read the account knows it, also while it removes a chat
\* that is not the account's.
AccountRead ==
  /\ call.op = "connect" /\ call.at \notin {"account"} \cup Removing =>
       call.account \in Accounts
  /\ call.after \in {"create", "again"} => call.account \in Accounts

\* Whoever opens, closes or purges has no client; a native client that runs is
\* the connector's, or is being closed, and has stores.
ClientOwned ==
  /\ call.at \in {"key", "open"} => chat.client = "none"
  /\ call.at \in Removing \cup {"create"} => chat = NoChat
  /\ open /\ ~At("dispose") => chat.client # "none"
  /\ chat.client # "none" => store # NoSession

\* What a removal has taken away by each of its awaits.
Removed ==
  /\ call.at \in {"purge", "clearRecord", "clearKey", "create"} => record = NoRecord
  /\ call.at \in {"clearRecord", "clearKey", "create"} => store = NoSession
  /\ call.at \in {"clearKey", "create"} => disk = NoRecord

\* What a sign-in relies on: its key, a device without a record, and a session
\* that is still the server's; and, once signed in, the stores.
SigningIn ==
  /\ call.at \in {"open", "restore", "signIn"} => key
  /\ call.at \in {"key", "open", "signIn"} /\ call.session # NoSession =>
       /\ disk = NoRecord /\ record = NoRecord
       /\ server \in {NoSession, call.session}
  /\ call.at \in {"account", "read"} => call.session = NoSession
  /\ call.at \in {"signIn", "write"} => call.session # NoSession
  /\ At("write") => store = call.session

\* A restore has the record of the keychain.
Restoring ==
  /\ At("restore") => call.session = NoSession
  /\ call.at \in {"key", "open", "restore"} /\ call.session = NoSession =>
       call.record # NoRecord /\ call.record.session = disk.session

\* The server has no other session than the stores'.
ServerAgrees ==
  store \notin {NoSession, Blank} => server \in {NoSession, store}

\* A connect takes the record, or the session, of the account it has read.
SameAccount ==
  call.op = "connect" =>
    /\ call.at \in {"key", "open", "restore", "signIn", "write"} =>
         IF call.session = NoSession THEN call.record.session.account = call.account
                                     ELSE call.session.account = call.account
    /\ call.at \in {"renew", "update", "rewrite", "sync"} =>
         store = Blank \/ store.account = call.account

DeviceInv ==
  /\ OpSteps /\ AccountRead /\ ClientOwned /\ Removed /\ SigningIn /\ Restoring
  /\ ServerAgrees /\ KeyKept /\ RecordNamesDevice /\ RenewalKeepsDevice
  /\ SameAccount

\* After disconnect(), and while access is withdrawn, only a disconnect runs.
GoneStays ==
  /\ ended => At("idle") /\ queue = <<>> /\ chat = NoChat /\ Gone
  /\ state = "withdrawn" =>
       /\ chat = NoChat /\ record = NoRecord /\ Gone
       /\ call.op \in {"none", "disconnect"}

\* Until it is closed the connector keeps its client through a call that uses it.
ClientKept ==
  closing # "closed" =>
    /\ call.at \in {"restore", "signIn", "write", "renew", "update", "rewrite",
                    "sync"} => chat.client # "none"
    /\ call.at \in {"renew", "update", "rewrite", "sync"} => record # NoRecord

\* The token is to be renewed.
Stale == due \/ chat.client = "expired"

RenewalKept ==
  closing = "no" /\ faults = 0 =>
    /\ call.op = "connect" => state = "connecting"
    /\ call.op = "refresh" /\ call.at \in {"renew", "update"} => Stale
    /\ state = "connected" /\ call.op \in {"none", "mark"} =>
         /\ chat.client # "none" /\ record # NoRecord
         /\ chat.timer = "retry" => Stale
         /\ \/ chat.timer # "none"
            \/ Stale /\ \E i \in 1 .. Len(queue) : queue[i] = "refresh"

CallInv == GoneStays /\ ClientKept /\ RenewalKept

IInv == TypeOK /\ DeviceInv /\ CallInv

\* What an answer of the API leaves alone, and what one of the device does.
ApiFrame == UNCHANGED <<queue, closing, native, device, ended, faults, crashes>>
DeviceFrame ==
  /\ ended' = (At("clearKey") /\ call.after = "disconnected" /\ queue = <<>>)
  /\ UNCHANGED <<queue, closing, remote, undeleted, faults, crashes>>

-----------------------------------------------------------------------------
(* Types.                                                                  *)

LEMMA BlankType == NoSession \notin Session /\ Blank \notin Session /\ NoRecord \notin Record
BY DEF NoSession, Blank, Session, NoRecord, Record

LEMMA RunningType ==
  ASSUME NEW op \in Operations \cup {"none"}, NEW at \in Awaits
  PROVE  Running(op, at) \in Call
BY DEF Running, Call, Afters

LEMMA CallChanges ==
  ASSUME NEW c \in Call
  PROVE  /\ \A at \in Awaits : [c EXCEPT !.at = at] \in Call
         /\ \A at \in Awaits, after \in Afters :
              /\ [c EXCEPT !.at = at, !.after = after] \in Call
              /\ [c EXCEPT !.at = at, !.after = after, !.session = NoSession,
                           !.record = NoRecord] \in Call
         /\ \A a \in Accounts : [c EXCEPT !.account = a] \in Call
         /\ \A at \in Awaits, r \in Record : [c EXCEPT !.at = at, !.record = r] \in Call
         /\ \A at \in Awaits, s \in Session : [c EXCEPT !.at = at, !.session = s] \in Call
BY DEF Call

LEMMA ChatChanges ==
  ASSUME NEW k \in Chat
  PROVE  /\ NoChat \in Chat
         /\ \A x \in {"none", "retry"} : [k EXCEPT !.timer = x] \in Chat
         /\ \A x \in {"signedOut", "active", "expired", "locked"} :
              [k EXCEPT !.client = x] \in Chat
         /\ [k EXCEPT !.timer = "renewal"] \in Chat
         /\ [k EXCEPT !.watching = TRUE, !.timer = "renewal"] \in Chat
         /\ [k EXCEPT !.syncing = TRUE, !.watching = TRUE, !.timer = "renewal"] \in Chat
BY DEF Chat, NoChat

\* The part of the types that the running call may change.
States == {"disconnected", "connecting", "connected", "homeserver", "withdrawn", "failed"}
CallTypes ==
  /\ state \in States /\ chat \in Chat /\ call \in Call /\ ahead \in Nat
  /\ record \in Record \cup {NoRecord}

LEMMA DoneTypes == ASSUME CallTypes, Done PROVE call' \in Call /\ ahead' \in Nat
BY RunningType DEF CallTypes, Done, Idle, Awaits

LEMMA FinishTypes ==
  ASSUME CallTypes, NEW s \in States, Finish(s)
  PROVE  state' \in States /\ call' \in Call /\ ahead' \in Nat
BY DoneTypes DEF CallTypes, Finish, Emit

LEMMA CloseThenTypes ==
  ASSUME CallTypes, NEW c \in Call, NEW after \in Afters, CloseThen(c, after)
  PROVE  CallTypes'
BY CallChanges, ChatChanges DEF CallTypes, CloseThen, Awaits

LEMMA ThrowTypes ==
  ASSUME CallTypes, Throw
  PROVE  state' \in States /\ chat' \in Chat /\ call' \in Call /\ ahead' \in Nat
BY DoneTypes, ChatChanges DEF CallTypes, Throw, Emit, States

LEMMA SyncOrRunTypes ==
  ASSUME CallTypes, NEW c \in Call, SyncOrRun(c)
  PROVE  state' \in States /\ chat' \in Chat /\ call' \in Call /\ ahead' \in Nat
BY FinishTypes, CallChanges, ChatChanges DEF CallTypes, SyncOrRun, Awaits, States

LEMMA UseRecordTypes ==
  ASSUME CallTypes, NEW c \in Call, NEW r \in Record \cup {NoRecord}, UseRecord(c, r)
  PROVE  CallTypes'
<1>1. CASE r = NoRecord \/ r.session.account # c.account
  BY <1>1, CloseThenTypes DEF UseRecord, Afters
<1>2. CASE r # NoRecord /\ r.session.account = c.account /\ chat.client = "none"
  <2>1. call' = [c EXCEPT !.at = "key", !.record = r] /\ UNCHANGED <<state, chat, record, ahead>>
    BY <1>2 DEF UseRecord
  <2>2. QED
    BY <1>2, <2>1 DEF CallTypes, Call, Awaits
<1>3. CASE r # NoRecord /\ r.session.account = c.account /\ chat.client # "none"
  <2>1. record' = r /\ RenewOrRun(c)
    BY <1>3 DEF UseRecord
  <2>2. CASE due \/ chat.client = "expired"
    <3>1. call' = [c EXCEPT !.at = "renew"] /\ UNCHANGED <<state, chat, ahead>>
      BY <2>1, <2>2 DEF RenewOrRun
    <3>2. QED
      BY <2>1, <3>1 DEF CallTypes, Call, Awaits
  <2>3. CASE ~(due \/ chat.client = "expired")
    BY <2>1, <2>3, SyncOrRunTypes DEF RenewOrRun, CallTypes
  <2> QED BY <2>2, <2>3
<1> QED BY <1>1, <1>2, <1>3

-----------------------------------------------------------------------------
(* What the parts of calls do, field by field.                             *)

\* The running call ends; goes on as c at another await; closes the client.
Rests ==
  /\ call'.op = "none" /\ call'.at = "idle" /\ call'.after = "none"
  /\ call'.session = NoSession

Continues(c, at) ==
  /\ call'.op = c.op /\ call'.at = at /\ call'.after = c.after
  /\ call'.account = c.account /\ call'.session = c.session /\ call'.record = c.record

Closes(c, after) ==
  /\ call'.op = c.op /\ call'.at = "dispose" /\ call'.after = after
  /\ call'.account = c.account /\ call'.session = NoSession
  /\ chat' = NoChat /\ UNCHANGED <<state, record>>

LEMMA DoneRests == ASSUME Done PROVE Rests
BY DEF Done, Rests, Idle, Running

LEMMA FinishRests == ASSUME NEW s, Finish(s) PROVE Rests
BY DoneRests DEF Finish

LEMMA AwaitContinues ==
  ASSUME call \in Call, NEW at, Await(at)
  PROVE  Continues(call, at)
BY DEF Await, Continues

LEMMA CloseThenCloses ==
  ASSUME NEW c \in Call, NEW after, CloseThen(c, after)
  PROVE  Closes(c, after)
BY DEF CloseThen, Closes

LEMMA ThrowRests ==
  ASSUME chat \in Chat, Throw
  PROVE  /\ Rests /\ chat'.client = chat.client
         /\ state' \in {state, "failed"}
         /\ call.op = "connect" /\ closing # "closed" => state' = "failed"
BY DoneRests DEF Throw, Chat, Emit

LEMMA SyncOrRunGoes ==
  ASSUME chat \in Chat, NEW c \in Call, SyncOrRun(c)
  PROVE  /\ chat'.client = chat.client
         /\ \/ Rests /\ chat'.timer = "renewal" /\ state' \in {state, "connected"}
            \/ Continues(c, "sync") /\ UNCHANGED <<state, chat>>
<1>1. CASE ~chat.syncing
  BY <1>1 DEF SyncOrRun, Continues, Call
<1>2. CASE chat.syncing
  BY <1>2, FinishRests DEF SyncOrRun, Finish, Emit, Chat
<1>3. QED
  BY <1>1, <1>2

\* The ways _connect goes on with a record.
UsesRecord(c, r) ==
  \/ Closes(c, "create") \/ Closes(c, "again")
  \/ /\ r # NoRecord /\ r.session.account = c.account
     /\ chat.client = "none" /\ UNCHANGED <<state, chat, record>>
     /\ call'.op = c.op /\ call'.at = "key" /\ call'.after = c.after
     /\ call'.account = c.account /\ call'.session = c.session /\ call'.record = r
  \/ /\ r # NoRecord /\ r.session.account = c.account /\ chat.client # "none"
     /\ record' = r /\ chat'.client = chat.client
     /\ \/ Rests /\ chat'.timer = "renewal" /\ state' \in {state, "connected"}
        \/ (Continues(c, "renew") \/ Continues(c, "sync")) /\ UNCHANGED state

LEMMA UseRecordUses ==
  ASSUME chat \in Chat, NEW c \in Call, NEW r, UseRecord(c, r)
  PROVE  UsesRecord(c, r)
<1>1. CASE r = NoRecord \/ r.session.account # c.account
  BY <1>1, CloseThenCloses DEF UseRecord, UsesRecord
<1>2. CASE r # NoRecord /\ r.session.account = c.account /\ chat.client = "none"
  <2>1. call' = [c EXCEPT !.at = "key", !.record = r] /\ UNCHANGED <<state, chat, record>>
    BY <1>2 DEF UseRecord
  <2>2. QED
    BY <1>2, <2>1 DEF UsesRecord
<1>3. CASE r # NoRecord /\ r.session.account = c.account /\ chat.client # "none"
  <2>1. record' = r /\ RenewOrRun(c)
    BY <1>3 DEF UseRecord
  <2>2. CASE due \/ chat.client = "expired"
    BY <1>3, <2>1, <2>2 DEF RenewOrRun, UsesRecord, Continues, Call
  <2>3. CASE ~(due \/ chat.client = "expired")
    BY <1>3, <2>1, <2>3, SyncOrRunGoes DEF RenewOrRun, UsesRecord
  <2>4. QED
    BY <2>2, <2>3
<1>4. QED
  BY <1>1, <1>2, <1>3

-----------------------------------------------------------------------------
(* Every action keeps the types.                                           *)

LEMMA StartTypes ==
  ASSUME TypeOK, Start
  PROVE  TypeOK'
<1>1. call' \in Call
  BY DoneTypes, RunningType DEF Start, Skip, StartConnect, StartRefresh, StartDisconnect, StartMark, history, device, TypeOK, CallTypes, States, Awaits, Afters
<1>2. chat' \in Chat
  BY DoneTypes DEF Start, Skip, StartConnect, StartRefresh, StartDisconnect, StartMark, TypeOK, CallTypes
<1>3. state' \in States /\ record' \in Record \cup {NoRecord} /\ ahead' \in Nat
  BY DoneTypes DEF Start, Skip, StartConnect, StartRefresh, StartDisconnect, StartMark, TypeOK, CallTypes, States, Record
<1>4. queue' \in Seq(Operations)
  BY DEF Start, Skip, StartConnect, StartRefresh, StartDisconnect, StartMark, TypeOK
<1>5. /\ store' \in Session \cup {NoSession, Blank} /\ server' \in Session \cup {NoSession}
      /\ disk' \in Record \cup {NoRecord} /\ issued' \in 0..MaxSessions
  BY DEF Start, Skip, StartConnect, StartRefresh, StartDisconnect, StartMark, device, remote, TypeOK
<1>6. QED
  BY <1>1, <1>2, <1>3, <1>4, <1>5 DEF Start, Skip, StartConnect, StartRefresh, StartDisconnect, StartMark, history, native, device, TypeOK, CallTypes

LEMMA AccountActiveTypes ==
  ASSUME TypeOK, NEW a \in Accounts, AccountActive(a), ApiFrame
  PROVE  TypeOK'
<1> DEFINE c == [call EXCEPT !.account = a]
<1>1. CallTypes /\ c \in Call
  BY DEF TypeOK, CallTypes, States, Call
<1>2. CASE record # NoRecord
  <2>1. UseRecord(c, record)
    BY <1>2 DEF AccountActive, ApiFrame
  <2>2. CallTypes'
    BY <1>1, <2>1, UseRecordTypes DEF CallTypes
  <2>3. QED
    BY <2>2 DEF AccountActive, ApiFrame, TypeOK, CallTypes, States, native, device, remote
<1>3. CASE record = NoRecord
  <2>1. call' = [c EXCEPT !.at = "read"] /\ UNCHANGED <<state, chat, record, ahead>>
    BY <1>3 DEF AccountActive, ApiFrame
  <2>2. call' \in Call
    BY <1>1, <2>1 DEF Call, Awaits
  <2>3. QED
    BY <2>1, <2>2 DEF AccountActive, ApiFrame, TypeOK, native, device, remote
<1>4. QED
  BY <1>2, <1>3

LEMMA AccountInactiveTypes ==
  ASSUME TypeOK, AccountInactive, ApiFrame
  PROVE  TypeOK'
BY CloseThenTypes DEF AccountInactive, ApiFrame, native, device, remote, TypeOK, CallTypes, States, Afters

LEMMA HomeserverUnavailableTypes ==
  ASSUME TypeOK, HomeserverUnavailable, ApiFrame
  PROVE  TypeOK'
BY CloseThenTypes DEF HomeserverUnavailable, ApiFrame, native, device, remote, TypeOK, CallTypes, States, Afters

LEMMA CreatedTypes ==
  ASSUME TypeOK, OpSteps, AccountRead, Created, ApiFrame
  PROVE  TypeOK'
<1>1. server' \in Session /\ issued' \in 0..MaxSessions
  <2>1. issued' \in 1..MaxSessions /\ issued' = issued + 1
    BY DEF Created, ApiFrame, TypeOK
  <2>2. call.account \in Accounts
    BY DEF Created, ApiFrame, OpSteps, AccountRead, At, TypeOK, Call, Operations, Removing
  <2>3. QED
    BY <2>1, <2>2 DEF Created, ApiFrame, Session
<1>2. CASE Throw
  BY <1>1, <1>2, ThrowTypes DEF Created, ApiFrame, TypeOK, CallTypes, States, native, device
<1>3. CASE call' = [call EXCEPT !.at = "key", !.session = server'] /\ UNCHANGED <<state, chat, ahead>>
  <2>1. call' \in Call
    BY <1>1, <1>3 DEF TypeOK, Call, Awaits
  <2>2. QED
    BY <1>1, <1>3, <2>1 DEF Created, ApiFrame, TypeOK, native, device
<1>4. QED
  BY <1>2, <1>3 DEF Created, ApiFrame

LEMMA RenewedTypes ==
  ASSUME TypeOK, Renewed, ApiFrame
  PROVE  TypeOK'
<1>1. call' \in Call
  BY ThrowTypes DEF Renewed, ApiFrame, At, native, device, remote, TypeOK, CallTypes, States, Awaits, Afters, Operations, Call
<1>2. chat' \in Chat
  BY ThrowTypes DEF Renewed, ApiFrame, TypeOK, CallTypes, States
<1>3. state' \in States /\ record' \in Record \cup {NoRecord} /\ ahead' \in Nat
  BY ThrowTypes DEF Renewed, ApiFrame, TypeOK, CallTypes, States
<1>4. queue' \in Seq(Operations)
  BY DEF Renewed, ApiFrame, TypeOK
<1>5. /\ store' \in Session \cup {NoSession, Blank} /\ server' \in Session \cup {NoSession}
      /\ disk' \in Record \cup {NoRecord} /\ issued' \in 0..MaxSessions
  BY DEF Renewed, ApiFrame, device, remote, TypeOK
<1>6. QED
  BY <1>1, <1>2, <1>3, <1>4, <1>5 DEF Renewed, ApiFrame, native, device, TypeOK, CallTypes, States

LEMMA SessionUnknownTypes ==
  ASSUME TypeOK, SessionUnknown, ApiFrame
  PROVE  TypeOK'
BY CloseThenTypes DEF SessionUnknown, ApiFrame, native, device, remote, TypeOK, CallTypes, States, Afters

LEMMA AccessRefusedTypes ==
  ASSUME TypeOK, AccessRefused, ApiFrame
  PROVE  TypeOK'
BY CloseThenTypes DEF AccessRefused, ApiFrame, native, device, remote, TypeOK, CallTypes, States, Afters

LEMMA OtherRefusalTypes ==
  ASSUME TypeOK, OtherRefusal, ApiFrame
  PROVE  TypeOK'
BY FinishTypes DEF OtherRefusal, ApiFrame, native, device, remote, TypeOK, CallTypes, States

LEMMA CallFailsTypes ==
  ASSUME TypeOK, CallFails, ApiFrame
  PROVE  TypeOK'
BY ThrowTypes DEF CallFails, ApiFrame, native, device, remote, TypeOK, CallTypes, States

LEMMA SessionDeletedTypes ==
  ASSUME TypeOK, SessionDeleted, ApiFrame
  PROVE  TypeOK'
<1>1. call' \in Call
  BY CloseThenTypes DEF SessionDeleted, ApiFrame, TypeOK, CallTypes, States, Afters
<1>2. chat' \in Chat
  BY CloseThenTypes DEF SessionDeleted, ApiFrame, TypeOK, CallTypes, States, Afters
<1>3. state' \in States /\ record' \in Record \cup {NoRecord} /\ ahead' \in Nat
  BY CloseThenTypes DEF SessionDeleted, ApiFrame, TypeOK, CallTypes, States, Afters
<1>4. queue' \in Seq(Operations)
  BY DEF SessionDeleted, ApiFrame, TypeOK
<1>5. /\ store' \in Session \cup {NoSession, Blank} /\ server' \in Session \cup {NoSession}
      /\ disk' \in Record \cup {NoRecord} /\ issued' \in 0..MaxSessions
  BY DEF SessionDeleted, ApiFrame, device, TypeOK
<1>6. QED
  BY <1>1, <1>2, <1>3, <1>4, <1>5 DEF SessionDeleted, ApiFrame, native, device, TypeOK, CallTypes, States

LEMMA RecordReadTypes ==
  ASSUME TypeOK, RecordRead, DeviceFrame
  PROVE  TypeOK'
<1>1. call' \in Call
  BY UseRecordTypes, CloseThenTypes DEF RecordRead, DeviceFrame, Await, TypeOK, CallTypes, States, Awaits, Afters, Call
<1>2. chat' \in Chat
  BY UseRecordTypes, CloseThenTypes DEF RecordRead, DeviceFrame, TypeOK, CallTypes, States, Afters
<1>3. state' \in States /\ record' \in Record \cup {NoRecord} /\ ahead' \in Nat
  BY UseRecordTypes, CloseThenTypes DEF RecordRead, DeviceFrame, TypeOK, CallTypes, States, Afters
<1>4. queue' \in Seq(Operations)
  BY DEF RecordRead, DeviceFrame, TypeOK
<1>5. /\ store' \in Session \cup {NoSession, Blank} /\ server' \in Session \cup {NoSession}
      /\ disk' \in Record \cup {NoRecord} /\ issued' \in 0..MaxSessions
  BY DEF RecordRead, DeviceFrame, device, remote, TypeOK
<1>6. QED
  BY <1>1, <1>2, <1>3, <1>4, <1>5 DEF RecordRead, DeviceFrame, native, device, TypeOK, CallTypes, States

LEMMA KeyReadTypes ==
  ASSUME TypeOK, KeyRead, DeviceFrame
  PROVE  TypeOK'
<1>1. call' \in Call
  BY DEF KeyRead, DeviceFrame, Await, TypeOK, CallTypes, Awaits, Call
<1>2. chat' \in Chat
  BY DEF KeyRead, DeviceFrame, TypeOK, CallTypes
<1>3. state' \in States /\ record' \in Record \cup {NoRecord} /\ ahead' \in Nat
  BY DEF KeyRead, DeviceFrame, TypeOK, CallTypes, States
<1>4. queue' \in Seq(Operations)
  BY DEF KeyRead, DeviceFrame, TypeOK
<1>5. /\ store' \in Session \cup {NoSession, Blank} /\ server' \in Session \cup {NoSession}
      /\ disk' \in Record \cup {NoRecord} /\ issued' \in 0..MaxSessions
  BY DEF KeyRead, DeviceFrame, remote, TypeOK
<1>6. QED
  BY <1>1, <1>2, <1>3, <1>4, <1>5 DEF KeyRead, DeviceFrame, native, TypeOK, CallTypes

LEMMA OpenedTypes ==
  ASSUME TypeOK, Opened, DeviceFrame
  PROVE  TypeOK'
<1>1. call' \in Call
  BY DEF Opened, DeviceFrame, Await, TypeOK, CallTypes, Awaits, Call
<1>2. chat' \in Chat
  BY DEF Opened, DeviceFrame, TypeOK, CallTypes, Chat
<1>3. state' \in States /\ record' \in Record \cup {NoRecord} /\ ahead' \in Nat
  BY DEF Opened, DeviceFrame, TypeOK, CallTypes, States
<1>4. queue' \in Seq(Operations)
  BY DEF Opened, DeviceFrame, TypeOK
<1>5. /\ store' \in Session \cup {NoSession, Blank} /\ server' \in Session \cup {NoSession}
      /\ disk' \in Record \cup {NoRecord} /\ issued' \in 0..MaxSessions
  BY DEF Opened, DeviceFrame, remote, TypeOK
<1>6. QED
  BY <1>1, <1>2, <1>3, <1>4, <1>5 DEF Opened, DeviceFrame, TypeOK, CallTypes

LEMMA RestoredTypes ==
  ASSUME TypeOK, Restored, DeviceFrame
  PROVE  TypeOK'
<1>1. CallTypes
  BY DEF TypeOK, CallTypes, States
<1>2. CASE CloseThen(call, "create")
  <2>1. CallTypes'
    BY <1>1, <1>2, CloseThenTypes DEF CallTypes, Afters
  <2>2. QED
    BY <2>1 DEF Restored, DeviceFrame, TypeOK, CallTypes, States, native, device, remote
<1>3. CASE record' = call.record /\ Throw
  <2>1. record' \in Record \cup {NoRecord}
    BY <1>3 DEF TypeOK, Call
  <2>2. QED
    BY <1>1, <1>3, <2>1, ThrowTypes DEF Restored, DeviceFrame, TypeOK, States, native, device, remote
<1>4. CASE /\ record' = call.record /\ chat.client # "none" /\ Activated
           /\ Await(IF due THEN "renew" ELSE "sync") /\ UNCHANGED <<state, ahead>>
  <2>1. call' \in Call /\ record' \in Record \cup {NoRecord}
    BY <1>4 DEF TypeOK, Call, Await, Awaits
  <2>2. chat' \in Chat
    BY <1>4 DEF TypeOK, Chat, Activated
  <2>3. QED
    BY <1>4, <2>1, <2>2 DEF Restored, DeviceFrame, TypeOK, native, device, remote
<1>5. QED
  BY <1>2, <1>3, <1>4 DEF Restored, DeviceFrame

LEMMA SignedInTypes ==
  ASSUME TypeOK, SignedIn, DeviceFrame
  PROVE  TypeOK'
<1>1. call' \in Call
  BY DEF SignedIn, DeviceFrame, Await, Activated, TypeOK, CallTypes, Awaits, Call
<1>2. chat' \in Chat
  BY DEF SignedIn, DeviceFrame, Activated, TypeOK, CallTypes, Chat
<1>3. state' \in States /\ record' \in Record \cup {NoRecord} /\ ahead' \in Nat
  BY DEF SignedIn, DeviceFrame, Activated, TypeOK, CallTypes, States
<1>4. queue' \in Seq(Operations)
  BY DEF SignedIn, DeviceFrame, Activated, TypeOK
<1>5. /\ store' \in Session \cup {NoSession, Blank} /\ server' \in Session \cup {NoSession}
      /\ disk' \in Record \cup {NoRecord} /\ issued' \in 0..MaxSessions
  BY DEF SignedIn, DeviceFrame, remote, Activated, TypeOK, Call
<1>6. QED
  BY <1>1, <1>2, <1>3, <1>4, <1>5 DEF SignedIn, DeviceFrame, native, Activated, TypeOK, CallTypes

LEMMA RecordWrittenTypes ==
  ASSUME TypeOK, SigningIn, RecordWritten, DeviceFrame
  PROVE  TypeOK'
<1>1. disk' \in Record /\ record' = disk'
  <2>1. call.session \in Session
    BY DEF RecordWritten, DeviceFrame, SigningIn, At, TypeOK, Call
  <2>2. QED
    BY <2>1 DEF RecordWritten, DeviceFrame, Record
<1>2. state' \in States /\ chat' \in Chat /\ call' \in Call /\ ahead' \in Nat
  <2>1. CallTypes
    BY DEF TypeOK, CallTypes, States
  <2>2. CASE Throw
    BY <2>1, <2>2, ThrowTypes
  <2>3. CASE SyncOrRun(call)
    BY <2>1, <2>3, SyncOrRunTypes DEF CallTypes
  <2>4. QED
    BY <2>2, <2>3 DEF RecordWritten, DeviceFrame
<1>3. QED
  BY <1>1, <1>2 DEF RecordWritten, DeviceFrame, TypeOK, States, native, remote

LEMMA TokenUpdatedTypes ==
  ASSUME TypeOK, TokenUpdated, DeviceFrame
  PROVE  TypeOK'
<1>1. call' \in Call
  BY DEF TokenUpdated, DeviceFrame, Await, Activated, TypeOK, CallTypes, Awaits, Call
<1>2. chat' \in Chat
  BY DEF TokenUpdated, DeviceFrame, Activated, TypeOK, CallTypes, Chat
<1>3. state' \in States /\ record' \in Record \cup {NoRecord} /\ ahead' \in Nat
  BY DEF TokenUpdated, DeviceFrame, Activated, TypeOK, CallTypes, States
<1>4. queue' \in Seq(Operations)
  BY DEF TokenUpdated, DeviceFrame, Activated, TypeOK
<1>5. /\ store' \in Session \cup {NoSession, Blank} /\ server' \in Session \cup {NoSession}
      /\ disk' \in Record \cup {NoRecord} /\ issued' \in 0..MaxSessions
  BY DEF TokenUpdated, DeviceFrame, device, remote, Activated, TypeOK
<1>6. QED
  BY <1>1, <1>2, <1>3, <1>4, <1>5 DEF TokenUpdated, DeviceFrame, native, device, Activated, TypeOK, CallTypes

LEMMA RecordRewrittenTypes ==
  ASSUME TypeOK, RecordRewritten, DeviceFrame
  PROVE  TypeOK'
<1>1. call' \in Call
  BY SyncOrRunTypes, ThrowTypes, FinishTypes DEF RecordRewritten, DeviceFrame, TypeOK, CallTypes, States
<1>2. chat' \in Chat
  BY SyncOrRunTypes, ThrowTypes, FinishTypes DEF RecordRewritten, DeviceFrame, TypeOK, CallTypes, Chat, States
<1>3. state' \in States /\ record' \in Record \cup {NoRecord} /\ ahead' \in Nat
  BY SyncOrRunTypes, ThrowTypes, FinishTypes DEF RecordRewritten, DeviceFrame, TypeOK, CallTypes, States
<1>4. queue' \in Seq(Operations)
  BY DEF RecordRewritten, DeviceFrame, TypeOK
<1>5. /\ store' \in Session \cup {NoSession, Blank} /\ server' \in Session \cup {NoSession}
      /\ disk' \in Record \cup {NoRecord} /\ issued' \in 0..MaxSessions
  BY DEF RecordRewritten, DeviceFrame, remote, TypeOK
<1>6. QED
  BY <1>1, <1>2, <1>3, <1>4, <1>5 DEF RecordRewritten, DeviceFrame, native, TypeOK, CallTypes, States

LEMMA SyncStartedTypes ==
  ASSUME TypeOK, SyncStarted, DeviceFrame
  PROVE  TypeOK'
BY FinishTypes, ChatChanges DEF SyncStarted, DeviceFrame, At, device, remote, TypeOK, CallTypes, States, Operations

LEMMA MarkWrittenTypes ==
  ASSUME TypeOK, MarkWritten, DeviceFrame
  PROVE  TypeOK'
BY DoneTypes DEF MarkWritten, DeviceFrame, native, remote, TypeOK, CallTypes, States

LEMMA DisposedTypes ==
  ASSUME TypeOK, Disposed, DeviceFrame
  PROVE  TypeOK'
<1>1. call' \in Call
  BY FinishTypes DEF Disposed, DeviceFrame, Await, TypeOK, CallTypes, States, Awaits, Call
<1>2. chat' \in Chat
  BY FinishTypes DEF Disposed, DeviceFrame, TypeOK, CallTypes
<1>3. state' \in States /\ record' \in Record \cup {NoRecord} /\ ahead' \in Nat
  BY FinishTypes DEF Disposed, DeviceFrame, TypeOK, CallTypes, States
<1>4. queue' \in Seq(Operations)
  BY DEF Disposed, DeviceFrame, TypeOK
<1>5. /\ store' \in Session \cup {NoSession, Blank} /\ server' \in Session \cup {NoSession}
      /\ disk' \in Record \cup {NoRecord} /\ issued' \in 0..MaxSessions
  BY DEF Disposed, DeviceFrame, device, remote, TypeOK
<1>6. QED
  BY <1>1, <1>2, <1>3, <1>4, <1>5 DEF Disposed, DeviceFrame, device, TypeOK, CallTypes, States

LEMMA StoresPurgedTypes ==
  ASSUME TypeOK, StoresPurged, DeviceFrame
  PROVE  TypeOK'
<1>1. call' \in Call
  BY DEF StoresPurged, DeviceFrame, Await, TypeOK, CallTypes, Awaits, Call
<1>2. chat' \in Chat
  BY DEF StoresPurged, DeviceFrame, TypeOK, CallTypes
<1>3. state' \in States /\ record' \in Record \cup {NoRecord} /\ ahead' \in Nat
  BY DEF StoresPurged, DeviceFrame, TypeOK, CallTypes, States
<1>4. queue' \in Seq(Operations)
  BY DEF StoresPurged, DeviceFrame, TypeOK
<1>5. /\ store' \in Session \cup {NoSession, Blank} /\ server' \in Session \cup {NoSession}
      /\ disk' \in Record \cup {NoRecord} /\ issued' \in 0..MaxSessions
  BY DEF StoresPurged, DeviceFrame, remote, TypeOK
<1>6. QED
  BY <1>1, <1>2, <1>3, <1>4, <1>5 DEF StoresPurged, DeviceFrame, native, TypeOK, CallTypes

LEMMA RecordClearedTypes ==
  ASSUME TypeOK, RecordCleared, DeviceFrame
  PROVE  TypeOK'
<1>1. call' \in Call
  BY DEF RecordCleared, DeviceFrame, Await, TypeOK, CallTypes, Awaits, Call
<1>2. chat' \in Chat
  BY DEF RecordCleared, DeviceFrame, TypeOK, CallTypes
<1>3. state' \in States /\ record' \in Record \cup {NoRecord} /\ ahead' \in Nat
  BY DEF RecordCleared, DeviceFrame, TypeOK, CallTypes, States
<1>4. queue' \in Seq(Operations)
  BY DEF RecordCleared, DeviceFrame, TypeOK
<1>5. /\ store' \in Session \cup {NoSession, Blank} /\ server' \in Session \cup {NoSession}
      /\ disk' \in Record \cup {NoRecord} /\ issued' \in 0..MaxSessions
  BY DEF RecordCleared, DeviceFrame, remote, TypeOK
<1>6. QED
  BY <1>1, <1>2, <1>3, <1>4, <1>5 DEF RecordCleared, DeviceFrame, native, TypeOK, CallTypes

LEMMA KeyClearedTypes ==
  ASSUME TypeOK, KeyCleared, DeviceFrame
  PROVE  TypeOK'
<1>1. state' \in States /\ chat' \in Chat /\ call' \in Call /\ ahead' \in Nat
  <2>1. CallTypes
    BY DEF TypeOK, CallTypes, States
  <2>2. CASE Await("create") /\ UNCHANGED <<state, chat, ahead>>
    BY <2>1, <2>2 DEF CallTypes, Call, Await, Awaits
  <2>3. CASE /\ chat' = NoChat /\ UNCHANGED <<state, ahead>>
             /\ call' = [call EXCEPT !.at = "dispose", !.after = "create"]
    BY <2>1, <2>3, ChatChanges DEF CallTypes, Call, Awaits, Afters
  <2>4. CASE /\ call' = Running("connect", "account") /\ Emit("connecting")
             /\ UNCHANGED <<chat, ahead>>
    BY <2>1, <2>4, RunningType DEF CallTypes, States, Emit, Awaits, Operations
  <2>5. ASSUME NEW s \in {"withdrawn", "disconnected"}, Finish(s), UNCHANGED chat
        PROVE  state' \in States /\ call' \in Call /\ ahead' \in Nat
    BY <2>1, <2>5, FinishTypes DEF CallTypes, States
  <2>6. QED
    BY <2>1, <2>2, <2>3, <2>4, <2>5 DEF KeyCleared, DeviceFrame, CallTypes
<1>2. key' = FALSE /\ ended' \in BOOLEAN
  BY DEF KeyCleared, DeviceFrame
<1>3. QED
  BY <1>1, <1>2 DEF KeyCleared, DeviceFrame, TypeOK, States, native, remote

LEMMA DeviceFailsTypes ==
  ASSUME TypeOK, DeviceFails
  PROVE  TypeOK'
BY ThrowTypes, DoneTypes DEF DeviceFails, native, device, remote, TypeOK, CallTypes, States

LEMMA RequestTypes ==
  ASSUME TypeOK, NEW op \in Operations, Request(op)
  PROVE  TypeOK'
<1>1. call' \in Call
  BY DEF Request, TypeOK, CallTypes
<1>2. chat' \in Chat
  BY DEF Request, TypeOK, CallTypes
<1>3. state' \in States /\ record' \in Record \cup {NoRecord} /\ ahead' \in Nat
  BY DEF Request, TypeOK, CallTypes, States
<1>4. queue' \in Seq(Operations)
  BY DEF Request, Enqueue, TypeOK
<1>5. /\ store' \in Session \cup {NoSession, Blank} /\ server' \in Session \cup {NoSession}
      /\ disk' \in Record \cup {NoRecord} /\ issued' \in 0..MaxSessions
  BY DEF Request, device, remote, TypeOK
<1>6. QED
  BY <1>1, <1>2, <1>3, <1>4, <1>5 DEF Request, native, device, TypeOK, CallTypes

LEMMA ClientReportsTypes ==
  ASSUME TypeOK, NEW s \in {"expired", "locked"}, ClientReports(s)
  PROVE  TypeOK'
<1>1. chat' \in Chat
  BY DEF ClientReports, TypeOK, Chat
<1>2. queue' \in Seq(Operations)
  <2>1. CASE chat.watching
    <3>1. \E op \in Operations : queue' = Append(queue, op)
      BY <2>1 DEF ClientReports, Enqueue, Operations
    <3>2. QED
      BY <3>1 DEF TypeOK
  <2>2. CASE ~chat.watching
    BY <2>2 DEF ClientReports, TypeOK
  <2>3. QED
    BY <2>1, <2>2
<1>3. QED
  BY <1>1, <1>2 DEF ClientReports, TypeOK, device, remote, history

LEMMA TimerFiresTypes ==
  ASSUME TypeOK, TimerFires
  PROVE  TypeOK'
<1>1. call' \in Call
  BY DEF TimerFires, TypeOK, CallTypes
<1>2. chat' \in Chat
  BY DEF TimerFires, TypeOK, CallTypes, Chat
<1>3. state' \in States /\ record' \in Record \cup {NoRecord} /\ ahead' \in Nat
  BY DEF TimerFires, TypeOK, CallTypes, States
<1>4. queue' \in Seq(Operations)
  BY DEF TimerFires, Enqueue, TypeOK, Operations
<1>5. /\ store' \in Session \cup {NoSession, Blank} /\ server' \in Session \cup {NoSession}
      /\ disk' \in Record \cup {NoRecord} /\ issued' \in 0..MaxSessions
  BY DEF TimerFires, device, remote, TypeOK
<1>6. QED
  BY <1>1, <1>2, <1>3, <1>4, <1>5 DEF TimerFires, native, device, history, TypeOK, CallTypes

LEMMA TokenDueTypes ==
  ASSUME TypeOK, TokenDue
  PROVE  TypeOK'
BY DEF TokenDue, calls, native, remote, history, TypeOK, CallTypes

LEMMA ServerEndsTypes ==
  ASSUME TypeOK, ServerEnds
  PROVE  TypeOK'
BY DEF ServerEnds, calls, native, device, history, TypeOK, CallTypes

LEMMA CloseTypes ==
  ASSUME TypeOK, Close
  PROVE  TypeOK'
BY DEF Close, native, device, remote, history, TypeOK, CallTypes

LEMMA ClosedTypes ==
  ASSUME TypeOK, Closed
  PROVE  TypeOK'
<1>1. call' \in Call
  BY DEF Closed, TypeOK, CallTypes
<1>2. chat' \in Chat
  BY DEF Closed, TypeOK, CallTypes, Chat, NoChat
<1>3. state' \in States /\ record' \in Record \cup {NoRecord} /\ ahead' \in Nat
  BY DEF Closed, TypeOK, CallTypes, States
<1>4. queue' \in Seq(Operations)
  BY DEF Closed, TypeOK
<1>5. /\ store' \in Session \cup {NoSession, Blank} /\ server' \in Session \cup {NoSession}
      /\ disk' \in Record \cup {NoRecord} /\ issued' \in 0..MaxSessions
  BY DEF Closed, device, remote, TypeOK
<1>6. QED
  BY <1>1, <1>2, <1>3, <1>4, <1>5 DEF Closed, device, history, native, TypeOK, CallTypes

LEMMA CrashTypes ==
  ASSUME TypeOK, Crash
  PROVE  TypeOK'
<1>1. call' \in Call
  BY RunningType DEF Crash, Idle, Awaits
<1>2. chat' \in Chat
  BY DEF Crash, Chat, NoChat
<1>3. queue' \in Seq(Operations)
  BY DEF Crash
<1>4. crashes' \in Nat
  BY DEF Crash, TypeOK
<1>5. QED
  BY <1>1, <1>2, <1>3, <1>4 DEF Crash, TypeOK, device, remote

LEMMA StutterTypes ==
  ASSUME TypeOK, UNCHANGED vars
  PROVE  TypeOK'
BY DEF vars, calls, native, device, remote, history, TypeOK, CallTypes

-----------------------------------------------------------------------------
(* Every action keeps the rest of the invariant.  An action of several     *)
(* outcomes is first taken apart into them.                                *)

LEMMA StartStep ==
  ASSUME IInv, Start
  PROVE  DeviceInv' /\ CallInv'
<1>0. call \in Call /\ record \in Record \cup {NoRecord} /\ queue \in Seq(Operations)
  BY DEF IInv, TypeOK
<1>1. /\ At("idle") /\ call.op = "none" /\ queue # <<>> /\ queue' = Tail(queue)
      /\ UNCHANGED <<chat, closing, open, store, key, disk, due, server, ended, faults>>
  BY DEF Start, Skip, StartConnect, StartRefresh, StartDisconnect, StartMark, IInv, DeviceInv, OpSteps, native, device, remote, history
<1>2. /\ \/ record' = record
         \/ record # NoRecord /\ record' = [record EXCEPT !.prompted = TRUE]
      /\ \/ /\ Rests /\ UNCHANGED state
            /\ \/ closing = "closed" \/ Head(queue) = "mark"
               \/ ~(record # NoRecord /\ chat.client # "none" /\ Stale)
         \/ /\ call'.after = "none" /\ call'.account = NoAccount /\ call'.session = NoSession
            /\ \/ call'.op = "connect" /\ call'.at = "account" /\ state' = "connecting"
               \/ /\ call'.op = "refresh" /\ call'.at = "renew" /\ UNCHANGED state
                  /\ record # NoRecord /\ chat.client # "none" /\ Stale
               \/ /\ call'.op = "disconnect" /\ call'.at \in {"read", "delete"}
                  /\ UNCHANGED state
               \/ /\ call'.op = "mark" /\ call'.at = "mark" /\ UNCHANGED state
                  /\ record # NoRecord /\ Head(queue) = "mark"
  <2>1. CASE closing = "closed" /\ Skip
    BY <2>1, DoneRests DEF Skip
  <2>2. CASE StartConnect
    BY <2>2 DEF StartConnect, Running
  <2>3. CASE StartRefresh
    BY <2>3, DoneRests DEF StartRefresh, Running, Stale
  <2>4. CASE StartDisconnect
    BY <2>4 DEF StartDisconnect, Running
  <2>5. CASE Head(queue) = "mark" /\ StartMark
    BY <2>5, DoneRests DEF StartMark, Running
  <2>6. QED
    BY <2>1, <2>2, <2>3, <2>4, <2>5 DEF Start
<1>3. ASSUME NEW i \in 1 .. Len(queue), queue[i] = "refresh", Head(queue) = "mark"
      PROVE  \E j \in 1 .. Len(queue') : queue'[j] = "refresh"
  <2>1. i # 1
    BY <1>0, <1>1, <1>3
  <2>2. i - 1 \in 1 .. Len(queue') /\ queue'[i - 1] = "refresh"
    BY <1>0, <1>1, <1>3, <2>1
  <2>3. QED
    BY <2>2
<1>4. DeviceInv'
  BY <1>0, <1>1, <1>2 DEF IInv, DeviceInv, OpSteps, AccountRead, ClientOwned, Removed, SigningIn, Restoring, ServerAgrees, KeyKept, RecordNamesDevice, RenewalKeepsDevice, SameAccount, Rests, At, Removing, NoChat, Record
<1>5. GoneStays'
  BY <1>0, <1>1, <1>2 DEF IInv, CallInv, GoneStays, Gone, DeviceInv, Rests
<1>6. ClientKept'
  BY <1>0, <1>1, <1>2 DEF IInv, CallInv, ClientKept, DeviceInv, Rests, NoRecord
<1>7. RenewalKept'
  BY <1>0, <1>1, <1>2, <1>3 DEF IInv, CallInv, RenewalKept, Stale, DeviceInv, Rests, NoRecord
<1>8. QED
  BY <1>4, <1>5, <1>6, <1>7 DEF CallInv

LEMMA AccountActiveStep ==
  ASSUME IInv, NEW a \in Accounts, AccountActive(a), ApiFrame
  PROVE  DeviceInv' /\ CallInv'
<1>0. call \in Call /\ chat \in Chat /\ record \in Record \cup {NoRecord} /\ disk \in Record \cup {NoRecord}
  BY DEF IInv, TypeOK
<1> DEFINE c == [call EXCEPT !.account = a]
<1>1. /\ c \in Call /\ c.op = "connect" /\ call.op = "connect" /\ c.account = a
      /\ c.after = call.after /\ c.session = call.session
  BY <1>0 DEF AccountActive, IInv, DeviceInv, OpSteps, Removing, Call, Operations, At
<1>2. \/ UsesRecord(c, record)
      \/ call' = [c EXCEPT !.at = "read"] /\ UNCHANGED <<state, chat, record>>
  BY <1>0, <1>1, UseRecordUses DEF AccountActive
<1>3. \/ UsesRecord(c, record)
      \/ Continues(c, "read") /\ UNCHANGED <<state, chat, record>>
  BY <1>1, <1>2 DEF Continues, Call
<1>4. At("account") /\ UNCHANGED <<queue, closing, open, store, key, disk, due, server, ended, faults>>
  BY DEF AccountActive, ApiFrame, native, device, remote
<1> HIDE DEF c
<1>9. record # NoRecord => disk # NoRecord
  BY <1>0, ConnectorAssumption
     DEF IInv, DeviceInv, RecordNamesDevice, Record, Session, NoRecord, NoSession
<1>5. DeviceInv'
  BY <1>0, <1>9, <1>1, <1>3, <1>4 DEF IInv, DeviceInv, OpSteps, AccountRead, ClientOwned, Removed, SigningIn, Restoring, ServerAgrees, KeyKept, RecordNamesDevice, RenewalKeepsDevice, SameAccount, Rests, Continues, Closes, UsesRecord, At, Removing, NoChat
<1>6. GoneStays'
  BY <1>0, <1>1, <1>3, <1>4 DEF IInv, CallInv, GoneStays, OpSteps, DeviceInv, Rests, Continues, Closes, UsesRecord
<1>7. ClientKept'
  BY <1>0, <1>1, <1>3, <1>4 DEF IInv, CallInv, ClientKept, DeviceInv, Rests, Continues, Closes, UsesRecord
<1>8. RenewalKept'
  BY <1>0, <1>1, <1>3, <1>4 DEF IInv, CallInv, RenewalKept, DeviceInv, Rests, Continues, Closes, UsesRecord
<1> QED
  BY <1>5, <1>6, <1>7, <1>8 DEF CallInv

LEMMA AccountInactiveStep ==
  ASSUME IInv, AccountInactive, ApiFrame
  PROVE  DeviceInv' /\ CallInv'
<1>1. DeviceInv'
  BY DEF IInv, DeviceInv, OpSteps, AccountRead, ClientOwned, Removed, SigningIn, Restoring, ServerAgrees, KeyKept, RecordNamesDevice, RenewalKeepsDevice, SameAccount, AccountInactive, ApiFrame, At, device, remote, CloseThen, NoChat, TypeOK, Removing, Call, Operations
<1>2. CallInv'
  BY DEF IInv, CallInv, GoneStays, ClientKept, RenewalKept, DeviceInv, OpSteps, AccountInactive, ApiFrame, At, CloseThen, TypeOK, Removing
<1>3. QED
  BY <1>1, <1>2

LEMMA HomeserverUnavailableStep ==
  ASSUME IInv, HomeserverUnavailable, ApiFrame
  PROVE  DeviceInv' /\ CallInv'
<1>1. DeviceInv'
  BY DEF IInv, DeviceInv, OpSteps, AccountRead, ClientOwned, Removed, SigningIn, Restoring, ServerAgrees, KeyKept, RecordNamesDevice, RenewalKeepsDevice, SameAccount, HomeserverUnavailable, ApiFrame, At, device, remote, CloseThen, NoChat, TypeOK, Removing, Call, Operations
<1>2. CallInv'
  BY DEF IInv, CallInv, GoneStays, ClientKept, RenewalKept, DeviceInv, OpSteps, HomeserverUnavailable, ApiFrame, At, CloseThen, TypeOK, Removing
<1>3. QED
  BY <1>1, <1>2

LEMMA CreatedStep ==
  ASSUME IInv, Created, ApiFrame
  PROVE  DeviceInv' /\ CallInv'
<1>0. call \in Call /\ chat \in Chat /\ record \in Record \cup {NoRecord} /\ disk \in Record \cup {NoRecord}
  BY DEF IInv, TypeOK
<1>1. /\ At("create") /\ call.op = "connect"
      /\ server' = [account |-> call.account, device |-> issued + 1] /\ server' # NoSession
      /\ UNCHANGED <<queue, closing, open, store, key, disk, due, record, ended, faults>>
  BY DEF Created, ApiFrame, IInv, TypeOK, DeviceInv, OpSteps, Removing, Call, Operations, At, native, device, NoSession
<1>2. \/ /\ Rests /\ chat'.client = chat.client /\ state' \in {state, "failed"}
         /\ closing # "closed" => state' = "failed"
      \/ /\ call'.op = call.op /\ call'.at = "key" /\ call'.after = call.after
         /\ call'.account = call.account /\ call'.session = server' /\ UNCHANGED <<state, chat>>
  <2>1. CASE Throw
    BY <1>0, <1>1, <2>1, ThrowRests
  <2>2. CASE call' = [call EXCEPT !.at = "key", !.session = server'] /\ UNCHANGED <<state, chat>>
    BY <1>0, <2>2
  <2>3. QED
    BY <2>1, <2>2 DEF Created
<1>3. DeviceInv'
  BY <1>0, <1>1, <1>2 DEF IInv, DeviceInv, OpSteps, AccountRead, ClientOwned, Removed, SigningIn, Restoring, ServerAgrees, KeyKept, RecordNamesDevice, RenewalKeepsDevice, SameAccount, Rests, At, Removing
<1>4. GoneStays'
  BY <1>0, <1>1, <1>2 DEF IInv, CallInv, GoneStays, OpSteps, DeviceInv, Rests
<1>5. ClientKept'
  BY <1>0, <1>1, <1>2 DEF IInv, CallInv, ClientKept, DeviceInv, Rests
<1>6. RenewalKept'
  BY <1>0, <1>1, <1>2 DEF IInv, CallInv, RenewalKept, DeviceInv, Rests
<1>7. QED
  BY <1>3, <1>4, <1>5, <1>6 DEF CallInv

LEMMA RenewedStep ==
  ASSUME IInv, Renewed, ApiFrame
  PROVE  DeviceInv' /\ CallInv'
<1>0. call \in Call /\ chat \in Chat /\ record \in Record \cup {NoRecord} /\ disk \in Record \cup {NoRecord}
  BY DEF IInv, TypeOK
<1>1. /\ At("renew") /\ server # NoSession
      /\ UNCHANGED <<queue, closing, open, store, key, disk, due, record, server, ended, faults>>
  BY DEF Renewed, ApiFrame, native, device, remote
<1>2. \/ /\ Rests /\ chat.client = "none" /\ chat'.client = "none"
         /\ state' \in {state, "failed"}
      \/ /\ call'.op = call.op /\ call'.at = "update" /\ call'.after = call.after
         /\ call'.account = call.account /\ call'.session = server
         /\ chat.client # "none" /\ UNCHANGED <<state, chat>>
  <2>1. CASE Throw /\ chat.client = "none"
    BY <1>0, <2>1, ThrowRests
  <2>2. CASE /\ call' = [call EXCEPT !.at = "update", !.session = server]
             /\ chat.client # "none" /\ UNCHANGED <<state, chat>>
    BY <1>0, <2>2
  <2>3. QED
    BY <2>1, <2>2 DEF Renewed
<1>3. DeviceInv'
  BY <1>0, <1>1, <1>2 DEF IInv, DeviceInv, OpSteps, AccountRead, ClientOwned, Removed, SigningIn, Restoring, ServerAgrees, KeyKept, RecordNamesDevice, RenewalKeepsDevice, SameAccount, Rests, At, Removing
<1>4. GoneStays'
  BY <1>0, <1>1, <1>2 DEF IInv, CallInv, GoneStays, OpSteps, DeviceInv, Rests, At, Removing
<1>5. ClientKept'
  BY <1>0, <1>1, <1>2 DEF IInv, CallInv, ClientKept, DeviceInv, Rests, At
<1>6. RenewalKept'
  BY <1>0, <1>1, <1>2 DEF IInv, CallInv, RenewalKept, Stale, ClientKept, DeviceInv, Rests, At
<1>7. QED
  BY <1>3, <1>4, <1>5, <1>6 DEF CallInv

LEMMA SessionUnknownStep ==
  ASSUME IInv, SessionUnknown, ApiFrame
  PROVE  DeviceInv' /\ CallInv'
<1>1. DeviceInv'
  BY DEF IInv, DeviceInv, OpSteps, AccountRead, ClientOwned, Removed, SigningIn, Restoring, ServerAgrees, KeyKept, RecordNamesDevice, RenewalKeepsDevice, SameAccount, SessionUnknown, ApiFrame, At, device, remote, CloseThen, NoChat, TypeOK, Removing, Call, Operations
<1>2. CallInv'
  BY DEF IInv, CallInv, GoneStays, ClientKept, RenewalKept, DeviceInv, OpSteps, SessionUnknown, ApiFrame, At, CloseThen, TypeOK, Removing
<1>3. QED
  BY <1>1, <1>2

LEMMA AccessRefusedStep ==
  ASSUME IInv, AccessRefused, ApiFrame
  PROVE  DeviceInv' /\ CallInv'
<1>1. DeviceInv'
  BY DEF IInv, DeviceInv, OpSteps, AccountRead, ClientOwned, Removed, SigningIn, Restoring, ServerAgrees, KeyKept, RecordNamesDevice, RenewalKeepsDevice, SameAccount, AccessRefused, ApiFrame, At, device, remote, CloseThen, NoChat, TypeOK, Removing, Call, Operations
<1>2. CallInv'
  BY DEF IInv, CallInv, GoneStays, ClientKept, RenewalKept, DeviceInv, OpSteps, AccessRefused, ApiFrame, At, CloseThen, TypeOK, Removing
<1>3. QED
  BY <1>1, <1>2

LEMMA OtherRefusalStep ==
  ASSUME IInv, OtherRefusal, ApiFrame
  PROVE  DeviceInv' /\ CallInv'
<1>1. DeviceInv'
  BY DEF IInv, DeviceInv, OpSteps, AccountRead, ClientOwned, Removed, SigningIn, Restoring, ServerAgrees, KeyKept, RecordNamesDevice, RenewalKeepsDevice, SameAccount, OtherRefusal, ApiFrame, At, Done, Finish, Running, Idle, native, device, remote, TypeOK, Removing
<1>2. CallInv'
  BY DEF IInv, CallInv, GoneStays, ClientKept, RenewalKept, DeviceInv, OpSteps, OtherRefusal, ApiFrame, At, Done, Emit, Finish, Running, Idle, TypeOK, Removing
<1>3. QED
  BY <1>1, <1>2

LEMMA CallFailsStep ==
  ASSUME IInv, CallFails, ApiFrame
  PROVE  DeviceInv' /\ CallInv'
<1>1. DeviceInv'
  BY DEF IInv, DeviceInv, OpSteps, AccountRead, ClientOwned, Removed, SigningIn, Restoring, ServerAgrees, KeyKept, RecordNamesDevice, RenewalKeepsDevice, SameAccount, CallFails, ApiFrame, At, Done, Running, Idle, native, device, remote, Throw, TypeOK, Chat, Removing
<1>2. CallInv'
  BY DEF IInv, CallInv, GoneStays, ClientKept, RenewalKept, DeviceInv, OpSteps, CallFails, ApiFrame, At, Done, Emit, Running, Idle, device, Throw, TypeOK, Chat, Stale, Removing, Call, Operations
<1>3. QED
  BY <1>1, <1>2

LEMMA SessionDeletedStep ==
  ASSUME IInv, SessionDeleted, ApiFrame
  PROVE  DeviceInv' /\ CallInv'
<1>1. DeviceInv'
  BY DEF IInv, DeviceInv, OpSteps, AccountRead, ClientOwned, Removed, SigningIn, Restoring, ServerAgrees, KeyKept, RecordNamesDevice, RenewalKeepsDevice, SameAccount, SessionDeleted, ApiFrame, At, device, CloseThen, NoChat, TypeOK, Removing, Call, Operations
<1>2. CallInv'
  BY DEF IInv, CallInv, GoneStays, ClientKept, RenewalKept, DeviceInv, OpSteps, SessionDeleted, ApiFrame, At, native, device, CloseThen, TypeOK, Gone
<1>3. QED
  BY <1>1, <1>2

LEMMA RecordReadStep ==
  ASSUME IInv, RecordRead, DeviceFrame
  PROVE  DeviceInv' /\ CallInv'
<1>0. call \in Call /\ chat \in Chat /\ record \in Record \cup {NoRecord} /\ disk \in Record \cup {NoRecord}
  BY DEF IInv, TypeOK
<1>1. \/ call.op = "connect" /\ UsesRecord(call, disk)
      \/ call.op = "disconnect" /\ Closes(call, "disconnected")
      \/ call.op = "disconnect" /\ Continues(call, "delete") /\ UNCHANGED <<state, chat, record>>
  BY <1>0, UseRecordUses, CloseThenCloses, AwaitContinues DEF RecordRead
<1>2. /\ At("read") /\ ended' = FALSE
      /\ UNCHANGED <<queue, closing, open, store, key, disk, due, server, faults>>
  BY DEF RecordRead, DeviceFrame, At, native, device, remote
<1>3. DeviceInv'
  BY <1>0, <1>1, <1>2 DEF IInv, DeviceInv, OpSteps, AccountRead, ClientOwned, Removed, SigningIn, Restoring, ServerAgrees, KeyKept, RecordNamesDevice, RenewalKeepsDevice, SameAccount, Rests, Continues, Closes, UsesRecord, At, Removing, NoChat
<1>4. GoneStays'
  BY <1>0, <1>1, <1>2 DEF IInv, CallInv, GoneStays, Gone, DeviceInv, Rests, Continues, Closes, UsesRecord
<1>5. ClientKept'
  BY <1>0, <1>1, <1>2 DEF IInv, CallInv, ClientKept, DeviceInv, Rests, Continues, Closes, UsesRecord
<1>6. RenewalKept'
  BY <1>0, <1>1, <1>2 DEF IInv, CallInv, RenewalKept, DeviceInv, Rests, Continues, Closes, UsesRecord
<1>7. QED
  BY <1>3, <1>4, <1>5, <1>6 DEF CallInv

LEMMA KeyReadStep ==
  ASSUME IInv, KeyRead, DeviceFrame
  PROVE  DeviceInv' /\ CallInv'
<1>1. DeviceInv'
  BY DEF IInv, DeviceInv, OpSteps, AccountRead, ClientOwned, Removed, SigningIn, Restoring, ServerAgrees, KeyKept, RecordNamesDevice, RenewalKeepsDevice, SameAccount, KeyRead, DeviceFrame, At, Await, native, remote, TypeOK, Removing
<1>2. CallInv'
  BY DEF IInv, CallInv, GoneStays, ClientKept, RenewalKept, DeviceInv, OpSteps, KeyRead, DeviceFrame, At, Await, TypeOK, Removing
<1>3. QED
  BY <1>1, <1>2

LEMMA OpenedStep ==
  ASSUME IInv, Opened, DeviceFrame
  PROVE  DeviceInv' /\ CallInv'
<1>1. DeviceInv'
  BY DEF IInv, DeviceInv, OpSteps, AccountRead, ClientOwned, Removed, SigningIn, Restoring, ServerAgrees, KeyKept, RecordNamesDevice, RenewalKeepsDevice, SameAccount, Opened, DeviceFrame, At, Await, remote, TypeOK, Removing, NoSession, Blank
<1>2. CallInv'
  BY DEF IInv, CallInv, GoneStays, ClientKept, RenewalKept, DeviceInv, OpSteps, SigningIn, Opened, DeviceFrame, At, Await, TypeOK, Gone
<1>3. QED
  BY <1>1, <1>2

LEMMA RestoredStep ==
  ASSUME IInv, Restored, DeviceFrame
  PROVE  DeviceInv' /\ CallInv'
<1>0. call \in Call /\ chat \in Chat /\ record \in Record \cup {NoRecord} /\ disk \in Record \cup {NoRecord}
  BY DEF IInv, TypeOK
<1>1. /\ At("restore") /\ call.op = "connect" /\ ended' = FALSE
      /\ UNCHANGED <<queue, closing, open, store, key, disk, due, server, faults>>
  BY DEF Restored, DeviceFrame, At, IInv, TypeOK, DeviceInv, OpSteps, Removing, Call, Operations, native, device, remote
<1>2. \/ Closes(call, "create")
      \/ /\ record' = call.record /\ chat.client = "none" /\ chat'.client = "none" /\ Rests
         /\ state' \in {state, "failed"}
      \/ /\ record' = call.record /\ chat.client # "none" /\ chat'.client # "none"
         /\ store.account = call.record.session.account
         /\ (Continues(call, "renew") \/ Continues(call, "sync")) /\ UNCHANGED state
  <2>1. CASE CloseThen(call, "create")
    BY <1>0, <2>1, CloseThenCloses
  <2>2. CASE record' = call.record /\ chat.client = "none" /\ Throw
    BY <1>0, <2>2, ThrowRests
  <2>3. CASE /\ record' = call.record /\ chat.client # "none" /\ Activated
             /\ store.account = call.record.session.account
             /\ Await(IF due THEN "renew" ELSE "sync") /\ UNCHANGED state
    BY <1>0, <2>3, AwaitContinues DEF Activated
  <2>4. QED
    BY <2>1, <2>2, <2>3 DEF Restored
<1>3. DeviceInv'
  BY <1>0, <1>1, <1>2 DEF IInv, DeviceInv, OpSteps, AccountRead, ClientOwned, Removed, SigningIn, Restoring, ServerAgrees, KeyKept, RecordNamesDevice, RenewalKeepsDevice, SameAccount, Rests, Continues, Closes, At, Removing, NoChat
<1>4. GoneStays'
  BY <1>0, <1>1, <1>2 DEF IInv, CallInv, GoneStays, DeviceInv, Rests, Continues, Closes
<1>5. ClientKept'
  BY <1>0, <1>1, <1>2 DEF IInv, CallInv, ClientKept, DeviceInv, Restoring, Rests, Continues, Closes, At
<1>6. RenewalKept'
  BY <1>0, <1>1, <1>2 DEF IInv, CallInv, RenewalKept, DeviceInv, Rests, Continues, Closes
<1>7. QED
  BY <1>3, <1>4, <1>5, <1>6 DEF CallInv

LEMMA SignedInStep ==
  ASSUME IInv, SignedIn, DeviceFrame
  PROVE  DeviceInv' /\ CallInv'
<1>0. call \in Call /\ chat \in Chat /\ record \in Record \cup {NoRecord} /\ disk \in Record \cup {NoRecord}
  BY DEF IInv, TypeOK
<1>1. /\ At("signIn") /\ store' = call.session /\ Continues(call, "write") /\ ended' = FALSE
      /\ UNCHANGED <<state, queue, closing, open, key, disk, due, server, record, faults>>
  BY <1>0, AwaitContinues DEF SignedIn, DeviceFrame, At, native, remote
<1>2. chat'.client = "none" <=> chat.client = "none"
  BY <1>0 DEF SignedIn, Activated
<1>3. DeviceInv'
  BY <1>0, <1>1, <1>2 DEF IInv, DeviceInv, OpSteps, AccountRead, ClientOwned, Removed, SigningIn, Restoring, ServerAgrees, KeyKept, RecordNamesDevice, RenewalKeepsDevice, SameAccount, Rests, Continues, At, Removing
<1>4. GoneStays'
  BY <1>0, <1>1, <1>2 DEF IInv, CallInv, GoneStays, OpSteps, DeviceInv, Rests, Continues, At, Removing
<1>5. ClientKept'
  BY <1>0, <1>1, <1>2 DEF IInv, CallInv, ClientKept, DeviceInv, Rests, Continues, At
<1>6. RenewalKept'
  BY <1>0, <1>1, <1>2 DEF IInv, CallInv, RenewalKept, DeviceInv, OpSteps, Rests, Continues, At
<1>7. QED
  BY <1>3, <1>4, <1>5, <1>6 DEF CallInv

LEMMA RecordWrittenStep ==
  ASSUME IInv, RecordWritten, DeviceFrame
  PROVE  DeviceInv' /\ CallInv'
<1>0. call \in Call /\ chat \in Chat /\ record \in Record \cup {NoRecord} /\ disk \in Record \cup {NoRecord}
  BY DEF IInv, TypeOK
<1>1. /\ At("write") /\ call.op = "connect" /\ ended' = FALSE
      /\ disk' = [session |-> call.session, prompted |-> FALSE] /\ record' = disk'
      /\ disk' # NoRecord
      /\ UNCHANGED <<queue, closing, open, store, key, server, faults>>
  BY DEF RecordWritten, DeviceFrame, At, IInv, TypeOK, DeviceInv, OpSteps, SigningIn, Removing, Call, Operations, NoRecord, native, remote
<1>2. /\ chat'.client = chat.client /\ state' \in {state, "failed", "connected"}
      /\ \/ Rests /\ chat.client = "none" /\ (closing # "closed" => state' = "failed")
         \/ Rests /\ chat.client # "none" /\ chat'.timer = "renewal"
         \/ Continues(call, "sync") /\ chat.client # "none" /\ UNCHANGED <<state, chat>>
  BY <1>0, <1>1, ThrowRests, SyncOrRunGoes DEF RecordWritten
<1>3. DeviceInv'
  BY <1>0, <1>1, <1>2 DEF IInv, DeviceInv, OpSteps, AccountRead, ClientOwned, Removed, SigningIn, Restoring, ServerAgrees, KeyKept, RecordNamesDevice, RenewalKeepsDevice, SameAccount, Rests, Continues, At, Removing
<1>4. GoneStays'
  BY <1>0, <1>1, <1>2 DEF IInv, CallInv, GoneStays, DeviceInv, Rests, Continues
<1>5. ClientKept'
  BY <1>0, <1>1, <1>2 DEF IInv, CallInv, ClientKept, DeviceInv, Rests, Continues
<1>6. RenewalKept'
  BY <1>0, <1>1, <1>2 DEF IInv, CallInv, RenewalKept, DeviceInv, Rests, Continues
<1>7. QED
  BY <1>3, <1>4, <1>5, <1>6 DEF CallInv

LEMMA TokenUpdatedStep ==
  ASSUME IInv, TokenUpdated, DeviceFrame
  PROVE  DeviceInv' /\ CallInv'
<1>1. DeviceInv'
  BY DEF IInv, DeviceInv, OpSteps, AccountRead, ClientOwned, Removed, SigningIn, Restoring, ServerAgrees, KeyKept, RecordNamesDevice, RenewalKeepsDevice, SameAccount, TokenUpdated, DeviceFrame, At, Await, native, device, remote, Activated, TypeOK, Removing
<1>2. CallInv'
  BY DEF IInv, CallInv, GoneStays, ClientKept, RenewalKept, DeviceInv, OpSteps, TokenUpdated, DeviceFrame, At, Await, Activated, TypeOK, Removing
<1>3. QED
  BY <1>1, <1>2

LEMMA RecordRewrittenStep ==
  ASSUME IInv, RecordRewritten, DeviceFrame
  PROVE  DeviceInv' /\ CallInv'
<1>0. call \in Call /\ chat \in Chat /\ record \in Record \cup {NoRecord} /\ disk \in Record \cup {NoRecord}
  BY DEF IInv, TypeOK
<1>1. /\ At("rewrite") /\ disk' = record /\ ended' = FALSE
      /\ UNCHANGED <<queue, closing, open, store, key, server, record, faults>>
  BY DEF RecordRewritten, DeviceFrame, At, native, remote
<1>2. /\ chat'.client = chat.client /\ state' \in {state, "failed", "connected"}
      /\ \/ Rests /\ call.op = "connect" /\ (closing # "closed" => state' = "failed")
         \/ Rests /\ chat'.timer = "renewal"
         \/ Continues(call, "sync") /\ call.op = "connect" /\ UNCHANGED <<state, chat>>
  BY <1>0, ThrowRests, SyncOrRunGoes, FinishRests DEF RecordRewritten, Finish, Emit, Chat
<1>3. DeviceInv'
  BY <1>0, <1>1, <1>2 DEF IInv, DeviceInv, OpSteps, AccountRead, ClientOwned, Removed, SigningIn, Restoring, ServerAgrees, KeyKept, RecordNamesDevice, RenewalKeepsDevice, SameAccount, Rests, Continues, At, Removing, NoSession, NoRecord, Record, Session
<1>4. GoneStays'
  BY <1>0, <1>1, <1>2 DEF IInv, CallInv, GoneStays, OpSteps, DeviceInv, Rests, Continues, At, Removing
<1>5. ClientKept'
  BY <1>0, <1>1, <1>2 DEF IInv, CallInv, ClientKept, DeviceInv, Rests, Continues, At
<1>6. RenewalKept'
  BY <1>0, <1>1, <1>2 DEF IInv, CallInv, RenewalKept, ClientKept, DeviceInv, Rests, Continues, At
<1>7. QED
  BY <1>3, <1>4, <1>5, <1>6 DEF CallInv

LEMMA SyncStartedStep ==
  ASSUME IInv, SyncStarted, DeviceFrame
  PROVE  DeviceInv' /\ CallInv'
<1>1. DeviceInv'
  BY DEF IInv, DeviceInv, OpSteps, AccountRead, ClientOwned, Removed, SigningIn, Restoring, ServerAgrees, KeyKept, RecordNamesDevice, RenewalKeepsDevice, SameAccount, SyncStarted, DeviceFrame, At, Done, Finish, Running, Idle, device, remote, TypeOK, Removing
<1>2. CallInv'
  BY DEF IInv, CallInv, GoneStays, ClientKept, RenewalKept, DeviceInv, OpSteps, SyncStarted, DeviceFrame, At, Done, Emit, Finish, Running, Idle, TypeOK, Removing
<1>3. QED
  BY <1>1, <1>2

LEMMA MarkWrittenStep ==
  ASSUME IInv, MarkWritten, DeviceFrame
  PROVE  DeviceInv' /\ CallInv'
<1>1. DeviceInv'
  BY DEF IInv, DeviceInv, OpSteps, AccountRead, ClientOwned, Removed, SigningIn, Restoring, ServerAgrees, KeyKept, RecordNamesDevice, RenewalKeepsDevice, SameAccount, MarkWritten, DeviceFrame, At, Done, Running, Idle, native, remote, TypeOK, Removing, NoSession, NoRecord, Record, Session
<1>2. CallInv'
  BY DEF IInv, CallInv, GoneStays, ClientKept, RenewalKept, DeviceInv, OpSteps, MarkWritten, DeviceFrame, At, Done, Running, Idle, TypeOK, Stale, Removing, Call, Operations
<1>3. QED
  BY <1>1, <1>2

LEMMA DisposedStep ==
  ASSUME IInv, Disposed, DeviceFrame
  PROVE  DeviceInv' /\ CallInv'
<1>0. call \in Call /\ chat \in Chat /\ record \in Record \cup {NoRecord} /\ disk \in Record \cup {NoRecord}
  BY DEF IInv, TypeOK
<1>1. /\ At("dispose") /\ open' = FALSE /\ ended' = FALSE
      /\ UNCHANGED <<chat, queue, closing, store, key, disk, due, server, faults>>
  BY DEF Disposed, DeviceFrame, At, device, remote
<1>2. \/ Rests /\ UNCHANGED record /\ (state' = state \/ state' = "homeserver")
         /\ (closing # "closed" => state' = "homeserver")
      \/ /\ call.after # "homeserver" /\ Continues(call, "purge") /\ record' = NoRecord
         /\ UNCHANGED state
  BY <1>0, DoneRests, AwaitContinues DEF Disposed, Finish, Emit
<1>3. DeviceInv'
  BY <1>0, <1>1, <1>2 DEF IInv, DeviceInv, OpSteps, AccountRead, ClientOwned, Removed, SigningIn, Restoring, ServerAgrees, KeyKept, RecordNamesDevice, RenewalKeepsDevice, SameAccount, Rests, Continues, At, Removing
<1>4. GoneStays'
  BY <1>0, <1>1, <1>2 DEF IInv, CallInv, GoneStays, Gone, DeviceInv, Rests, Continues
<1>5. ClientKept'
  BY <1>0, <1>1, <1>2 DEF IInv, CallInv, ClientKept, DeviceInv, Rests, Continues
<1>6. RenewalKept'
  BY <1>0, <1>1, <1>2 DEF IInv, CallInv, RenewalKept, DeviceInv, OpSteps, Rests, Continues, At
<1>7. QED
  BY <1>3, <1>4, <1>5, <1>6 DEF CallInv

LEMMA StoresPurgedStep ==
  ASSUME IInv, StoresPurged, DeviceFrame
  PROVE  DeviceInv' /\ CallInv'
<1>1. DeviceInv'
  BY DEF IInv, DeviceInv, OpSteps, AccountRead, ClientOwned, Removed, SigningIn, Restoring, ServerAgrees, KeyKept, RecordNamesDevice, RenewalKeepsDevice, SameAccount, StoresPurged, DeviceFrame, At, Await, native, TypeOK, Removing, NoChat
<1>2. CallInv'
  BY DEF IInv, CallInv, GoneStays, ClientKept, RenewalKept, DeviceInv, OpSteps, StoresPurged, DeviceFrame, At, Await, native, TypeOK, Gone
<1>3. QED
  BY <1>1, <1>2

LEMMA RecordClearedStep ==
  ASSUME IInv, RecordCleared, DeviceFrame
  PROVE  DeviceInv' /\ CallInv'
<1>1. DeviceInv'
  BY DEF IInv, DeviceInv, OpSteps, AccountRead, ClientOwned, Removed, SigningIn, Restoring, ServerAgrees, KeyKept, RecordNamesDevice, RenewalKeepsDevice, SameAccount, RecordCleared, DeviceFrame, At, Await, native, TypeOK, Removing
<1>2. CallInv'
  BY DEF IInv, CallInv, GoneStays, ClientKept, RenewalKept, DeviceInv, OpSteps, RecordCleared, DeviceFrame, At, Await, native, TypeOK, Gone
<1>3. QED
  BY <1>1, <1>2

LEMMA KeyClearedStep ==
  ASSUME IInv, KeyCleared, DeviceFrame
  PROVE  DeviceInv' /\ CallInv'
<1>0. call \in Call /\ chat \in Chat /\ record \in Record \cup {NoRecord} /\ disk \in Record \cup {NoRecord}
  BY DEF IInv, TypeOK
<1>1. /\ At("clearKey") /\ key' = FALSE
      /\ ended' = (call.after = "disconnected" /\ queue = <<>>)
      /\ UNCHANGED <<queue, closing, open, record, store, disk, due, server, faults>>
  BY DEF KeyCleared, DeviceFrame, native, remote
<1>2. \/ call.after = "create" /\ Continues(call, "create") /\ UNCHANGED <<state, chat>>
      \/ /\ call.after = "again" /\ chat' = NoChat /\ UNCHANGED state
         /\ call'.op = call.op /\ call'.at = "dispose" /\ call'.after = "create"
         /\ call'.account = call.account /\ call'.session = call.session
      \/ /\ call.after = "reconnect" /\ UNCHANGED chat /\ call' = Running("connect", "account")
         /\ state' = state \/ state' = "connecting"
         /\ closing # "closed" => state' = "connecting"
      \/ /\ call.after \in {"withdrawn", "refused", "disconnected"} /\ Rests /\ UNCHANGED chat
         /\ state' = state \/ state' \in {"withdrawn", "disconnected"}
         /\ closing # "closed" => state' # "connected"
  <2>1. CASE call.after = "create" /\ Await("create") /\ UNCHANGED <<state, chat>>
    BY <1>0, <2>1, AwaitContinues
  <2>2. CASE /\ call.after = "again" /\ chat' = NoChat /\ UNCHANGED state
             /\ call' = [call EXCEPT !.at = "dispose", !.after = "create"]
    BY <1>0, <2>2
  <2>3. CASE /\ call.after = "reconnect" /\ UNCHANGED chat
             /\ call' = Running("connect", "account") /\ Emit("connecting")
    BY <2>3 DEF Emit
  <2>4. CASE /\ call.after \in {"withdrawn", "refused", "disconnected"} /\ UNCHANGED chat
             /\ Finish("withdrawn") \/ Finish("disconnected")
    BY <2>4, DoneRests DEF Finish, Emit
  <2>5. QED
    BY <2>1, <2>2, <2>3, <2>4 DEF KeyCleared
<1>3. DeviceInv'
  BY <1>0, <1>1, <1>2 DEF IInv, DeviceInv, OpSteps, AccountRead, ClientOwned, Removed, SigningIn, Restoring, ServerAgrees, KeyKept, RecordNamesDevice, RenewalKeepsDevice, SameAccount, Rests, Continues, Running, At, Removing
<1>4. GoneStays'
  BY <1>0, <1>1, <1>2 DEF IInv, CallInv, GoneStays, Gone, OpSteps, DeviceInv, ClientOwned, Removed, Rests, Continues, At, Removing
<1>5. ClientKept'
  BY <1>0, <1>1, <1>2 DEF IInv, CallInv, ClientKept, DeviceInv, Rests, Continues, Running
<1>6. RenewalKept'
  BY <1>0, <1>1, <1>2 DEF IInv, CallInv, RenewalKept, DeviceInv, OpSteps, Rests, Continues, Running, At
<1>7. QED
  BY <1>3, <1>4, <1>5, <1>6 DEF CallInv

LEMMA DeviceFailsStep ==
  ASSUME IInv, DeviceFails
  PROVE  DeviceInv' /\ CallInv'
<1>0. call \in Call /\ chat \in Chat /\ record \in Record \cup {NoRecord} /\ disk \in Record \cup {NoRecord}
  BY DEF IInv, TypeOK
<1>1. /\ call.at \in {"read", "key", "write", "rewrite", "mark", "purge", "clearRecord", "clearKey"}
      /\ faults' # 0
      /\ UNCHANGED <<record, queue, closing, open, store, key, disk, due, server, ended>>
  BY DEF DeviceFails, IInv, TypeOK, native, device, remote
<1>2. /\ Rests /\ chat'.client = chat.client
      /\ call.op # "refresh" => chat' = chat
      /\ state' = state \/ state' = "failed"
  BY <1>0, ThrowRests, DoneRests DEF DeviceFails, Throw
<1>3. DeviceInv'
  BY <1>0, <1>1, <1>2 DEF IInv, DeviceInv, OpSteps, AccountRead, ClientOwned, Removed, SigningIn, Restoring, ServerAgrees, KeyKept, RecordNamesDevice, RenewalKeepsDevice, SameAccount, Rests, At, Removing
<1>4. GoneStays'
  BY <1>0, <1>1, <1>2 DEF IInv, CallInv, GoneStays, Gone, DeviceInv, Rests, At
<1>5. ClientKept'
  BY <1>0, <1>1, <1>2 DEF IInv, CallInv, ClientKept, DeviceInv, Rests
<1>6. RenewalKept'
  BY <1>0, <1>1, <1>2 DEF IInv, CallInv, RenewalKept, DeviceInv, Rests
<1>7. QED
  BY <1>3, <1>4, <1>5, <1>6 DEF CallInv

LEMMA RequestStep ==
  ASSUME IInv, NEW op \in Operations, Request(op)
  PROVE  DeviceInv' /\ CallInv'
<1>1. DeviceInv'
  BY DEF IInv, DeviceInv, OpSteps, AccountRead, ClientOwned, Removed, SigningIn, Restoring, ServerAgrees, KeyKept, RecordNamesDevice, RenewalKeepsDevice, SameAccount, Request, native, device, remote, TypeOK, At
<1>2. CallInv'
  BY DEF IInv, CallInv, GoneStays, ClientKept, RenewalKept, DeviceInv, Request, Enqueue, native, device, TypeOK, Gone, Stale
<1>3. QED
  BY <1>1, <1>2

LEMMA ClientReportsStep ==
  ASSUME IInv, NEW s \in {"expired", "locked"}, ClientReports(s)
  PROVE  DeviceInv' /\ CallInv'
<1>1. DeviceInv'
  BY DEF IInv, DeviceInv, OpSteps, AccountRead, ClientOwned, Removed, SigningIn, Restoring, ServerAgrees, KeyKept, RecordNamesDevice, RenewalKeepsDevice, SameAccount, ClientReports, device, remote, TypeOK, At, NoChat
<1>2. CallInv'
  BY DEF IInv, CallInv, GoneStays, ClientKept, RenewalKept, DeviceInv, Removed, SigningIn, ClientReports, Enqueue, device, remote, history, TypeOK, Chat, Gone, Stale, Call, NoChat, NoRecord, Record
<1>3. QED
  BY <1>1, <1>2

LEMMA TimerFiresStep ==
  ASSUME IInv, TimerFires
  PROVE  DeviceInv' /\ CallInv'
<1>1. DeviceInv'
  BY DEF IInv, DeviceInv, OpSteps, AccountRead, ClientOwned, Removed, SigningIn, Restoring, ServerAgrees, KeyKept, RecordNamesDevice, RenewalKeepsDevice, SameAccount, TimerFires, native, device, remote, TypeOK, At, NoChat
<1>2. GoneStays'
  BY DEF IInv, CallInv, GoneStays, DeviceInv, TimerFires, history, TypeOK, NoChat
<1>3. ClientKept'
  BY DEF IInv, CallInv, ClientKept, DeviceInv, TimerFires, TypeOK
<1>4. RenewalKept'
  BY DEF IInv, CallInv, RenewalKept, Stale, DeviceInv, TimerFires, Enqueue, device, history, TypeOK
<1>5. QED
  BY <1>1, <1>2, <1>3, <1>4 DEF CallInv

LEMMA TokenDueStep ==
  ASSUME IInv, TokenDue
  PROVE  DeviceInv' /\ CallInv'
<1>1. DeviceInv'
  BY DEF IInv, DeviceInv, OpSteps, AccountRead, ClientOwned, Removed, SigningIn, Restoring, ServerAgrees, KeyKept, RecordNamesDevice, RenewalKeepsDevice, SameAccount, TokenDue, calls, native, remote, TypeOK, At
<1>2. CallInv'
  BY DEF IInv, CallInv, GoneStays, ClientKept, RenewalKept, DeviceInv, TokenDue, calls, history, TypeOK, Gone, Stale
<1>3. QED
  BY <1>1, <1>2

LEMMA ServerEndsStep ==
  ASSUME IInv, ServerEnds
  PROVE  DeviceInv' /\ CallInv'
<1>1. DeviceInv'
  BY DEF IInv, DeviceInv, OpSteps, AccountRead, ClientOwned, Removed, SigningIn, Restoring, ServerAgrees, KeyKept, RecordNamesDevice, RenewalKeepsDevice, SameAccount, ServerEnds, calls, native, device, TypeOK, At
<1>2. CallInv'
  BY DEF IInv, CallInv, GoneStays, ClientKept, RenewalKept, DeviceInv, ServerEnds, calls, native, device, history, TypeOK, Gone, Stale, At
<1>3. QED
  BY <1>1, <1>2

LEMMA CloseStep ==
  ASSUME IInv, Close
  PROVE  DeviceInv' /\ CallInv'
<1>1. DeviceInv'
  BY DEF IInv, DeviceInv, OpSteps, AccountRead, ClientOwned, Removed, SigningIn, Restoring, ServerAgrees, KeyKept, RecordNamesDevice, RenewalKeepsDevice, SameAccount, Close, At, native, device, remote, TypeOK
<1>2. CallInv'
  BY DEF IInv, CallInv, GoneStays, ClientKept, RenewalKept, DeviceInv, Close, At, native, device, history, TypeOK, Gone
<1>3. QED
  BY <1>1, <1>2

LEMMA ClosedStep ==
  ASSUME IInv, Closed
  PROVE  DeviceInv' /\ CallInv'
<1>1. DeviceInv'
  BY DEF IInv, DeviceInv, OpSteps, AccountRead, ClientOwned, Removed, SigningIn, Restoring, ServerAgrees, KeyKept, RecordNamesDevice, RenewalKeepsDevice, SameAccount, Closed, NoChat, device, remote, native, TypeOK, At
<1>2. CallInv'
  BY DEF IInv, CallInv, GoneStays, ClientKept, RenewalKept, DeviceInv, Closed, device, history, native, TypeOK, Gone, At
<1>3. QED
  BY <1>1, <1>2

LEMMA CrashStep ==
  ASSUME IInv, Crash
  PROVE  DeviceInv' /\ CallInv'
<1>1. DeviceInv'
  BY DEF IInv, DeviceInv, OpSteps, AccountRead, ClientOwned, Removed, SigningIn, Restoring, ServerAgrees, KeyKept, RecordNamesDevice, RenewalKeepsDevice, SameAccount, Crash, NoChat, Idle, Running, device, remote, TypeOK, At, Removing
<1>2. CallInv'
  BY DEF IInv, CallInv, GoneStays, ClientKept, RenewalKept, DeviceInv, Crash, Idle, Running, device, TypeOK, Gone, At
<1>3. QED
  BY <1>1, <1>2

LEMMA StutterStep ==
  ASSUME IInv, UNCHANGED vars
  PROVE  DeviceInv' /\ CallInv'
<1>1. DeviceInv'
  BY DEF IInv, DeviceInv, OpSteps, AccountRead, ClientOwned, Removed, SigningIn, Restoring, ServerAgrees, KeyKept, RecordNamesDevice, RenewalKeepsDevice, SameAccount, vars, calls, native, device, remote, TypeOK, At
<1>2. CallInv'
  BY DEF IInv, CallInv, GoneStays, ClientKept, RenewalKept, DeviceInv, vars, calls, native, device, history, TypeOK, Gone, Stale, At
<1>3. QED
  BY <1>1, <1>2

-----------------------------------------------------------------------------
(* The invariant.                                                          *)

LEMMA InitIInv == Init => IInv
<1> SUFFICES ASSUME Init PROVE IInv
  OBVIOUS
<1>1. TypeOK
  <2>1. call \in Call /\ chat \in Chat
    BY RunningType DEF Init, Idle, Awaits, Chat, NoChat
  <2>2. queue \in Seq(Operations) /\ issued \in 0..MaxSessions
    BY DEF Init
  <2>3. QED
    BY <2>1, <2>2 DEF Init, TypeOK
<1>2. DeviceInv /\ CallInv
  BY DEF Init, Idle, Running, NoChat, Removing, At, DeviceInv, CallInv, OpSteps, AccountRead, ClientOwned, Removed, SigningIn, Restoring, ServerAgrees, KeyKept, RecordNamesDevice, RenewalKeepsDevice, SameAccount, GoneStays, ClientKept, RenewalKept
<1>3. QED
  BY <1>1, <1>2 DEF IInv

LEMMA ApiAnswersStep ==
  ASSUME IInv, ApiAnswers
  PROVE  IInv'
<1>0. ApiFrame /\ TypeOK /\ OpSteps /\ AccountRead
  BY DEF ApiAnswers, ApiFrame, IInv, DeviceInv
<1>1. ASSUME NEW a \in Accounts, AccountActive(a) PROVE IInv'
  BY <1>0, <1>1, AccountActiveTypes, AccountActiveStep DEF IInv
<1>2. CASE AccountInactive
  BY <1>0, <1>2, AccountInactiveTypes, AccountInactiveStep DEF IInv
<1>3. CASE HomeserverUnavailable
  BY <1>0, <1>3, HomeserverUnavailableTypes, HomeserverUnavailableStep DEF IInv
<1>4. CASE Created
  BY <1>0, <1>4, CreatedTypes, CreatedStep DEF IInv
<1>5. CASE Renewed
  BY <1>0, <1>5, RenewedTypes, RenewedStep DEF IInv
<1>6. CASE SessionUnknown
  BY <1>0, <1>6, SessionUnknownTypes, SessionUnknownStep DEF IInv
<1>7. CASE AccessRefused
  BY <1>0, <1>7, AccessRefusedTypes, AccessRefusedStep DEF IInv
<1>8. CASE OtherRefusal
  BY <1>0, <1>8, OtherRefusalTypes, OtherRefusalStep DEF IInv
<1>9. CASE CallFails
  BY <1>0, <1>9, CallFailsTypes, CallFailsStep DEF IInv
<1>10. CASE SessionDeleted
  BY <1>0, <1>10, SessionDeletedTypes, SessionDeletedStep DEF IInv
<1>11. QED
  BY <1>1, <1>2, <1>3, <1>4, <1>5, <1>6, <1>7, <1>8, <1>9, <1>10 DEF ApiAnswers

LEMMA DeviceAnswersStep ==
  ASSUME IInv, DeviceAnswers
  PROVE  IInv'
<1>0. DeviceFrame /\ TypeOK /\ SigningIn
  BY DEF DeviceAnswers, DeviceFrame, IInv, DeviceInv
<1>1. CASE RecordRead
  BY <1>0, <1>1, RecordReadTypes, RecordReadStep DEF IInv
<1>2. CASE KeyRead
  BY <1>0, <1>2, KeyReadTypes, KeyReadStep DEF IInv
<1>3. CASE Opened
  BY <1>0, <1>3, OpenedTypes, OpenedStep DEF IInv
<1>4. CASE Restored
  BY <1>0, <1>4, RestoredTypes, RestoredStep DEF IInv
<1>5. CASE SignedIn
  BY <1>0, <1>5, SignedInTypes, SignedInStep DEF IInv
<1>6. CASE RecordWritten
  BY <1>0, <1>6, RecordWrittenTypes, RecordWrittenStep DEF IInv
<1>7. CASE TokenUpdated
  BY <1>0, <1>7, TokenUpdatedTypes, TokenUpdatedStep DEF IInv
<1>8. CASE RecordRewritten
  BY <1>0, <1>8, RecordRewrittenTypes, RecordRewrittenStep DEF IInv
<1>9. CASE SyncStarted
  BY <1>0, <1>9, SyncStartedTypes, SyncStartedStep DEF IInv
<1>10. CASE MarkWritten
  BY <1>0, <1>10, MarkWrittenTypes, MarkWrittenStep DEF IInv
<1>11. CASE Disposed
  BY <1>0, <1>11, DisposedTypes, DisposedStep DEF IInv
<1>12. CASE StoresPurged
  BY <1>0, <1>12, StoresPurgedTypes, StoresPurgedStep DEF IInv
<1>13. CASE RecordCleared
  BY <1>0, <1>13, RecordClearedTypes, RecordClearedStep DEF IInv
<1>14. CASE KeyCleared
  BY <1>0, <1>14, KeyClearedTypes, KeyClearedStep DEF IInv
<1>15. QED
  BY <1>1, <1>2, <1>3, <1>4, <1>5, <1>6, <1>7, <1>8, <1>9, <1>10, <1>11, <1>12, <1>13, <1>14 DEF DeviceAnswers

LEMMA NextIInv == IInv /\ [Next]_vars => IInv'
<1> SUFFICES ASSUME IInv, [Next]_vars PROVE IInv'
  OBVIOUS
<1>0. TypeOK
  BY DEF IInv
<1>1. CASE ApiAnswers
  BY <1>1, ApiAnswersStep
<1>2. CASE DeviceAnswers
  BY <1>2, DeviceAnswersStep
<1>3. CASE Start
  BY <1>0, <1>3, StartTypes, StartStep DEF IInv
<1>4. CASE DeviceFails
  BY <1>0, <1>4, DeviceFailsTypes, DeviceFailsStep DEF IInv
<1>5. ASSUME NEW op \in Operations, Request(op) PROVE IInv'
  BY <1>0, <1>5, RequestTypes, RequestStep DEF IInv
<1>6. ASSUME NEW s \in {"expired", "locked"}, ClientReports(s) PROVE IInv'
  BY <1>0, <1>6, ClientReportsTypes, ClientReportsStep DEF IInv
<1>7. CASE TimerFires
  BY <1>0, <1>7, TimerFiresTypes, TimerFiresStep DEF IInv
<1>8. CASE TokenDue
  BY <1>0, <1>8, TokenDueTypes, TokenDueStep DEF IInv
<1>9. CASE ServerEnds
  BY <1>0, <1>9, ServerEndsTypes, ServerEndsStep DEF IInv
<1>10. CASE Close
  BY <1>0, <1>10, CloseTypes, CloseStep DEF IInv
<1>11. CASE Closed
  BY <1>0, <1>11, ClosedTypes, ClosedStep DEF IInv
<1>12. CASE Crash
  BY <1>0, <1>12, CrashTypes, CrashStep DEF IInv
<1>13. CASE UNCHANGED vars
  BY <1>0, <1>13, StutterTypes, StutterStep DEF IInv
<1>14. QED
  BY <1>1, <1>2, <1>3, <1>4, <1>5, <1>6, <1>7, <1>8, <1>9, <1>10, <1>11, <1>12, <1>13 DEF Next, Step

LEMMA Inductive == Spec => []IInv
<1>1. QED
  BY InitIInv, NextIInv, PTL DEF Spec

\* Every variable of the connector, the device and the server keeps its type.
THEOREM TypeCorrect == Spec => []TypeOK
<1>1. IInv => TypeOK
  BY DEF IInv
<1>2. QED
  BY Inductive, <1>1, PTL

\* _openClient and purge find no client of the connector's at work (chat_connector.dart:
\* _connect, _purge): whoever comes to them has closed the client, or never had one.
THEOREM ClientsAlone == Spec => []ClientAlone
<1>1. IInv => ClientAlone
  BY DEF IInv, DeviceInv, ClientOwned, ClientAlone, At, Removing, NoChat
<1>2. QED
  BY Inductive, <1>1, PTL

\* The store key outlives the stores (chat_device_store.dart): it is written before they
\* are opened and cleared after they were deleted, whatever fails in between.
THEOREM KeyStays == Spec => []KeyKept
<1>1. IInv => KeyKept
  BY DEF IInv, DeviceInv
<1>2. QED
  BY Inductive, <1>1, PTL

\* The device record agrees with the stores, in memory and in the keychain.
THEOREM RecordNames == Spec => []RecordNamesDevice
<1>1. IInv => RecordNamesDevice
  BY DEF IInv, DeviceInv
<1>2. QED
  BY Inductive, <1>1, PTL

\* A renewed token is that of the device in the stores.
THEOREM RenewalSameDevice == Spec => []RenewalKeepsDevice
<1>1. IInv => RenewalKeepsDevice
  BY DEF IInv, DeviceInv
<1>2. QED
  BY Inductive, <1>1, PTL

\* disconnect() and withdrawn access leave nothing on the device, also while later calls,
\* timers and reports of the chat client come; and a connect goes on only with the stores
\* of the account it has read (chat_connector.dart: _connect).
THEOREM NothingIsLeft == Spec => []NothingLeft
<1>1. IInv => NothingLeft
  BY DEF IInv, DeviceInv, SameAccount, CallInv, GoneStays, NothingLeft
<1>2. QED
  BY Inductive, <1>1, PTL

\* A connected chat has a timer that will renew its token, or calls to come.
THEOREM RenewalIsScheduled == Spec => []RenewalScheduled
<1>1. IInv => RenewalScheduled
  <2>1. SUFFICES ASSUME IInv, state = "connected", At("idle"), closing = "no", faults = 0,
                        chat.timer = "none"
                 PROVE  queue # <<>>
    BY DEF RenewalScheduled
  <2>2. call.op = "none" /\ queue \in Seq(Operations)
    BY <2>1 DEF IInv, TypeOK, DeviceInv, OpSteps
  <2>3. \E i \in 1 .. Len(queue) : queue[i] = "refresh"
    BY <2>1, <2>2 DEF IInv, CallInv, RenewalKept
  <2>4. QED
    BY <2>2, <2>3
<1>2. QED
  BY Inductive, <1>1, PTL
=============================================================================
