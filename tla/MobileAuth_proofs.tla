-------------------------- MODULE MobileAuth_proofs --------------------------
(* Theorems about MobileAuth, for every value of its constants.            *)
EXTENDS MobileAuth, TLAPS

USE AuthAssumption DEF AuthAssumption

-----------------------------------------------------------------------------
(* Tasks.                                                                  *)

\* The record a call begins with, and that of a task that is not running.
LEMMA NewTaskType ==
  ASSUME NEW kind \in Kinds, NEW at \in Awaits, NEW op \in Nat,
         NEW begun \in Nat, NEW s \in SessionOrNone
  PROVE  NewTask(kind, at, op, begun, s) \in Task
BY DEF NewTask, Task

LEMMA IdleType == Idle \in Task
BY NewTaskType DEF Idle, Kinds, Awaits, SessionOrNone

\* A call that begins leaves the tasks and the operation counter well typed.
LEMMA BeginType ==
  ASSUME TypeOK, NEW t \in Tasks, NEW kind \in Kinds, NEW at \in Awaits,
         NEW s \in SessionOrNone, Begin(t, kind, at, s)
  PROVE  tasks' \in [Tasks -> Task] /\ operation' \in Nat
<1>1. operation + 1 \in Nat
  BY DEF TypeOK
<1>2. NewTask(kind, at, operation + 1, epoch, s) \in Task
  BY <1>1, NewTaskType DEF TypeOK
<1>3. QED
  BY <1>1, <1>2 DEF TypeOK, Begin

\* So do a task that moves on, returns or turns into an expiry.
LEMMA MoveType ==
  ASSUME TypeOK, NEW t \in Tasks, NEW at \in Awaits, MoveTo(t, at)
  PROVE  tasks' \in [Tasks -> Task]
BY DEF TypeOK, MoveTo, Task

LEMMA ReturnType ==
  ASSUME TypeOK, NEW t \in Tasks, Return(t)
  PROVE  tasks' \in [Tasks -> Task]
BY IdleType DEF TypeOK, Return

LEMMA ExpireType ==
  ASSUME TypeOK, NEW t \in Tasks, ExpireIn(t)
  PROVE  /\ tasks' \in [Tasks -> Task] /\ operation' \in Nat
         /\ session' \in SessionOrNone /\ status' \in Statuses
         /\ epoch' \in Nat
<1>1. operation + 1 \in Nat /\ epoch + 1 \in Nat
  BY DEF TypeOK
<1>2. NewTask("expire", "clear", operation + 1, epoch + 1, NoSession) \in Task
  BY <1>1, NewTaskType DEF Kinds, Awaits, SessionOrNone
<1>3. QED
  BY <1>1, <1>2 DEF TypeOK, ExpireIn, SessionOrNone, Statuses

LEMMA EmitFailureType ==
  ASSUME EmitFailure
  PROVE  session' \in SessionOrNone /\ status' \in Statuses
BY DEF EmitFailure, SessionOrNone, Statuses

-----------------------------------------------------------------------------
(* Type correctness.                                                       *)

LEMMA CallType ==
  ASSUME TypeOK, NEW t \in Tasks, Call(t)
  PROVE  TypeOK'
<1> USE DEF history, server, disk
<1>1. CASE Restore(t)
  BY <1>1, BeginType DEF Restore, TypeOK, Kinds, Awaits, SessionOrNone, Statuses
<1>2. CASE SignIn(t)
  BY <1>2, BeginType DEF SignIn, TypeOK, Kinds, Awaits, SessionOrNone, Statuses
<1>3. CASE Renew(t)
  BY <1>3, BeginType DEF Renew, TypeOK, Kinds, Awaits, Statuses
<1>4. CASE RenewWithoutSession(t)
  BY <1>4, ExpireType DEF RenewWithoutSession, TypeOK
<1>5. CASE SignOut(t)
  BY <1>5, BeginType DEF SignOut, TypeOK, Kinds, Awaits, SessionOrNone, Statuses
<1>6. QED
  BY <1>1, <1>2, <1>3, <1>4, <1>5 DEF Call

LEMMA FlowType ==
  ASSUME TypeOK, NEW t \in Tasks, Flow(t)
  PROVE  TypeOK'
<1> USE DEF history, server, disk
<1>1. CASE RestoreRead(t)
  BY <1>1, ReturnType DEF RestoreRead, TypeOK, SessionOrNone, Statuses, Fault
<1>2. CASE RestoreFails(t)
  BY <1>2, ReturnType, EmitFailureType DEF RestoreFails, TypeOK, Fault
<1>3. CASE Granted(t)
  BY <1>3, ReturnType, MoveType DEF Granted, TypeOK, Awaits
<1>4. CASE Cancelled(t)
  BY <1>4, ReturnType DEF Cancelled, TypeOK, Statuses
<1>5. CASE SignInFails(t)
  BY <1>5, ReturnType, EmitFailureType DEF SignInFails, TypeOK
<1>6. CASE RenewFails(t)
  BY <1>6, ReturnType, ExpireType DEF RenewFails, TypeOK
<1>7. ASSUME NEW s \in Sessions, Exchanged(t, s) PROVE TypeOK'
  <2>1. tasks' \in [Tasks -> Task]
    BY <1>7, ReturnType DEF Exchanged, TypeOK, Task, Awaits, SessionOrNone
  <2>2. QED
    BY <1>7, <2>1 DEF Exchanged, TypeOK, Task, UserOrNone
<1>8. CASE Written(t)
  BY <1>8, ReturnType, MoveType DEF Written, TypeOK, Awaits, Statuses, Task
<1>9. CASE Undone(t)
  BY <1>9, ReturnType DEF Undone, TypeOK, SessionOrNone, Fault
<1>10. CASE SignInWriteFails(t)
  BY <1>10, MoveType DEF SignInWriteFails, TypeOK, Awaits, Fault
<1>11. CASE Discarded(t)
  BY <1>11, ReturnType, EmitFailureType
     DEF Discarded, TypeOK, SessionOrNone, Fault
<1>12. CASE RenewWriteFails(t)
  BY <1>12, ReturnType, ExpireType DEF RenewWriteFails, TypeOK, Fault
<1>13. CASE StoreCleared(t)
  <2>1. tasks' \in [Tasks -> Task]
    BY <1>13 DEF StoreCleared, TypeOK, Task, Awaits
  <2>2. QED
    BY <1>13, <2>1 DEF StoreCleared, TypeOK, SessionOrNone, Fault
<1>14. ASSUME NEW p \in Purgers, Purged(t, p) PROVE TypeOK'
  <2>1. tasks' \in [Tasks -> Task]
    BY <1>14 DEF Purged, TypeOK, Task
  <2>2. QED
    BY <1>14, <2>1 DEF Purged, TypeOK, UserOrNone, Fault
<1>15. CASE Cleared(t)
  BY <1>15, ReturnType, MoveType DEF Cleared, TypeOK, Awaits, Statuses
<1>16. CASE Revoked(t)
  BY <1>16, ReturnType DEF Revoked, TypeOK
<1>17. QED
  BY <1>1, <1>2, <1>3, <1>4, <1>5, <1>6, <1>7, <1>8, <1>9, <1>10, <1>11,
     <1>12, <1>13, <1>14, <1>15, <1>16 DEF Flow

LEMMA EnvironmentType ==
  ASSUME TypeOK, Environment
  PROVE  TypeOK'
<1> USE DEF history, server, disk, memory
<1>1. ASSUME NEW p \in Purgers, Register(p) PROVE TypeOK'
  BY <1>1 DEF Register, TypeOK
<1>2. ASSUME NEW p \in Purgers, StoreData(p) PROVE TypeOK'
  BY <1>2 DEF StoreData, TypeOK, SessionOrNone
<1>3. CASE SendRequest
  BY <1>3 DEF SendRequest, TypeOK, SessionOrNone
<1>4. ASSUME NEW s \in Sessions, Answered(s) PROVE TypeOK'
  BY <1>4 DEF Answered, TypeOK
<1>5. ASSUME NEW s \in Sessions, Withdraw(s) PROVE TypeOK'
  BY <1>5 DEF Withdraw, TypeOK
<1>6. ASSUME NEW s \in Sessions, NEW t \in Tasks, Unauthorized(s, t)
      PROVE  TypeOK'
  BY <1>6, ExpireType DEF Unauthorized, TypeOK
<1>7. CASE Crash
  <2>1. tasks' \in [Tasks -> Task]
    BY <1>7, IdleType DEF Crash
  <2>2. stored' \in SessionOrNone
    BY <1>7 DEF Crash, TypeOK, Task, SessionOrNone
  <2>3. interrupted' \in BOOLEAN /\ booted' \in BOOLEAN
    BY <1>7 DEF Crash
  <2>4. /\ status' \in Statuses /\ session' \in SessionOrNone
        /\ operation' \in Nat /\ purgers' \subseteq Purgers
        /\ requests' \subseteq Sessions /\ crashes' \in Nat
    <3>1. /\ status' = "signedOut" /\ session' = NoSession /\ operation' = 0
          /\ purgers' = BootPurgers /\ requests' = {}
          /\ crashes' = crashes + 1
      BY <1>7 DEF Crash
    <3>2. QED
      BY <3>1 DEF TypeOK, SessionOrNone, Statuses
  <2>5. QED
    BY <1>7, <2>1, <2>2, <2>3, <2>4 DEF Crash, TypeOK
<1>8. QED
  BY <1>1, <1>2, <1>3, <1>4, <1>5, <1>6, <1>7 DEF Environment

LEMMA InitType == Init => TypeOK
<1> SUFFICES ASSUME Init PROVE TypeOK
  OBVIOUS
<1>1. tasks \in [Tasks -> Task]
  BY IdleType DEF Init
<1>2. QED
  BY <1>1 DEF Init, TypeOK, SessionOrNone, UserOrNone, Statuses

\* Every variable of MobileAuth keeps its type: among others the server never
\* accepts a token it has not issued.
THEOREM TypeCorrect == Spec => []TypeOK
<1>1. TypeOK /\ UNCHANGED vars => TypeOK'
  BY DEF TypeOK, vars, memory, disk, server, history
<1>2. TypeOK /\ [Next]_vars => TypeOK'
  BY <1>1, CallType, FlowType, EnvironmentType DEF Next
<1>3. QED
  BY InitType, <1>2, PTL DEF Spec

-----------------------------------------------------------------------------
(* An ended session stays ended.                                           *)

\* Nothing has failed to be removed.
Clean == faults = 0 /\ ~interrupted

\* restore() is the first call of a process and all others come after it.
RestoreFirst ==
  /\ ~booted => /\ operation = 0 /\ session = NoSession /\ requests = {}
                /\ \A t \in Tasks : tasks[t].at = "idle"
  /\ booted => operation >= 1
  /\ \A t \in Tasks :
       /\ tasks[t].op <= operation
       /\ tasks[t].at = "read" => tasks[t].op = 1
       /\ tasks[t].at \notin {"idle", "read"} => tasks[t].op >= 2

\* Every session the device knows of was issued.
KnownIssued ==
  /\ session \in issued \cup {NoSession}
  /\ stored \in issued \cup {NoSession}
  /\ \A t \in Tasks : tasks[t].session \in issued \cup {NoSession}

\* A current call began after the last end of a session, and a session about
\* to be written was born in the epoch its call began in.
WriteInEpoch ==
  \A t \in Tasks :
    /\ tasks[t].at \in {"grant", "exchange", "write"} /\ Current(t)
         => tasks[t].begun = epoch
    /\ tasks[t].at = "write"
         => /\ tasks[t].session # NoSession
            /\ bornIn[tasks[t].session] = tasks[t].begun

\* A stored session that has ended is about to be deleted.
StoredEnded ==
  Clean /\ stored # NoSession /\ bornIn[stored] # epoch
    => \E t \in Tasks : tasks[t].at \in {"clear", "undo"}

EndInv == RestoreFirst /\ KnownIssued /\ WriteInEpoch /\ StoredEnded
            /\ EndedStaysEnded


\* A task that starts afresh overtakes every other: none of them is current.
LEMMA FreshTask ==
  ASSUME TypeOK, RestoreFirst, WriteInEpoch, NEW t \in Tasks,
         NEW kind \in Kinds, NEW at \in Awaits \ {"write"},
         NEW begun \in Nat, NEW s \in SessionOrNone,
         operation' = operation + 1,
         tasks' = [tasks EXCEPT ![t] = NewTask(kind, at, operation + 1, begun, s)],
         bornIn' = bornIn,
         begun = epoch' \/ at = "clear"
  PROVE  WriteInEpoch'
<1> SUFFICES ASSUME NEW u \in Tasks
             PROVE  /\ tasks'[u].at \in {"grant", "exchange", "write"}
                         /\ tasks'[u].op = operation'
                         => tasks'[u].begun = epoch'
                    /\ tasks'[u].at = "write"
                         => /\ tasks'[u].session # NoSession
                            /\ bornIn'[tasks'[u].session] = tasks'[u].begun
  BY DEF WriteInEpoch, Current
<1>1. CASE u = t
  BY <1>1 DEF TypeOK, NewTask
<1>2. CASE u # t
  <2>1. tasks'[u] = tasks[u] /\ tasks[u].op <= operation /\ operation \in Nat
        /\ tasks[u].op \in Nat
    BY <1>2 DEF TypeOK, RestoreFirst, Task
  <2>2. QED
    BY <2>1 DEF WriteInEpoch
<1>3. QED
  BY <1>1, <1>2

\* The first call of a process has operation 1, every later one a higher one.
LEMMA FreshFirst ==
  ASSUME TypeOK, RestoreFirst, NEW t \in Tasks, NEW kind, NEW at \in Awaits,
         NEW begun, NEW s,
         operation' = operation + 1,
         tasks' = [tasks EXCEPT ![t] = NewTask(kind, at, operation + 1, begun, s)],
         booted', at = "read" <=> ~booted
  PROVE  RestoreFirst'
<1>1. operation \in Nat /\ operation' \in Nat /\ operation' >= 1
      /\ operation < operation'
  BY DEF TypeOK
<1>2. ASSUME NEW u \in Tasks
      PROVE  /\ tasks'[u].op <= operation'
             /\ tasks'[u].at = "read" => tasks'[u].op = 1
             /\ tasks'[u].at \notin {"idle", "read"} => tasks'[u].op >= 2
  <2>1. CASE u = t
    <3>1. tasks'[u].op = operation' /\ tasks'[u].at = at
      BY <2>1 DEF TypeOK, NewTask
    <3>2. CASE at = "read"
      BY <1>1, <3>1, <3>2 DEF RestoreFirst
    <3>3. CASE at # "read"
      BY <1>1, <3>1, <3>3 DEF RestoreFirst
    <3>4. QED
      BY <3>2, <3>3
  <2>2. CASE u # t
    <3>1. tasks'[u] = tasks[u] /\ tasks[u].op \in Nat
      BY <2>2 DEF TypeOK, Task
    <3>2. QED
      BY <1>1, <3>1 DEF RestoreFirst
  <2>3. QED
    BY <2>1, <2>2
<1>3. QED
  BY <1>1, <1>2 DEF RestoreFirst

LEMMA BeginFirst ==
  ASSUME TypeOK, RestoreFirst, NEW t \in Tasks, NEW kind, NEW at \in Awaits,
         NEW s, Begin(t, kind, at, s), booted', at = "read" <=> ~booted
  PROVE  RestoreFirst'
BY FreshFirst DEF Begin

LEMMA ExpireFirst ==
  ASSUME TypeOK, RestoreFirst, NEW t \in Tasks, ExpireIn(t), booted' = booted,
         tasks[t].at # "idle" \/ booted
  PROVE  RestoreFirst'
<1>1. booted
  BY DEF RestoreFirst
<1>2. "clear" \in Awaits
  BY DEF Awaits
<1>3. QED
  BY <1>1, <1>2, FreshFirst DEF ExpireIn

LEMMA Labels ==
  /\ "read" \in Awaits \ {"write"} /\ "grant" \in Awaits \ {"write"}
  /\ "clear" \in Awaits \ {"write"}
  /\ "restore" \in Kinds /\ "signIn" \in Kinds /\ "renew" \in Kinds
  /\ "signOut" \in Kinds /\ "expire" \in Kinds
  /\ NoSession \in SessionOrNone
BY DEF Awaits, Kinds, SessionOrNone

LEMMA BeginEpoch ==
  ASSUME TypeOK, RestoreFirst, WriteInEpoch, NEW t \in Tasks,
         NEW kind \in Kinds, NEW at \in Awaits \ {"write"},
         NEW s \in SessionOrNone, Begin(t, kind, at, s), bornIn' = bornIn,
         epoch' = epoch \/ at = "clear"
  PROVE  WriteInEpoch'
BY FreshTask DEF Begin, TypeOK

LEMMA ExpireEpoch ==
  ASSUME TypeOK, RestoreFirst, WriteInEpoch, NEW t \in Tasks, ExpireIn(t),
         bornIn' = bornIn
  PROVE  WriteInEpoch'
<1>1. epoch + 1 \in Nat
  BY DEF TypeOK
<1>2. QED
  BY <1>1, Labels, FreshTask DEF ExpireIn

LEMMA EndInvCall ==
  ASSUME TypeOK, EndInv, NEW t \in Tasks, Call(t)
  PROVE  EndInv'
<1> USE DEF history, disk, server
<1>1. CASE Restore(t)
  <2>1. RestoreFirst'
    BY <1>1, Labels, BeginFirst DEF Restore, EndInv
  <2>2. KnownIssued'
    BY <1>1 DEF Restore, EndInv, Begin, NewTask, KnownIssued, TypeOK
  <2>3. WriteInEpoch'
    BY <1>1, Labels, BeginEpoch DEF Restore, EndInv, TypeOK
  <2>4. StoredEnded'
    BY <1>1 DEF Restore, EndInv, Begin, NewTask, StoredEnded, Clean, TypeOK
  <2>5. EndedStaysEnded'
    BY <1>1 DEF Restore, EndInv, Begin, NewTask, EndedStaysEnded, TypeOK
  <2>6. QED
    BY <2>1, <2>2, <2>3, <2>4, <2>5 DEF EndInv
<1>2. CASE SignIn(t)
  <2>1. RestoreFirst'
    BY <1>2, Labels, BeginFirst DEF SignIn, EndInv
  <2>2. KnownIssued'
    BY <1>2 DEF SignIn, EndInv, Begin, NewTask, KnownIssued, TypeOK
  <2>3. WriteInEpoch'
    BY <1>2, Labels, BeginEpoch DEF SignIn, EndInv, TypeOK
  <2>4. StoredEnded'
    BY <1>2 DEF SignIn, EndInv, Begin, NewTask, StoredEnded, Clean, TypeOK
  <2>5. EndedStaysEnded'
    BY <1>2 DEF SignIn, EndInv, Begin, NewTask, EndedStaysEnded, TypeOK
  <2>6. QED
    BY <2>1, <2>2, <2>3, <2>4, <2>5 DEF EndInv
<1>3. CASE Renew(t)
  <2>1. RestoreFirst'
    BY <1>3, Labels, BeginFirst DEF Renew, EndInv
  <2>2. KnownIssued'
    BY <1>3 DEF Renew, EndInv, Begin, NewTask, KnownIssued, TypeOK
  <2>3. WriteInEpoch'
    BY <1>3, Labels, BeginEpoch DEF Renew, EndInv, TypeOK
  <2>4. StoredEnded'
    BY <1>3 DEF Renew, EndInv, Begin, NewTask, StoredEnded, Clean, TypeOK
  <2>5. EndedStaysEnded'
    BY <1>3 DEF Renew, EndInv, Begin, NewTask, EndedStaysEnded, TypeOK
  <2>6. QED
    BY <2>1, <2>2, <2>3, <2>4, <2>5 DEF EndInv
<1>4. CASE RenewWithoutSession(t)
  <2>1. RestoreFirst'
    BY <1>4, ExpireFirst DEF RenewWithoutSession, EndInv
  <2>2. KnownIssued'
    BY <1>4 DEF RenewWithoutSession, EndInv, ExpireIn, NewTask, KnownIssued, TypeOK
  <2>3. WriteInEpoch'
    BY <1>4, ExpireEpoch DEF RenewWithoutSession, EndInv
  <2>4. StoredEnded'
    BY <1>4 DEF RenewWithoutSession, EndInv, ExpireIn, NewTask, StoredEnded, Clean, TypeOK
  <2>5. EndedStaysEnded'
    BY <1>4 DEF RenewWithoutSession, EndInv, ExpireIn, NewTask, EndedStaysEnded, TypeOK
  <2>6. QED
    BY <2>1, <2>2, <2>3, <2>4, <2>5 DEF EndInv
<1>5. CASE SignOut(t)
  <2>1. RestoreFirst'
    BY <1>5, Labels, BeginFirst DEF SignOut, EndInv
  <2>2. KnownIssued'
    BY <1>5 DEF SignOut, EndInv, Begin, NewTask, KnownIssued, TypeOK
  <2>3. WriteInEpoch'
    BY <1>5, Labels, BeginEpoch DEF SignOut, EndInv, TypeOK
  <2>4. StoredEnded'
    BY <1>5 DEF SignOut, EndInv, Begin, NewTask, StoredEnded, Clean, TypeOK
  <2>5. EndedStaysEnded'
    BY <1>5 DEF SignOut, EndInv, Begin, NewTask, EndedStaysEnded, TypeOK
  <2>6. QED
    BY <2>1, <2>2, <2>3, <2>4, <2>5 DEF EndInv
<1>6. QED
  BY <1>1, <1>2, <1>3, <1>4, <1>5 DEF Call

LEMMA EndInvFlow ==
  ASSUME TypeOK, EndInv, NEW t \in Tasks, Flow(t)
  PROVE  EndInv'
<1> USE DEF history, disk, server, At
<1>1. CASE RestoreRead(t)
  <2>1. RestoreFirst'
    BY <1>1 DEF RestoreRead, EndInv, Return, Idle, NewTask, Fault, Current,
       TypeOK, Task, RestoreFirst
  <2>2. KnownIssued'
    BY <1>1 DEF RestoreRead, EndInv, Return, Idle, NewTask, Fault, Current,
       TypeOK, Task, KnownIssued
  <2>3. WriteInEpoch'
    BY <1>1 DEF RestoreRead, EndInv, Return, Idle, NewTask, Fault, Current,
       TypeOK, Task, WriteInEpoch
  <2>4. StoredEnded'
    BY <1>1 DEF RestoreRead, EndInv, Return, Idle, NewTask, Fault, Current,
       Clean, TypeOK, Task, StoredEnded
  <2>5. EndedStaysEnded'
    <3>1. CASE Current(t) /\ session' = stored /\ UNCHANGED faults
      <4>1. operation = 1
        BY <1>1, <3>1 DEF RestoreRead, EndInv, RestoreFirst, Current
      <4>2. \A u \in Tasks : tasks[u].at \notin {"clear", "undo"}
        BY <4>1 DEF EndInv, RestoreFirst, TypeOK, Task
      <4>3. Clean /\ stored # NoSession => bornIn[stored] = epoch
        BY <4>2 DEF EndInv, StoredEnded
      <4>4. QED
        BY <1>1, <3>1, <4>3 DEF RestoreRead, EndedStaysEnded, Clean, TypeOK
    <3>2. CASE session' = NoSession
      BY <3>2 DEF EndedStaysEnded
    <3>3. CASE UNCHANGED session
      BY <1>1, <3>3 DEF RestoreRead, EndInv, EndedStaysEnded, Fault, TypeOK
    <3>4. QED
      BY <1>1, <3>1, <3>2, <3>3 DEF RestoreRead
  <2>6. QED
    BY <2>1, <2>2, <2>3, <2>4, <2>5 DEF EndInv
<1>2. CASE RestoreFails(t)
  <2>1. RestoreFirst'
    BY <1>2 DEF RestoreFails, EndInv, Return, Idle, NewTask, Fault,
       EmitFailure, Current, TypeOK, Task, RestoreFirst
  <2>2. KnownIssued'
    BY <1>2 DEF RestoreFails, EndInv, Return, Idle, NewTask, Fault,
       EmitFailure, Current, TypeOK, Task, KnownIssued
  <2>3. WriteInEpoch'
    BY <1>2 DEF RestoreFails, EndInv, Return, Idle, NewTask, Fault,
       EmitFailure, Current, TypeOK, Task, WriteInEpoch
  <2>4. StoredEnded'
    BY <1>2 DEF RestoreFails, EndInv, Return, Idle, NewTask, Fault,
       EmitFailure, Current, Clean, TypeOK, Task, StoredEnded
  <2>5. EndedStaysEnded'
    BY <1>2 DEF RestoreFails, EndInv, Return, Idle, NewTask, Fault,
       EmitFailure, Current, TypeOK, Task, EndedStaysEnded
  <2>6. QED
    BY <2>1, <2>2, <2>3, <2>4, <2>5 DEF EndInv
<1>3. CASE Granted(t)
  <2>1. RestoreFirst'
    BY <1>3 DEF Granted, EndInv, Return, Idle, NewTask, MoveTo, Current,
       TypeOK, Task, RestoreFirst
  <2>2. KnownIssued'
    BY <1>3 DEF Granted, EndInv, Return, Idle, NewTask, MoveTo, Current,
       TypeOK, Task, KnownIssued
  <2>3. WriteInEpoch'
    BY <1>3 DEF Granted, EndInv, Return, Idle, NewTask, MoveTo, Current,
       TypeOK, Task, WriteInEpoch
  <2>4. StoredEnded'
    BY <1>3 DEF Granted, EndInv, Return, Idle, NewTask, MoveTo, Current,
       Clean, TypeOK, Task, StoredEnded
  <2>5. EndedStaysEnded'
    BY <1>3 DEF Granted, EndInv, Return, Idle, NewTask, MoveTo, Current,
       TypeOK, Task, EndedStaysEnded
  <2>6. QED
    BY <2>1, <2>2, <2>3, <2>4, <2>5 DEF EndInv
<1>4. CASE Cancelled(t)
  <2>1. RestoreFirst'
    BY <1>4 DEF Cancelled, EndInv, Return, Idle, NewTask, Current, TypeOK,
       Task, RestoreFirst
  <2>2. KnownIssued'
    BY <1>4 DEF Cancelled, EndInv, Return, Idle, NewTask, Current, TypeOK,
       Task, KnownIssued
  <2>3. WriteInEpoch'
    BY <1>4 DEF Cancelled, EndInv, Return, Idle, NewTask, Current, TypeOK,
       Task, WriteInEpoch
  <2>4. StoredEnded'
    BY <1>4 DEF Cancelled, EndInv, Return, Idle, NewTask, Current, Clean,
       TypeOK, Task, StoredEnded
  <2>5. EndedStaysEnded'
    BY <1>4 DEF Cancelled, EndInv, Return, Idle, NewTask, Current, TypeOK,
       Task, EndedStaysEnded
  <2>6. QED
    BY <2>1, <2>2, <2>3, <2>4, <2>5 DEF EndInv
<1>5. CASE SignInFails(t)
  <2>1. RestoreFirst'
    BY <1>5 DEF SignInFails, EndInv, Return, Idle, NewTask, EmitFailure,
       Current, TypeOK, Task, RestoreFirst
  <2>2. KnownIssued'
    BY <1>5 DEF SignInFails, EndInv, Return, Idle, NewTask, EmitFailure,
       Current, TypeOK, Task, KnownIssued
  <2>3. WriteInEpoch'
    BY <1>5 DEF SignInFails, EndInv, Return, Idle, NewTask, EmitFailure,
       Current, TypeOK, Task, WriteInEpoch
  <2>4. StoredEnded'
    BY <1>5 DEF SignInFails, EndInv, Return, Idle, NewTask, EmitFailure,
       Current, Clean, TypeOK, Task, StoredEnded
  <2>5. EndedStaysEnded'
    BY <1>5 DEF SignInFails, EndInv, Return, Idle, NewTask, EmitFailure,
       Current, TypeOK, Task, EndedStaysEnded
  <2>6. QED
    BY <2>1, <2>2, <2>3, <2>4, <2>5 DEF EndInv
<1>6. CASE RenewFails(t)
  <2>1. RestoreFirst'
    BY <1>6 DEF RenewFails, EndInv, Return, Idle, NewTask, Current, ExpireIn,
       TypeOK, Task, RestoreFirst
  <2>2. KnownIssued'
    BY <1>6 DEF RenewFails, EndInv, Return, Idle, NewTask, Current, ExpireIn,
       TypeOK, Task, KnownIssued
  <2>3. WriteInEpoch'
    <3>1. CASE Current(t)
      BY <1>6, <3>1, ExpireEpoch DEF RenewFails, EndInv
    <3>2. CASE ~Current(t)
      BY <1>6, <3>2
         DEF RenewFails, EndInv, Return, Idle, NewTask, Current, WriteInEpoch,
             TypeOK, Task
    <3>3. QED
      BY <3>1, <3>2
  <2>4. StoredEnded'
    BY <1>6 DEF RenewFails, EndInv, Return, Idle, NewTask, Current, ExpireIn,
       Clean, TypeOK, Task, StoredEnded
  <2>5. EndedStaysEnded'
    BY <1>6 DEF RenewFails, EndInv, Return, Idle, NewTask, Current, ExpireIn,
       TypeOK, Task, EndedStaysEnded
  <2>6. QED
    BY <2>1, <2>2, <2>3, <2>4, <2>5 DEF EndInv
<1>7. ASSUME NEW s \in Sessions, Exchanged(t, s) PROVE EndInv'
  <2>1. RestoreFirst'
    BY <1>7 DEF Exchanged, EndInv, Return, Idle, NewTask, Current, TypeOK,
       Task, RestoreFirst
  <2>2. KnownIssued'
    BY <1>7 DEF Exchanged, EndInv, Return, Idle, NewTask, Current, TypeOK,
       Task, KnownIssued
  <2>3. WriteInEpoch'
    <3>1. /\ bornIn' = [bornIn EXCEPT ![s] = tasks[t].begun] /\ epoch' = epoch
          /\ operation' = operation /\ s \notin issued
          /\ tasks[t].at = "exchange"
      BY <1>7 DEF Exchanged
    <3>2. \A u \in Tasks \ {t} :
            /\ tasks'[u] = tasks[u]
            /\ tasks[u].at = "write" =>
                 bornIn'[tasks[u].session] = bornIn[tasks[u].session]
      <4>1. \A u \in Tasks \ {t} : tasks'[u] = tasks[u]
        BY <1>7 DEF Exchanged, Return, TypeOK
      <4>2. \A u \in Tasks : tasks[u].session # s
        BY <3>1, <1>7 DEF EndInv, KnownIssued, TypeOK
      <4>3. \A u \in Tasks : tasks[u].at = "write" => tasks[u].session \in Sessions
        BY DEF EndInv, WriteInEpoch, TypeOK, Task, SessionOrNone
      <4>4. QED
        BY <3>1, <4>1, <4>2, <4>3 DEF TypeOK
    <3>3. CASE Current(t)
      <4>1. /\ tasks'[t].at = "write" /\ tasks'[t].session = s
            /\ tasks'[t].begun = tasks[t].begun /\ tasks[t].begun = epoch
            /\ bornIn'[s] = tasks[t].begun
        BY <1>7, <3>1, <3>3 DEF Exchanged, EndInv, WriteInEpoch, TypeOK, Task
      <4>2. QED
        BY <1>7, <3>1, <3>2, <4>1 DEF EndInv, WriteInEpoch, Current
    <3>4. CASE ~Current(t)
      <4>1. tasks'[t].at = "idle"
        BY <1>7, <3>4 DEF Exchanged, Return, Idle, NewTask, TypeOK
      <4>2. QED
        BY <3>1, <3>2, <4>1 DEF EndInv, WriteInEpoch, Current
    <3>5. QED
      BY <3>3, <3>4
  <2>4. StoredEnded'
    <3>1. /\ stored' = stored /\ epoch' = epoch /\ Clean' = Clean
          /\ stored # NoSession => bornIn'[stored] = bornIn[stored]
      BY <1>7 DEF Exchanged, EndInv, KnownIssued, TypeOK, Clean
    <3>2. \A u \in Tasks : tasks[u].at \in {"clear", "undo"}
                            => tasks'[u].at = tasks[u].at
      BY <1>7 DEF Exchanged, Return, TypeOK
    <3>3. QED
      BY <3>1, <3>2 DEF EndInv, StoredEnded
  <2>5. EndedStaysEnded'
    <3>1. /\ session' = session /\ epoch' = epoch
          /\ session # NoSession => bornIn'[session] = bornIn[session]
      BY <1>7 DEF Exchanged, EndInv, KnownIssued, TypeOK
    <3>2. QED
      BY <1>7, <3>1 DEF Exchanged, EndInv, EndedStaysEnded
  <2>6. QED
    BY <2>1, <2>2, <2>3, <2>4, <2>5 DEF EndInv
<1>8. CASE Written(t)
  <2>1. RestoreFirst'
    BY <1>8 DEF Written, EndInv, Return, Idle, NewTask, MoveTo, Current,
       TypeOK, Task, RestoreFirst
  <2>2. KnownIssued'
    BY <1>8 DEF Written, EndInv, Return, Idle, NewTask, MoveTo, Current,
       TypeOK, Task, KnownIssued
  <2>3. WriteInEpoch'
    BY <1>8 DEF Written, EndInv, Return, Idle, NewTask, MoveTo, Current,
       TypeOK, Task, WriteInEpoch
  <2>4. StoredEnded'
    <3>1. CASE Current(t)
      <4>1. tasks[t].session \in Sessions /\ stored' = tasks[t].session
            /\ bornIn'[stored'] = epoch'
        BY <1>8, <3>1 DEF Written, EndInv, WriteInEpoch, TypeOK, Task,
                          SessionOrNone
      <4>2. QED
        BY <4>1 DEF StoredEnded
    <3>2. CASE ~Current(t)
      <4>1. tasks'[t].at = "undo"
        BY <1>8, <3>2 DEF Written, MoveTo, TypeOK, Task
      <4>2. QED
        BY <4>1 DEF StoredEnded
    <3>3. QED
      BY <3>1, <3>2
  <2>5. EndedStaysEnded'
    <3>1. CASE Current(t)
      <4>1. session' = tasks[t].session /\ bornIn'[session'] = epoch'
        BY <1>8, <3>1 DEF Written, EndInv, WriteInEpoch, TypeOK
      <4>2. QED
        BY <4>1 DEF EndedStaysEnded
    <3>2. CASE ~Current(t)
      BY <1>8, <3>2 DEF Written, EndInv, EndedStaysEnded
    <3>3. QED
      BY <3>1, <3>2
  <2>6. QED
    BY <2>1, <2>2, <2>3, <2>4, <2>5 DEF EndInv
<1>9. CASE Undone(t)
  <2>1. RestoreFirst'
    BY <1>9 DEF Undone, EndInv, Return, Idle, NewTask, Fault, TypeOK, Task,
       RestoreFirst
  <2>2. KnownIssued'
    BY <1>9 DEF Undone, EndInv, Return, Idle, NewTask, Fault, TypeOK, Task,
       KnownIssued
  <2>3. WriteInEpoch'
    BY <1>9 DEF Undone, EndInv, Return, Idle, NewTask, Fault, Current, TypeOK,
       Task, WriteInEpoch
  <2>4. StoredEnded'
    BY <1>9 DEF Undone, EndInv, Return, Idle, NewTask, Fault, Clean, TypeOK,
       Task, StoredEnded
  <2>5. EndedStaysEnded'
    BY <1>9 DEF Undone, EndInv, Return, Idle, NewTask, Fault, TypeOK, Task,
       EndedStaysEnded
  <2>6. QED
    BY <2>1, <2>2, <2>3, <2>4, <2>5 DEF EndInv
<1>10. CASE SignInWriteFails(t)
  <2>1. RestoreFirst'
    BY <1>10 DEF SignInWriteFails, EndInv, MoveTo, Fault, TypeOK, Task,
       RestoreFirst
  <2>2. KnownIssued'
    BY <1>10 DEF SignInWriteFails, EndInv, MoveTo, Fault, TypeOK, Task,
       KnownIssued
  <2>3. WriteInEpoch'
    BY <1>10 DEF SignInWriteFails, EndInv, MoveTo, Fault, Current, TypeOK,
       Task, WriteInEpoch
  <2>4. StoredEnded'
    BY <1>10 DEF SignInWriteFails, EndInv, MoveTo, Fault, Clean, TypeOK, Task,
       StoredEnded
  <2>5. EndedStaysEnded'
    BY <1>10 DEF SignInWriteFails, EndInv, MoveTo, Fault, TypeOK, Task,
       EndedStaysEnded
  <2>6. QED
    BY <2>1, <2>2, <2>3, <2>4, <2>5 DEF EndInv
<1>11. CASE Discarded(t)
  <2>1. RestoreFirst'
    BY <1>11 DEF Discarded, EndInv, Return, Idle, NewTask, Fault, EmitFailure,
       TypeOK, Task, RestoreFirst
  <2>2. KnownIssued'
    BY <1>11 DEF Discarded, EndInv, Return, Idle, NewTask, Fault, EmitFailure,
       TypeOK, Task, KnownIssued
  <2>3. WriteInEpoch'
    BY <1>11 DEF Discarded, EndInv, Return, Idle, NewTask, Fault, EmitFailure,
       Current, TypeOK, Task, WriteInEpoch
  <2>4. StoredEnded'
    BY <1>11 DEF Discarded, EndInv, Return, Idle, NewTask, Fault, EmitFailure,
       Clean, TypeOK, Task, StoredEnded
  <2>5. EndedStaysEnded'
    BY <1>11 DEF Discarded, EndInv, Return, Idle, NewTask, Fault, EmitFailure,
       TypeOK, Task, EndedStaysEnded
  <2>6. QED
    BY <2>1, <2>2, <2>3, <2>4, <2>5 DEF EndInv
<1>12. CASE RenewWriteFails(t)
  <2>1. RestoreFirst'
    BY <1>12 DEF RenewWriteFails, EndInv, Return, Idle, NewTask, Fault,
       Current, ExpireIn, TypeOK, Task, RestoreFirst
  <2>2. KnownIssued'
    BY <1>12 DEF RenewWriteFails, EndInv, Return, Idle, NewTask, Fault,
       Current, ExpireIn, TypeOK, Task, KnownIssued
  <2>3. WriteInEpoch'
    <3>1. CASE Current(t)
      BY <1>12, <3>1, ExpireEpoch DEF RenewWriteFails, EndInv
    <3>2. CASE ~Current(t)
      BY <1>12, <3>2
         DEF RenewWriteFails, EndInv, Return, Idle, NewTask, Current, WriteInEpoch,
             TypeOK, Task
    <3>3. QED
      BY <3>1, <3>2
  <2>4. StoredEnded'
    BY <1>12 DEF RenewWriteFails, EndInv, Return, Idle, NewTask, Fault,
       Current, ExpireIn, Clean, TypeOK, Task, StoredEnded
  <2>5. EndedStaysEnded'
    BY <1>12 DEF RenewWriteFails, EndInv, Return, Idle, NewTask, Fault,
       Current, ExpireIn, TypeOK, Task, EndedStaysEnded
  <2>6. QED
    BY <2>1, <2>2, <2>3, <2>4, <2>5 DEF EndInv
<1>13. CASE StoreCleared(t)
  <2>1. RestoreFirst'
    BY <1>13 DEF StoreCleared, EndInv, Fault, TypeOK, Task, RestoreFirst
  <2>2. KnownIssued'
    BY <1>13 DEF StoreCleared, EndInv, Fault, TypeOK, Task, KnownIssued
  <2>3. WriteInEpoch'
    BY <1>13 DEF StoreCleared, EndInv, Fault, Current, TypeOK, Task,
       WriteInEpoch
  <2>4. StoredEnded'
    BY <1>13 DEF StoreCleared, EndInv, Fault, Clean, TypeOK, Task, StoredEnded
  <2>5. EndedStaysEnded'
    BY <1>13 DEF StoreCleared, EndInv, Fault, TypeOK, Task, EndedStaysEnded
  <2>6. QED
    BY <2>1, <2>2, <2>3, <2>4, <2>5 DEF EndInv
<1>14. ASSUME NEW p \in Purgers, Purged(t, p) PROVE EndInv'
  <2>1. /\ UNCHANGED <<operation, session, requests, booted, stored, issued, epoch,
                       bornIn, interrupted>>
        /\ faults' = 0 => faults = 0
        /\ faults > 0 => faults' > 0
    BY <1>14 DEF Purged, Fault, TypeOK
  <2>2. \A u \in Tasks :
           /\ tasks'[u].at = tasks[u].at /\ tasks'[u].op = tasks[u].op
           /\ tasks'[u].begun = tasks[u].begun /\ tasks'[u].session = tasks[u].session
    BY <1>14 DEF Purged, TypeOK, Task
  <2>3. booted
    BY <1>14 DEF Purged, At, EndInv, RestoreFirst
  <2>4. RestoreFirst'
    BY <2>1, <2>2, <2>3 DEF EndInv, RestoreFirst
  <2>5. KnownIssued'
    BY <2>1, <2>2 DEF EndInv, KnownIssued
  <2>6. WriteInEpoch'
    BY <2>1, <2>2 DEF EndInv, WriteInEpoch, Current
  <2>7. StoredEnded'
    BY <2>1, <2>2 DEF EndInv, StoredEnded, Clean
  <2>8. EndedStaysEnded'
    BY <2>1 DEF EndInv, EndedStaysEnded
  <2>9. QED
    BY <2>4, <2>5, <2>6, <2>7, <2>8 DEF EndInv
<1>15. CASE Cleared(t)
  <2>1. RestoreFirst'
    BY <1>15 DEF Cleared, EndInv, Return, Idle, NewTask, MoveTo, TypeOK, Task,
       RestoreFirst
  <2>2. KnownIssued'
    BY <1>15 DEF Cleared, EndInv, Return, Idle, NewTask, MoveTo, TypeOK, Task,
       KnownIssued
  <2>3. WriteInEpoch'
    BY <1>15 DEF Cleared, EndInv, Return, Idle, NewTask, MoveTo, Current,
       TypeOK, Task, WriteInEpoch
  <2>4. StoredEnded'
    BY <1>15 DEF Cleared, EndInv, Return, Idle, NewTask, MoveTo, Clean,
       TypeOK, Task, StoredEnded
  <2>5. EndedStaysEnded'
    BY <1>15 DEF Cleared, EndInv, Return, Idle, NewTask, MoveTo, TypeOK, Task,
       EndedStaysEnded
  <2>6. QED
    BY <2>1, <2>2, <2>3, <2>4, <2>5 DEF EndInv
<1>16. CASE Revoked(t)
  <2>1. RestoreFirst'
    BY <1>16 DEF Revoked, EndInv, Return, Idle, NewTask, TypeOK, Task,
       RestoreFirst
  <2>2. KnownIssued'
    BY <1>16 DEF Revoked, EndInv, Return, Idle, NewTask, TypeOK, Task,
       KnownIssued
  <2>3. WriteInEpoch'
    BY <1>16 DEF Revoked, EndInv, Return, Idle, NewTask, Current, TypeOK,
       Task, WriteInEpoch
  <2>4. StoredEnded'
    BY <1>16 DEF Revoked, EndInv, Return, Idle, NewTask, Clean, TypeOK, Task,
       StoredEnded
  <2>5. EndedStaysEnded'
    BY <1>16 DEF Revoked, EndInv, Return, Idle, NewTask, TypeOK, Task,
       EndedStaysEnded
  <2>6. QED
    BY <2>1, <2>2, <2>3, <2>4, <2>5 DEF EndInv
<1>17. QED
  BY <1>1, <1>2, <1>3, <1>4, <1>5, <1>6, <1>7, <1>8, <1>9, <1>10, <1>11, <1>12, <1>13, <1>14, <1>15, <1>16 DEF Flow

LEMMA EndInvEnvironment ==
  ASSUME TypeOK, EndInv, Environment
  PROVE  EndInv'
<1> USE DEF history, server, disk, memory
<1>1. ASSUME NEW p \in Purgers, Register(p) PROVE EndInv'
  BY <1>1 DEF Register, EndInv, RestoreFirst, KnownIssued, WriteInEpoch,
              Current, StoredEnded, Clean, EndedStaysEnded
<1>2. ASSUME NEW p \in Purgers, StoreData(p) PROVE EndInv'
  BY <1>2 DEF StoreData, EndInv, RestoreFirst, KnownIssued, WriteInEpoch,
              Current, StoredEnded, Clean, EndedStaysEnded
<1>3. CASE SendRequest
  BY <1>3 DEF SendRequest, EndInv, RestoreFirst, KnownIssued, WriteInEpoch,
              Current, StoredEnded, Clean, EndedStaysEnded
<1>4. ASSUME NEW s \in Sessions, Answered(s) PROVE EndInv'
  BY <1>4 DEF Answered, EndInv, RestoreFirst, KnownIssued, WriteInEpoch,
              Current, StoredEnded, Clean, EndedStaysEnded
<1>5. ASSUME NEW s \in Sessions, Withdraw(s) PROVE EndInv'
  BY <1>5 DEF Withdraw, EndInv, RestoreFirst, KnownIssued, WriteInEpoch,
              Current, StoredEnded, Clean, EndedStaysEnded
<1>6. ASSUME NEW s \in Sessions, NEW t \in Tasks, Unauthorized(s, t)
      PROVE  EndInv'
  <2>1. booted
    BY <1>6 DEF Unauthorized, EndInv, RestoreFirst
  <2>2. RestoreFirst'
    BY <1>6, <2>1, ExpireFirst DEF Unauthorized, EndInv
  <2>3. KnownIssued'
    BY <1>6 DEF Unauthorized, EndInv, ExpireIn, NewTask, KnownIssued, TypeOK
  <2>4. WriteInEpoch'
    BY <1>6, ExpireEpoch DEF Unauthorized, EndInv
  <2>5. StoredEnded'
    BY <1>6 DEF Unauthorized, ExpireIn, NewTask, StoredEnded, TypeOK
  <2>6. EndedStaysEnded'
    BY <1>6 DEF Unauthorized, ExpireIn, EndedStaysEnded
  <2>7. QED
    BY <2>2, <2>3, <2>4, <2>5, <2>6 DEF EndInv
<1>7. CASE Crash
  <2>1. \A t \in Tasks : tasks'[t].at = "idle" /\ tasks'[t].op = 0
                         /\ tasks'[t].session = NoSession
    BY <1>7 DEF Crash, Idle, NewTask
  <2>2. /\ operation' = 0 /\ ~booted' /\ session' = NoSession
        /\ requests' = {} /\ UNCHANGED <<issued, epoch, bornIn, faults>>
    BY <1>7 DEF Crash
  <2>3. RestoreFirst'
    BY <2>1, <2>2 DEF RestoreFirst
  <2>4. KnownIssued'
    BY <1>7, <2>1, <2>2 DEF Crash, EndInv, KnownIssued, TypeOK
  <2>5. WriteInEpoch'
    BY <2>1 DEF WriteInEpoch
  <2>6. StoredEnded'
    <3>1. SUFFICES ASSUME Clean', stored' # NoSession
                   PROVE  bornIn[stored'] = epoch
      BY <2>2 DEF StoredEnded
    <3>2. Clean /\ ~Unfinished
      BY <1>7, <3>1 DEF Crash, Clean
    <3>3. \A t \in Tasks :
            /\ tasks[t].at \notin {"clear", "undo", "discard"}
            /\ tasks[t].at = "write" => Current(t)
      BY <3>2 DEF Unfinished, Removing
    <3>4. CASE stored' = stored
      BY <3>1, <3>2, <3>3, <3>4 DEF EndInv, StoredEnded
    <3>5. ASSUME NEW t \in Tasks, tasks[t].at = "write",
                 stored' = tasks[t].session
          PROVE  bornIn[stored'] = epoch
      BY <3>3, <3>5 DEF EndInv, WriteInEpoch
    <3>6. QED
      BY <1>7, <3>1, <3>3, <3>4, <3>5 DEF Crash
  <2>7. EndedStaysEnded'
    BY <2>2 DEF EndedStaysEnded
  <2>8. QED
    BY <2>3, <2>4, <2>5, <2>6, <2>7 DEF EndInv
<1>8. QED
  BY <1>1, <1>2, <1>3, <1>4, <1>5, <1>6, <1>7 DEF Environment

LEMMA EndInvariant == Spec => []EndInv
<1>1. Init => EndInv
  BY DEF Init, EndInv, RestoreFirst, KnownIssued, WriteInEpoch, StoredEnded,
         EndedStaysEnded, Idle, NewTask
<1>2. TypeOK /\ EndInv /\ UNCHANGED vars => EndInv'
  BY DEF vars, memory, disk, server, history, EndInv, RestoreFirst,
         KnownIssued, WriteInEpoch, Current, StoredEnded, Clean,
         EndedStaysEnded
<1>3. TypeOK /\ EndInv /\ [Next]_vars => EndInv'
  BY <1>2, EndInvCall, EndInvFlow, EndInvEnvironment DEF Next
<1>4. QED
  BY TypeCorrect, <1>1, <1>3, PTL DEF Spec

\* Whatever calls overlap, however many sessions, users and stores there are: a
\* session that was in use, stored or being obtained when the user signed out
\* or was expired is never the session of the app again, unless a store failed
\* to delete or the app was killed in the middle of the removal.
THEOREM EndedSessionsStayEnded == Spec => []EndedStaysEnded
<1>1. EndInv => EndedStaysEnded
  BY DEF EndInv
<1>2. QED
  BY EndInvariant, <1>1, PTL

-----------------------------------------------------------------------------
(* What the screens are told.                                              *)

\* Two calls are never both the current one.
OneCurrent ==
  \A t, u \in Tasks :
    tasks[t].at # "idle" /\ Current(t) /\ tasks[u].at # "idle" /\ Current(u)
      => t = u

\* While the current call may still end in a failure it emits, there is no
\* session to lose.
NothingToLose ==
  \A t \in Tasks :
    Current(t) /\ (\/ At(t, {"restore"}, "read")
                  \/ At(t, {"signIn"}, "grant") \/ At(t, {"signIn"}, "exchange"))
      => session = NoSession

\* A removal that did not succeed, and the deletion after a write that did not,
\* are due to a failure of the store or a purger.
FailedByFault ==
  \A t \in Tasks : tasks[t].failed \/ tasks[t].at = "discard" => faults > 0

ScreenInv ==
  OneCurrent /\ NothingToLose /\ FailedByFault /\ SessionMatchesStatus
    /\ RestoringAtWork

\* Tasks that only move on leave at most one of them current.
LEMMA OneKept ==
  ASSUME OneCurrent, operation' = operation,
         \A u \in Tasks : tasks'[u].at # "idle" =>
           tasks[u].at # "idle" /\ tasks'[u].op = tasks[u].op
  PROVE  OneCurrent'
BY DEF OneCurrent, Current

\* A step of one task that begins no call leaves at most one of them current,
\* and when it was the current one it may take or lose the session.
LEMMA StepAlone ==
  ASSUME TypeOK, OneCurrent, NothingToLose, NEW t \in Tasks,
         operation' = operation, tasks[t].at # "idle",
         \A u \in Tasks \ {t} : tasks'[u] = tasks[u],
         \/ tasks'[t].at = "idle"
         \/ /\ tasks'[t].op = tasks[t].op
            /\ tasks'[t].at \notin {"read", "grant", "exchange"},
         session' \in {session, NoSession} \/ Current(t)
  PROVE  OneCurrent' /\ NothingToLose'
<1>1. ASSUME NEW u \in Tasks, NEW v \in Tasks,
             tasks'[u].at # "idle", tasks'[u].op = operation',
             tasks'[v].at # "idle", tasks'[v].op = operation'
      PROVE  u = v
  <2>1. \A w \in {u, v} : tasks[w].at # "idle" /\ tasks[w].op = operation
    BY <1>1
  <2>2. QED
    BY <2>1 DEF OneCurrent, Current
<1>2. ASSUME NEW u \in Tasks, tasks'[u].op = operation',
             tasks'[u].at \in {"read", "grant", "exchange"},
             \/ tasks'[u].kind = "restore" /\ tasks'[u].at = "read"
             \/ tasks'[u].kind = "signIn" /\ tasks'[u].at # "read"
      PROVE  session' = NoSession
  <2>1. u # t /\ tasks'[u] = tasks[u]
    BY <1>2
  <2>2. session = NoSession /\ Current(u) /\ tasks[u].at # "idle"
    BY <1>2, <2>1 DEF NothingToLose, Current, At
  <2>3. ~Current(t)
    BY <2>1, <2>2 DEF OneCurrent
  <2>4. QED
    BY <2>2, <2>3
<1>3. OneCurrent'
  BY <1>1 DEF OneCurrent, Current
<1>4. NothingToLose'
  BY <1>2 DEF NothingToLose, Current, At
<1>5. QED
  BY <1>3, <1>4


LEMMA ScreenCall ==
  ASSUME TypeOK, EndInv, ScreenInv, NEW t \in Tasks, Call(t)
  PROVE  ScreenInv'
<1> USE DEF history, disk, server
<1>1. CASE Restore(t)
  <2>1. OneCurrent'
    BY <1>1 DEF ScreenInv, Restore, Begin, NewTask, TypeOK, Task, OneCurrent, Current, EndInv, RestoreFirst
  <2>2. NothingToLose'
    BY <1>1 DEF ScreenInv, Restore, Begin, NewTask, TypeOK, Task, NothingToLose, Current, At, EndInv, RestoreFirst, OneCurrent
  <2>3. FailedByFault'
    BY <1>1 DEF ScreenInv, Restore, Begin, NewTask, TypeOK, Task, FailedByFault
  <2>4. SessionMatchesStatus'
    BY <1>1 DEF ScreenInv, Restore, Begin, NewTask, TypeOK, Task, SessionMatchesStatus, EndInv, WriteInEpoch, RestoreFirst, OneCurrent, NothingToLose, FailedByFault, At, Current
  <2>5. RestoringAtWork'
    BY <1>1 DEF ScreenInv, Restore, Begin, NewTask, TypeOK, Task, RestoringAtWork, Current, At
  <2>6. QED
    BY <2>1, <2>2, <2>3, <2>4, <2>5 DEF ScreenInv
<1>2. CASE SignIn(t)
  <2>1. OneCurrent'
    BY <1>2 DEF ScreenInv, SignIn, Begin, NewTask, TypeOK, Task, OneCurrent, Current, EndInv, RestoreFirst
  <2>2. NothingToLose'
    BY <1>2 DEF ScreenInv, SignIn, Begin, NewTask, TypeOK, Task, NothingToLose, Current, At, EndInv, RestoreFirst, OneCurrent
  <2>3. FailedByFault'
    BY <1>2 DEF ScreenInv, SignIn, Begin, NewTask, TypeOK, Task, FailedByFault
  <2>4. SessionMatchesStatus'
    BY <1>2 DEF ScreenInv, SignIn, Begin, NewTask, TypeOK, Task, SessionMatchesStatus, EndInv, WriteInEpoch, RestoreFirst, OneCurrent, NothingToLose, FailedByFault, At, Current
  <2>5. RestoringAtWork'
    BY <1>2 DEF ScreenInv, SignIn, Begin, NewTask, TypeOK, Task, RestoringAtWork, Current, At
  <2>6. QED
    BY <2>1, <2>2, <2>3, <2>4, <2>5 DEF ScreenInv
<1>3. CASE Renew(t)
  <2>1. OneCurrent'
    BY <1>3 DEF ScreenInv, Renew, Begin, NewTask, TypeOK, Task, OneCurrent, Current, EndInv, RestoreFirst
  <2>2. NothingToLose'
    BY <1>3 DEF ScreenInv, Renew, Begin, NewTask, TypeOK, Task, NothingToLose, Current, At, EndInv, RestoreFirst, OneCurrent
  <2>3. FailedByFault'
    BY <1>3 DEF ScreenInv, Renew, Begin, NewTask, TypeOK, Task, FailedByFault
  <2>4. SessionMatchesStatus'
    BY <1>3 DEF ScreenInv, Renew, Begin, NewTask, TypeOK, Task, SessionMatchesStatus, EndInv, WriteInEpoch, RestoreFirst, OneCurrent, NothingToLose, FailedByFault, At, Current
  <2>5. RestoringAtWork'
    BY <1>3 DEF ScreenInv, Renew, Begin, NewTask, TypeOK, Task, RestoringAtWork, Current, At
  <2>6. QED
    BY <2>1, <2>2, <2>3, <2>4, <2>5 DEF ScreenInv
<1>4. CASE RenewWithoutSession(t)
  <2>1. OneCurrent'
    BY <1>4 DEF ScreenInv, RenewWithoutSession, ExpireIn, NewTask, TypeOK, Task, OneCurrent, Current, EndInv, RestoreFirst
  <2>2. NothingToLose'
    BY <1>4 DEF ScreenInv, RenewWithoutSession, ExpireIn, NewTask, TypeOK, Task, NothingToLose, Current, At, EndInv, RestoreFirst, OneCurrent
  <2>3. FailedByFault'
    BY <1>4 DEF ScreenInv, RenewWithoutSession, ExpireIn, NewTask, TypeOK, Task, FailedByFault
  <2>4. SessionMatchesStatus'
    BY <1>4 DEF ScreenInv, RenewWithoutSession, ExpireIn, NewTask, TypeOK, Task, SessionMatchesStatus, EndInv, WriteInEpoch, RestoreFirst, OneCurrent, NothingToLose, FailedByFault, At, Current
  <2>5. RestoringAtWork'
    BY <1>4 DEF ScreenInv, RenewWithoutSession, ExpireIn, NewTask, TypeOK, Task, RestoringAtWork, Current, At
  <2>6. QED
    BY <2>1, <2>2, <2>3, <2>4, <2>5 DEF ScreenInv
<1>5. CASE SignOut(t)
  <2>1. OneCurrent'
    BY <1>5 DEF ScreenInv, SignOut, Begin, NewTask, TypeOK, Task, OneCurrent, Current, EndInv, RestoreFirst
  <2>2. NothingToLose'
    BY <1>5 DEF ScreenInv, SignOut, Begin, NewTask, TypeOK, Task, NothingToLose, Current, At, EndInv, RestoreFirst, OneCurrent
  <2>3. FailedByFault'
    BY <1>5 DEF ScreenInv, SignOut, Begin, NewTask, TypeOK, Task, FailedByFault
  <2>4. SessionMatchesStatus'
    BY <1>5 DEF ScreenInv, SignOut, Begin, NewTask, TypeOK, Task, SessionMatchesStatus, EndInv, WriteInEpoch, RestoreFirst, OneCurrent, NothingToLose, FailedByFault, At, Current
  <2>5. RestoringAtWork'
    BY <1>5 DEF ScreenInv, SignOut, Begin, NewTask, TypeOK, Task, RestoringAtWork, Current, At
  <2>6. QED
    BY <2>1, <2>2, <2>3, <2>4, <2>5 DEF ScreenInv
<1>6. QED
  BY <1>1, <1>2, <1>3, <1>4, <1>5 DEF Call

LEMMA ScreenFlow ==
  ASSUME TypeOK, EndInv, ScreenInv, NEW t \in Tasks, Flow(t)
  PROVE  ScreenInv'
<1> USE DEF history, disk, server
<1>1. CASE RestoreRead(t)
  <2>1. OneCurrent' /\ NothingToLose'
    BY <1>1, StepAlone DEF ScreenInv, RestoreRead, Return, Idle, NewTask, Fault, TypeOK, Task, At
  <2>2. FailedByFault'
    BY <1>1 DEF ScreenInv, RestoreRead, Return, Idle, NewTask, Fault, TypeOK, Task, FailedByFault
  <2>3. SessionMatchesStatus'
    BY <1>1 DEF ScreenInv, RestoreRead, Return, Idle, NewTask, Fault, TypeOK, Task, SessionMatchesStatus, EndInv, WriteInEpoch, RestoreFirst, OneCurrent, NothingToLose, FailedByFault, At, Current
  <2>4. RestoringAtWork'
    BY <1>1 DEF ScreenInv, RestoreRead, Return, Idle, NewTask, Fault, TypeOK, Task, RestoringAtWork, Current, At
  <2>5. QED
    BY <2>1, <2>2, <2>3, <2>4 DEF ScreenInv
<1>2. CASE RestoreFails(t)
  <2>1. OneCurrent' /\ NothingToLose'
    BY <1>2, StepAlone DEF ScreenInv, RestoreFails, Return, Idle, NewTask, Fault, EmitFailure, TypeOK, Task, At
  <2>2. FailedByFault'
    BY <1>2 DEF ScreenInv, RestoreFails, Return, Idle, NewTask, Fault, EmitFailure, TypeOK, Task, FailedByFault
  <2>3. SessionMatchesStatus'
    BY <1>2 DEF ScreenInv, RestoreFails, Return, Idle, NewTask, Fault, EmitFailure, TypeOK, Task, SessionMatchesStatus, EndInv, WriteInEpoch, RestoreFirst, OneCurrent, NothingToLose, FailedByFault, At, Current
  <2>4. RestoringAtWork'
    BY <1>2 DEF ScreenInv, RestoreFails, Return, Idle, NewTask, Fault, EmitFailure, TypeOK, Task, RestoringAtWork, Current, At
  <2>5. QED
    BY <2>1, <2>2, <2>3, <2>4 DEF ScreenInv
<1>3. CASE Granted(t)
  <2>1. OneCurrent'
    BY <1>3, OneKept DEF ScreenInv, Granted, Return, Idle, NewTask, MoveTo, TypeOK, Task, At
  <2>2. NothingToLose'
    BY <1>3 DEF ScreenInv, Granted, Return, Idle, NewTask, MoveTo, TypeOK, Task, NothingToLose, Current, At, EndInv, RestoreFirst, OneCurrent
  <2>3. FailedByFault'
    BY <1>3 DEF ScreenInv, Granted, Return, Idle, NewTask, MoveTo, TypeOK, Task, FailedByFault
  <2>4. SessionMatchesStatus'
    BY <1>3 DEF ScreenInv, Granted, Return, Idle, NewTask, MoveTo, TypeOK, Task, SessionMatchesStatus, EndInv, WriteInEpoch, RestoreFirst, OneCurrent, NothingToLose, FailedByFault, At, Current
  <2>5. RestoringAtWork'
    BY <1>3 DEF ScreenInv, Granted, Return, Idle, NewTask, MoveTo, TypeOK, Task, RestoringAtWork, Current, At
  <2>6. QED
    BY <2>1, <2>2, <2>3, <2>4, <2>5 DEF ScreenInv
<1>4. CASE Cancelled(t)
  <2>1. OneCurrent' /\ NothingToLose'
    BY <1>4, StepAlone DEF ScreenInv, Cancelled, Return, Idle, NewTask, TypeOK, Task, At
  <2>2. FailedByFault'
    BY <1>4 DEF ScreenInv, Cancelled, Return, Idle, NewTask, TypeOK, Task, FailedByFault
  <2>3. SessionMatchesStatus'
    BY <1>4 DEF ScreenInv, Cancelled, Return, Idle, NewTask, TypeOK, Task, SessionMatchesStatus, EndInv, WriteInEpoch, RestoreFirst, OneCurrent, NothingToLose, FailedByFault, At, Current
  <2>4. RestoringAtWork'
    BY <1>4 DEF ScreenInv, Cancelled, Return, Idle, NewTask, TypeOK, Task, RestoringAtWork, Current, At
  <2>5. QED
    BY <2>1, <2>2, <2>3, <2>4 DEF ScreenInv
<1>5. CASE SignInFails(t)
  <2>1. OneCurrent' /\ NothingToLose'
    BY <1>5, StepAlone DEF ScreenInv, SignInFails, Return, Idle, NewTask, EmitFailure, TypeOK, Task, At
  <2>2. FailedByFault'
    BY <1>5 DEF ScreenInv, SignInFails, Return, Idle, NewTask, EmitFailure, TypeOK, Task, FailedByFault
  <2>3. SessionMatchesStatus'
    BY <1>5 DEF ScreenInv, SignInFails, Return, Idle, NewTask, EmitFailure, TypeOK, Task, SessionMatchesStatus, EndInv, WriteInEpoch, RestoreFirst, OneCurrent, NothingToLose, FailedByFault, At, Current
  <2>4. RestoringAtWork'
    BY <1>5 DEF ScreenInv, SignInFails, Return, Idle, NewTask, EmitFailure, TypeOK, Task, RestoringAtWork, Current, At
  <2>5. QED
    BY <2>1, <2>2, <2>3, <2>4 DEF ScreenInv
<1>6. CASE RenewFails(t)
  <2>1. OneCurrent'
    BY <1>6 DEF ScreenInv, RenewFails, Return, Idle, NewTask, ExpireIn, TypeOK, Task, OneCurrent, Current, EndInv, RestoreFirst
  <2>2. NothingToLose'
    BY <1>6 DEF ScreenInv, RenewFails, Return, Idle, NewTask, ExpireIn, TypeOK, Task, NothingToLose, Current, At, EndInv, RestoreFirst, OneCurrent
  <2>3. FailedByFault'
    BY <1>6 DEF ScreenInv, RenewFails, Return, Idle, NewTask, ExpireIn, TypeOK, Task, FailedByFault
  <2>4. SessionMatchesStatus'
    BY <1>6 DEF ScreenInv, RenewFails, Return, Idle, NewTask, ExpireIn, TypeOK, Task, SessionMatchesStatus, EndInv, WriteInEpoch, RestoreFirst, OneCurrent, NothingToLose, FailedByFault, At, Current
  <2>5. RestoringAtWork'
    BY <1>6 DEF ScreenInv, RenewFails, Return, Idle, NewTask, ExpireIn, TypeOK, Task, RestoringAtWork, Current, At
  <2>6. QED
    BY <2>1, <2>2, <2>3, <2>4, <2>5 DEF ScreenInv
<1>7. ASSUME NEW s \in Sessions, Exchanged(t, s) PROVE ScreenInv'
  <2>1. OneCurrent'
    BY <1>7, OneKept DEF ScreenInv, Exchanged, Return, Idle, NewTask, TypeOK, Task, At
  <2>2. NothingToLose'
    BY <1>7 DEF ScreenInv, Exchanged, Return, Idle, NewTask, TypeOK, Task, NothingToLose, Current, At, EndInv, RestoreFirst, OneCurrent
  <2>3. FailedByFault'
    BY <1>7 DEF ScreenInv, Exchanged, Return, Idle, NewTask, TypeOK, Task, FailedByFault
  <2>4. SessionMatchesStatus'
    BY <1>7 DEF ScreenInv, Exchanged, Return, Idle, NewTask, TypeOK, Task, SessionMatchesStatus, EndInv, WriteInEpoch, RestoreFirst, OneCurrent, NothingToLose, FailedByFault, At, Current
  <2>5. RestoringAtWork'
    BY <1>7 DEF ScreenInv, Exchanged, Return, Idle, NewTask, TypeOK, Task, RestoringAtWork, Current, At
  <2>6. QED
    BY <2>1, <2>2, <2>3, <2>4, <2>5 DEF ScreenInv
<1>8. CASE Written(t)
  <2>1. OneCurrent' /\ NothingToLose'
    BY <1>8, StepAlone DEF ScreenInv, Written, Return, Idle, NewTask, MoveTo, TypeOK, Task, At
  <2>2. FailedByFault'
    BY <1>8 DEF ScreenInv, Written, Return, Idle, NewTask, MoveTo, TypeOK, Task, FailedByFault
  <2>3. SessionMatchesStatus'
    BY <1>8 DEF ScreenInv, Written, Return, Idle, NewTask, MoveTo, TypeOK, Task, SessionMatchesStatus, EndInv, WriteInEpoch, RestoreFirst, OneCurrent, NothingToLose, FailedByFault, At, Current
  <2>4. RestoringAtWork'
    BY <1>8 DEF ScreenInv, Written, Return, Idle, NewTask, MoveTo, TypeOK, Task, RestoringAtWork, Current, At
  <2>5. QED
    BY <2>1, <2>2, <2>3, <2>4 DEF ScreenInv
<1>9. CASE Undone(t)
  <2>1. OneCurrent' /\ NothingToLose'
    BY <1>9, StepAlone DEF ScreenInv, Undone, Return, Idle, NewTask, Fault, TypeOK, Task, At
  <2>2. FailedByFault'
    BY <1>9 DEF ScreenInv, Undone, Return, Idle, NewTask, Fault, TypeOK, Task, FailedByFault
  <2>3. SessionMatchesStatus'
    BY <1>9 DEF ScreenInv, Undone, Return, Idle, NewTask, Fault, TypeOK, Task, SessionMatchesStatus, EndInv, WriteInEpoch, RestoreFirst, OneCurrent, NothingToLose, FailedByFault, At, Current
  <2>4. RestoringAtWork'
    BY <1>9 DEF ScreenInv, Undone, Return, Idle, NewTask, Fault, TypeOK, Task, RestoringAtWork, Current, At
  <2>5. QED
    BY <2>1, <2>2, <2>3, <2>4 DEF ScreenInv
<1>10. CASE SignInWriteFails(t)
  <2>1. OneCurrent'
    BY <1>10, OneKept DEF ScreenInv, SignInWriteFails, MoveTo, Fault, TypeOK, Task, At
  <2>2. NothingToLose'
    BY <1>10 DEF ScreenInv, SignInWriteFails, MoveTo, Fault, TypeOK, Task, NothingToLose, Current, At, EndInv, RestoreFirst, OneCurrent
  <2>3. FailedByFault'
    BY <1>10 DEF ScreenInv, SignInWriteFails, MoveTo, Fault, TypeOK, Task, FailedByFault
  <2>4. SessionMatchesStatus'
    BY <1>10 DEF ScreenInv, SignInWriteFails, MoveTo, Fault, TypeOK, Task, SessionMatchesStatus, EndInv, WriteInEpoch, RestoreFirst, OneCurrent, NothingToLose, FailedByFault, At, Current
  <2>5. RestoringAtWork'
    BY <1>10 DEF ScreenInv, SignInWriteFails, MoveTo, Fault, TypeOK, Task, RestoringAtWork, Current, At
  <2>6. QED
    BY <2>1, <2>2, <2>3, <2>4, <2>5 DEF ScreenInv
<1>11. CASE Discarded(t)
  <2>1. OneCurrent' /\ NothingToLose'
    BY <1>11, StepAlone DEF ScreenInv, Discarded, Return, Idle, NewTask, Fault, EmitFailure, TypeOK, Task, At
  <2>2. FailedByFault'
    BY <1>11 DEF ScreenInv, Discarded, Return, Idle, NewTask, Fault, EmitFailure, TypeOK, Task, FailedByFault
  <2>3. SessionMatchesStatus'
    BY <1>11 DEF ScreenInv, Discarded, Return, Idle, NewTask, Fault, EmitFailure, TypeOK, Task, SessionMatchesStatus, EndInv, WriteInEpoch, RestoreFirst, OneCurrent, NothingToLose, FailedByFault, At, Current
  <2>4. RestoringAtWork'
    BY <1>11 DEF ScreenInv, Discarded, Return, Idle, NewTask, Fault, EmitFailure, TypeOK, Task, RestoringAtWork, Current, At
  <2>5. QED
    BY <2>1, <2>2, <2>3, <2>4 DEF ScreenInv
<1>12. CASE RenewWriteFails(t)
  <2>1. OneCurrent'
    BY <1>12 DEF ScreenInv, RenewWriteFails, Return, Idle, NewTask, Fault, ExpireIn, TypeOK, Task, OneCurrent, Current, EndInv, RestoreFirst
  <2>2. NothingToLose'
    BY <1>12 DEF ScreenInv, RenewWriteFails, Return, Idle, NewTask, Fault, ExpireIn, TypeOK, Task, NothingToLose, Current, At, EndInv, RestoreFirst, OneCurrent
  <2>3. FailedByFault'
    BY <1>12 DEF ScreenInv, RenewWriteFails, Return, Idle, NewTask, Fault, ExpireIn, TypeOK, Task, FailedByFault
  <2>4. SessionMatchesStatus'
    BY <1>12 DEF ScreenInv, RenewWriteFails, Return, Idle, NewTask, Fault, ExpireIn, TypeOK, Task, SessionMatchesStatus, EndInv, WriteInEpoch, RestoreFirst, OneCurrent, NothingToLose, FailedByFault, At, Current
  <2>5. RestoringAtWork'
    BY <1>12 DEF ScreenInv, RenewWriteFails, Return, Idle, NewTask, Fault, ExpireIn, TypeOK, Task, RestoringAtWork, Current, At
  <2>6. QED
    BY <2>1, <2>2, <2>3, <2>4, <2>5 DEF ScreenInv
<1>13. CASE StoreCleared(t)
  <2>1. OneCurrent'
    BY <1>13, OneKept DEF ScreenInv, StoreCleared, Fault, TypeOK, Task, At
  <2>2. NothingToLose'
    BY <1>13 DEF ScreenInv, StoreCleared, Fault, TypeOK, Task, NothingToLose, Current, At, EndInv, RestoreFirst, OneCurrent
  <2>3. FailedByFault'
    BY <1>13 DEF ScreenInv, StoreCleared, Fault, TypeOK, Task, FailedByFault
  <2>4. SessionMatchesStatus'
    BY <1>13 DEF ScreenInv, StoreCleared, Fault, TypeOK, Task, SessionMatchesStatus, EndInv, WriteInEpoch, RestoreFirst, OneCurrent, NothingToLose, FailedByFault, At, Current
  <2>5. RestoringAtWork'
    BY <1>13 DEF ScreenInv, StoreCleared, Fault, TypeOK, Task, RestoringAtWork, Current, At
  <2>6. QED
    BY <2>1, <2>2, <2>3, <2>4, <2>5 DEF ScreenInv
<1>14. ASSUME NEW p \in Purgers, Purged(t, p) PROVE ScreenInv'
  <2>1. OneCurrent'
    BY <1>14 DEF ScreenInv, Purged, Fault, TypeOK, Task, OneCurrent, Current, EndInv, RestoreFirst
  <2>2. NothingToLose'
    BY <1>14 DEF ScreenInv, Purged, Fault, TypeOK, Task, NothingToLose, Current, At, EndInv, RestoreFirst, OneCurrent
  <2>3. FailedByFault'
    BY <1>14 DEF ScreenInv, Purged, Fault, TypeOK, Task, FailedByFault
  <2>4. SessionMatchesStatus'
    BY <1>14 DEF ScreenInv, Purged, Fault, TypeOK, Task, SessionMatchesStatus, EndInv, WriteInEpoch, RestoreFirst, OneCurrent, NothingToLose, FailedByFault, At, Current
  <2>5. RestoringAtWork'
    BY <1>14 DEF ScreenInv, Purged, Fault, TypeOK, Task, RestoringAtWork, Current, At
  <2>6. QED
    BY <2>1, <2>2, <2>3, <2>4, <2>5 DEF ScreenInv
<1>15. CASE Cleared(t)
  <2>1. OneCurrent' /\ NothingToLose'
    BY <1>15, StepAlone DEF ScreenInv, Cleared, Return, Idle, NewTask, MoveTo, TypeOK, Task, At
  <2>2. FailedByFault'
    BY <1>15 DEF ScreenInv, Cleared, Return, Idle, NewTask, MoveTo, TypeOK, Task, FailedByFault
  <2>3. SessionMatchesStatus'
    BY <1>15 DEF ScreenInv, Cleared, Return, Idle, NewTask, MoveTo, TypeOK, Task, SessionMatchesStatus, EndInv, WriteInEpoch, RestoreFirst, OneCurrent, NothingToLose, FailedByFault, At, Current
  <2>4. RestoringAtWork'
    BY <1>15 DEF ScreenInv, Cleared, Return, Idle, NewTask, MoveTo, TypeOK, Task, RestoringAtWork, Current, At
  <2>5. QED
    BY <2>1, <2>2, <2>3, <2>4 DEF ScreenInv
<1>16. CASE Revoked(t)
  <2>1. OneCurrent' /\ NothingToLose'
    BY <1>16, StepAlone DEF ScreenInv, Revoked, Return, Idle, NewTask, TypeOK, Task, At
  <2>2. FailedByFault'
    BY <1>16 DEF ScreenInv, Revoked, Return, Idle, NewTask, TypeOK, Task, FailedByFault
  <2>3. SessionMatchesStatus'
    BY <1>16 DEF ScreenInv, Revoked, Return, Idle, NewTask, TypeOK, Task, SessionMatchesStatus, EndInv, WriteInEpoch, RestoreFirst, OneCurrent, NothingToLose, FailedByFault, At, Current
  <2>4. RestoringAtWork'
    BY <1>16 DEF ScreenInv, Revoked, Return, Idle, NewTask, TypeOK, Task, RestoringAtWork, Current, At
  <2>5. QED
    BY <2>1, <2>2, <2>3, <2>4 DEF ScreenInv
<1>17. QED
  BY <1>1, <1>2, <1>3, <1>4, <1>5, <1>6, <1>7, <1>8, <1>9, <1>10, <1>11, <1>12, <1>13, <1>14, <1>15, <1>16 DEF Flow

LEMMA ScreenEnvironment ==
  ASSUME TypeOK, EndInv, ScreenInv, Environment
  PROVE  ScreenInv'
<1> USE DEF history, server, disk, memory
<1>1. ASSUME UNCHANGED <<status, session, operation, tasks, faults>>
      PROVE  ScreenInv'
  BY <1>1 DEF ScreenInv, OneCurrent, NothingToLose, FailedByFault, Current, At,
              SessionMatchesStatus, RestoringAtWork
<1>2. ASSUME NEW s \in Sessions, NEW t \in Tasks, Unauthorized(s, t)
      PROVE  ScreenInv'
  <2>1. OneCurrent'
    BY <1>2 DEF ScreenInv, Unauthorized, ExpireIn, NewTask, TypeOK, Task,
       OneCurrent, Current, EndInv, RestoreFirst
  <2>2. status' = "expired" /\ session' = NoSession
    BY <1>2 DEF Unauthorized, ExpireIn
  <2>3. FailedByFault'
    BY <1>2 DEF ScreenInv, Unauthorized, ExpireIn, NewTask, TypeOK, Task,
       FailedByFault
  <2>4. NothingToLose' /\ SessionMatchesStatus' /\ RestoringAtWork'
    BY <2>2 DEF NothingToLose, SessionMatchesStatus, RestoringAtWork, Current,
       At
  <2>5. QED
    BY <2>1, <2>3, <2>4 DEF ScreenInv
<1>3. CASE Crash
  <2>1. \A t \in Tasks : tasks'[t] = Idle
    BY <1>3 DEF Crash
  <2>2. status' = "signedOut" /\ session' = NoSession
    BY <1>3 DEF Crash
  <2>3. OneCurrent' /\ FailedByFault'
    BY <2>1 DEF OneCurrent, FailedByFault, Idle, NewTask, Current
  <2>4. NothingToLose' /\ SessionMatchesStatus' /\ RestoringAtWork'
    BY <2>2 DEF NothingToLose, SessionMatchesStatus, RestoringAtWork, Current,
       At
  <2>5. QED
    BY <2>3, <2>4 DEF ScreenInv
<1>4. QED
  BY <1>1, <1>2, <1>3 DEF Environment, Register, StoreData, SendRequest,
     Answered, Withdraw

LEMMA ScreenInvariant == Spec => [](TypeOK /\ EndInv /\ ScreenInv)
<1>1. Init => ScreenInv
  <2> SUFFICES ASSUME Init PROVE ScreenInv
    OBVIOUS
  <2>1. OneCurrent /\ FailedByFault
    BY DEF Init, OneCurrent, FailedByFault, Idle, NewTask, Current
  <2>2. NothingToLose /\ SessionMatchesStatus /\ RestoringAtWork
    BY DEF Init, NothingToLose, SessionMatchesStatus, RestoringAtWork, Current,
       At
  <2>3. QED
    BY <2>1, <2>2 DEF ScreenInv
<1>2. ScreenInv /\ UNCHANGED vars => ScreenInv'
  BY DEF vars, memory, disk, server, history, ScreenInv, OneCurrent,
         NothingToLose, FailedByFault, Current, At, SessionMatchesStatus,
         RestoringAtWork
<1>3. TypeOK /\ EndInv /\ ScreenInv /\ [Next]_vars => ScreenInv'
  BY <1>2, ScreenCall, ScreenFlow, ScreenEnvironment DEF Next
<1>4. QED
  BY TypeCorrect, EndInvariant, <1>1, <1>3, PTL DEF Spec

\* In every interleaving, a screen that is told the user is authenticated has a
\* session to send requests with, and as long as no store or purger fails no
\* other screen has one.
THEOREM MatchesStatus == Spec => []SessionMatchesStatus
<1>1. ScreenInv => SessionMatchesStatus
  BY DEF ScreenInv
<1>2. QED
  BY ScreenInvariant, <1>1, PTL

\* The app never stays on "restoring" without the read that ends it.
THEOREM RestoringWorks == Spec => []RestoringAtWork
<1>1. ScreenInv => RestoringAtWork
  BY DEF ScreenInv
<1>2. QED
  BY ScreenInvariant, <1>1, PTL

\* No answer to a call that began earlier takes a session away, however many
\* calls overlap.
THEOREM NewCallsEnd == Spec => OnlyNewCallsEndSession
<1> DEFINE Lost == session # NoSession /\ session' = NoSession
<1>1. TypeOK /\ EndInv /\ ScreenInv /\ [Next]_vars /\ Lost
        => operation' # operation \/ faults' > 0
  <2> SUFFICES ASSUME TypeOK, EndInv, ScreenInv, [Next]_vars, Lost
               PROVE  operation' # operation \/ faults' > 0
    OBVIOUS
  <2> USE DEF history, server, disk, memory
  <2>1. ASSUME NEW t \in Tasks, Call(t)
        PROVE  operation' # operation \/ faults' > 0
    BY <2>1 DEF Call, Restore, SignIn, Renew, RenewWithoutSession, SignOut,
       Begin, ExpireIn, TypeOK
  <2>2. ASSUME NEW t \in Tasks, Flow(t)
        PROVE  operation' # operation \/ faults' > 0
    <3>1. CASE RestoreRead(t) \/ RestoreFails(t)
      BY <3>1 DEF RestoreRead, RestoreFails, EmitFailure, ScreenInv,
         NothingToLose, At
    <3>2. CASE SignInFails(t)
      BY <3>2 DEF SignInFails, EmitFailure, ScreenInv, NothingToLose
    <3>3. CASE RenewFails(t) \/ RenewWriteFails(t)
      BY <3>3 DEF RenewFails, RenewWriteFails, ExpireIn, TypeOK
    <3>4. CASE Discarded(t)
      <4>1. CASE faults' = faults + 1
        BY <4>1 DEF TypeOK
      <4>2. CASE faults' = faults
        BY <3>4, <4>2 DEF Discarded, ScreenInv, FailedByFault, At
      <4>3. QED
        BY <3>4, <4>1, <4>2 DEF Discarded, Fault
    <3>5. CASE Written(t)
      BY <3>5 DEF Written, At, EndInv, WriteInEpoch
    <3>6. QED
      BY <2>2, <3>1, <3>2, <3>3, <3>4, <3>5
         DEF Flow, Granted, Cancelled, Exchanged, Undone, SignInWriteFails,
             StoreCleared, Purged, Cleared, Revoked
  <2>3. CASE Environment
    <3>1. ASSUME Crash PROVE operation' # operation
      BY <3>1 DEF Crash, EndInv, RestoreFirst, TypeOK
    <3>2. QED
      BY <2>3, <3>1 DEF Environment, Register, StoreData, SendRequest,
         Answered, Withdraw, Unauthorized, ExpireIn, TypeOK
  <2>4. CASE UNCHANGED vars
    BY <2>4 DEF vars
  <2>5. QED
    BY <2>1, <2>2, <2>3, <2>4 DEF Next
<1>2. QED
  BY ScreenInvariant, <1>1, PTL DEF OnlyNewCallsEndSession, Spec


-----------------------------------------------------------------------------
(* What is to be removed is not forgotten.                                 *)

\* Nothing has gone wrong that the code gives up on.
Quiet == Clean /\ ~overtaken

\* restore() is reading the store and nobody has called anything since.
Reading == \E t \in Tasks : tasks[t].at = "read" /\ Current(t)

BeingPurged(p) ==
  \E t \in Tasks : \/ tasks[t].at = "clear"
                   \/ tasks[t].at = "purge" /\ p \in tasks[t].todo

ReadTells == faults = 0 /\ Reading => status = "restoring"

\* A renewal that is current renews the session in use, for the same user; a
\* sign-in that is current has no session to replace.
RenewSame ==
  /\ \A t \in Tasks : tasks[t].at = "write" => tasks[t].kind \in {"signIn", "renew"}
  /\ faults = 0 => \A t \in Tasks : Current(t) =>
       /\ tasks[t].kind = "renew" /\ tasks[t].at \in {"grant", "exchange"}
            => session # NoSession /\ tasks[t].session = session
       /\ tasks[t].kind = "renew" /\ tasks[t].at = "write"
            => session # NoSession /\ owner[tasks[t].session] = owner[session]
       /\ tasks[t].kind = "signIn" /\ tasks[t].at = "write"
            => session = NoSession

\* Until restore() has its answer, private data is the stored session's user's.
DataOfStored ==
  Quiet /\ (~booted \/ Reading) =>
    \A p \in Purgers \ passedOver :
      private[p] = NoUser \/ (stored # NoSession /\ private[p] = owner[stored])

\* Without a session what there is left is about to be removed.
LeftRemoved ==
  Quiet /\ booted /\ session = NoSession /\ ~Reading =>
    /\ stored # NoSession =>
         \E t \in Tasks : tasks[t].at \in {"clear", "undo", "write"}
    /\ \A p \in Purgers \ passedOver : private[p] # NoUser => BeingPurged(p)

\* So is, with a session, what there is left of others.
OthersRemoved ==
  Quiet /\ session # NoSession =>
    \A p \in Purgers \ passedOver :
      private[p] \in {NoUser, owner[session]} \/ BeingPurged(p)

RemoveInv ==
  /\ ReadTells /\ RenewSame /\ DataOfStored /\ LeftRemoved /\ OthersRemoved

\* A call that nobody has overtaken since restore() began is restore().
LEMMA ReadingAlone ==
  ASSUME TypeOK, EndInv, Reading, NEW u \in Tasks
  PROVE  tasks[u].at \in {"idle", "read"} /\ operation = 1
BY DEF TypeOK, Task, EndInv, RestoreFirst, Reading, Current

\* A step of a task that has nothing to remove, outside restore(), forgets
\* nothing.
LEMMA LeftKept ==
  ASSUME LeftRemoved, UNCHANGED <<session, stored, booted, private, passedOver>>,
         Quiet' => Quiet, Reading => Reading',
         \A u \in Tasks :
           \/ tasks'[u].at = tasks[u].at /\ tasks'[u].todo = tasks[u].todo
           \/ /\ tasks[u].at \notin {"clear", "undo", "write"}
              /\ tasks[u].at = "purge" => tasks[u].todo = {}
  PROVE  LeftRemoved'
<1>1. \A p : BeingPurged(p) => BeingPurged(p)'
  BY DEF BeingPurged
<1>2. (\E u \in Tasks : tasks[u].at \in {"clear", "undo", "write"})
        => (\E u \in Tasks : tasks[u].at \in {"clear", "undo", "write"})'
  OBVIOUS
<1>3. QED
  BY <1>1, <1>2 DEF LeftRemoved

\* A task that turns to clearing has all that is left to remove.
LEMMA LeftCleared ==
  ASSUME NEW t \in Tasks, tasks'[t].at = "clear"
  PROVE  LeftRemoved'
BY DEF LeftRemoved, BeingPurged

LEMMA RemoveCall ==
  ASSUME TypeOK, EndInv, ScreenInv, RemoveInv, NEW t \in Tasks, Call(t)
  PROVE  RemoveInv'
<1> USE DEF history, disk, server
<1>1. CASE Restore(t)
  <2>1. ReadTells'
    BY <1>1 DEF RemoveInv, Restore, Begin, NewTask, TypeOK, Task, ReadTells,
       Reading, Current, ScreenInv, OneCurrent, NothingToLose, FailedByFault,
       EndInv, RestoreFirst, At
  <2>2. RenewSame'
    BY <1>1 DEF RemoveInv, Restore, Begin, NewTask, TypeOK, Task, RenewSame,
       Current, ScreenInv, OneCurrent, NothingToLose, FailedByFault, EndInv,
       RestoreFirst, KnownIssued, At
  <2>3. DataOfStored'
    BY <1>1, ReadingAlone DEF RemoveInv, Restore, Begin, NewTask, TypeOK,
       Task, DataOfStored, Quiet, Clean, Reading, Current, ScreenInv,
       OneCurrent, NothingToLose, FailedByFault, EndInv, RestoreFirst,
       KnownIssued, At
  <2>4. LeftRemoved'
    BY <1>1, ReadingAlone DEF RemoveInv, Restore, Begin, NewTask, TypeOK,
       Task, LeftRemoved, Quiet, Clean, Reading, BeingPurged, Current,
       ScreenInv, OneCurrent, NothingToLose, FailedByFault, EndInv,
       RestoreFirst, KnownIssued, WriteInEpoch, DataOfStored, ReadTells, At
  <2>5. OthersRemoved'
    BY <1>1, ReadingAlone DEF RemoveInv, Restore, Begin, NewTask, TypeOK,
       Task, OthersRemoved, Quiet, Clean, BeingPurged, Current, ScreenInv,
       OneCurrent, NothingToLose, FailedByFault, EndInv, RestoreFirst,
       KnownIssued, RenewSame, DataOfStored, LeftRemoved, Reading, At
  <2>6. QED
    BY <2>1, <2>2, <2>3, <2>4, <2>5 DEF RemoveInv
<1>2. CASE SignIn(t)
  <2>1. ReadTells'
    BY <1>2 DEF RemoveInv, SignIn, Begin, NewTask, TypeOK, Task, ReadTells,
       Reading, Current, ScreenInv, OneCurrent, NothingToLose, FailedByFault,
       EndInv, RestoreFirst, At
  <2>2. RenewSame'
    BY <1>2 DEF RemoveInv, SignIn, Begin, NewTask, TypeOK, Task, RenewSame,
       Current, ScreenInv, OneCurrent, NothingToLose, FailedByFault, EndInv,
       RestoreFirst, KnownIssued, At
  <2>3. DataOfStored'
    BY <1>2, ReadingAlone DEF RemoveInv, SignIn, Begin, NewTask, TypeOK, Task,
       DataOfStored, Quiet, Clean, Reading, Current, ScreenInv, OneCurrent,
       NothingToLose, FailedByFault, EndInv, RestoreFirst, KnownIssued, At
  <2>4. LeftRemoved'
    BY <1>2, ReadingAlone DEF RemoveInv, SignIn, Begin, NewTask, TypeOK, Task,
       LeftRemoved, Quiet, Clean, Reading, BeingPurged, Current, ScreenInv,
       OneCurrent, NothingToLose, FailedByFault, EndInv, RestoreFirst,
       KnownIssued, WriteInEpoch, DataOfStored, ReadTells, At
  <2>5. OthersRemoved'
    BY <1>2, ReadingAlone DEF RemoveInv, SignIn, Begin, NewTask, TypeOK, Task,
       OthersRemoved, Quiet, Clean, BeingPurged, Current, ScreenInv,
       OneCurrent, NothingToLose, FailedByFault, EndInv, RestoreFirst,
       KnownIssued, RenewSame, DataOfStored, LeftRemoved, Reading, At
  <2>6. QED
    BY <2>1, <2>2, <2>3, <2>4, <2>5 DEF RemoveInv
<1>3. CASE Renew(t)
  <2>1. ReadTells'
    BY <1>3 DEF RemoveInv, Renew, Begin, NewTask, TypeOK, Task, ReadTells,
       Reading, Current, ScreenInv, OneCurrent, NothingToLose, FailedByFault,
       EndInv, RestoreFirst, At
  <2>2. RenewSame'
    BY <1>3 DEF RemoveInv, Renew, Begin, NewTask, TypeOK, Task, RenewSame,
       Current, ScreenInv, OneCurrent, NothingToLose, FailedByFault, EndInv,
       RestoreFirst, KnownIssued, At
  <2>3. DataOfStored'
    BY <1>3, ReadingAlone DEF RemoveInv, Renew, Begin, NewTask, TypeOK, Task,
       DataOfStored, Quiet, Clean, Reading, Current, ScreenInv, OneCurrent,
       NothingToLose, FailedByFault, EndInv, RestoreFirst, KnownIssued, At
  <2>4. LeftRemoved'
    BY <1>3, ReadingAlone DEF RemoveInv, Renew, Begin, NewTask, TypeOK, Task,
       LeftRemoved, Quiet, Clean, Reading, BeingPurged, Current, ScreenInv,
       OneCurrent, NothingToLose, FailedByFault, EndInv, RestoreFirst,
       KnownIssued, WriteInEpoch, DataOfStored, ReadTells, At
  <2>5. OthersRemoved'
    BY <1>3, ReadingAlone DEF RemoveInv, Renew, Begin, NewTask, TypeOK, Task,
       OthersRemoved, Quiet, Clean, BeingPurged, Current, ScreenInv,
       OneCurrent, NothingToLose, FailedByFault, EndInv, RestoreFirst,
       KnownIssued, RenewSame, DataOfStored, LeftRemoved, Reading, At
  <2>6. QED
    BY <2>1, <2>2, <2>3, <2>4, <2>5 DEF RemoveInv
<1>4. CASE RenewWithoutSession(t)
  <2>1. ReadTells'
    BY <1>4 DEF RemoveInv, RenewWithoutSession, ExpireIn, NewTask, TypeOK,
       Task, ReadTells, Reading, Current, ScreenInv, OneCurrent,
       NothingToLose, FailedByFault, EndInv, RestoreFirst, At
  <2>2. RenewSame'
    BY <1>4 DEF RemoveInv, RenewWithoutSession, ExpireIn, NewTask, TypeOK,
       Task, RenewSame, Current, ScreenInv, OneCurrent, NothingToLose,
       FailedByFault, EndInv, RestoreFirst, KnownIssued, At
  <2>3. DataOfStored'
    BY <1>4, ReadingAlone DEF RemoveInv, RenewWithoutSession, ExpireIn,
       NewTask, TypeOK, Task, DataOfStored, Quiet, Clean, Reading, Current,
       ScreenInv, OneCurrent, NothingToLose, FailedByFault, EndInv,
       RestoreFirst, KnownIssued, At
  <2>4. LeftRemoved'
    BY <1>4, ReadingAlone DEF RemoveInv, RenewWithoutSession, ExpireIn,
       NewTask, TypeOK, Task, LeftRemoved, Quiet, Clean, Reading, BeingPurged,
       Current, ScreenInv, OneCurrent, NothingToLose, FailedByFault, EndInv,
       RestoreFirst, KnownIssued, WriteInEpoch, DataOfStored, ReadTells, At
  <2>5. OthersRemoved'
    BY <1>4, ReadingAlone DEF RemoveInv, RenewWithoutSession, ExpireIn,
       NewTask, TypeOK, Task, OthersRemoved, Quiet, Clean, BeingPurged,
       Current, ScreenInv, OneCurrent, NothingToLose, FailedByFault, EndInv,
       RestoreFirst, KnownIssued, RenewSame, DataOfStored, LeftRemoved,
       Reading, At
  <2>6. QED
    BY <2>1, <2>2, <2>3, <2>4, <2>5 DEF RemoveInv
<1>5. CASE SignOut(t)
  <2>1. ReadTells'
    BY <1>5 DEF RemoveInv, SignOut, Begin, NewTask, TypeOK, Task, ReadTells,
       Reading, Current, ScreenInv, OneCurrent, NothingToLose, FailedByFault,
       EndInv, RestoreFirst, At
  <2>2. RenewSame'
    BY <1>5 DEF RemoveInv, SignOut, Begin, NewTask, TypeOK, Task, RenewSame,
       Current, ScreenInv, OneCurrent, NothingToLose, FailedByFault, EndInv,
       RestoreFirst, KnownIssued, At
  <2>3. DataOfStored'
    BY <1>5, ReadingAlone DEF RemoveInv, SignOut, Begin, NewTask, TypeOK,
       Task, DataOfStored, Quiet, Clean, Reading, Current, ScreenInv,
       OneCurrent, NothingToLose, FailedByFault, EndInv, RestoreFirst,
       KnownIssued, At
  <2>4. LeftRemoved'
    BY <1>5, ReadingAlone DEF RemoveInv, SignOut, Begin, NewTask, TypeOK,
       Task, LeftRemoved, Quiet, Clean, Reading, BeingPurged, Current,
       ScreenInv, OneCurrent, NothingToLose, FailedByFault, EndInv,
       RestoreFirst, KnownIssued, WriteInEpoch, DataOfStored, ReadTells, At
  <2>5. OthersRemoved'
    BY <1>5, ReadingAlone DEF RemoveInv, SignOut, Begin, NewTask, TypeOK,
       Task, OthersRemoved, Quiet, Clean, BeingPurged, Current, ScreenInv,
       OneCurrent, NothingToLose, FailedByFault, EndInv, RestoreFirst,
       KnownIssued, RenewSame, DataOfStored, LeftRemoved, Reading, At
  <2>6. QED
    BY <2>1, <2>2, <2>3, <2>4, <2>5 DEF RemoveInv
<1>6. QED
  BY <1>1, <1>2, <1>3, <1>4, <1>5 DEF Call

LEMMA RemoveFlow ==
  ASSUME TypeOK, EndInv, ScreenInv, RemoveInv, NEW t \in Tasks, Flow(t)
  PROVE  RemoveInv'
<1> USE DEF history, disk, server
<1>1. CASE RestoreRead(t)
  <2>1. ReadTells'
    BY <1>1 DEF RemoveInv, RestoreRead, Return, Idle, NewTask, Fault, TypeOK,
       Task, ReadTells, Reading, Current, ScreenInv, OneCurrent,
       NothingToLose, FailedByFault, EndInv, RestoreFirst, At
  <2>2. RenewSame'
    BY <1>1 DEF RemoveInv, RestoreRead, Return, Idle, NewTask, Fault, TypeOK,
       Task, RenewSame, Current, ScreenInv, OneCurrent, NothingToLose,
       FailedByFault, EndInv, RestoreFirst, KnownIssued, At
  <2>3. DataOfStored'
    BY <1>1, ReadingAlone DEF RemoveInv, RestoreRead, Return, Idle, NewTask,
       Fault, TypeOK, Task, DataOfStored, Quiet, Clean, Reading, Current,
       ScreenInv, OneCurrent, NothingToLose, FailedByFault, EndInv,
       RestoreFirst, KnownIssued, At
  <2>4. LeftRemoved'
    BY <1>1, ReadingAlone DEF RemoveInv, RestoreRead, Return, Idle, NewTask,
       Fault, TypeOK, Task, LeftRemoved, Quiet, Clean, Reading, BeingPurged,
       Current, ScreenInv, OneCurrent, NothingToLose, FailedByFault, EndInv,
       RestoreFirst, KnownIssued, WriteInEpoch, DataOfStored, ReadTells, At
  <2>5. OthersRemoved'
    BY <1>1, ReadingAlone DEF RemoveInv, RestoreRead, Return, Idle, NewTask,
       Fault, TypeOK, Task, OthersRemoved, Quiet, Clean, BeingPurged, Current,
       ScreenInv, OneCurrent, NothingToLose, FailedByFault, EndInv,
       RestoreFirst, KnownIssued, RenewSame, DataOfStored, LeftRemoved,
       Reading, At
  <2>6. QED
    BY <2>1, <2>2, <2>3, <2>4, <2>5 DEF RemoveInv
<1>2. CASE RestoreFails(t)
  <2>1. ReadTells'
    BY <1>2 DEF RemoveInv, RestoreFails, Return, Idle, NewTask, Fault,
       EmitFailure, TypeOK, Task, ReadTells, Reading, Current, ScreenInv,
       OneCurrent, NothingToLose, FailedByFault, EndInv, RestoreFirst, At
  <2>2. RenewSame'
    BY <1>2 DEF RemoveInv, RestoreFails, Return, Idle, NewTask, Fault,
       EmitFailure, TypeOK, Task, RenewSame, Current, ScreenInv, OneCurrent,
       NothingToLose, FailedByFault, EndInv, RestoreFirst, KnownIssued, At
  <2>3. DataOfStored'
    BY <1>2, ReadingAlone DEF RemoveInv, RestoreFails, Return, Idle, NewTask,
       Fault, EmitFailure, TypeOK, Task, DataOfStored, Quiet, Clean, Reading,
       Current, ScreenInv, OneCurrent, NothingToLose, FailedByFault, EndInv,
       RestoreFirst, KnownIssued, At
  <2>4. LeftRemoved'
    BY <1>2, ReadingAlone DEF RemoveInv, RestoreFails, Return, Idle, NewTask,
       Fault, EmitFailure, TypeOK, Task, LeftRemoved, Quiet, Clean, Reading,
       BeingPurged, Current, ScreenInv, OneCurrent, NothingToLose,
       FailedByFault, EndInv, RestoreFirst, KnownIssued, WriteInEpoch,
       DataOfStored, ReadTells, At
  <2>5. OthersRemoved'
    BY <1>2, ReadingAlone DEF RemoveInv, RestoreFails, Return, Idle, NewTask,
       Fault, EmitFailure, TypeOK, Task, OthersRemoved, Quiet, Clean,
       BeingPurged, Current, ScreenInv, OneCurrent, NothingToLose,
       FailedByFault, EndInv, RestoreFirst, KnownIssued, RenewSame,
       DataOfStored, LeftRemoved, Reading, At
  <2>6. QED
    BY <2>1, <2>2, <2>3, <2>4, <2>5 DEF RemoveInv
<1>3. CASE Granted(t)
  <2>1. ReadTells'
    BY <1>3 DEF RemoveInv, Granted, Return, Idle, NewTask, MoveTo, TypeOK,
       Task, ReadTells, Reading, Current, ScreenInv, OneCurrent,
       NothingToLose, FailedByFault, EndInv, RestoreFirst, At
  <2>2. RenewSame'
    BY <1>3 DEF RemoveInv, Granted, Return, Idle, NewTask, MoveTo, TypeOK,
       Task, RenewSame, Current, ScreenInv, OneCurrent, NothingToLose,
       FailedByFault, EndInv, RestoreFirst, KnownIssued, At
  <2>3. DataOfStored'
    BY <1>3, ReadingAlone DEF RemoveInv, Granted, Return, Idle, NewTask,
       MoveTo, TypeOK, Task, DataOfStored, Quiet, Clean, Reading, Current,
       ScreenInv, OneCurrent, NothingToLose, FailedByFault, EndInv,
       RestoreFirst, KnownIssued, At
  <2>4. LeftRemoved'
    BY <1>3, ReadingAlone DEF RemoveInv, Granted, Return, Idle, NewTask,
       MoveTo, TypeOK, Task, LeftRemoved, Quiet, Clean, Reading, BeingPurged,
       Current, ScreenInv, OneCurrent, NothingToLose, FailedByFault, EndInv,
       RestoreFirst, KnownIssued, WriteInEpoch, DataOfStored, ReadTells, At
  <2>5. OthersRemoved'
    BY <1>3, ReadingAlone DEF RemoveInv, Granted, Return, Idle, NewTask,
       MoveTo, TypeOK, Task, OthersRemoved, Quiet, Clean, BeingPurged,
       Current, ScreenInv, OneCurrent, NothingToLose, FailedByFault, EndInv,
       RestoreFirst, KnownIssued, RenewSame, DataOfStored, LeftRemoved,
       Reading, At
  <2>6. QED
    BY <2>1, <2>2, <2>3, <2>4, <2>5 DEF RemoveInv
<1>4. CASE Cancelled(t)
  <2>1. ReadTells'
    BY <1>4 DEF RemoveInv, Cancelled, Return, Idle, NewTask, TypeOK, Task,
       ReadTells, Reading, Current, ScreenInv, OneCurrent, NothingToLose,
       FailedByFault, EndInv, RestoreFirst, At
  <2>2. RenewSame'
    BY <1>4 DEF RemoveInv, Cancelled, Return, Idle, NewTask, TypeOK, Task,
       RenewSame, Current, ScreenInv, OneCurrent, NothingToLose,
       FailedByFault, EndInv, RestoreFirst, KnownIssued, At
  <2>3. DataOfStored'
    BY <1>4, ReadingAlone DEF RemoveInv, Cancelled, Return, Idle, NewTask,
       TypeOK, Task, DataOfStored, Quiet, Clean, Reading, Current, ScreenInv,
       OneCurrent, NothingToLose, FailedByFault, EndInv, RestoreFirst,
       KnownIssued, At
  <2>4. LeftRemoved'
    BY <1>4, ReadingAlone DEF RemoveInv, Cancelled, Return, Idle, NewTask,
       TypeOK, Task, LeftRemoved, Quiet, Clean, Reading, BeingPurged, Current,
       ScreenInv, OneCurrent, NothingToLose, FailedByFault, EndInv,
       RestoreFirst, KnownIssued, WriteInEpoch, DataOfStored, ReadTells, At
  <2>5. OthersRemoved'
    BY <1>4, ReadingAlone DEF RemoveInv, Cancelled, Return, Idle, NewTask,
       TypeOK, Task, OthersRemoved, Quiet, Clean, BeingPurged, Current,
       ScreenInv, OneCurrent, NothingToLose, FailedByFault, EndInv,
       RestoreFirst, KnownIssued, RenewSame, DataOfStored, LeftRemoved,
       Reading, At
  <2>6. QED
    BY <2>1, <2>2, <2>3, <2>4, <2>5 DEF RemoveInv
<1>5. CASE SignInFails(t)
  <2>1. ReadTells'
    BY <1>5 DEF RemoveInv, SignInFails, Return, Idle, NewTask, EmitFailure,
       TypeOK, Task, ReadTells, Reading, Current, ScreenInv, OneCurrent,
       NothingToLose, FailedByFault, EndInv, RestoreFirst, At
  <2>2. RenewSame'
    BY <1>5 DEF RemoveInv, SignInFails, Return, Idle, NewTask, EmitFailure,
       TypeOK, Task, RenewSame, Current, ScreenInv, OneCurrent, NothingToLose,
       FailedByFault, EndInv, RestoreFirst, KnownIssued, At
  <2>3. DataOfStored'
    BY <1>5, ReadingAlone DEF RemoveInv, SignInFails, Return, Idle, NewTask,
       EmitFailure, TypeOK, Task, DataOfStored, Quiet, Clean, Reading,
       Current, ScreenInv, OneCurrent, NothingToLose, FailedByFault, EndInv,
       RestoreFirst, KnownIssued, At
  <2>4. LeftRemoved'
    BY <1>5, ReadingAlone DEF RemoveInv, SignInFails, Return, Idle, NewTask,
       EmitFailure, TypeOK, Task, LeftRemoved, Quiet, Clean, Reading,
       BeingPurged, Current, ScreenInv, OneCurrent, NothingToLose,
       FailedByFault, EndInv, RestoreFirst, KnownIssued, WriteInEpoch,
       DataOfStored, ReadTells, At
  <2>5. OthersRemoved'
    BY <1>5, ReadingAlone DEF RemoveInv, SignInFails, Return, Idle, NewTask,
       EmitFailure, TypeOK, Task, OthersRemoved, Quiet, Clean, BeingPurged,
       Current, ScreenInv, OneCurrent, NothingToLose, FailedByFault, EndInv,
       RestoreFirst, KnownIssued, RenewSame, DataOfStored, LeftRemoved,
       Reading, At
  <2>6. QED
    BY <2>1, <2>2, <2>3, <2>4, <2>5 DEF RemoveInv
<1>6. CASE RenewFails(t)
  <2>1. ReadTells'
    BY <1>6 DEF RemoveInv, RenewFails, Return, Idle, NewTask, ExpireIn,
       TypeOK, Task, ReadTells, Reading, Current, ScreenInv, OneCurrent,
       NothingToLose, FailedByFault, EndInv, RestoreFirst, At
  <2>2. RenewSame'
    BY <1>6 DEF RemoveInv, RenewFails, Return, Idle, NewTask, ExpireIn,
       TypeOK, Task, RenewSame, Current, ScreenInv, OneCurrent, NothingToLose,
       FailedByFault, EndInv, RestoreFirst, KnownIssued, At
  <2>3. DataOfStored'
    BY <1>6, ReadingAlone DEF RemoveInv, RenewFails, Return, Idle, NewTask,
       ExpireIn, TypeOK, Task, DataOfStored, Quiet, Clean, Reading, Current,
       ScreenInv, OneCurrent, NothingToLose, FailedByFault, EndInv,
       RestoreFirst, KnownIssued, At
  <2>4. LeftRemoved'
    <3>1. CASE Current(t)
      BY <1>6, <3>1, LeftCleared DEF RenewFails, ExpireIn, NewTask, TypeOK
    <3>2. CASE ~Current(t)
      <4>1. /\ \A u \in Tasks : u # t => tasks'[u] = tasks[u]
            /\ tasks[t].at \in {"grant", "exchange"}
            /\ UNCHANGED <<session, stored, booted, private, operation, passedOver>>
        BY <1>6, <3>2 DEF RenewFails, At, Return, TypeOK
      <4>2. (Quiet' => Quiet) /\ (Reading => Reading')
        BY <1>6, <4>1 DEF RenewFails, Quiet, Clean, Reading, Current
      <4>3. QED
        BY <4>1, <4>2, LeftKept DEF RemoveInv
    <3>3. QED
      BY <3>1, <3>2
  <2>5. OthersRemoved'
    BY <1>6, ReadingAlone DEF RemoveInv, RenewFails, Return, Idle, NewTask,
       ExpireIn, TypeOK, Task, OthersRemoved, Quiet, Clean, BeingPurged,
       Current, ScreenInv, OneCurrent, NothingToLose, FailedByFault, EndInv,
       RestoreFirst, KnownIssued, RenewSame, DataOfStored, LeftRemoved,
       Reading, At
  <2>6. QED
    BY <2>1, <2>2, <2>3, <2>4, <2>5 DEF RemoveInv
<1>7. ASSUME NEW s \in Sessions, Exchanged(t, s) PROVE RemoveInv'
  <2>1. ReadTells'
    BY <1>7 DEF RemoveInv, Exchanged, Return, Idle, NewTask, TypeOK, Task,
       ReadTells, Reading, Current, ScreenInv, OneCurrent, NothingToLose,
       FailedByFault, EndInv, RestoreFirst, At
  <2>2. RenewSame'
    <3>1. /\ UNCHANGED <<session, operation, faults>> /\ s \notin issued
          /\ tasks[t].at = "exchange" /\ tasks[t].kind \in {"signIn", "renew"}
          /\ \A u \in Tasks : u # t => tasks'[u] = tasks[u]
      BY <1>7 DEF Exchanged, At, Return, TypeOK
    <3>2. \A z \in Sessions : z # s => owner'[z] = owner[z]
      BY <1>7 DEF Exchanged, TypeOK
    <3>3. /\ session # s
          /\ session # NoSession => session \in Sessions
          /\ \A u \in Tasks : tasks[u].session # s
          /\ \A u \in Tasks : tasks[u].at = "write" => tasks[u].session \in Sessions
      BY <3>1, <1>7 DEF EndInv, KnownIssued, WriteInEpoch, TypeOK, Task,
         SessionOrNone
    <3>4. CASE ~Current(t)
      <4>1. tasks'[t].at = "idle"
        BY <1>7, <3>4 DEF Exchanged, Return, Idle, NewTask, TypeOK
      <4>2. QED
        BY <3>1, <3>2, <3>3, <4>1 DEF RemoveInv, RenewSame, Current
    <3>5. CASE Current(t)
      <4>1. /\ tasks'[t].at = "write" /\ tasks'[t].session = s
            /\ tasks'[t].kind = tasks[t].kind
        BY <1>7, <3>5 DEF Exchanged, TypeOK, Task
      <4>2. tasks[t].kind = "renew" => owner'[s] = owner[tasks[t].session]
        BY <1>7 DEF Exchanged, TypeOK
      <4>3. tasks[t].kind = "signIn" => session = NoSession
        BY <3>1, <3>5 DEF ScreenInv, NothingToLose, At
      <4>4. faults = 0 /\ tasks[t].kind = "renew" =>
              session # NoSession /\ tasks[t].session = session
        BY <3>1, <3>5 DEF RemoveInv, RenewSame
      <4>5. QED
        BY <3>1, <3>2, <3>3, <4>1, <4>2, <4>3, <4>4 DEF RemoveInv, RenewSame, Current
    <3>6. QED
      BY <3>4, <3>5
  <2>3. DataOfStored'
    BY <1>7, ReadingAlone DEF RemoveInv, Exchanged, Return, Idle, NewTask,
       TypeOK, Task, DataOfStored, Quiet, Clean, Reading, Current, ScreenInv,
       OneCurrent, NothingToLose, FailedByFault, EndInv, RestoreFirst,
       KnownIssued, At
  <2>4. LeftRemoved'
    <3>1. /\ \A u \in Tasks : u # t => tasks'[u] = tasks[u]
          /\ tasks[t].at = "exchange"
          /\ UNCHANGED <<session, stored, booted, private, operation, passedOver>>
      BY <1>7 DEF Exchanged, At, Return, TypeOK
    <3>2. (Quiet' => Quiet) /\ (Reading => Reading')
      BY <1>7, <3>1 DEF Exchanged, Quiet, Clean, Reading, Current
    <3>3. QED
      BY <3>1, <3>2, LeftKept DEF RemoveInv
  <2>5. OthersRemoved'
    BY <1>7, ReadingAlone DEF RemoveInv, Exchanged, Return, Idle, NewTask,
       TypeOK, Task, OthersRemoved, Quiet, Clean, BeingPurged, Current,
       ScreenInv, OneCurrent, NothingToLose, FailedByFault, EndInv,
       RestoreFirst, KnownIssued, RenewSame, DataOfStored, LeftRemoved,
       Reading, At
  <2>6. QED
    BY <2>1, <2>2, <2>3, <2>4, <2>5 DEF RemoveInv
<1>8. CASE Written(t)
  <2>1. ReadTells'
    BY <1>8 DEF RemoveInv, Written, Return, Idle, NewTask, MoveTo, TypeOK,
       Task, ReadTells, Reading, Current, ScreenInv, OneCurrent,
       NothingToLose, FailedByFault, EndInv, RestoreFirst, At
  <2>2. RenewSame'
    BY <1>8 DEF RemoveInv, Written, Return, Idle, NewTask, MoveTo, TypeOK,
       Task, RenewSame, Current, ScreenInv, OneCurrent, NothingToLose,
       FailedByFault, EndInv, RestoreFirst, KnownIssued, At
  <2>3. DataOfStored'
    BY <1>8, ReadingAlone DEF RemoveInv, Written, Return, Idle, NewTask,
       MoveTo, TypeOK, Task, DataOfStored, Quiet, Clean, Reading, Current,
       ScreenInv, OneCurrent, NothingToLose, FailedByFault, EndInv,
       RestoreFirst, KnownIssued, At
  <2>4. LeftRemoved'
    BY <1>8, ReadingAlone DEF RemoveInv, Written, Return, Idle, NewTask,
       MoveTo, TypeOK, Task, LeftRemoved, Quiet, Clean, Reading, BeingPurged,
       Current, ScreenInv, OneCurrent, NothingToLose, FailedByFault, EndInv,
       RestoreFirst, KnownIssued, WriteInEpoch, DataOfStored, ReadTells, At
  <2>5. OthersRemoved'
    BY <1>8, ReadingAlone DEF RemoveInv, Written, Return, Idle, NewTask,
       MoveTo, TypeOK, Task, OthersRemoved, Quiet, Clean, BeingPurged,
       Current, ScreenInv, OneCurrent, NothingToLose, FailedByFault, EndInv,
       RestoreFirst, KnownIssued, RenewSame, DataOfStored, LeftRemoved,
       Reading, At
  <2>6. QED
    BY <2>1, <2>2, <2>3, <2>4, <2>5 DEF RemoveInv
<1>9. CASE Undone(t)
  <2>1. ReadTells'
    BY <1>9 DEF RemoveInv, Undone, Return, Idle, NewTask, Fault, TypeOK, Task,
       ReadTells, Reading, Current, ScreenInv, OneCurrent, NothingToLose,
       FailedByFault, EndInv, RestoreFirst, At
  <2>2. RenewSame'
    BY <1>9 DEF RemoveInv, Undone, Return, Idle, NewTask, Fault, TypeOK, Task,
       RenewSame, Current, ScreenInv, OneCurrent, NothingToLose,
       FailedByFault, EndInv, RestoreFirst, KnownIssued, At
  <2>3. DataOfStored'
    BY <1>9, ReadingAlone DEF RemoveInv, Undone, Return, Idle, NewTask, Fault,
       TypeOK, Task, DataOfStored, Quiet, Clean, Reading, Current, ScreenInv,
       OneCurrent, NothingToLose, FailedByFault, EndInv, RestoreFirst,
       KnownIssued, At
  <2>4. LeftRemoved'
    BY <1>9, ReadingAlone DEF RemoveInv, Undone, Return, Idle, NewTask, Fault,
       TypeOK, Task, LeftRemoved, Quiet, Clean, Reading, BeingPurged, Current,
       ScreenInv, OneCurrent, NothingToLose, FailedByFault, EndInv,
       RestoreFirst, KnownIssued, WriteInEpoch, DataOfStored, ReadTells, At
  <2>5. OthersRemoved'
    BY <1>9, ReadingAlone DEF RemoveInv, Undone, Return, Idle, NewTask, Fault,
       TypeOK, Task, OthersRemoved, Quiet, Clean, BeingPurged, Current,
       ScreenInv, OneCurrent, NothingToLose, FailedByFault, EndInv,
       RestoreFirst, KnownIssued, RenewSame, DataOfStored, LeftRemoved,
       Reading, At
  <2>6. QED
    BY <2>1, <2>2, <2>3, <2>4, <2>5 DEF RemoveInv
<1>10. CASE SignInWriteFails(t)
  <2>1. ReadTells'
    BY <1>10 DEF RemoveInv, SignInWriteFails, MoveTo, Fault, TypeOK, Task,
       ReadTells, Reading, Current, ScreenInv, OneCurrent, NothingToLose,
       FailedByFault, EndInv, RestoreFirst, At
  <2>2. RenewSame'
    BY <1>10 DEF RemoveInv, SignInWriteFails, MoveTo, Fault, TypeOK, Task,
       RenewSame, Current, ScreenInv, OneCurrent, NothingToLose,
       FailedByFault, EndInv, RestoreFirst, KnownIssued, At
  <2>3. DataOfStored'
    BY <1>10, ReadingAlone DEF RemoveInv, SignInWriteFails, MoveTo, Fault,
       TypeOK, Task, DataOfStored, Quiet, Clean, Reading, Current, ScreenInv,
       OneCurrent, NothingToLose, FailedByFault, EndInv, RestoreFirst,
       KnownIssued, At
  <2>4. LeftRemoved'
    BY <1>10, ReadingAlone DEF RemoveInv, SignInWriteFails, MoveTo, Fault,
       TypeOK, Task, LeftRemoved, Quiet, Clean, Reading, BeingPurged, Current,
       ScreenInv, OneCurrent, NothingToLose, FailedByFault, EndInv,
       RestoreFirst, KnownIssued, WriteInEpoch, DataOfStored, ReadTells, At
  <2>5. OthersRemoved'
    BY <1>10, ReadingAlone DEF RemoveInv, SignInWriteFails, MoveTo, Fault,
       TypeOK, Task, OthersRemoved, Quiet, Clean, BeingPurged, Current,
       ScreenInv, OneCurrent, NothingToLose, FailedByFault, EndInv,
       RestoreFirst, KnownIssued, RenewSame, DataOfStored, LeftRemoved,
       Reading, At
  <2>6. QED
    BY <2>1, <2>2, <2>3, <2>4, <2>5 DEF RemoveInv
<1>11. CASE Discarded(t)
  <2>1. ReadTells'
    BY <1>11 DEF RemoveInv, Discarded, Return, Idle, NewTask, Fault,
       EmitFailure, TypeOK, Task, ReadTells, Reading, Current, ScreenInv,
       OneCurrent, NothingToLose, FailedByFault, EndInv, RestoreFirst, At
  <2>2. RenewSame'
    BY <1>11 DEF RemoveInv, Discarded, Return, Idle, NewTask, Fault,
       EmitFailure, TypeOK, Task, RenewSame, Current, ScreenInv, OneCurrent,
       NothingToLose, FailedByFault, EndInv, RestoreFirst, KnownIssued, At
  <2>3. DataOfStored'
    BY <1>11, ReadingAlone DEF RemoveInv, Discarded, Return, Idle, NewTask,
       Fault, EmitFailure, TypeOK, Task, DataOfStored, Quiet, Clean, Reading,
       Current, ScreenInv, OneCurrent, NothingToLose, FailedByFault, EndInv,
       RestoreFirst, KnownIssued, At
  <2>4. LeftRemoved'
    BY <1>11, ReadingAlone DEF RemoveInv, Discarded, Return, Idle, NewTask,
       Fault, EmitFailure, TypeOK, Task, LeftRemoved, Quiet, Clean, Reading,
       BeingPurged, Current, ScreenInv, OneCurrent, NothingToLose,
       FailedByFault, EndInv, RestoreFirst, KnownIssued, WriteInEpoch,
       DataOfStored, ReadTells, At
  <2>5. OthersRemoved'
    BY <1>11, ReadingAlone DEF RemoveInv, Discarded, Return, Idle, NewTask,
       Fault, EmitFailure, TypeOK, Task, OthersRemoved, Quiet, Clean,
       BeingPurged, Current, ScreenInv, OneCurrent, NothingToLose,
       FailedByFault, EndInv, RestoreFirst, KnownIssued, RenewSame,
       DataOfStored, LeftRemoved, Reading, At
  <2>6. QED
    BY <2>1, <2>2, <2>3, <2>4, <2>5 DEF RemoveInv
<1>12. CASE RenewWriteFails(t)
  <2>1. ReadTells'
    BY <1>12 DEF RemoveInv, RenewWriteFails, Return, Idle, NewTask, Fault,
       ExpireIn, TypeOK, Task, ReadTells, Reading, Current, ScreenInv,
       OneCurrent, NothingToLose, FailedByFault, EndInv, RestoreFirst, At
  <2>2. RenewSame'
    BY <1>12 DEF RemoveInv, RenewWriteFails, Return, Idle, NewTask, Fault,
       ExpireIn, TypeOK, Task, RenewSame, Current, ScreenInv, OneCurrent,
       NothingToLose, FailedByFault, EndInv, RestoreFirst, KnownIssued, At
  <2>3. DataOfStored'
    BY <1>12, ReadingAlone DEF RemoveInv, RenewWriteFails, Return, Idle,
       NewTask, Fault, ExpireIn, TypeOK, Task, DataOfStored, Quiet, Clean,
       Reading, Current, ScreenInv, OneCurrent, NothingToLose, FailedByFault,
       EndInv, RestoreFirst, KnownIssued, At
  <2>4. LeftRemoved'
    BY <1>12, ReadingAlone DEF RemoveInv, RenewWriteFails, Return, Idle,
       NewTask, Fault, ExpireIn, TypeOK, Task, LeftRemoved, Quiet, Clean,
       Reading, BeingPurged, Current, ScreenInv, OneCurrent, NothingToLose,
       FailedByFault, EndInv, RestoreFirst, KnownIssued, WriteInEpoch,
       DataOfStored, ReadTells, At
  <2>5. OthersRemoved'
    BY <1>12, ReadingAlone DEF RemoveInv, RenewWriteFails, Return, Idle,
       NewTask, Fault, ExpireIn, TypeOK, Task, OthersRemoved, Quiet, Clean,
       BeingPurged, Current, ScreenInv, OneCurrent, NothingToLose,
       FailedByFault, EndInv, RestoreFirst, KnownIssued, RenewSame,
       DataOfStored, LeftRemoved, Reading, At
  <2>6. QED
    BY <2>1, <2>2, <2>3, <2>4, <2>5 DEF RemoveInv
<1>13. CASE StoreCleared(t)
  <2>1. ReadTells'
    BY <1>13 DEF RemoveInv, StoreCleared, Fault, TypeOK, Task, ReadTells,
       Reading, Current, ScreenInv, OneCurrent, NothingToLose, FailedByFault,
       EndInv, RestoreFirst, At
  <2>2. RenewSame'
    <3>1. \A u \in Tasks :
            /\ tasks'[u].op = tasks[u].op /\ tasks'[u].kind = tasks[u].kind
            /\ tasks'[u].session = tasks[u].session
            /\ tasks'[u].at = tasks[u].at \/ tasks'[u].at = "purge"
      BY <1>13 DEF StoreCleared, TypeOK, Task
    <3>2. UNCHANGED <<session, operation, owner>> /\ (faults' = 0 => faults = 0)
      BY <1>13 DEF StoreCleared, Fault, TypeOK
    <3>3. QED
      BY <3>1, <3>2 DEF RemoveInv, RenewSame, Current
  <2>3. DataOfStored'
    BY <1>13, ReadingAlone DEF RemoveInv, StoreCleared, Fault, TypeOK, Task,
       DataOfStored, Quiet, Clean, Reading, Current, ScreenInv, OneCurrent,
       NothingToLose, FailedByFault, EndInv, RestoreFirst, KnownIssued, At
  <2>4. LeftRemoved'
    BY <1>13, ReadingAlone DEF RemoveInv, StoreCleared, Fault, TypeOK, Task,
       LeftRemoved, Quiet, Clean, Reading, BeingPurged, Current, ScreenInv,
       OneCurrent, NothingToLose, FailedByFault, EndInv, RestoreFirst,
       KnownIssued, WriteInEpoch, DataOfStored, ReadTells, At
  <2>5. OthersRemoved'
    BY <1>13, ReadingAlone DEF RemoveInv, StoreCleared, Fault, TypeOK, Task,
       OthersRemoved, Quiet, Clean, BeingPurged, Current, ScreenInv,
       OneCurrent, NothingToLose, FailedByFault, EndInv, RestoreFirst,
       KnownIssued, RenewSame, DataOfStored, LeftRemoved, Reading, At
  <2>6. QED
    BY <2>1, <2>2, <2>3, <2>4, <2>5 DEF RemoveInv
<1>14. ASSUME NEW p \in Purgers, Purged(t, p) PROVE RemoveInv'
  <2>1. ReadTells'
    BY <1>14 DEF RemoveInv, Purged, Fault, TypeOK, Task, ReadTells, Reading,
       Current, ScreenInv, OneCurrent, NothingToLose, FailedByFault, EndInv,
       RestoreFirst, At
  <2>2. RenewSame'
    <3>1. \A u \in Tasks :
            /\ tasks'[u].at = tasks[u].at /\ tasks'[u].op = tasks[u].op
            /\ tasks'[u].kind = tasks[u].kind /\ tasks'[u].session = tasks[u].session
      BY <1>14 DEF Purged, TypeOK, Task
    <3>2. UNCHANGED <<session, operation, owner>> /\ (faults' = 0 => faults = 0)
      BY <1>14 DEF Purged, Fault, TypeOK
    <3>3. QED
      BY <3>1, <3>2 DEF RemoveInv, RenewSame, Current
  <2>3. DataOfStored'
    BY <1>14, ReadingAlone DEF RemoveInv, Purged, Fault, TypeOK, Task,
       DataOfStored, Quiet, Clean, Reading, Current, ScreenInv, OneCurrent,
       NothingToLose, FailedByFault, EndInv, RestoreFirst, KnownIssued, At
  <2>4. LeftRemoved'
    <3>1. SUFFICES ASSUME Quiet', booted', session' = NoSession, ~Reading'
                   PROVE  /\ stored' # NoSession => \E u \in Tasks :
                               tasks'[u].at \in {"clear", "undo", "write"}
                          /\ \A q \in Purgers \ passedOver' :
                               private'[q] # NoUser => BeingPurged(q)'
      BY DEF LeftRemoved
    <3>2. faults' = faults /\ Quiet
      BY <1>14, <3>1 DEF Purged, Quiet, Clean, Fault, TypeOK
    <3>3. /\ UNCHANGED <<session, stored, booted, operation>>
          /\ \A q \in Purgers \ {p} : private'[q] = private[q]
          /\ private'[p] = NoUser /\ passedOver \subseteq passedOver' \cup {p}
      BY <1>14, <3>2 DEF Purged, Fault, TypeOK
    <3>4. \A u \in Tasks : /\ tasks'[u].at = tasks[u].at /\ tasks'[u].op = tasks[u].op
                          /\ \A q \in Purgers \ {p} :
                               q \in tasks[u].todo => q \in tasks'[u].todo
      BY <1>14 DEF Purged, TypeOK, Task
    <3>5. ~Reading
      BY <3>1, <3>3, <3>4 DEF Reading, Current
    <3>6. \A q \in Purgers \ passedOver' : private'[q] # NoUser => BeingPurged(q)'
      BY <3>1, <3>2, <3>3, <3>4, <3>5 DEF RemoveInv, LeftRemoved, BeingPurged, TypeOK
    <3>7. QED
      BY <3>1, <3>2, <3>3, <3>4, <3>5, <3>6 DEF RemoveInv, LeftRemoved
  <2>5. OthersRemoved'
    BY <1>14, ReadingAlone DEF RemoveInv, Purged, Fault, TypeOK, Task,
       OthersRemoved, Quiet, Clean, BeingPurged, Current, ScreenInv,
       OneCurrent, NothingToLose, FailedByFault, EndInv, RestoreFirst,
       KnownIssued, RenewSame, DataOfStored, LeftRemoved, Reading, At
  <2>6. QED
    BY <2>1, <2>2, <2>3, <2>4, <2>5 DEF RemoveInv
<1>15. CASE Cleared(t)
  <2>1. ReadTells'
    BY <1>15 DEF RemoveInv, Cleared, Return, Idle, NewTask, MoveTo, TypeOK,
       Task, ReadTells, Reading, Current, ScreenInv, OneCurrent,
       NothingToLose, FailedByFault, EndInv, RestoreFirst, At
  <2>2. RenewSame'
    BY <1>15 DEF RemoveInv, Cleared, Return, Idle, NewTask, MoveTo, TypeOK,
       Task, RenewSame, Current, ScreenInv, OneCurrent, NothingToLose,
       FailedByFault, EndInv, RestoreFirst, KnownIssued, At
  <2>3. DataOfStored'
    BY <1>15, ReadingAlone DEF RemoveInv, Cleared, Return, Idle, NewTask,
       MoveTo, TypeOK, Task, DataOfStored, Quiet, Clean, Reading, Current,
       ScreenInv, OneCurrent, NothingToLose, FailedByFault, EndInv,
       RestoreFirst, KnownIssued, At
  <2>4. LeftRemoved'
    <3>1. /\ \A u \in Tasks : u # t => tasks'[u] = tasks[u]
          /\ tasks[t].at = "purge" /\ tasks[t].todo = {}
          /\ UNCHANGED <<session, stored, booted, private, operation, passedOver>>
      BY <1>15 DEF Cleared, At, Return, MoveTo, TypeOK
    <3>2. (Quiet' => Quiet) /\ (Reading => Reading')
      BY <1>15, <3>1 DEF Cleared, Quiet, Clean, Reading, Current
    <3>3. QED
      BY <3>1, <3>2, LeftKept DEF RemoveInv
  <2>5. OthersRemoved'
    BY <1>15, ReadingAlone DEF RemoveInv, Cleared, Return, Idle, NewTask,
       MoveTo, TypeOK, Task, OthersRemoved, Quiet, Clean, BeingPurged,
       Current, ScreenInv, OneCurrent, NothingToLose, FailedByFault, EndInv,
       RestoreFirst, KnownIssued, RenewSame, DataOfStored, LeftRemoved,
       Reading, At
  <2>6. QED
    BY <2>1, <2>2, <2>3, <2>4, <2>5 DEF RemoveInv
<1>16. CASE Revoked(t)
  <2>1. ReadTells'
    BY <1>16 DEF RemoveInv, Revoked, Return, Idle, NewTask, TypeOK, Task,
       ReadTells, Reading, Current, ScreenInv, OneCurrent, NothingToLose,
       FailedByFault, EndInv, RestoreFirst, At
  <2>2. RenewSame'
    BY <1>16 DEF RemoveInv, Revoked, Return, Idle, NewTask, TypeOK, Task,
       RenewSame, Current, ScreenInv, OneCurrent, NothingToLose,
       FailedByFault, EndInv, RestoreFirst, KnownIssued, At
  <2>3. DataOfStored'
    BY <1>16, ReadingAlone DEF RemoveInv, Revoked, Return, Idle, NewTask,
       TypeOK, Task, DataOfStored, Quiet, Clean, Reading, Current, ScreenInv,
       OneCurrent, NothingToLose, FailedByFault, EndInv, RestoreFirst,
       KnownIssued, At
  <2>4. LeftRemoved'
    BY <1>16, ReadingAlone DEF RemoveInv, Revoked, Return, Idle, NewTask,
       TypeOK, Task, LeftRemoved, Quiet, Clean, Reading, BeingPurged, Current,
       ScreenInv, OneCurrent, NothingToLose, FailedByFault, EndInv,
       RestoreFirst, KnownIssued, WriteInEpoch, DataOfStored, ReadTells, At
  <2>5. OthersRemoved'
    BY <1>16, ReadingAlone DEF RemoveInv, Revoked, Return, Idle, NewTask,
       TypeOK, Task, OthersRemoved, Quiet, Clean, BeingPurged, Current,
       ScreenInv, OneCurrent, NothingToLose, FailedByFault, EndInv,
       RestoreFirst, KnownIssued, RenewSame, DataOfStored, LeftRemoved,
       Reading, At
  <2>6. QED
    BY <2>1, <2>2, <2>3, <2>4, <2>5 DEF RemoveInv
<1>17. QED
  BY <1>1, <1>2, <1>3, <1>4, <1>5, <1>6, <1>7, <1>8, <1>9, <1>10, <1>11, <1>12, <1>13, <1>14, <1>15, <1>16 DEF Flow


LEMMA RemoveEnvironment ==
  ASSUME TypeOK, EndInv, ScreenInv, RemoveInv, Environment
  PROVE  RemoveInv'
<1> USE DEF history, server, disk, memory
<1>1. ASSUME UNCHANGED <<status, session, operation, tasks, booted, stored,
                         private, owner, faults, interrupted, overtaken,
                         passedOver>>
      PROVE  RemoveInv'
  <2>1. ReadTells' /\ RenewSame'
    BY <1>1 DEF RemoveInv, ReadTells, RenewSame, Reading, Current
  <2>2. DataOfStored' /\ LeftRemoved'
    BY <1>1 DEF RemoveInv, DataOfStored, LeftRemoved, Quiet, Clean, Reading,
                Current, BeingPurged
  <2>3. OthersRemoved'
    BY <1>1 DEF RemoveInv, OthersRemoved, Quiet, Clean, BeingPurged
  <2>4. QED
    BY <1>1, <2>1, <2>2, <2>3 DEF RemoveInv
<1>2. ASSUME NEW p \in Purgers, StoreData(p) PROVE RemoveInv'
  <2>1. ReadTells' /\ RenewSame'
    BY <1>2 DEF StoreData, RemoveInv, ReadTells, RenewSame, Reading, Current
  <2>2. DataOfStored' /\ LeftRemoved'
    BY <1>2 DEF StoreData, DataOfStored, LeftRemoved, Reading, Current, ScreenInv,
       NothingToLose, EndInv, RestoreFirst, RemoveInv, ReadTells,
       SessionMatchesStatus, Quiet, Clean
  <2>3. OthersRemoved'
    BY <1>2 DEF StoreData, RemoveInv, OthersRemoved, Quiet, Clean, BeingPurged,
       TypeOK
  <2>4. QED
    BY <2>1, <2>2, <2>3 DEF RemoveInv
<1>3. ASSUME NEW s \in Sessions, NEW t \in Tasks, Unauthorized(s, t)
      PROVE  RemoveInv'
  <2>1. /\ tasks'[t].at = "clear" /\ session' = NoSession /\ booted' = booted
        /\ operation' = operation + 1
      BY <1>3 DEF Unauthorized, ExpireIn, NewTask, TypeOK
  <2>2. booted
    BY <1>3 DEF Unauthorized, EndInv, RestoreFirst
  <2>3. ~Reading'
    BY <1>3, <2>1 DEF Unauthorized, ExpireIn, NewTask, Reading, Current, TypeOK,
       Task, EndInv, RestoreFirst
  <2>4. RenewSame'
    BY <1>3 DEF Unauthorized, ExpireIn, NewTask, RemoveInv, RenewSame, Current,
       TypeOK, Task, EndInv, RestoreFirst
  <2>5. LeftRemoved'
    BY <2>1, LeftCleared
  <2>6. QED
    BY <2>1, <2>2, <2>3, <2>4, <2>5
       DEF RemoveInv, ReadTells, DataOfStored, OthersRemoved
<1>4. CASE Crash
  <2>1. /\ \A t \in Tasks : tasks'[t].at = "idle"
        /\ session' = NoSession /\ ~booted' /\ passedOver' = passedOver
    BY <1>4 DEF Crash, Idle, NewTask
  <2>2. ~Reading'
    BY <2>1 DEF Reading
  <2>3. RenewSame'
    BY <1>4 DEF Crash, RenewSame, Idle, NewTask
  <2>4. DataOfStored'
    <3>1. SUFFICES ASSUME Quiet', NEW p \in Purgers \ passedOver,
                          private[p] # NoUser
                   PROVE  stored' # NoSession /\ private[p] = owner[stored']
      BY <1>4 DEF DataOfStored, Crash
    <3>2. Quiet /\ ~Unfinished /\ booted
      BY <1>4, <3>1 DEF Crash, Quiet, Clean
    <3>3. /\ ~BeingPurged(p) /\ session \in {NoSession, stored}
          /\ \A t \in Tasks : /\ tasks[t].at \notin {"clear", "undo", "discard"}
                              /\ tasks[t].at = "write" => Current(t)
      BY <3>2 DEF Unfinished, Removing, BeingPurged
    <3>4. CASE stored' = stored
      BY <3>1, <3>2, <3>3, <3>4
         DEF RemoveInv, DataOfStored, LeftRemoved, OthersRemoved
    <3>5. ASSUME NEW t \in Tasks, tasks[t].at = "write",
                 stored' = tasks[t].session
          PROVE  stored' # NoSession /\ private[p] = owner[stored']
      <4>1. Current(t) /\ stored' # NoSession /\ ~Reading
        BY <3>3, <3>5, ReadingAlone DEF EndInv, WriteInEpoch
      <4>2. session # NoSession
        BY <3>1, <3>2, <3>3, <4>1 DEF RemoveInv, LeftRemoved
      <4>3. private[p] = owner[session]
        BY <3>1, <3>2, <3>3, <4>2 DEF RemoveInv, OthersRemoved
      <4>4. tasks[t].kind = "renew" /\ owner[tasks[t].session] = owner[session]
        BY <3>2, <3>5, <4>1, <4>2 DEF RemoveInv, RenewSame, Quiet, Clean
      <4>5. QED
        BY <3>5, <4>1, <4>3, <4>4
    <3>6. QED
      BY <1>4, <3>3, <3>4, <3>5 DEF Crash
  <2>5. QED
    BY <2>1, <2>2, <2>3, <2>4
       DEF RemoveInv, ReadTells, LeftRemoved, OthersRemoved
<1>5. QED
  BY <1>1, <1>2, <1>3, <1>4 DEF Environment, Register, SendRequest, Answered,
     Withdraw

LEMMA RemoveInvariant == Spec => [](ScreenInv /\ RemoveInv)
<1>1. Init => RemoveInv
  BY DEF Init, RemoveInv, ReadTells, RenewSame, DataOfStored, LeftRemoved,
         OthersRemoved, Reading, Idle, NewTask
<1>2. RemoveInv /\ UNCHANGED vars => RemoveInv'
  BY DEF vars, memory, disk, server, history, RemoveInv, ReadTells, RenewSame,
         DataOfStored, LeftRemoved, OthersRemoved, Quiet, Clean, Reading,
         Current, BeingPurged
<1>3. TypeOK /\ EndInv /\ ScreenInv /\ RemoveInv /\ [Next]_vars => RemoveInv'
  BY <1>2, RemoveCall, RemoveFlow, RemoveEnvironment DEF Next
<1>4. QED
  BY ScreenInvariant, <1>1, <1>3, PTL DEF Spec

\* Whoever is signed in, data another user left in a private store, known to the
\* constructor or registered at any later time, is there only while a call is on
\* its way to purge that very store; for any number of users, stores and
\* overlapping calls, as long as no store fails, no kill interrupts a removal, the
\* sign-in waited for restore() and no removal passed over the store because its
\* purger had not been registered again since the app was started.
THEOREM OthersPurged == Spec => []OthersDataOnlyWhilePurging
<1>1. TypeOK /\ RemoveInv => OthersDataOnlyWhilePurging
  BY DEF TypeOK, RemoveInv, OthersRemoved, OthersDataOnlyWhilePurging, Quiet,
         Clean, BeingPurged
<1>2. QED
  BY TypeCorrect, RemoveInvariant, <1>1, PTL

\* And when nobody is signed in, whatever a session left on the device has a
\* call at work that removes it or brings the session back, under the same
\* exemptions: the envelope, and every private store no removal passed over.
THEOREM LeftoverRemoved == Spec => []LeftoverAtWork
<1>1. TypeOK /\ RemoveInv => LeftoverAtWork
  <2> SUFFICES ASSUME TypeOK, RemoveInv, booted, session = NoSession, faults = 0,
                      ~interrupted, ~overtaken
               PROVE  LeftoverAtWork
    BY DEF LeftoverAtWork
  <2>1. CASE Reading
    BY <2>1 DEF Reading, LeftoverAtWork
  <2>2. CASE ~Reading
    BY <2>2 DEF RemoveInv, LeftRemoved, LeftoverAtWork, Quiet, Clean, BeingPurged
  <2>3. QED
    BY <2>1, <2>2
<1>2. QED
  BY TypeCorrect, RemoveInvariant, <1>1, PTL
=============================================================================
