------------------------------ MODULE MobileAuth ------------------------------
(***************************************************************************)
(* MobileAuthCubit of packages/ngotools_auth: the authentication lifecycle *)
(* of the app.  Its methods are asynchronous: each runs without a break up *)
(* to an await, and what follows an await runs later, in any order with    *)
(* the rest of the other calls.  A call in progress is a task; an action   *)
(* of this module is the code between two awaits of one task, taking the   *)
(* outcome of the awaited call.                                            *)
(*                                                                         *)
(* The secure store, the private-data purgers, the browser and the API     *)
(* server are outside the cubit and appear as far as the cubit uses them.  *)
(* A store call takes effect when it is answered, and if the app is killed *)
(* a call in flight may still have taken effect.                           *)
(***************************************************************************)
EXTENDS Naturals, FiniteSets

CONSTANTS
  Tasks,          \* slots for calls in progress
  Sessions,       \* the sessions (API token, refresh token) a server may issue
  NoSession,
  Users,
  NoUser,
  Purgers,        \* stores of private user data
  BootPurgers,    \* those passed to the constructor
  MaxOperations,  \* bound: operations started in one process
  MaxTroubles     \* bound: failing store and purger calls, and kills of the app

ASSUME AuthAssumption ==
  /\ NoSession \notin Sessions
  /\ NoUser \notin Users
  /\ BootPurgers \subseteq Purgers
  /\ MaxOperations \in Nat /\ MaxTroubles \in Nat

VARIABLES
  status,       \* state.status
  session,      \* _session
  operation,    \* _operation
  purgers,      \* _privateDataPurgers
  tasks,        \* the calls in progress
  booted,       \* restore() was called in this process
  requests,     \* sessions whose token an unanswered API request carries
  stored,       \* the session envelope in the secure store
  private,      \* whose data each private store holds
  issued,       \* sessions the server has issued
  live,         \* issued sessions the server accepts
  owner,        \* the user a session belongs to
  \* history, read by no guard but the bounds:
  epoch,        \* how often a session was ended by signOut or expire
  bornIn,       \* the epoch in which the call that obtained a session began
  faults,
  crashes,
  interrupted,  \* the app was killed while it was removing something
  overtaken,    \* a sign-in began before restore had its answer
  passedOver    \* stores a removal left full: their purger was not registered

memory  == <<status, session, operation, purgers, tasks, booted, requests>>
disk    == <<stored, private>>
server  == <<issued, live, owner>>
history == <<epoch, bornIn, faults, crashes, interrupted, overtaken, passedOver>>
vars    == <<memory, disk, server, history>>

Statuses == {"signedOut", "restoring", "authorizing", "renewing",
             "authenticated", "expired", "failed"}
Kinds    == {"none", "restore", "signIn", "renew", "signOut", "expire"}

\* Where a task waits: for the store's read, the browser or token endpoint,
\* the exchange, the store's write, the delete after a failed write, the
\* delete of a write that came too late, the delete and the purges of
\* _clearProtectedLocalData, the revocation.
Awaits   == {"idle", "read", "grant", "exchange", "write", "discard", "undo",
             "clear", "purge", "revoke"}

SessionOrNone == Sessions \cup {NoSession}
UserOrNone    == Users \cup {NoUser}

Task == [kind : Kinds, at : Awaits, op : Nat, begun : Nat,
         session : SessionOrNone, todo : SUBSET Purgers, failed : BOOLEAN]

NewTask(kind, at, op, begun, s) ==
  [kind |-> kind, at |-> at, op |-> op, begun |-> begun,
   session |-> s, todo |-> {}, failed |-> FALSE]

Idle == NewTask("none", "idle", 0, 0, NoSession)

TypeOK ==
  /\ status \in Statuses
  /\ session \in SessionOrNone
  /\ operation \in Nat
  /\ purgers \subseteq Purgers
  /\ tasks \in [Tasks -> Task]
  /\ booted \in BOOLEAN
  /\ requests \subseteq Sessions
  /\ stored \in SessionOrNone
  /\ private \in [Purgers -> UserOrNone]
  /\ issued \subseteq Sessions
  /\ live \subseteq issued
  /\ owner \in [Sessions -> UserOrNone]
  /\ epoch \in Nat
  /\ bornIn \in [Sessions -> Nat]
  /\ faults \in Nat
  /\ crashes \in Nat
  /\ interrupted \in BOOLEAN
  /\ overtaken \in BOOLEAN
  /\ passedOver \subseteq Purgers

Init ==
  /\ status = "signedOut"
  /\ session = NoSession
  /\ operation = 0
  /\ purgers = BootPurgers
  /\ tasks = [t \in Tasks |-> Idle]
  /\ booted = FALSE
  /\ requests = {}
  /\ stored = NoSession
  /\ private = [p \in Purgers |-> NoUser]
  /\ issued = {}
  /\ live = {}
  /\ owner = [s \in Sessions |-> NoUser]
  /\ epoch = 0
  /\ bornIn = [s \in Sessions |-> 0]
  /\ faults = 0
  /\ crashes = 0
  /\ interrupted = FALSE
  /\ overtaken = FALSE
  /\ passedOver = {}

-----------------------------------------------------------------------------
(* Steps shared by the methods.                                            *)

\* `operation == _operation`: no later call has taken over.
Current(t) == tasks[t].op = operation

At(t, kinds, at) == tasks[t].kind \in kinds /\ tasks[t].at = at

\* `final operation = ++_operation` at the start of a call.
Begin(t, kind, at, s) ==
  /\ tasks[t].at = "idle"
  /\ operation < MaxOperations
  /\ operation' = operation + 1
  /\ tasks' =
       [tasks EXCEPT ![t] = NewTask(kind, at, operation + 1, epoch, s)]

MoveTo(t, at) == tasks' = [tasks EXCEPT ![t].at = at]

Return(t) == tasks' = [tasks EXCEPT ![t] = Idle]

\* A call of the store or of a purger fails.
Fault == faults + crashes < MaxTroubles /\ faults' = faults + 1

\* expire() up to its first await, as the rest of task t.  It increments
\* _operation, ends the session and goes on to clear the protected data.
ExpireIn(t) ==
  /\ operation < MaxOperations
  /\ operation' = operation + 1
  /\ session' = NoSession
  /\ status' = "expired"
  /\ epoch' = epoch + 1
  /\ tasks' = [tasks EXCEPT ![t] =
       NewTask("expire", "clear", operation + 1, epoch + 1, NoSession)]

\* _emitFailure
EmitFailure == session' = NoSession /\ status' = "failed"

-----------------------------------------------------------------------------
(* restore(): called once, when the app starts.                            *)

Restore(t) ==
  /\ ~booted
  /\ booted' = TRUE
  /\ Begin(t, "restore", "read", NoSession)
  /\ status' = "restoring"
  /\ UNCHANGED <<session, purgers, requests, disk, server, history>>

\* Mutant of RestoreRead: nothing is emitted when there was no session.
RestoreReadSilent(t) ==
  /\ At(t, {"restore"}, "read")
  /\ Return(t)
  /\ IF Current(t) /\ stored # NoSession
       THEN session' = stored /\ status' = "authenticated"
       ELSE UNCHANGED <<session, status>>
  /\ UNCHANGED <<operation, purgers, booted, requests, disk, server, history>>

\* The read answers; an envelope that cannot be used (`unusable`) is deleted
\* by the store itself, and the answer is then that there is none.
RestoreRead(t) ==
  /\ At(t, {"restore"}, "read")
  /\ Return(t)
  /\ \E unusable \in BOOLEAN :
       LET found == IF unusable THEN NoSession ELSE stored IN
       /\ IF unusable
            THEN stored # NoSession /\ stored' = NoSession /\ Fault
            ELSE UNCHANGED <<stored, faults>>
       /\ IF Current(t)
            THEN /\ session' = found
                 /\ status' = IF found = NoSession THEN "signedOut"
                                                   ELSE "authenticated"
            ELSE UNCHANGED <<session, status>>
  /\ UNCHANGED <<operation, purgers, booted, requests, private, server,
                 epoch, bornIn, crashes, interrupted, overtaken, passedOver>>

RestoreFails(t) ==
  /\ At(t, {"restore"}, "read")
  /\ Return(t)
  /\ Fault
  /\ IF Current(t) THEN EmitFailure ELSE UNCHANGED <<session, status>>
  /\ UNCHANGED <<operation, purgers, booted, requests, disk, server,
                 epoch, bornIn, crashes, interrupted, overtaken, passedOver>>

-----------------------------------------------------------------------------
(* signIn() and renew(): browser or refresh grant, exchange, write.        *)

SignIn(t) ==
  /\ booted
  /\ session = NoSession
  /\ status # "authorizing"
  /\ Begin(t, "signIn", "grant", NoSession)
  /\ status' = "authorizing"
  /\ overtaken' = (overtaken \/ status = "restoring")
  /\ UNCHANGED <<session, purgers, booted, requests, disk, server, epoch,
                 bornIn, faults, crashes, interrupted, passedOver>>

Renew(t) ==
  /\ booted
  /\ status # "renewing"
  /\ session # NoSession
  /\ Begin(t, "renew", "grant", session)
  /\ status' = "renewing"
  /\ UNCHANGED <<session, purgers, booted, requests, disk, server, history>>

RenewWithoutSession(t) ==
  /\ booted
  /\ status # "renewing"
  /\ session = NoSession
  /\ tasks[t].at = "idle"
  /\ ExpireIn(t)
  /\ UNCHANGED <<purgers, booted, requests, disk, server, bornIn, faults,
                 crashes, interrupted, overtaken, passedOver>>

Granted(t) ==
  /\ At(t, {"signIn", "renew"}, "grant")
  /\ IF Current(t) THEN MoveTo(t, "exchange") ELSE Return(t)
  /\ UNCHANGED <<status, session, operation, purgers, booted, requests, disk,
                 server, history>>

\* Mutant of Cancelled: no check that the call is still current.
CancelledUnchecked(t) ==
  /\ At(t, {"signIn"}, "grant")
  /\ Return(t)
  /\ status' = "signedOut"
  /\ UNCHANGED <<session, operation, purgers, booted, requests, disk, server,
                 history>>

\* The user closes the browser.
Cancelled(t) ==
  /\ At(t, {"signIn"}, "grant")
  /\ Return(t)
  /\ status' = IF Current(t) THEN "signedOut" ELSE status
  /\ UNCHANGED <<session, operation, purgers, booted, requests, disk, server,
                 history>>

\* Mutant of SignInFails: no check that the call is still current.
SignInFailsUnchecked(t) ==
  /\ At(t, {"signIn"}, "grant") \/ At(t, {"signIn"}, "exchange")
  /\ Return(t)
  /\ EmitFailure
  /\ UNCHANGED <<operation, purgers, booted, requests, disk, server, history>>

\* A failing authorization, exchange or attestation ends a sign-in.
SignInFails(t) ==
  /\ At(t, {"signIn"}, "grant") \/ At(t, {"signIn"}, "exchange")
  /\ Return(t)
  /\ IF Current(t) THEN EmitFailure ELSE UNCHANGED <<session, status>>
  /\ UNCHANGED <<operation, purgers, booted, requests, disk, server, history>>

\* A failing renewal ends the session it was to renew.
RenewFails(t) ==
  /\ At(t, {"renew"}, "grant") \/ At(t, {"renew"}, "exchange")
  /\ IF Current(t)
       THEN ExpireIn(t)
       ELSE Return(t) /\ UNCHANGED <<operation, session, status, epoch>>
  /\ UNCHANGED <<purgers, booted, requests, disk, server, bornIn, faults,
                 crashes, interrupted, overtaken, passedOver>>

\* The server issues session s: to any user after a sign-in, to the owner of
\* the previous session after a renewal.  A call that is no longer current
\* drops the session it was issued.
Exchanged(t, s) ==
  /\ At(t, {"signIn", "renew"}, "exchange")
  /\ s \in Sessions \ issued
  /\ issued' = issued \cup {s}
  /\ live' = live \cup {s}
  /\ \E u \in Users :
       /\ tasks[t].kind = "renew" => u = owner[tasks[t].session]
       /\ owner' = [owner EXCEPT ![s] = u]
  /\ bornIn' = [bornIn EXCEPT ![s] = tasks[t].begun]
  /\ IF Current(t)
       THEN tasks' = [tasks EXCEPT ![t].at = "write", ![t].session = s]
       ELSE Return(t)
  /\ UNCHANGED <<status, session, operation, purgers, booted, requests, disk,
                 epoch, faults, crashes, interrupted, overtaken, passedOver>>

\* Mutants of Written: the session is installed without the check after the
\* write; a late call leaves what it wrote.
WrittenUnchecked(t) ==
  /\ At(t, {"signIn", "renew"}, "write")
  /\ stored' = tasks[t].session
  /\ session' = tasks[t].session
  /\ status' = "authenticated"
  /\ Return(t)
  /\ UNCHANGED <<operation, purgers, booted, requests, private, server,
                 history>>

WrittenKept(t) ==
  /\ At(t, {"signIn", "renew"}, "write")
  /\ stored' = tasks[t].session
  /\ Return(t)
  /\ IF Current(t)
       THEN session' = tasks[t].session /\ status' = "authenticated"
       ELSE UNCHANGED <<session, status>>
  /\ UNCHANGED <<operation, purgers, booted, requests, private, server,
                 history>>

\* The store has written the session; a call that is no longer current
\* deletes the envelope again.
Written(t) ==
  /\ At(t, {"signIn", "renew"}, "write")
  /\ stored' = tasks[t].session
  /\ IF Current(t)
       THEN /\ session' = tasks[t].session
            /\ status' = "authenticated"
            /\ Return(t)
       ELSE MoveTo(t, "undo") /\ UNCHANGED <<session, status>>
  /\ UNCHANGED <<operation, purgers, booted, requests, private, server,
                 history>>

\* Whatever the answer, the late call ends here without a word.
Undone(t) ==
  /\ At(t, {"signIn", "renew"}, "undo")
  /\ Return(t)
  /\ \/ stored' = NoSession /\ UNCHANGED faults
     \/ Fault /\ UNCHANGED stored
  /\ UNCHANGED <<status, session, operation, purgers, booted, requests,
                 private, server, epoch, bornIn, crashes, interrupted, overtaken,
                 passedOver>>

SignInWriteFails(t) ==
  /\ At(t, {"signIn"}, "write")
  /\ Fault
  /\ MoveTo(t, "discard")
  /\ UNCHANGED <<status, session, operation, purgers, booted, requests, disk,
                 server, epoch, bornIn, crashes, interrupted, overtaken,
                 passedOver>>

\* The failure is emitted without asking whether the call is still current.
Discarded(t) ==
  /\ At(t, {"signIn"}, "discard")
  /\ Return(t)
  /\ \/ stored' = NoSession /\ UNCHANGED faults
     \/ Fault /\ UNCHANGED stored
  /\ EmitFailure
  /\ UNCHANGED <<operation, purgers, booted, requests, private, server,
                 epoch, bornIn, crashes, interrupted, overtaken, passedOver>>

RenewWriteFails(t) ==
  /\ At(t, {"renew"}, "write")
  /\ Fault
  /\ IF Current(t)
       THEN ExpireIn(t)
       ELSE Return(t) /\ UNCHANGED <<operation, session, status, epoch>>
  /\ UNCHANGED <<purgers, booted, requests, disk, server, bornIn, crashes,
                 interrupted, overtaken, passedOver>>

-----------------------------------------------------------------------------
(* signOut(), expire() and _clearProtectedLocalData().                     *)

SignOut(t) ==
  /\ booted
  /\ Begin(t, "signOut", "clear", session)
  /\ session' = NoSession
  /\ status' = "signedOut"
  /\ epoch' = epoch + 1
  /\ UNCHANGED <<purgers, booted, requests, disk, server, bornIn, faults,
                 crashes, interrupted, overtaken, passedOver>>

\* Mutant of StoreCleared: the purgers are forgotten.
StoreClearedOnly(t) ==
  /\ At(t, {"signOut", "expire"}, "clear")
  /\ stored' = NoSession
  /\ MoveTo(t, "purge")
  /\ UNCHANGED <<status, session, operation, purgers, booted, requests,
                 private, server, history>>

\* The envelope is gone, or could not be deleted; the purgers registered by
\* now come next, and a store that is not among them keeps what it holds.
StoreCleared(t) ==
  /\ At(t, {"signOut", "expire"}, "clear")
  /\ \/ /\ stored' = NoSession /\ UNCHANGED faults
        /\ tasks' = [tasks EXCEPT ![t].at = "purge", ![t].todo = purgers]
     \/ /\ Fault /\ UNCHANGED stored
        /\ tasks' = [tasks EXCEPT ![t].at = "purge", ![t].todo = purgers,
                                  ![t].failed = TRUE]
  /\ passedOver' = passedOver \cup {p \in Purgers \ purgers : private[p] # NoUser}
  /\ UNCHANGED <<status, session, operation, purgers, booted, requests,
                 private, server, epoch, bornIn, crashes, interrupted, overtaken>>

\* One purger after the other; a failing one does not stop the rest.
Purged(t, p) ==
  /\ At(t, {"signOut", "expire"}, "purge")
  /\ p \in tasks[t].todo
  /\ \/ /\ private' = [private EXCEPT ![p] = NoUser]
        /\ passedOver' = passedOver \ {p}
        /\ tasks' = [tasks EXCEPT ![t].todo = @ \ {p}]
        /\ UNCHANGED faults
     \/ /\ Fault /\ UNCHANGED <<private, passedOver>>
        /\ tasks' = [tasks EXCEPT ![t].todo = @ \ {p}, ![t].failed = TRUE]
  /\ UNCHANGED <<status, session, operation, purgers, booted, requests,
                 stored, server, epoch, bornIn, crashes, interrupted, overtaken>>

\* The failure is emitted without asking whether the call is still current.
\* Only a sign-out goes on to revoke the token it ended.
Cleared(t) ==
  /\ At(t, {"signOut", "expire"}, "purge")
  /\ tasks[t].todo = {}
  /\ status' = IF tasks[t].failed THEN "failed" ELSE status
  /\ IF tasks[t].kind = "signOut" /\ tasks[t].session # NoSession
       THEN MoveTo(t, "revoke")
       ELSE Return(t)
  /\ UNCHANGED <<session, operation, purgers, booted, requests, disk, server,
                 history>>

\* Best effort: the server may or may not have heard of it.
Revoked(t) ==
  /\ At(t, {"signOut"}, "revoke")
  /\ Return(t)
  /\ live' \in {live, live \ {tasks[t].session}}
  /\ UNCHANGED <<status, session, operation, purgers, booted, requests, disk,
                 issued, owner, history>>

-----------------------------------------------------------------------------
(* Private stores, API requests, the server and the end of the process.    *)

\* registerPrivateDataPurger()
Register(p) ==
  /\ session # NoSession
  /\ p \notin purgers
  /\ purgers' = purgers \cup {p}
  /\ UNCHANGED <<status, session, operation, tasks, booted, requests, disk,
                 server, history>>

\* A module stores data of the signed-in user.
StoreData(p) ==
  /\ session # NoSession
  /\ p \in purgers
  /\ private' = [private EXCEPT ![p] = owner[session]]
  /\ passedOver' = passedOver \ {p}
  /\ UNCHANGED <<memory, stored, server, epoch, bornIn, faults, crashes,
                 interrupted, overtaken>>

\* AuthSessionInterceptor.onRequest: without a session there is no request.
SendRequest ==
  /\ session # NoSession
  /\ requests' = requests \cup {session}
  /\ UNCHANGED <<status, session, operation, purgers, tasks, booted, disk,
                 server, history>>

\* An answer other than 401, or none.
Answered(s) ==
  /\ s \in requests
  /\ requests' = requests \ {s}
  /\ UNCHANGED <<status, session, operation, purgers, tasks, booted, disk,
                 server, history>>

\* AuthSessionInterceptor.onError: the server rejects the token the request
\* carried, and the cubit expires whatever session it has by then.
Unauthorized(s, t) ==
  /\ s \in requests
  /\ s \notin live
  /\ requests' = requests \ {s}
  /\ tasks[t].at = "idle"
  /\ ExpireIn(t)
  /\ UNCHANGED <<purgers, booted, disk, server, bornIn, faults, crashes,
                 interrupted, overtaken, passedOver>>

\* The server withdraws a token: revoked elsewhere, or run out.
Withdraw(s) ==
  /\ s \in live
  /\ live' = live \ {s}
  /\ UNCHANGED <<memory, disk, issued, owner, history>>

\* A task is removing something that a killed process leaves behind.
Removing(t) ==
  \/ tasks[t].at \in {"clear", "purge", "undo", "discard"}
  \/ tasks[t].at = "write" /\ ~Current(t)

\* A kill now leaves on the device what was to be removed, or a session other
\* than the one in use.
Unfinished ==
  \/ \E t \in Tasks : Removing(t)
  \/ session \notin {NoSession, stored}

\* The app is killed and started again.  A store call in flight may have
\* taken effect.
Crash ==
  /\ booted
  /\ faults + crashes < MaxTroubles
  /\ crashes' = crashes + 1
  /\ interrupted' = (interrupted \/ Unfinished)
  /\ status' = "signedOut"
  /\ session' = NoSession
  /\ operation' = 0
  /\ purgers' = BootPurgers
  /\ tasks' = [t \in Tasks |-> Idle]
  /\ booted' = FALSE
  /\ requests' = {}
  /\ \/ UNCHANGED stored
     \/ \E t \in Tasks : tasks[t].at = "write" /\ stored' = tasks[t].session
     \/ \E t \in Tasks : /\ tasks[t].at \in {"clear", "undo", "discard"}
                         /\ stored' = NoSession
  /\ UNCHANGED <<private, server, epoch, bornIn, faults, overtaken, passedOver>>

-----------------------------------------------------------------------------
Flow(t) ==
  \/ RestoreRead(t) \/ RestoreFails(t)
  \/ Granted(t) \/ Cancelled(t) \/ SignInFails(t) \/ RenewFails(t)
  \/ \E s \in Sessions : Exchanged(t, s)
  \/ Written(t) \/ Undone(t) \/ SignInWriteFails(t) \/ Discarded(t)
  \/ RenewWriteFails(t)
  \/ StoreCleared(t) \/ (\E p \in Purgers : Purged(t, p)) \/ Cleared(t)
  \/ Revoked(t)

Call(t) ==
  \/ Restore(t) \/ SignIn(t) \/ Renew(t) \/ RenewWithoutSession(t)
  \/ SignOut(t)

Environment ==
  \/ \E p \in Purgers : Register(p) \/ StoreData(p)
  \/ SendRequest
  \/ \E s \in Sessions : Answered(s) \/ Withdraw(s)
  \/ \E s \in Sessions, t \in Tasks : Unauthorized(s, t)
  \/ Crash

Next == (\E t \in Tasks : Call(t) \/ Flow(t)) \/ Environment

Spec == Init /\ [][Next]_vars

-----------------------------------------------------------------------------
(* Properties.                                                             *)

\* The state the screens are built from agrees with the session requests are
\* authorized with: no "authenticated" without a session, and, as long as no
\* store or purger has failed, no session under any other status.
SessionMatchesStatus ==
  /\ status \in {"authenticated", "renewing"} => session # NoSession
  /\ faults = 0 /\ session # NoSession
       => status \in {"authenticated", "renewing"}

\* A session that was in use, stored or still being obtained when signOut or
\* expire ran never becomes the session of the app again, whatever calls were
\* in flight; only a store that failed to delete, or a kill in the middle of
\* the removal, lets the next start restore it.
EndedStaysEnded ==
  session # NoSession /\ bornIn[session] # epoch => faults > 0 \/ interrupted

\* A user sees data another user left in a store, of those passed to the
\* constructor or registered later, only while the sign-out or expiry that has
\* to purge that store has not come to it yet. Left out are a failing store, a
\* kill in the middle, a sign-in that did not wait for restore, which the
\* screens of the app do not offer, and the stores that a removal passed over
\* because they had not been registered again since the app was started.
OthersDataOnlyWhilePurging ==
  \A p \in Purgers \ passedOver :
    session # NoSession /\ private[p] \notin {NoUser, owner[session]}
      => \/ faults > 0 \/ interrupted \/ overtaken
         \/ \E t \in Tasks :
              \/ tasks[t].at = "clear"
              \/ tasks[t].at = "purge" /\ p \in tasks[t].todo

\* Only a call that begins now takes the session away, the expiry that a failing
\* current renewal begins included: no answer to an abandoned call does, unless a
\* store failed.
OnlyNewCallsEndSession ==
  [][session # NoSession /\ session' = NoSession
       => operation' # operation \/ faults' > 0]_vars

\* The screen is on "restoring", where nobody can sign in, only while the store
\* is being read for it: with a store that answers, restore always ends.
RestoringAtWork ==
  status = "restoring" => \E t \in Tasks : At(t, {"restore"}, "read") /\ Current(t)

\* What a session leaves on the device is not forgotten: as long as it is there
\* and nobody is signed in, a call is under way that has yet to remove it, or to
\* bring the session back, in every private store that a removal has not passed
\* over for want of a purger. A failing store, a kill in the middle and a sign-in
\* that did not wait for restore are left out: there the code gives up.
LeftoverAtWork ==
  booted /\ session = NoSession /\ faults = 0 /\ ~interrupted /\ ~overtaken =>
    /\ stored # NoSession =>
         \E t \in Tasks : \/ tasks[t].at \in {"read", "clear", "undo", "discard"}
                          \/ tasks[t].at = "write"
    /\ \A p \in Purgers \ passedOver : private[p] # NoUser =>
         \E t \in Tasks : \/ tasks[t].at \in {"read", "clear"}
                          \/ tasks[t].at = "purge" /\ p \in tasks[t].todo

-----------------------------------------------------------------------------
(* What the documentation says and the code does not keep.                 *)

\* expire "clears a rejected session": a 401 ends the session whose token the
\* server refused and no other.
OnlyRejectedSessionExpires ==
  [][\A s \in Sessions, t \in Tasks :
       Unauthorized(s, t) => session \in {s, NoSession}]_vars

\* A cache that is registered after authentication is purged by every logout and
\* expiry ("This guarantees ...", ngotools_contacts/README.md:15): not by one that
\* comes after a restart and before the cache has been registered again.
LateStoresPurged == passedOver = {}
=============================================================================
