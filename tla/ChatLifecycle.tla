---------------------------- MODULE ChatLifecycle ----------------------------
(* The sync of the chat while the app goes to the background and comes back:   *)
(* ChatAppLifecycle (Dart) queues a pause or a resume for the client that is   *)
(* connected when its turn comes, ChatConnector opens, starts and closes       *)
(* clients at the same time, and every client has a native side (Rust) whose   *)
(* calls, session task and supervisor run on the facade's worker threads.      *)
(*                                                                              *)
(* One action is the code between two awaits. What the connector does apart    *)
(* from opening, starting, renewing and closing a client is in ChatConnector.  *)
EXTENDS Integers, Sequences, FiniteSets

CONSTANTS
    MaxClients,     \* bound: clients opened
    MaxSwitches,    \* bound: moves to the background and back
    MaxConnects,    \* bound: calls of connect() and disconnect(), replaced clients
    MaxTroubles     \* bound: sync errors and ended sessions together

ASSUME LifecycleAssumption ==
    {MaxClients, MaxSwitches, MaxConnects, MaxTroubles} \subseteq Nat

VARIABLES
    app,            \* the app's place: "front" or "back"
    paused,         \* ChatAppLifecycle._paused
    pending,        \* ChatAppLifecycle._pending: queued transitions
    transition,     \* the transition that runs: [at, client]
    chat,           \* the connector: [phase, client, syncing, at, old]
    native,         \* ChatClient and Lifecycle of each client (Rust)
    raced,          \* history: clients a check of which was overtaken
    unaware,        \* history: the last move of the app did not reach chat.client
    opened, switches, connects, errors, ends

history == <<raced, unaware>>
core == <<app, paused, pending, transition, chat, native, history>>
bounds == <<opened, switches, connects, errors, ends>>
vars == <<core, bounds>>

Clients == 1 .. MaxClients
NoClient == 0

Sessions == {"signedOut", "active", "expired", "locked"}
EndedSession == {"expired", "locked"}
SyncStates == {"idle", "running", "offline", "failed", "refused", "stopped"}
Syncing == {"running", "offline"}

Idle == [at |-> "none", client |-> NoClient]

NewClient == [session |-> "signedOut", paused |-> FALSE, service |-> "none",
              sync |-> "idle", supervisor |-> "none", news |-> {}]

Init ==
    /\ app = "front" /\ paused = FALSE /\ pending = <<>> /\ transition = Idle
    /\ chat = [phase |-> "off", client |-> NoClient, syncing |-> FALSE,
               at |-> "none", old |-> NoClient]
    /\ native = [c \in Clients |-> NewClient]
    /\ raced = {} /\ unaware = FALSE
    /\ opened = 0 /\ switches = 0 /\ connects = 0 /\ errors = 0 /\ ends = 0

-----------------------------------------------------------------------------
(* The native client. watch::Sender and the state of the SDK's service keep    *)
(* only the latest value: a subscriber learns that it changed ("news").        *)

SetSession(n, s) ==
    IF n.session = s THEN n
    ELSE [n EXCEPT !.session = s, !.news = @ \cup {"session"}]

\* Only an active session ends on an error (Lifecycle::report).
Report(n, s) == IF n.session = "active" THEN SetSession(n, s) ELSE n

SetSync(n, s) ==
    IF n.sync = s THEN n ELSE [n EXCEPT !.sync = s, !.news = @ \cup {"sync"}]

\* The SDK's SyncService: start() of a running one and stop() of one that is
\* not running do nothing.
StartService(n) == IF n.sync \in Syncing THEN n ELSE SetSync(n, "running")
StopService(n) == IF n.sync \in Syncing THEN SetSync(n, "stopped") ELSE n

\* A supervisor that was aborted ends at its next await.
Supervising(n) ==
    [n EXCEPT !.supervisor = IF n.service = "taken" THEN "none" ELSE "watching"]

\* The session task runs from the sign-in until shutdown().
Watched(c) == native[c].session # "signedOut" /\ native[c].service # "taken"

\* Who has decided to start the service of c and not yet done so.
Resuming(c) == transition = [at |-> "start", client |-> c]
Starting(c) == Resuming(c) \/ native[c].supervisor = "restart"

\* A supervisor that is not there yet misses what changes.
Unsupervised(c) == native[c].supervisor \in {"none", "spawned"}

-----------------------------------------------------------------------------
(* The app's lifecycle.                                                         *)

\* didChangeAppLifecycleState(hidden, paused or detached): reported one after
\* the other on the way out.
Background ==
    /\ switches < MaxSwitches
    /\ app' = "back" /\ paused' = TRUE
    /\ pending' = IF paused THEN pending ELSE Append(pending, "pause")
    /\ switches' = switches + 1
    /\ UNCHANGED <<transition, chat, native, history, opened, connects, errors, ends>>

\* didChangeAppLifecycleState(resumed)
Foreground ==
    /\ app' = "front" /\ paused' = FALSE
    /\ pending' = IF paused THEN Append(pending, "resume") ELSE pending
    /\ UNCHANGED <<transition, chat, native, history, bounds>>

\* The client a transition is for: that of the ChatConnected state, which stays
\* until a closing client has shut down.
Connected ==
    IF chat.phase # "connected" THEN NoClient
    ELSE IF chat.old # NoClient THEN chat.old ELSE chat.client

\* A move of the app is told to the connected client; a client that is being
\* connected, or failed to connect, does not hear of it.
Missed == unaware' = (Connected = NoClient /\ chat.client # NoClient)

Turn(what) ==
    /\ transition = Idle /\ pending # <<>> /\ Head(pending) = what
    /\ pending' = Tail(pending)
    /\ UNCHANGED <<app, paused, chat, bounds>>

\* ChatClient::pause: sets the flag, takes the service that is installed.
PauseBegins ==
    /\ Turn("pause")
    /\ Missed
    /\ LET c == Connected IN
       IF c = NoClient
       THEN UNCHANGED <<transition, native, raced>>
       ELSE /\ native' = [native EXCEPT ![c].paused = TRUE]
            /\ raced' = raced \cup
                  {d \in {c} : Starting(d) \/ native[d].service = "none"}
            /\ transition' = IF native[c].service = "installed"
                             THEN [at |-> "stop", client |-> c] ELSE Idle

PauseStops ==
    /\ transition.at = "stop"
    /\ native' = [native EXCEPT ![transition.client] = StopService(@)]
    /\ transition' = Idle
    /\ UNCHANGED <<app, paused, pending, chat, history, bounds>>

\* Mutant of Resume: an ended session is looked for before the flag is cleared.
ResumeActive(n) == [n EXCEPT !.paused = @ /\ n.session # "active"]

\* ChatClient::resume: clears the flag, then fails unless the session is
\* active and a service is installed; a failed resume skips the refresh.
Resume(n) == [n EXCEPT !.paused = FALSE]

ResumeBegins ==
    /\ Turn("resume")
    /\ Missed /\ UNCHANGED raced
    /\ LET c == Connected IN
       IF c = NoClient
       THEN transition' = [at |-> "refresh", client |-> NoClient] /\ UNCHANGED native
       ELSE /\ native' = [native EXCEPT ![c] = Resume(@)]
            /\ transition' =
                  IF native[c].session = "active" /\ native[c].service = "installed"
                  THEN [at |-> "start", client |-> c] ELSE Idle

ResumeStarts ==
    /\ transition.at = "start"
    /\ native' = [native EXCEPT ![transition.client] = StartService(@)]
    /\ transition' = [at |-> "refresh", client |-> NoClient]
    /\ raced' = raced \cup {c \in {transition.client} : native[c].session # "active"}
    /\ UNCHANGED <<app, paused, pending, chat, unaware, bounds>>

\* await connector.refresh(): its turn in the connector's queue.
ResumeRefreshes ==
    /\ transition.at = "refresh" /\ chat.at = "none"
    /\ transition' = IF chat.client = NoClient THEN Idle
                     ELSE [at |-> "renewal", client |-> NoClient]
    /\ chat' = IF chat.client = NoClient THEN chat ELSE [chat EXCEPT !.at = "refresh"]
    /\ UNCHANGED <<app, paused, pending, native, history, bounds>>

-----------------------------------------------------------------------------
(* The connector: one call at a time (chat.at), the app's transition waits for *)
(* a refresh of its own.                                                        *)

\* The resume that waits for the running call goes on once the call has ended.
Awaited ==
    transition' = IF transition.at = "renewal" /\ chat'.at = "none"
                  THEN Idle ELSE transition

ToPhase(p) == [chat EXCEPT !.phase = p, !.at = "none"]

\* connect(), from the app, a retry button or a locked session.
Connect ==
    /\ chat.at = "none" /\ connects < MaxConnects
    /\ chat' = [chat EXCEPT !.phase = "connecting", !.at = "account"]
    /\ connects' = connects + 1
    /\ UNCHANGED <<app, paused, pending, transition, native, history, opened, switches,
                   errors, ends>>

\* The account is read; a client is opened and signed in if there is none. In
\* the background, with nothing queued, it does not hear that it should pause.
Opens ==
    /\ chat.at = "account" /\ chat.client = NoClient /\ opened < MaxClients
    /\ opened' = opened + 1
    /\ native' = [native EXCEPT ![opened + 1] = SetSession(@, "active")]
    /\ chat' = [chat EXCEPT !.client = opened + 1, !.at = "sync"]
    /\ unaware' = (app = "back" /\ pending = <<>>)
    /\ UNCHANGED <<app, paused, pending, transition, raced, switches, connects, errors, ends>>

\* A token that is due or whose session expired is renewed first.
Renews ==
    /\ chat.at \in {"account", "refresh"} /\ chat.client # NoClient
    /\ native' = [native EXCEPT ![chat.client] = SetSession(@, "active")]
    /\ chat' = IF chat.at = "account" THEN [chat EXCEPT !.at = "sync"] ELSE ToPhase("connected")
    /\ Awaited
    /\ UNCHANGED <<app, paused, pending, history, bounds>>

\* Nothing to renew.
Fresh ==
    /\ chat.at \in {"account", "refresh"} /\ chat.client # NoClient
    /\ native[chat.client].session # "expired"
    /\ chat' = [chat EXCEPT !.at = IF @ = "account" THEN "sync" ELSE "none"]
    /\ Awaited
    /\ UNCHANGED <<app, paused, pending, native, history, bounds>>

\* A call that fails leaves the client as it is. A renewal that fails before
\* the session expired is tried again later, unless the API refused it.
CallFails ==
    /\ chat.at \in {"account", "refresh", "sync"}
    /\ \/ chat' = ToPhase("failed")
       \/ /\ chat.at = "refresh" /\ native[chat.client].session # "expired"
          /\ chat' = [chat EXCEPT !.at = "none"]
    /\ Awaited
    /\ UNCHANGED <<app, paused, pending, native, history, bounds>>

\* A client that syncs already is not started again.
AlreadySyncs ==
    /\ chat.at = "sync" /\ chat.syncing
    /\ chat' = ToPhase("connected")
    /\ Awaited
    /\ UNCHANGED <<app, paused, pending, native, history, bounds>>

\* ChatClient::start_sync: builds and starts the service ...
SyncStarts ==
    /\ chat.at = "sync" /\ ~chat.syncing
    /\ native' = [native EXCEPT ![chat.client] = StartService(@)]
    /\ chat' = [chat EXCEPT !.at = "supervise"]
    /\ UNCHANGED <<app, paused, pending, transition, history, bounds>>

\* ... then spawns its supervisor and installs the service.
SyncStarted ==
    /\ chat.at = "supervise"
    /\ native' = [native EXCEPT ![chat.client].supervisor = "spawned",
                                ![chat.client].service = "installed"]
    /\ chat' = [chat EXCEPT !.phase = "connected", !.syncing = TRUE, !.at = "none"]
    /\ Awaited
    /\ UNCHANGED <<app, paused, pending, history, bounds>>

\* The renewal timer or the listener of the session asks for a refresh; it does
\* not overtake the one a resume waits for.
Refresh ==
    /\ chat.at = "none" /\ chat.syncing /\ transition.at # "refresh"
    /\ chat' = [chat EXCEPT !.at = "refresh"]
    /\ UNCHANGED <<app, paused, pending, transition, native, history, bounds>>

\* Mutant of Shutdown: the supervisor is left alone.
ShutdownSupervised(n) == [n EXCEPT !.service = "taken"]

\* _closeClient: the client is given up, then its shutdown() begins: the tasks
\* are aborted and the service is taken. An abort comes too late for a start
\* under way.
Shutdown(n) ==
    [n EXCEPT !.service = "taken",
              !.supervisor = IF @ \in {"restart", "stopping"} THEN @ ELSE "none"]

\* In disconnect() and when the account lost its chat that is the call's end
\* ("shutdown"); a session that is gone, or the account of another user, is
\* replaced in the same call ("replace").
Close ==
    /\ chat.client # NoClient
    /\ \E at \in {"shutdown", "replace"} :
         /\ chat.at \in IF at = "replace" THEN {"account", "refresh"}
                        ELSE {"none", "account", "refresh"}
         /\ IF at = "replace" \/ chat.at = "none"
            THEN connects < MaxConnects /\ connects' = connects + 1
            ELSE UNCHANGED connects
         /\ chat' = [phase |-> chat.phase, client |-> NoClient, syncing |-> FALSE,
                     at |-> at, old |-> chat.client]
    /\ native' = [native EXCEPT ![chat.client] = Shutdown(@)]
    /\ raced' = raced \cup {c \in {chat.client} : Starting(c)}
    /\ unaware' = FALSE
    /\ UNCHANGED <<app, paused, pending, transition, opened, switches, errors, ends>>

\* The rest of shutdown(), and of the purge: the service it took is stopped.
Closed ==
    /\ chat.at \in {"shutdown", "replace"}
    /\ native' = [native EXCEPT ![chat.old] = StopService(@)]
    /\ chat' = IF chat.at = "shutdown"
               THEN [chat EXCEPT !.phase = "off", !.at = "none", !.old = NoClient]
               ELSE [chat EXCEPT !.phase = "connecting", !.at = "account", !.old = NoClient]
    /\ Awaited
    /\ UNCHANGED <<app, paused, pending, history, bounds>>

-----------------------------------------------------------------------------
(* The supervisor task of a client.                                            *)

\* Supervisor(c, at, n): the supervisor of c at `at` leaves it as n.
Supervisor(c, at, n) ==
    /\ native[c].supervisor = at
    /\ native' = [native EXCEPT ![c] = n]
    /\ UNCHANGED <<app, paused, pending, transition, chat, history, bounds>>

\* It subscribes when it first runs; what happened before is not news.
Subscribes(c) ==
    Supervisor(c, "spawned", [native[c] EXCEPT !.supervisor = "watching", !.news = {}])

\* Mutant of SeesSync: a failed sync is only logged.
SeesSyncOnly(c) ==
    LET n == [native[c] EXCEPT !.news = @ \ {"sync"}] IN
    /\ "sync" \in native[c].news
    /\ \/ n.sync = "refused" /\ \E s \in EndedSession : Supervisor(c, "watching", Report(n, s))
       \/ n.sync # "refused" /\ Supervisor(c, "watching", n)

SeesSync(c) ==
    LET n == [native[c] EXCEPT !.news = @ \ {"sync"}] IN
    /\ "sync" \in native[c].news
    /\ \/ n.sync = "failed" /\ Supervisor(c, "watching", [n EXCEPT !.supervisor = "backoff"])
       \/ n.sync = "refused" /\ \E s \in EndedSession : Supervisor(c, "watching", Report(n, s))
       \/ n.sync \notin {"failed", "refused"} /\ Supervisor(c, "watching", n)

\* Mutant of SeesSession: only a locked account stops the sync.
SeesSessionLocked(c) ==
    LET n == [native[c] EXCEPT !.news = @ \ {"session"}] IN
    /\ "session" \in native[c].news
    /\ Supervisor(c, "watching",
          IF n.session = "locked" THEN [n EXCEPT !.supervisor = "stopping"] ELSE n)

SeesSession(c) ==
    LET n == [native[c] EXCEPT !.news = @ \ {"session"}] IN
    /\ "session" \in native[c].news
    /\ Supervisor(c, "watching",
          IF n.session \in EndedSession THEN [n EXCEPT !.supervisor = "stopping"] ELSE n)

StopsEnded(c) == Supervisor(c, "stopping", Supervising(StopService(native[c])))

\* Mutant of Retries: no look at the flag.
RetriesPaused(c) ==
    Supervisor(c, "backoff",
       [native[c] EXCEPT !.supervisor =
            IF native[c].session # "active" THEN "watching" ELSE "restart"])

\* The backoff is over: not while paused, not without a session.
Retries(c) ==
    Supervisor(c, "backoff",
       [native[c] EXCEPT !.supervisor =
            IF native[c].paused \/ native[c].session # "active"
            THEN "watching" ELSE "restart"])

Restarts(c) == Supervisor(c, "restart", Supervising(StartService(native[c])))

-----------------------------------------------------------------------------
(* What the sync service and the server do.                                    *)

\* Changed(c, n): client c becomes n, which its supervisor may be too late for.
Changed(c, n) ==
    /\ native' = [native EXCEPT ![c] = n]
    /\ raced' = raced \cup {d \in {c} : Unsupervised(d)}
    /\ UNCHANGED <<app, paused, pending, transition, chat, unaware, opened, switches, connects>>

GoesOffline(c) ==
    /\ native[c].sync \in Syncing
    /\ \E s \in Syncing : native' = [native EXCEPT ![c] = SetSync(@, s)]
    /\ UNCHANGED <<app, paused, pending, transition, chat, history, bounds>>

SyncFails(c) ==
    /\ native[c].sync \in Syncing /\ errors + ends < MaxTroubles
    /\ errors' = errors + 1 /\ UNCHANGED ends
    /\ Changed(c, SetSync(native[c], "failed"))

\* A request is rejected: the service reports it as its error, or the SDK
\* announces the unknown token to the session task.
SessionEnds(c) ==
    /\ errors + ends < MaxTroubles /\ Watched(c)
    /\ ends' = ends + 1 /\ UNCHANGED errors
    /\ \/ native[c].sync \in Syncing /\ Changed(c, SetSync(native[c], "refused"))
       \/ Changed(c, SetSession(native[c], "expired"))

\* A call of the facade fails because the account is locked.
AccountLocked(c) ==
    /\ errors + ends < MaxTroubles /\ Watched(c)
    /\ ends' = ends + 1 /\ UNCHANGED errors
    /\ Changed(c, Report(native[c], "locked"))

-----------------------------------------------------------------------------
Lifecycle == PauseBegins \/ PauseStops \/ ResumeBegins \/ ResumeStarts \/ ResumeRefreshes
Connector == Opens \/ Renews \/ Fresh \/ CallFails \/ AlreadySyncs \/ SyncStarts
             \/ SyncStarted \/ Closed
Supervise(c) == Subscribes(c) \/ SeesSync(c) \/ SeesSession(c) \/ StopsEnded(c)
                \/ Retries(c) \/ Restarts(c)
Environment(c) == GoesOffline(c) \/ SyncFails(c) \/ SessionEnds(c) \/ AccountLocked(c)

Next ==
    \/ Background \/ Foreground \/ Connect \/ Refresh \/ Close
    \/ Lifecycle \/ Connector
    \/ \E c \in Clients : Supervise(c) \/ Environment(c)

\* Queued transitions run, calls and native tasks end; select! polls its branches
\* in a random order, so neither kind of news waits for ever behind the other.
\* Users, the network and the server owe nothing.
Fairness ==
    /\ WF_vars(Lifecycle)
    /\ WF_vars(Connector)
    /\ \A c \in Clients :
         WF_vars(Supervise(c)) /\ SF_vars(SeesSync(c)) /\ SF_vars(SeesSession(c))

Spec == Init /\ [][Next]_vars
FairSpec == Spec /\ Fairness

-----------------------------------------------------------------------------
\* Every variable keeps its type, and the connector's steps go with a client.
TypeOK ==
    /\ app \in {"front", "back"} /\ paused \in BOOLEAN
    /\ pending \in Seq({"pause", "resume"}) /\ Len(pending) <= 2 * MaxSwitches
    /\ transition \in [at : {"none", "stop", "start", "refresh", "renewal"},
                       client : Clients \cup {NoClient}]
    /\ chat \in [phase : {"off", "connecting", "connected", "failed"},
                 client : Clients \cup {NoClient}, syncing : BOOLEAN,
                 at : {"none", "account", "sync", "supervise", "refresh", "shutdown", "replace"},
                 old : Clients \cup {NoClient}]
    /\ native \in [Clients -> [session : Sessions, paused : BOOLEAN,
                              service : {"none", "installed", "taken"}, sync : SyncStates,
                              supervisor : {"none", "spawned", "watching", "backoff",
                                            "restart", "stopping"},
                              news : SUBSET {"sync", "session"}]]
    /\ raced \subseteq Clients /\ unaware \in BOOLEAN
    /\ chat.at \in {"sync", "supervise", "refresh"} => chat.client # NoClient

Settled == pending = <<>> /\ transition = Idle

\* A client whose pause() returned does not sync until resume(), whatever its
\* supervisor was about to do - unless the supervisor had already read the
\* flag (lifecycle.rs: pause, restart_after_error).
PausedStaysStopped ==
    \A c \in Clients \ raced :
        native[c].paused /\ native[c].service = "installed"
        /\ transition # [at |-> "stop", client |-> c]
            => native[c].sync \notin Syncing

\* Only the connector's client syncs: one that was given up has stopped for
\* good before the next may open the store - unless a start was already under
\* way (client.rs: shutdown, stop_sync).
OnlyCurrentSyncs ==
    \A c \in Clients \ (raced \cup {chat.client, chat.old}) :
        native[c].sync \notin Syncing

\* An ended session stops the sync: the supervisor sees it, however it came
\* to be known - unless it ended before the supervisor ran or while a resume
\* was under way (lifecycle.rs: supervise).
EndedStops ==
    \A c \in Clients :
        native[c].session \in EndedSession
            ~> \/ native[c].sync \notin Syncing \/ native[c].session = "active"
               \/ c \in raced

\* A sync that failed for another reason is restarted, unless the app is in
\* the background, the client is gone or a session ended meanwhile (README.md:71).
FailedRestarts ==
    \A c \in Clients :
        native[c].sync = "failed"
            ~> \/ native[c].sync # "failed" \/ native[c].paused
               \/ native[c].service = "taken" \/ ends > 0 \/ c \in raced

\* Once the moves of the app are told, the client follows the last of them: its
\* flag says where the app is, whatever became of the resume and of the refresh it
\* awaits; in the background it does not sync, and back in the foreground it is not
\* left stopped. Left out are a client that the last move did not reach, one whose
\* pause or start was overtaken and, for the last part, a session that ended
\* (chat_app_lifecycle.dart: _client, _enqueue; lifecycle.rs: pause, resume).
FollowsApp ==
    pending = <<>> /\ transition.at \notin {"stop", "start"}
    /\ chat.client # NoClient /\ ~unaware
        => LET n == native[chat.client] IN
           /\ n.paused <=> app = "back"
           /\ chat.client \notin raced =>
                IF app = "back" THEN n.sync \notin Syncing
                ELSE n.sync = "stopped" => ends > 0

-----------------------------------------------------------------------------
(* What the documentation says and the code does not keep.                     *)

\* "pauses syncing in the background" (chat_app_lifecycle.dart:9): a chat that
\* connects, or reconnects, while the app leaves is not told.
BackgroundPauses ==
    app = "back" /\ Settled /\ chat.at = "none"
        => \A c \in Clients : native[c].sync \notin Syncing

\* "back in the foreground, resumes it" (chat_app_lifecycle.dart:10): a chat that
\* reconnects while the app comes back stays stopped although it is connected.
\* Stated for instances without troubles (MaxTroubles = 0).
ForegroundResumes ==
    app = "front" /\ Settled /\ chat.at = "none" /\ chat.phase = "connected"
        => native[chat.client].sync # "stopped"

\* "Stops syncing while the app is in the background" (lifecycle.rs:148): a
\* restart that read the flag before pause() set it starts the sync after it.
PauseStopsSync ==
    \A c \in Clients :
        native[c].paused /\ native[c].service = "installed"
        /\ transition # [at |-> "stop", client |-> c]
            => native[c].sync \notin Syncing

\* "Stops all background work so that another client may open the store"
\* (client.rs:394): a resume under way starts the service shutdown() stopped.
ShutdownStops ==
    \A c \in Clients \ {chat.client, chat.old} : native[c].sync \notin Syncing

\* "On `expired`/`locked` the sync stops" (README.md:63): not when the session
\* ends between resume()'s check and its start, or before the supervisor
\* subscribed.
ExpiredStops ==
    \A c \in Clients :
        native[c].session \in EndedSession /\ native[c].supervisor = "watching"
        /\ native[c].news = {} /\ ~Resuming(c)
            => native[c].sync \notin Syncing
=============================================================================
