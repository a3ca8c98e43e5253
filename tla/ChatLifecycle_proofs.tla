------------------------ MODULE ChatLifecycle_proofs ------------------------
(* Theorems about ChatLifecycle, for any number of clients, moves of the app   *)
(* and troubles: the types, and the three invariants its run checks. What      *)
(* may sync is a matter of who has decided to start a service and not done so: *)
(* the invariant says of each client that is not counted as overtaken that it  *)
(* has no such start pending once it is paused or given up, and which service  *)
(* it has by how far the connector is with it.                                 *)
EXTENDS ChatLifecycle, SequenceTheorems, TLAPS

USE LifecycleAssumption DEF LifecycleAssumption, history

Transition == [at : {"none", "stop", "start", "refresh", "renewal"},
               client : Clients \cup {NoClient}]
Chat == [phase : {"off", "connecting", "connected", "failed"},
         client : Clients \cup {NoClient}, syncing : BOOLEAN,
         at : {"none", "account", "sync", "supervise", "refresh", "shutdown", "replace"},
         old : Clients \cup {NoClient}]
Native == [session : Sessions, paused : BOOLEAN,
           service : {"none", "installed", "taken"}, sync : SyncStates,
           supervisor : {"none", "spawned", "watching", "backoff", "restart", "stopping"},
           news : SUBSET {"sync", "session"}]

Types ==
    /\ app \in {"front", "back"} /\ paused \in BOOLEAN
    /\ transition \in Transition /\ chat \in Chat
    /\ native \in [Clients -> Native] /\ raced \in SUBSET Clients
    /\ unaware \in BOOLEAN /\ opened \in 0 .. MaxClients

\* Every move of the app queues at most one transition, a resume only after a pause.
Queued ==
    /\ pending \in Seq({"pause", "resume"}) /\ switches \in 0 .. MaxSwitches
    /\ Len(pending) <= 2 * switches - (IF paused THEN 1 ELSE 0)

\* Where the connector and the transition are with which clients; of the clients
\* opened only the connector's may have a service, and only the one it shuts down
\* may still have to stop.
ConnectorInv ==
    /\ chat.client \in 0 .. opened /\ chat.old \in 0 .. opened
    /\ chat.at \in {"sync", "supervise", "refresh"} => chat.client # NoClient
    /\ chat.at \in {"shutdown", "replace"} <=> chat.old # NoClient
    /\ chat.old # NoClient => chat.client = NoClient
    /\ chat.syncing => chat.client # NoClient /\ chat.at # "supervise"
    /\ transition.at \in {"stop", "start"} => transition.client \in 1 .. opened
    /\ transition.at = "renewal" => chat.at # "none"

\* A client that was not opened is new, one that was given up has lost its
\* service, and whoever is about to start the service of another saw it unpaused.
ClientInv(c) ==
    /\ c > opened => native[c] = NewClient
    /\ c <= opened => native[c].service = IF c # chat.client THEN "taken"
                                         ELSE IF chat.syncing THEN "installed" ELSE "none"
    /\ Resuming(c) => ~native[c].paused
    /\ c \notin raced /\ native[c].service = "taken" =>
         native[c].supervisor \in {"none", "stopping"} /\ ~Resuming(c)
    /\ c \notin raced /\ native[c].paused =>
         native[c].supervisor # "restart" /\ native[c].service # "none"

IInv ==
    /\ Types /\ Queued /\ ConnectorInv /\ (\A c \in Clients : ClientInv(c))
    /\ PausedStaysStopped /\ OnlyCurrentSyncs
-----------------------------------------------------------------------------
(* The native client's own operations.                                         *)

LEMMA NewClientType == NewClient \in Native
BY DEF NewClient, Native, Sessions, SyncStates

LEMMA SetSessionDoes ==
  ASSUME NEW n \in Native, NEW s \in Sessions
  PROVE  /\ SetSession(n, s) \in Native
         /\ SetSession(n, s).service = n.service /\ SetSession(n, s).paused = n.paused
         /\ SetSession(n, s).sync = n.sync /\ SetSession(n, s).supervisor = n.supervisor
BY DEF SetSession, Native

LEMMA ReportDoes ==
  ASSUME NEW n \in Native, NEW s \in EndedSession
  PROVE  /\ Report(n, s) \in Native
         /\ Report(n, s).service = n.service /\ Report(n, s).paused = n.paused
         /\ Report(n, s).sync = n.sync /\ Report(n, s).supervisor = n.supervisor
BY SetSessionDoes DEF Report, EndedSession, Sessions

LEMMA SetSyncDoes ==
  ASSUME NEW n \in Native, NEW s \in SyncStates
  PROVE  /\ SetSync(n, s) \in Native /\ SetSync(n, s).sync = s
         /\ SetSync(n, s).service = n.service /\ SetSync(n, s).paused = n.paused
         /\ SetSync(n, s).supervisor = n.supervisor
BY DEF SetSync, Native

LEMMA StartDoes ==
  ASSUME NEW n \in Native
  PROVE  /\ StartService(n) \in Native
         /\ StartService(n).service = n.service /\ StartService(n).paused = n.paused
         /\ StartService(n).supervisor = n.supervisor
BY SetSyncDoes DEF StartService, SyncStates

LEMMA StopDoes ==
  ASSUME NEW n \in Native
  PROVE  /\ StopService(n) \in Native /\ StopService(n).sync \notin Syncing
         /\ StopService(n).service = n.service /\ StopService(n).paused = n.paused
         /\ StopService(n).supervisor = n.supervisor
BY SetSyncDoes DEF StopService, SyncStates, Syncing

LEMMA SupervisingDoes ==
  ASSUME NEW n \in Native
  PROVE  /\ Supervising(n) \in Native
         /\ Supervising(n).service = n.service /\ Supervising(n).paused = n.paused
         /\ Supervising(n).sync = n.sync
         /\ Supervising(n).supervisor = IF n.service = "taken" THEN "none" ELSE "watching"
BY DEF Supervising, Native

-----------------------------------------------------------------------------
(* What the supervisor, the service and the server do to a client: it keeps    *)
(* its flag and its service, and syncs only if it did or its supervisor was    *)
(* about to restart it, which it is only for a client that is not paused.      *)

Kept == UNCHANGED <<app, paused, pending, transition, chat, unaware, opened, switches>>

LEMMA ClientStep ==
  ASSUME IInv, Kept, NEW c \in Clients, NEW n \in Native, native[c] # NewClient,
         native' = [native EXCEPT ![c] = n],
         raced \subseteq raced', raced' \subseteq Clients,
         n.service = native[c].service, n.paused = native[c].paused,
         n.sync \in Syncing =>
           native[c].sync \in Syncing \/ native[c].supervisor = "restart",
         n.service = "taken" /\ native[c].supervisor \in {"none", "stopping"} =>
           n.supervisor \in {"none", "stopping"},
         n.supervisor = "restart" => native[c].supervisor = "restart" \/ ~n.paused
  PROVE  IInv'
<1>1. c \in 1 .. opened /\ native \in [Clients -> Native] /\ opened \in 0 .. MaxClients
  BY DEF IInv, ClientInv, Types, Clients
<1>2. \A d \in Clients : native'[d] = IF d = c THEN n ELSE native[d]
  BY <1>1
<1>3. Types' /\ Queued' /\ ConnectorInv'
  BY <1>1 DEF IInv, Kept, Types, Queued, ConnectorInv
<1>4. ASSUME NEW d \in Clients PROVE ClientInv(d)'
  <2>1. ClientInv(d)
    BY DEF IInv
  <2> QED BY <1>1, <1>2, <2>1 DEF Kept, ClientInv, Resuming
<1>5. PausedStaysStopped'
  <2> SUFFICES ASSUME NEW d \in Clients, d \notin raced', native'[d].paused,
                      native'[d].service = "installed",
                      transition # [at |-> "stop", client |-> d]
               PROVE  native'[d].sync \notin Syncing
    BY DEF PausedStaysStopped, Kept
  <2>1. ClientInv(d) /\ PausedStaysStopped
    BY DEF IInv
  <2> QED BY <1>2, <2>1 DEF ClientInv, PausedStaysStopped
<1>6. OnlyCurrentSyncs'
  <2> SUFFICES ASSUME NEW d \in Clients, d \notin raced', d # chat.client, d # chat.old
               PROVE  native'[d].sync \notin Syncing
    BY DEF OnlyCurrentSyncs, Kept
  <2>1. ClientInv(d) /\ OnlyCurrentSyncs
    BY DEF IInv
  <2>2. native[d].sync \notin Syncing
    BY <2>1 DEF OnlyCurrentSyncs
  <2> QED BY <1>1, <1>2, <2>1, <2>2 DEF ClientInv, Clients
<1> QED BY <1>3, <1>4, <1>5, <1>6 DEF IInv

LEMMA SupervisorStep ==
  ASSUME IInv, NEW c \in Clients, NEW at, at # "none", NEW n \in Native,
         Supervisor(c, at, n),
         n.service = native[c].service, n.paused = native[c].paused,
         n.sync \in Syncing => native[c].sync \in Syncing \/ at = "restart",
         n.service = "taken" /\ at = "stopping" => n.supervisor \in {"none", "stopping"},
         n.supervisor = "restart" => at = "restart" \/ ~n.paused
  PROVE  IInv'
<1>1. /\ Kept /\ raced' = raced /\ raced \subseteq Clients
      /\ native' = [native EXCEPT ![c] = n] /\ native[c].supervisor = at
  BY DEF Supervisor, Kept, bounds, IInv, Types
<1>2. native[c] # NewClient
  BY <1>1 DEF NewClient
<1> QED BY <1>1, <1>2, ClientStep

LEMMA SubscribesStep ==
  ASSUME IInv, NEW c \in Clients, Subscribes(c)
  PROVE  IInv'
<1> DEFINE n == [native[c] EXCEPT !.supervisor = "watching", !.news = {}]
<1>1. native[c] \in Native
  BY DEF IInv, Types
<1>2. /\ n \in Native /\ n.service = native[c].service /\ n.paused = native[c].paused
      /\ n.sync = native[c].sync /\ n.supervisor = "watching"
  BY <1>1 DEF Native
<1>3. Supervisor(c, "spawned", n)
  BY DEF Subscribes
<1> QED BY <1>2, <1>3, SupervisorStep

LEMMA SeesSyncStep ==
  ASSUME IInv, NEW c \in Clients, SeesSync(c)
  PROVE  IInv'
<1> DEFINE n == [native[c] EXCEPT !.news = @ \ {"sync"}]
           b == [n EXCEPT !.supervisor = "backoff"]
<1>1. native[c] \in Native
  BY DEF IInv, Types
<1>2. /\ n \in Native /\ n.service = native[c].service /\ n.paused = native[c].paused
      /\ n.sync = native[c].sync /\ n.supervisor = native[c].supervisor
  BY <1>1 DEF Native
<1>3. /\ b \in Native /\ b.service = native[c].service /\ b.paused = native[c].paused
      /\ b.sync = native[c].sync /\ b.supervisor = "backoff"
  BY <1>1 DEF Native
<1>4. ASSUME NEW s \in EndedSession
      PROVE  /\ Report(n, s) \in Native /\ Report(n, s).service = native[c].service
             /\ Report(n, s).paused = native[c].paused
             /\ Report(n, s).sync = native[c].sync
             /\ Report(n, s).supervisor = native[c].supervisor
  BY <1>2, ReportDoes
<1> HIDE DEF n, b
<1>5. \/ Supervisor(c, "watching", b)
      \/ \E s \in EndedSession : Supervisor(c, "watching", Report(n, s))
      \/ Supervisor(c, "watching", n)
  BY DEF SeesSync, n, b
<1>6. CASE Supervisor(c, "watching", b)
  BY <1>3, <1>6, SupervisorStep
<1>7. ASSUME NEW s \in EndedSession, Supervisor(c, "watching", Report(n, s))
      PROVE  IInv'
  <2>1. native[c].supervisor = "watching"
    BY <1>7 DEF Supervisor
  <2> QED BY <1>4, <1>7, <2>1, SupervisorStep
<1>8. CASE Supervisor(c, "watching", n)
  <2>1. native[c].supervisor = "watching"
    BY <1>8 DEF Supervisor
  <2> QED BY <1>2, <1>8, <2>1, SupervisorStep
<1> QED BY <1>5, <1>6, <1>7, <1>8

LEMMA SeesSessionStep ==
  ASSUME IInv, NEW c \in Clients, SeesSession(c)
  PROVE  IInv'
<1> DEFINE n == [native[c] EXCEPT !.news = @ \ {"session"}]
           s == [n EXCEPT !.supervisor = "stopping"]
<1>1. native[c] \in Native
  BY DEF IInv, Types
<1>2. /\ n \in Native /\ n.service = native[c].service /\ n.paused = native[c].paused
      /\ n.sync = native[c].sync /\ n.supervisor = native[c].supervisor
  BY <1>1 DEF Native
<1>3. /\ s \in Native /\ s.service = native[c].service /\ s.paused = native[c].paused
      /\ s.sync = native[c].sync /\ s.supervisor = "stopping"
  BY <1>1 DEF Native
<1> HIDE DEF n, s
<1>4. Supervisor(c, "watching", s) \/ Supervisor(c, "watching", n)
  BY DEF SeesSession, n, s
<1>5. CASE Supervisor(c, "watching", s)
  BY <1>3, <1>5, SupervisorStep
<1>6. CASE Supervisor(c, "watching", n)
  <2>1. native[c].supervisor = "watching"
    BY <1>6 DEF Supervisor
  <2> QED BY <1>2, <1>6, <2>1, SupervisorStep
<1> QED BY <1>4, <1>5, <1>6

LEMMA StopsEndedStep ==
  ASSUME IInv, NEW c \in Clients, StopsEnded(c)
  PROVE  IInv'
<1> DEFINE n == Supervising(StopService(native[c]))
<1>1. StopService(native[c]) \in Native
  BY StopDoes DEF IInv, Types
<1>2. /\ n \in Native /\ n.service = native[c].service /\ n.paused = native[c].paused
      /\ n.supervisor = IF n.service = "taken" THEN "none" ELSE "watching"
      /\ n.sync \notin Syncing
  BY <1>1, StopDoes, SupervisingDoes DEF IInv, Types
<1> HIDE DEF n
<1>3. Supervisor(c, "stopping", n)
  BY DEF StopsEnded, n
<1> QED BY <1>2, <1>3, SupervisorStep

LEMMA RetriesStep ==
  ASSUME IInv, NEW c \in Clients, Retries(c)
  PROVE  IInv'
<1> DEFINE next == IF native[c].paused \/ native[c].session # "active"
                   THEN "watching" ELSE "restart"
           n == [native[c] EXCEPT !.supervisor = next]
<1>1. native[c] \in Native
  BY DEF IInv, Types
<1>2. /\ n \in Native /\ n.service = native[c].service /\ n.paused = native[c].paused
      /\ n.sync = native[c].sync /\ n.supervisor = next
  BY <1>1 DEF Native
<1>3. Supervisor(c, "backoff", n)
  BY DEF Retries
<1> HIDE DEF n
<1> QED BY <1>2, <1>3, SupervisorStep

LEMMA RestartsStep ==
  ASSUME IInv, NEW c \in Clients, Restarts(c)
  PROVE  IInv'
<1> DEFINE n == Supervising(StartService(native[c]))
<1>1. StartService(native[c]) \in Native
  BY StartDoes DEF IInv, Types
<1>2. /\ n \in Native /\ n.service = native[c].service /\ n.paused = native[c].paused
      /\ n.supervisor = IF n.service = "taken" THEN "none" ELSE "watching"
  BY <1>1, StartDoes, SupervisingDoes DEF IInv, Types
<1> HIDE DEF n
<1>3. Supervisor(c, "restart", n)
  BY DEF Restarts, n
<1> QED BY <1>2, <1>3, SupervisorStep

\* What changes a client from outside leaves its supervisor alone.
LEMMA OutsideStep ==
  ASSUME IInv, Kept, NEW c \in Clients, NEW n \in Native, native[c] # NewClient,
         native' = [native EXCEPT ![c] = n],
         raced' = raced \/ raced' = raced \cup {d \in {c} : Unsupervised(d)},
         n.service = native[c].service, n.paused = native[c].paused,
         n.supervisor = native[c].supervisor,
         n.sync \in Syncing => native[c].sync \in Syncing
  PROVE  IInv'
<1>1. raced \subseteq raced' /\ raced' \subseteq Clients
  BY DEF IInv, Types
<1> QED BY <1>1, ClientStep

LEMMA GoesOfflineStep ==
  ASSUME IInv, NEW c \in Clients, GoesOffline(c)
  PROVE  IInv'
<1>1. PICK s \in Syncing : native' = [native EXCEPT ![c] = SetSync(@, s)]
  BY DEF GoesOffline
<1>2. native[c] \in Native /\ s \in SyncStates
  BY DEF IInv, Types, Syncing, SyncStates
<1>3. native' = [native EXCEPT ![c] = SetSync(native[c], s)]
  BY <1>1
<1>4. Kept /\ raced' = raced /\ native[c] # NewClient /\ native[c].sync \in Syncing
  BY DEF GoesOffline, Kept, bounds, NewClient, Syncing
<1> QED BY <1>2, <1>3, <1>4, SetSyncDoes, OutsideStep

LEMMA SyncFailsStep ==
  ASSUME IInv, NEW c \in Clients, SyncFails(c)
  PROVE  IInv'
<1>1. native[c] \in Native /\ "failed" \in SyncStates /\ "failed" \notin Syncing
  BY DEF IInv, Types, Syncing, SyncStates
<1>2. Kept /\ native' = [native EXCEPT ![c] = SetSync(native[c], "failed")]
  BY DEF SyncFails, Changed, Kept
<1>3. raced' = raced \cup {d \in {c} : Unsupervised(d)} /\ native[c] # NewClient
  BY DEF SyncFails, Changed, NewClient, Syncing
<1> QED BY <1>1, <1>2, <1>3, SetSyncDoes, OutsideStep

LEMMA SessionEndsStep ==
  ASSUME IInv, NEW c \in Clients, SessionEnds(c)
  PROVE  IInv'
<1>1. /\ native[c] \in Native /\ "refused" \in SyncStates /\ "refused" \notin Syncing
      /\ "expired" \in Sessions
  BY DEF IInv, Types, Syncing, SyncStates, Sessions
<1>2. Kept /\ raced' = raced \cup {d \in {c} : Unsupervised(d)} /\ native[c] # NewClient
  BY DEF SessionEnds, Changed, Kept, NewClient, Watched
<1>3. CASE native' = [native EXCEPT ![c] = SetSync(native[c], "refused")]
  BY <1>1, <1>2, <1>3, SetSyncDoes, OutsideStep
<1>4. CASE native' = [native EXCEPT ![c] = SetSession(native[c], "expired")]
  BY <1>1, <1>2, <1>4, SetSessionDoes, OutsideStep
<1> QED BY <1>3, <1>4 DEF SessionEnds, Changed

LEMMA AccountLockedStep ==
  ASSUME IInv, NEW c \in Clients, AccountLocked(c)
  PROVE  IInv'
<1>1. native[c] \in Native /\ "locked" \in EndedSession
  BY DEF IInv, Types, EndedSession
<1>2. Kept /\ raced' = raced \cup {d \in {c} : Unsupervised(d)} /\ native[c] # NewClient
  BY DEF AccountLocked, Changed, Kept, NewClient, Watched
<1>3. native' = [native EXCEPT ![c] = Report(native[c], "locked")]
  BY DEF AccountLocked, Changed
<1> QED BY <1>1, <1>2, <1>3, ReportDoes, OutsideStep

-----------------------------------------------------------------------------
(* The connector's and the app's own steps.                                    *)

\* A step that leaves the clients alone keeps what is said of them, as long as
\* it gives up none, nor the transition at work on one.
LEMMA ClientsAlone ==
  ASSUME IInv, UNCHANGED <<native, raced, opened>>,
         chat'.client = chat.client, chat'.old = chat.old, chat'.syncing = chat.syncing,
         transition' = transition \/ transition.at \notin {"stop", "start"},
         transition' = transition \/ transition'.at \notin {"stop", "start"}
  PROVE  /\ \A c \in Clients : ClientInv(c)'
         /\ PausedStaysStopped' /\ OnlyCurrentSyncs'
<1>1. ASSUME NEW c \in Clients PROVE ClientInv(c)'
  BY DEF IInv, ClientInv, Resuming
<1>2. PausedStaysStopped'
  BY DEF IInv, PausedStaysStopped
<1>3. OnlyCurrentSyncs'
  BY DEF IInv, OnlyCurrentSyncs
<1> QED BY <1>1, <1>2, <1>3

LEMMA BackgroundStep == IInv /\ Background => IInv'
<1> SUFFICES ASSUME IInv, Background PROVE IInv'
  OBVIOUS
<1>1. Types' /\ ConnectorInv'
  BY DEF IInv, Background, Types, ConnectorInv
<1>2. Queued'
  BY DEF IInv, Background, Types, Queued
<1> QED BY <1>1, <1>2, ClientsAlone DEF IInv, Background

LEMMA ForegroundStep == IInv /\ Foreground => IInv'
<1> SUFFICES ASSUME IInv, Foreground PROVE IInv'
  OBVIOUS
<1>1. Types' /\ ConnectorInv'
  BY DEF IInv, Foreground, Types, ConnectorInv, bounds
<1>2. Queued'
  BY DEF IInv, Foreground, Types, Queued, bounds
<1> QED BY <1>1, <1>2, ClientsAlone DEF IInv, Foreground, bounds

\* Steps of the connector that leave the clients and the queue alone.
LEMMA ChatStep ==
  ASSUME IInv, UNCHANGED <<app, paused, pending, native, history, opened, switches>>,
         NEW at \in {"none", "account", "sync", "refresh"},
         chat.at \notin {"supervise", "shutdown", "replace"},
         at \in {"sync", "refresh"} => chat.client # NoClient,
         NEW phase \in {"off", "connecting", "connected", "failed"},
         chat' = [chat EXCEPT !.phase = phase, !.at = at],
         transition' \in Transition,
         transition' = transition \/ transition.at \in {"refresh", "renewal"},
         transition' = transition \/ transition'.at \in {"none", "renewal"},
         transition'.at = "renewal" => at # "none"
  PROVE  IInv'
<1>1. /\ chat' \in Chat /\ chat'.at = at
      /\ chat'.client = chat.client /\ chat'.old = chat.old /\ chat'.syncing = chat.syncing
  BY DEF IInv, Types, Chat
<1>2. Types'
  BY <1>1 DEF IInv, Types
<1>3. Queued'
  BY DEF IInv, Queued
<1>4. ConnectorInv'
  BY <1>1 DEF IInv, ConnectorInv
<1> QED BY <1>1, <1>2, <1>3, <1>4, ClientsAlone DEF IInv

LEMMA ConnectStep == IInv /\ Connect => IInv'
<1> SUFFICES ASSUME IInv, Connect PROVE IInv'
  OBVIOUS
<1>1. transition' = transition /\ transition \in Transition /\ transition.at # "renewal"
  BY DEF IInv, Types, Connect, ConnectorInv
<1> QED BY <1>1, ChatStep DEF Connect

LEMMA RefreshStep == IInv /\ Refresh => IInv'
<1> SUFFICES ASSUME IInv, Refresh PROVE IInv'
  OBVIOUS
<1>1. /\ transition' = transition /\ transition \in Transition
      /\ chat.client # NoClient
  BY DEF IInv, Types, Refresh, ConnectorInv
<1>2. /\ chat' = [chat EXCEPT !.phase = chat.phase, !.at = "refresh"]
      /\ chat.phase \in {"off", "connecting", "connected", "failed"}
  BY DEF Refresh, IInv, Types, Chat
<1> QED BY <1>1, <1>2, ChatStep DEF Refresh, bounds

LEMMA ResumeRefreshesStep == IInv /\ ResumeRefreshes => IInv'
<1> SUFFICES ASSUME IInv, ResumeRefreshes PROVE IInv'
  OBVIOUS
<1>1. transition' \in Transition /\ transition.at = "refresh"
  BY DEF ResumeRefreshes, Transition, Idle
<1>2. chat.phase \in {"off", "connecting", "connected", "failed"}
  BY DEF IInv, Types, Chat
<1>3. CASE chat.client = NoClient
  <2>1. chat' = [chat EXCEPT !.phase = chat.phase, !.at = "none"] /\ transition'.at = "none"
    BY <1>3 DEF ResumeRefreshes, Idle, IInv, Types, Chat
  <2> QED BY <1>1, <1>2, <2>1, ChatStep DEF ResumeRefreshes, bounds
<1>4. CASE chat.client # NoClient
  <2>1. /\ chat' = [chat EXCEPT !.phase = chat.phase, !.at = "refresh"]
        /\ transition'.at = "renewal"
    BY <1>4 DEF ResumeRefreshes, IInv, Types, Chat
  <2> QED BY <1>1, <1>2, <1>4, <2>1, ChatStep DEF ResumeRefreshes, bounds
<1> QED BY <1>3, <1>4

\* The end of a call is heard by the resume that waits for it.
LEMMA AwaitedDoes ==
  ASSUME IInv, Awaited
  PROVE  /\ transition' \in Transition
         /\ transition'.at = "renewal" => chat'.at # "none"
         /\ \/ transition' = transition
            \/ transition.at = "renewal" /\ transition'.at = "none"
BY DEF IInv, Types, Awaited, Transition, Idle

LEMMA FreshStep == IInv /\ Fresh => IInv'
<1> SUFFICES ASSUME IInv, Fresh PROVE IInv'
  OBVIOUS
<1>1. /\ transition' \in Transition
      /\ transition'.at = "renewal" => chat'.at # "none"
      /\ \/ transition' = transition
         \/ transition.at = "renewal" /\ transition'.at = "none"
  BY AwaitedDoes DEF Fresh
<1> DEFINE at == IF chat.at = "account" THEN "sync" ELSE "none"
<1>2. /\ chat' = [chat EXCEPT !.phase = chat.phase, !.at = at]
      /\ chat.phase \in {"off", "connecting", "connected", "failed"}
  BY DEF Fresh, IInv, Types, Chat
<1>3. chat'.at = at /\ at \in {"sync", "none"}
  BY <1>2 DEF IInv, Types, Chat
<1> HIDE DEF at
<1> QED BY <1>1, <1>2, <1>3, ChatStep DEF Fresh, bounds

LEMMA CallFailsStep == IInv /\ CallFails => IInv'
<1> SUFFICES ASSUME IInv, CallFails PROVE IInv'
  OBVIOUS
<1>1. /\ transition' \in Transition
      /\ transition'.at = "renewal" => chat'.at # "none"
      /\ \/ transition' = transition
         \/ transition.at = "renewal" /\ transition'.at = "none"
  BY AwaitedDoes DEF CallFails
<1>2. PICK phase \in {"failed", chat.phase} :
        chat' = [chat EXCEPT !.phase = phase, !.at = "none"]
  BY DEF CallFails, ToPhase, IInv, Types, Chat
<1>3. phase \in {"off", "connecting", "connected", "failed"} /\ chat'.at = "none"
  BY <1>2 DEF IInv, Types, Chat
<1> QED BY <1>1, <1>2, <1>3, ChatStep DEF CallFails, bounds

LEMMA AlreadySyncsStep == IInv /\ AlreadySyncs => IInv'
<1> SUFFICES ASSUME IInv, AlreadySyncs PROVE IInv'
  OBVIOUS
<1>1. /\ transition' \in Transition
      /\ transition'.at = "renewal" => chat'.at # "none"
      /\ \/ transition' = transition
         \/ transition.at = "renewal" /\ transition'.at = "none"
  BY AwaitedDoes DEF AlreadySyncs
<1>2. chat' = [chat EXCEPT !.phase = "connected", !.at = "none"] /\ chat'.at = "none"
  BY DEF AlreadySyncs, ToPhase, IInv, Types, Chat
<1> QED BY <1>1, <1>2, ChatStep DEF AlreadySyncs, bounds

-----------------------------------------------------------------------------
(* The transitions.                                                            *)

LEMMA TurnQueued ==
  ASSUME IInv, NEW what, Turn(what)
  PROVE  Queued'
<1>1. /\ pending \in Seq({"pause", "resume"}) /\ pending # <<>> /\ pending' = Tail(pending)
      /\ switches' = switches /\ paused' = paused
  BY DEF IInv, Queued, Turn, bounds
<1>2. pending' \in Seq({"pause", "resume"}) /\ Len(pending') = Len(pending) - 1
  BY <1>1
<1> QED BY <1>1, <1>2 DEF IInv, Queued

\* The connected client is the connector's, or the one it shuts down.
LEMMA ConnectedIs ==
  ASSUME IInv
  PROVE  /\ Connected \in 0 .. opened /\ Connected \in Clients \cup {NoClient}
         /\ Connected \in {NoClient, chat.client, chat.old}
BY DEF IInv, Types, Connected, ConnectorInv, NoClient, Clients

LEMMA PauseBeginsStep == IInv /\ PauseBegins => IInv'
<1> SUFFICES ASSUME IInv, PauseBegins PROVE IInv'
  OBVIOUS
<1> DEFINE c == Connected
<1>1. Queued'
  BY TurnQueued DEF PauseBegins
<1>2. /\ transition = Idle
      /\ UNCHANGED <<app, paused, chat, opened>> /\ unaware' \in BOOLEAN
  BY DEF PauseBegins, Turn, Missed, bounds
<1>3. CASE c = NoClient
  <2>1. UNCHANGED <<transition, native, raced>>
    BY <1>3 DEF PauseBegins
  <2> QED BY <1>1, <1>2, <2>1, ClientsAlone DEF IInv, Types, ConnectorInv
<1>4. CASE c # NoClient
  <2> DEFINE n == [native[c] EXCEPT !.paused = TRUE]
  <2>1. c \in Clients /\ c \in 1 .. opened /\ native[c] \in Native
    BY <1>4, ConnectedIs DEF IInv, Types, NoClient
  <2>2. /\ native' = [native EXCEPT ![c] = n]
        /\ raced' = raced \cup {d \in {c} : Starting(d) \/ native[d].service = "none"}
        /\ transition' = IF native[c].service = "installed"
                         THEN [at |-> "stop", client |-> c] ELSE Idle
    BY <1>4 DEF PauseBegins
  <2> HIDE DEF c
  <2>3. /\ n \in Native /\ n.service = native[c].service /\ n.sync = native[c].sync
        /\ n.supervisor = native[c].supervisor /\ n.paused
    BY <2>1 DEF Native
  <2> HIDE DEF n
  <2>4. /\ \A d \in Clients : native'[d] = IF d = c THEN n ELSE native[d]
        /\ native' \in [Clients -> Native]
    BY <2>1, <2>2, <2>3 DEF IInv, Types
  <2>5. transition' \in Transition /\ transition'.at \in {"stop", "none"}
    BY <2>1, <2>2 DEF Transition, Idle
  <2>6. Types'
    BY <1>2, <2>1, <2>2, <2>4, <2>5 DEF IInv, Types
  <2>7. ConnectorInv'
    BY <1>2, <2>1, <2>2 DEF IInv, ConnectorInv, Idle
  <2>8. ASSUME NEW d \in Clients PROVE ClientInv(d)'
    <3>1. ClientInv(d) /\ ~Resuming(d)' /\ opened \in Nat
      BY <1>2, <2>5 DEF IInv, Types, Resuming
    <3>2. CASE d # c
      BY <1>2, <2>2, <2>4, <3>1, <3>2 DEF ClientInv
    <3>3. CASE d = c
      BY <1>2, <2>1, <2>2, <2>3, <2>4, <3>1, <3>3 DEF ClientInv, Starting
    <3> QED BY <3>2, <3>3
  <2>9. PausedStaysStopped'
    <3> SUFFICES ASSUME NEW d \in Clients, d \notin raced', native'[d].paused,
                        native'[d].service = "installed",
                        transition' # [at |-> "stop", client |-> d]
                 PROVE  native'[d].sync \notin Syncing
      BY DEF PausedStaysStopped
    <3>1. d # c
      BY <2>2, <2>3, <2>4
    <3> QED BY <1>2, <2>2, <2>4, <3>1 DEF IInv, PausedStaysStopped, Idle
  <2>10. OnlyCurrentSyncs'
    BY <1>2, <2>2, <2>3, <2>4 DEF IInv, OnlyCurrentSyncs
  <2> QED BY <1>1, <2>6, <2>7, <2>8, <2>9, <2>10 DEF IInv
<1> QED BY <1>3, <1>4

LEMMA PauseStopsStep == IInv /\ PauseStops => IInv'
<1> SUFFICES ASSUME IInv, PauseStops PROVE IInv'
  OBVIOUS
<1> DEFINE c == transition.client
           n == StopService(native[c])
<1>1. c \in 1 .. opened /\ c \in Clients /\ native[c] \in Native
  BY DEF IInv, Types, ConnectorInv, PauseStops, Clients
<1>2. /\ native' = [native EXCEPT ![c] = n]
      /\ transition' = Idle
      /\ UNCHANGED <<app, paused, pending, chat, raced, unaware, opened, switches>>
  BY DEF PauseStops, bounds
<1>3. transition.at = "stop" /\ transition \in Transition
  BY DEF PauseStops, IInv, Types
<1> HIDE DEF c
<1>4. /\ n \in Native /\ n.service = native[c].service /\ n.sync \notin Syncing
      /\ n.supervisor = native[c].supervisor /\ n.paused = native[c].paused
  BY <1>1, StopDoes
<1> HIDE DEF n
<1>5. /\ \A d \in Clients : native'[d] = IF d = c THEN n ELSE native[d]
      /\ native' \in [Clients -> Native]
  BY <1>1, <1>2, <1>4 DEF IInv, Types
<1>6. transition' \in Transition /\ transition'.at = "none"
  BY <1>2 DEF Transition, Idle
<1>7. Types' /\ Queued' /\ ConnectorInv'
  BY <1>2, <1>5, <1>6 DEF IInv, Types, Queued, ConnectorInv
<1>8. ASSUME NEW d \in Clients PROVE ClientInv(d)'
  <2>1. ClientInv(d) /\ ~Resuming(d)' /\ opened \in Nat
    BY <1>6 DEF IInv, Types, Resuming
  <2>2. CASE d # c
    BY <1>2, <1>5, <2>1, <2>2 DEF ClientInv
  <2>3. CASE d = c
    BY <1>1, <1>2, <1>4, <1>5, <2>1, <2>3 DEF ClientInv
  <2> QED BY <2>2, <2>3
<1>9. PausedStaysStopped'
  <2> SUFFICES ASSUME NEW d \in Clients, d # c, d \notin raced, native[d].paused,
                      native[d].service = "installed"
               PROVE  native[d].sync \notin Syncing
    BY <1>2, <1>4, <1>5 DEF PausedStaysStopped
  <2>1. transition # [at |-> "stop", client |-> d]
    BY DEF c
  <2> QED BY <2>1 DEF IInv, PausedStaysStopped
<1>10. OnlyCurrentSyncs'
  BY <1>2, <1>4, <1>5 DEF IInv, OnlyCurrentSyncs
<1> QED BY <1>7, <1>8, <1>9, <1>10 DEF IInv

LEMMA ResumeBeginsStep == IInv /\ ResumeBegins => IInv'
<1> SUFFICES ASSUME IInv, ResumeBegins PROVE IInv'
  OBVIOUS
<1> DEFINE c == Connected
<1>1. Queued'
  BY TurnQueued DEF ResumeBegins
<1>2. /\ transition = Idle
      /\ UNCHANGED <<app, paused, chat, raced, opened>> /\ unaware' \in BOOLEAN
  BY DEF ResumeBegins, Turn, Missed, bounds
<1>3. CASE c = NoClient
  <2>1. transition' = [at |-> "refresh", client |-> NoClient] /\ UNCHANGED native
    BY <1>3 DEF ResumeBegins
  <2>2. transition' \in Transition /\ transition'.at = "refresh" /\ transition.at = "none"
    BY <1>2, <2>1 DEF Transition, Idle
  <2> QED BY <1>1, <1>2, <2>1, <2>2, ClientsAlone DEF IInv, Types, ConnectorInv
<1>4. CASE c # NoClient
  <2> DEFINE n == Resume(native[c])
  <2>1. c \in Clients /\ c \in 1 .. opened /\ native[c] \in Native
    BY <1>4, ConnectedIs DEF IInv, Types, NoClient
  <2>2. /\ native' = [native EXCEPT ![c] = n]
        /\ transition' = IF native[c].session = "active" /\ native[c].service = "installed"
                         THEN [at |-> "start", client |-> c] ELSE Idle
    BY <1>4 DEF ResumeBegins
  <2> HIDE DEF c
  <2>3. /\ n \in Native /\ n.service = native[c].service /\ n.sync = native[c].sync
        /\ n.supervisor = native[c].supervisor /\ ~n.paused
    BY <2>1 DEF Native, Resume
  <2> HIDE DEF n
  <2>4. /\ \A d \in Clients : native'[d] = IF d = c THEN n ELSE native[d]
        /\ native' \in [Clients -> Native]
    BY <2>1, <2>2, <2>3 DEF IInv, Types
  <2>5. transition' \in Transition /\ transition'.at \in {"start", "none"}
    BY <2>1, <2>2 DEF Transition, Idle
  <2>6. Types' /\ ConnectorInv'
    BY <1>2, <2>1, <2>2, <2>4, <2>5 DEF IInv, Types, ConnectorInv, Idle
  <2>7. ASSUME NEW d \in Clients PROVE ClientInv(d)'
    <3>1. ClientInv(d) /\ opened \in Nat
      BY DEF IInv, Types
    <3>2. Resuming(d)' => d = c /\ native[c].service = "installed"
      BY <2>2 DEF Resuming, Idle
    <3>3. CASE d # c
      BY <1>2, <2>4, <3>1, <3>2, <3>3 DEF ClientInv
    <3>4. CASE d = c
      BY <1>2, <2>1, <2>3, <2>4, <3>1, <3>2, <3>4 DEF ClientInv
    <3> QED BY <3>3, <3>4
  <2>8. PausedStaysStopped'
    BY <1>2, <2>3, <2>4 DEF IInv, PausedStaysStopped, Idle
  <2>9. OnlyCurrentSyncs'
    BY <1>2, <2>3, <2>4 DEF IInv, OnlyCurrentSyncs
  <2> QED BY <1>1, <2>6, <2>7, <2>8, <2>9 DEF IInv
<1> QED BY <1>3, <1>4

LEMMA ResumeStartsStep == IInv /\ ResumeStarts => IInv'
<1> SUFFICES ASSUME IInv, ResumeStarts PROVE IInv'
  OBVIOUS
<1> DEFINE c == transition.client
           n == StartService(native[c])
<1>1. c \in 1 .. opened /\ c \in Clients /\ native[c] \in Native
  BY DEF IInv, Types, ConnectorInv, ResumeStarts, Clients
<1>2. /\ native' = [native EXCEPT ![c] = n]
      /\ transition' = [at |-> "refresh", client |-> NoClient]
      /\ raced \subseteq raced' /\ raced' \subseteq Clients
      /\ UNCHANGED <<app, paused, pending, chat, unaware, opened, switches>>
  BY <1>1 DEF ResumeStarts, bounds, IInv, Types
<1>3. Resuming(c)
  BY DEF ResumeStarts, Resuming, IInv, Types, Transition
<1> HIDE DEF c
<1>4. /\ n \in Native /\ n.service = native[c].service
      /\ n.supervisor = native[c].supervisor /\ n.paused = native[c].paused
  BY <1>1, StartDoes
<1> HIDE DEF n
<1>5. /\ \A d \in Clients : native'[d] = IF d = c THEN n ELSE native[d]
      /\ native' \in [Clients -> Native]
  BY <1>1, <1>2, <1>4 DEF IInv, Types
<1>6. transition' \in Transition /\ transition'.at = "refresh"
  BY <1>2 DEF Transition
<1>7. Types' /\ Queued' /\ ConnectorInv'
  BY <1>2, <1>5, <1>6 DEF IInv, Types, Queued, ConnectorInv
<1>8. ASSUME NEW d \in Clients PROVE ClientInv(d)'
  <2>1. ClientInv(d) /\ ~Resuming(d)' /\ opened \in Nat
    BY <1>6 DEF IInv, Types, Resuming
  <2>2. CASE d # c
    BY <1>2, <1>5, <2>1, <2>2 DEF ClientInv
  <2>3. CASE d = c
    BY <1>1, <1>2, <1>4, <1>5, <2>1, <2>3 DEF ClientInv
  <2> QED BY <2>2, <2>3
\* The client that starts is not paused and, unless it was overtaken, not given up.
<1>9. ClientInv(c) /\ ~native[c].paused /\ (c \notin raced => c = chat.client)
  BY <1>1, <1>3 DEF IInv, ClientInv
<1>10. PausedStaysStopped'
  <2> SUFFICES ASSUME NEW d \in Clients, d # c, d \notin raced, native[d].paused,
                      native[d].service = "installed"
               PROVE  native[d].sync \notin Syncing
    BY <1>2, <1>4, <1>5, <1>9 DEF PausedStaysStopped
  <2>1. transition # [at |-> "stop", client |-> d]
    BY <1>3 DEF Resuming
  <2> QED BY <2>1 DEF IInv, PausedStaysStopped
<1>11. OnlyCurrentSyncs'
  BY <1>2, <1>5, <1>9 DEF IInv, OnlyCurrentSyncs
<1> QED BY <1>7, <1>8, <1>10, <1>11 DEF IInv

-----------------------------------------------------------------------------
(* The connector's steps on a client.                                          *)

LEMMA OpensStep == IInv /\ Opens => IInv'
<1> SUFFICES ASSUME IInv, Opens PROVE IInv'
  OBVIOUS
<1> DEFINE c == opened + 1
           n == SetSession(native[c], "active")
<1>1. c \in Clients /\ opened \in Nat
  BY DEF Opens, IInv, Types, Clients
<1>2. native[c] = NewClient /\ native[c] \in Native
  BY <1>1 DEF IInv, ClientInv, Types
<1>3. /\ native' = [native EXCEPT ![c] = n] /\ opened' = c
      /\ chat.at = "account" /\ chat.client = NoClient
      /\ chat' = [chat EXCEPT !.client = c, !.at = "sync"]
      /\ UNCHANGED <<app, paused, pending, transition, raced, switches>>
      /\ unaware' \in BOOLEAN
  BY DEF Opens
<1>4. /\ n \in Native /\ n.service = "none" /\ n.sync = "idle"
      /\ n.supervisor = "none" /\ ~n.paused
  BY <1>2, SetSessionDoes DEF NewClient, Sessions
<1> HIDE DEF n
<1>5. /\ \A d \in Clients : native'[d] = IF d = c THEN n ELSE native[d]
      /\ native' \in [Clients -> Native]
  BY <1>1, <1>3, <1>4 DEF IInv, Types
<1>6. /\ chat' \in Chat /\ chat'.client = c /\ chat'.at = "sync"
      /\ chat'.old = chat.old /\ chat'.syncing = chat.syncing
  BY <1>1, <1>3 DEF IInv, Types, Chat
<1>7. Types' /\ Queued'
  BY <1>1, <1>3, <1>5, <1>6 DEF IInv, Types, Queued, Clients
<1>8. ~chat.syncing /\ chat.old = NoClient
  BY <1>3 DEF IInv, ConnectorInv
<1>9. ConnectorInv'
  BY <1>1, <1>3, <1>6, <1>8 DEF IInv, ConnectorInv, NoClient
<1>10. ASSUME NEW d \in Clients PROVE ClientInv(d)'
  <2>1. ClientInv(d) /\ d \in Nat /\ chat.client # d
    BY <1>3 DEF IInv, Clients, NoClient
  <2>2. CASE d # c
    BY <1>1, <1>3, <1>5, <1>6, <2>1, <2>2 DEF ClientInv, Resuming
  <2>3. CASE d = c
    <3>1. ~Resuming(d)
      BY <1>1, <2>3 DEF IInv, ConnectorInv, Resuming
    <3> QED BY <1>1, <1>3, <1>4, <1>5, <1>6, <1>8, <2>3, <3>1 DEF ClientInv, Resuming
  <2> QED BY <2>2, <2>3
<1>11. PausedStaysStopped'
  BY <1>3, <1>4, <1>5 DEF IInv, PausedStaysStopped
<1>12. OnlyCurrentSyncs'
  BY <1>3, <1>5, <1>6, <1>8 DEF IInv, OnlyCurrentSyncs, Clients, NoClient
<1> QED BY <1>7, <1>9, <1>10, <1>11, <1>12 DEF IInv

\* A renewal changes the session of the client and ends the call or goes on.
LEMMA RenewsStep == IInv /\ Renews => IInv'
<1> SUFFICES ASSUME IInv, Renews PROVE IInv'
  OBVIOUS
<1> DEFINE c == chat.client
           n == SetSession(native[c], "active")
<1>1. c \in Clients /\ native[c] \in Native
  BY DEF Renews, IInv, Types, Chat
<1>2. /\ native' = [native EXCEPT ![c] = n]
      /\ UNCHANGED <<app, paused, pending, raced, unaware, opened, switches>>
  BY DEF Renews, bounds
<1>3. /\ n \in Native /\ n.service = native[c].service /\ n.sync = native[c].sync
      /\ n.supervisor = native[c].supervisor /\ n.paused = native[c].paused
  BY <1>1, SetSessionDoes DEF Sessions
<1> HIDE DEF n
<1>4. /\ transition' \in Transition
      /\ transition'.at = "renewal" => chat'.at # "none"
      /\ \/ transition' = transition
         \/ transition.at = "renewal" /\ transition'.at = "none"
  BY AwaitedDoes DEF Renews
<1>5. /\ chat.at \in {"account", "refresh"} /\ chat' \in Chat /\ chat'.at \in {"sync", "none"}
      /\ chat'.client = c /\ chat'.old = chat.old /\ chat'.syncing = chat.syncing
      /\ c # NoClient
  BY DEF Renews, ToPhase, IInv, Types, Chat
<1> HIDE DEF c
<1>6. /\ \A d \in Clients : native'[d] = IF d = c THEN n ELSE native[d]
      /\ native' \in [Clients -> Native]
  BY <1>1, <1>2, <1>3 DEF IInv, Types
<1>7. Types' /\ Queued'
  BY <1>2, <1>4, <1>5, <1>6 DEF IInv, Types, Queued
<1>8. chat.client = c /\ c \in 1 .. opened /\ opened \in Nat
  BY <1>5 DEF c, IInv, Types, ConnectorInv, NoClient
<1>9. ConnectorInv'
  BY <1>2, <1>4, <1>5, <1>8 DEF IInv, ConnectorInv
<1>10. ASSUME NEW d \in Clients PROVE ClientInv(d)'
  <2>1. ClientInv(d) /\ (Resuming(d)' => Resuming(d))
    BY <1>4 DEF IInv, Resuming
  <2> QED BY <1>2, <1>3, <1>5, <1>6, <1>8, <2>1 DEF ClientInv
<1>11. PausedStaysStopped'
  <2> SUFFICES ASSUME NEW d \in Clients, d \notin raced, native[d].paused,
                      native[d].service = "installed",
                      transition' # [at |-> "stop", client |-> d]
               PROVE  native[d].sync \notin Syncing
    BY <1>2, <1>3, <1>6 DEF PausedStaysStopped
  <2>1. transition # [at |-> "stop", client |-> d]
    BY <1>4
  <2> QED BY <2>1 DEF IInv, PausedStaysStopped
<1>12. OnlyCurrentSyncs'
  BY <1>2, <1>3, <1>5, <1>6, <1>8 DEF IInv, OnlyCurrentSyncs
<1> QED BY <1>7, <1>9, <1>10, <1>11, <1>12 DEF IInv

LEMMA SyncStartsStep == IInv /\ SyncStarts => IInv'
<1> SUFFICES ASSUME IInv, SyncStarts PROVE IInv'
  OBVIOUS
<1> DEFINE c == chat.client
           n == StartService(native[c])
<1>1. c \in Clients /\ native[c] \in Native /\ c \in 1 .. opened /\ opened \in Nat
  BY DEF SyncStarts, IInv, Types, ConnectorInv, Chat, NoClient
<1>2. /\ native' = [native EXCEPT ![c] = n]
      /\ chat' = [chat EXCEPT !.at = "supervise"] /\ chat.at = "sync" /\ ~chat.syncing
      /\ UNCHANGED <<app, paused, pending, transition, raced, unaware, opened, switches>>
  BY DEF SyncStarts, bounds
<1>3. /\ n \in Native /\ n.service = native[c].service
      /\ n.supervisor = native[c].supervisor /\ n.paused = native[c].paused
  BY <1>1, StartDoes
<1> HIDE DEF n
<1>4. /\ chat' \in Chat /\ chat'.at = "supervise" /\ chat'.client = c
      /\ chat'.old = chat.old /\ chat'.syncing = chat.syncing
  BY <1>2 DEF IInv, Types, Chat
<1>5. /\ \A d \in Clients : native'[d] = IF d = c THEN n ELSE native[d]
      /\ native' \in [Clients -> Native]
  BY <1>1, <1>2, <1>3 DEF IInv, Types
<1>6. Types' /\ Queued'
  BY <1>2, <1>4, <1>5 DEF IInv, Types, Queued
<1>7. ConnectorInv'
  BY <1>1, <1>2, <1>4 DEF IInv, ConnectorInv, NoClient
<1>8. ASSUME NEW d \in Clients PROVE ClientInv(d)'
  <2>1. ClientInv(d)
    BY DEF IInv
  <2> QED BY <1>1, <1>2, <1>3, <1>4, <1>5, <2>1 DEF ClientInv, Resuming
<1>9. ClientInv(c) /\ native[c].service = "none"
  BY <1>1, <1>2 DEF IInv, ClientInv
<1>10. PausedStaysStopped'
  BY <1>2, <1>3, <1>5, <1>9 DEF IInv, PausedStaysStopped
<1>11. OnlyCurrentSyncs'
  BY <1>2, <1>4, <1>5 DEF IInv, OnlyCurrentSyncs
<1> QED BY <1>6, <1>7, <1>8, <1>10, <1>11 DEF IInv

LEMMA SyncStartedStep == IInv /\ SyncStarted => IInv'
<1> SUFFICES ASSUME IInv, SyncStarted PROVE IInv'
  OBVIOUS
<1> DEFINE c == chat.client
           n == [native[c] EXCEPT !.supervisor = "spawned", !.service = "installed"]
<1>1. c \in Clients /\ native[c] \in Native /\ c \in 1 .. opened /\ opened \in Nat
  BY DEF SyncStarted, IInv, Types, ConnectorInv, Chat, NoClient
<1>2. /\ native' = [native EXCEPT ![c] = n]
      /\ chat' = [chat EXCEPT !.phase = "connected", !.syncing = TRUE, !.at = "none"]
      /\ chat.at = "supervise"
      /\ UNCHANGED <<app, paused, pending, raced, unaware, opened, switches>>
  BY DEF SyncStarted, bounds
<1>3. /\ n \in Native /\ n.service = "installed" /\ n.supervisor = "spawned"
      /\ n.paused = native[c].paused /\ n.sync = native[c].sync
  BY <1>1 DEF Native
<1> HIDE DEF n
<1>4. /\ chat' \in Chat /\ chat'.at = "none" /\ chat'.client = c
      /\ chat'.old = chat.old /\ chat'.syncing
  BY <1>2 DEF IInv, Types, Chat
<1>5. /\ \A d \in Clients : native'[d] = IF d = c THEN n ELSE native[d]
      /\ native' \in [Clients -> Native]
  BY <1>1, <1>2, <1>3 DEF IInv, Types
<1>12. /\ transition' \in Transition
       /\ transition'.at = "renewal" => chat'.at # "none"
       /\ \/ transition' = transition
          \/ transition.at = "renewal" /\ transition'.at = "none"
  BY AwaitedDoes DEF SyncStarted
<1>6. Types' /\ Queued'
  BY <1>2, <1>4, <1>5, <1>12 DEF IInv, Types, Queued
<1>7. ConnectorInv'
  BY <1>1, <1>2, <1>4, <1>12 DEF IInv, ConnectorInv, NoClient
<1>8. ASSUME NEW d \in Clients PROVE ClientInv(d)'
  <2>1. ClientInv(d) /\ (Resuming(d)' => Resuming(d))
    BY <1>12 DEF IInv, Resuming
  <2> QED BY <1>1, <1>2, <1>3, <1>4, <1>5, <2>1 DEF ClientInv
\* A client that was paused before it had a service was overtaken.
<1>9. native[c].paused => c \in raced
  BY <1>1, <1>2 DEF IInv, ClientInv, ConnectorInv
<1>10. PausedStaysStopped'
  <2> SUFFICES ASSUME NEW d \in Clients, d # c, d \notin raced, native[d].paused,
                      native[d].service = "installed",
                      transition' # [at |-> "stop", client |-> d]
               PROVE  native[d].sync \notin Syncing
    BY <1>2, <1>3, <1>5, <1>9 DEF PausedStaysStopped
  <2>1. transition # [at |-> "stop", client |-> d]
    BY <1>12
  <2> QED BY <2>1 DEF IInv, PausedStaysStopped
<1>11. OnlyCurrentSyncs'
  BY <1>2, <1>4, <1>5 DEF IInv, OnlyCurrentSyncs
<1> QED BY <1>6, <1>7, <1>8, <1>10, <1>11 DEF IInv

LEMMA CloseStep == IInv /\ Close => IInv'
<1> SUFFICES ASSUME IInv, Close PROVE IInv'
  OBVIOUS
<1> DEFINE c == chat.client
           n == Shutdown(native[c])
<1>1. c \in Clients /\ native[c] \in Native /\ c \in 1 .. opened /\ opened \in Nat
  BY DEF Close, IInv, Types, ConnectorInv, Chat, NoClient
<1>2. /\ native' = [native EXCEPT ![c] = n]
      /\ raced' = raced \cup {d \in {c} : Starting(d)}
      /\ chat.at \in {"none", "account", "refresh"}
      /\ UNCHANGED <<app, paused, pending, transition, opened, switches>>
      /\ unaware' \in BOOLEAN
  BY DEF Close
<1>3. PICK at \in {"shutdown", "replace"} :
        chat' = [phase |-> chat.phase, client |-> NoClient, syncing |-> FALSE,
                 at |-> at, old |-> c]
  BY DEF Close
<1>4. /\ n \in Native /\ n.service = "taken" /\ n.sync = native[c].sync
      /\ n.paused = native[c].paused
      /\ n.supervisor \in {"none", "stopping", "restart"}
      /\ n.supervisor = "restart" => native[c].supervisor = "restart"
  BY <1>1 DEF Native, Shutdown
<1> HIDE DEF n
<1>5. /\ chat' \in Chat /\ chat'.at = at /\ chat'.client = NoClient
      /\ chat'.old = c /\ ~chat'.syncing /\ c # NoClient
  BY <1>1, <1>3 DEF IInv, Types, Chat, Clients, NoClient
<1> HIDE DEF c
<1>6. /\ \A d \in Clients : native'[d] = IF d = c THEN n ELSE native[d]
      /\ native' \in [Clients -> Native]
      /\ raced' \subseteq Clients /\ raced \subseteq raced'
  BY <1>1, <1>2, <1>4 DEF IInv, Types
<1>7. Types' /\ Queued'
  BY <1>2, <1>3, <1>5, <1>6 DEF IInv, Types, Queued
<1>8. ConnectorInv'
  BY <1>1, <1>2, <1>3, <1>5 DEF IInv, ConnectorInv, NoClient
<1>9. chat.client = c
  BY DEF c
<1>10. ASSUME NEW d \in Clients PROVE ClientInv(d)'
  <2>1. ClientInv(d) /\ (Resuming(d)' => Resuming(d)) /\ d # NoClient
    BY <1>2 DEF IInv, Resuming, Clients, NoClient
  <2>2. CASE d # c
    BY <1>2, <1>5, <1>6, <1>9, <2>1, <2>2 DEF ClientInv
  <2>3. CASE d = c
    BY <1>1, <1>2, <1>4, <1>5, <1>6, <1>9, <2>1, <2>3 DEF ClientInv, Starting
  <2> QED BY <2>2, <2>3
<1>11. PausedStaysStopped'
  <2> SUFFICES ASSUME NEW d \in Clients, d # c, d \notin raced, native[d].paused,
                      native[d].service = "installed",
                      transition # [at |-> "stop", client |-> d]
               PROVE  native[d].sync \notin Syncing
    BY <1>2, <1>4, <1>6 DEF PausedStaysStopped
  <2> QED BY DEF IInv, PausedStaysStopped
<1>12. chat.old = NoClient
  BY <1>2 DEF IInv, ConnectorInv
<1>13. OnlyCurrentSyncs'
  BY <1>4, <1>5, <1>6, <1>9, <1>12 DEF IInv, OnlyCurrentSyncs, Clients, NoClient
<1> QED BY <1>7, <1>8, <1>10, <1>11, <1>13 DEF IInv

LEMMA ClosedStep == IInv /\ Closed => IInv'
<1> SUFFICES ASSUME IInv, Closed PROVE IInv'
  OBVIOUS
<1> DEFINE c == chat.old
           n == StopService(native[c])
<1>1. c \in Clients /\ native[c] \in Native /\ c \in 1 .. opened /\ opened \in Nat
  BY DEF Closed, IInv, Types, ConnectorInv, Chat, NoClient
<1>2. /\ native' = [native EXCEPT ![c] = n]
      /\ chat.at \in {"shutdown", "replace"}
      /\ UNCHANGED <<app, paused, pending, raced, unaware, opened, switches>>
  BY DEF Closed, bounds
<1>3. chat.client = NoClient /\ ~chat.syncing
  BY <1>2 DEF IInv, ConnectorInv
<1>4. /\ n \in Native /\ n.service = native[c].service /\ n.sync \notin Syncing
      /\ n.supervisor = native[c].supervisor /\ n.paused = native[c].paused
  BY <1>1, StopDoes
<1> HIDE DEF n
<1>5. /\ chat' \in Chat /\ chat'.at \in {"none", "account"} /\ chat'.client = NoClient
      /\ chat'.old = NoClient /\ chat'.syncing = chat.syncing
  BY <1>3 DEF Closed, IInv, Types, Chat
<1>12. /\ transition' \in Transition
       /\ transition'.at = "renewal" => chat'.at # "none"
       /\ \/ transition' = transition
          \/ transition.at = "renewal" /\ transition'.at = "none"
  BY AwaitedDoes DEF Closed
<1> HIDE DEF c
<1>6. /\ \A d \in Clients : native'[d] = IF d = c THEN n ELSE native[d]
      /\ native' \in [Clients -> Native]
  BY <1>1, <1>2, <1>4 DEF IInv, Types
<1>7. Types' /\ Queued'
  BY <1>2, <1>5, <1>6, <1>12 DEF IInv, Types, Queued
<1>8. ConnectorInv'
  BY <1>1, <1>2, <1>3, <1>5, <1>12 DEF IInv, ConnectorInv, NoClient
<1>9. ASSUME NEW d \in Clients PROVE ClientInv(d)'
  <2>1. ClientInv(d) /\ (Resuming(d)' => Resuming(d))
    BY <1>12 DEF IInv, Resuming
  <2> QED BY <1>1, <1>2, <1>3, <1>4, <1>5, <1>6, <2>1 DEF ClientInv
<1>10. PausedStaysStopped'
  <2> SUFFICES ASSUME NEW d \in Clients, d \notin raced, native[d].paused,
                      native[d].service = "installed",
                      transition' # [at |-> "stop", client |-> d]
               PROVE  native[d].sync \notin Syncing
    BY <1>2, <1>4, <1>6 DEF PausedStaysStopped
  <2>1. transition # [at |-> "stop", client |-> d]
    BY <1>12
  <2> QED BY <2>1 DEF IInv, PausedStaysStopped
<1>11. OnlyCurrentSyncs'
  <2> SUFFICES ASSUME NEW d \in Clients, d # c, d \notin raced
               PROVE  native[d].sync \notin Syncing
    BY <1>2, <1>4, <1>6 DEF OnlyCurrentSyncs
  <2>1. d # chat.client /\ d # chat.old
    BY <1>3 DEF c, Clients, NoClient
  <2> QED BY <2>1 DEF IInv, OnlyCurrentSyncs
<1> QED BY <1>7, <1>8, <1>9, <1>10, <1>11 DEF IInv

-----------------------------------------------------------------------------
(* The theorems.                                                               *)

LEMMA InitInv == Init => IInv
<1> SUFFICES ASSUME Init PROVE IInv
  OBVIOUS
<1>1. Types
  <2>1. transition \in Transition /\ chat \in Chat
    BY DEF Init, Transition, Idle, Chat
  <2>2. native \in [Clients -> Native]
    BY NewClientType DEF Init
  <2>3. opened \in 0 .. MaxClients /\ raced \in SUBSET Clients
    BY DEF Init
  <2>4. app \in {"front", "back"} /\ paused \in BOOLEAN /\ unaware \in BOOLEAN
    BY DEF Init
  <2> QED BY <2>1, <2>2, <2>3, <2>4 DEF Types
<1>2. Queued
  BY DEF Init, Queued
<1>3. ConnectorInv
  BY DEF Init, ConnectorInv, Idle, NoClient
<1>4. ASSUME NEW c \in Clients PROVE ClientInv(c)
  BY DEF Init, ClientInv, Clients, Resuming, Idle, NewClient
<1>5. PausedStaysStopped /\ OnlyCurrentSyncs
  BY DEF Init, PausedStaysStopped, OnlyCurrentSyncs, NewClient, Syncing
<1> QED BY <1>1, <1>2, <1>3, <1>4, <1>5 DEF IInv

LEMMA NextInv == IInv /\ [Next]_vars => IInv'
<1> SUFFICES ASSUME IInv, [Next]_vars PROVE IInv'
  OBVIOUS
<1>1. CASE Background \/ Foreground \/ Connect \/ Refresh \/ Close
  BY <1>1, BackgroundStep, ForegroundStep, ConnectStep, RefreshStep, CloseStep
<1>2. CASE Lifecycle
  BY <1>2, PauseBeginsStep, PauseStopsStep, ResumeBeginsStep, ResumeStartsStep,
     ResumeRefreshesStep DEF Lifecycle
<1>3. CASE Connector
  BY <1>3, OpensStep, RenewsStep, FreshStep, CallFailsStep, AlreadySyncsStep,
     SyncStartsStep, SyncStartedStep, ClosedStep DEF Connector
<1>4. ASSUME NEW c \in Clients, Supervise(c) PROVE IInv'
  BY <1>4, SubscribesStep, SeesSyncStep, SeesSessionStep, StopsEndedStep, RetriesStep,
     RestartsStep DEF Supervise
<1>5. ASSUME NEW c \in Clients, Environment(c) PROVE IInv'
  BY <1>5, GoesOfflineStep, SyncFailsStep, SessionEndsStep, AccountLockedStep
     DEF Environment
<1>6. CASE UNCHANGED vars
  <2>1. Types' /\ Queued' /\ ConnectorInv'
    BY <1>6 DEF IInv, vars, core, bounds, Types, Queued, ConnectorInv
  <2> QED BY <1>6, <2>1, ClientsAlone DEF IInv, vars, core, bounds
<1> QED BY <1>1, <1>2, <1>3, <1>4, <1>5, <1>6 DEF Next

LEMMA Inductive == Spec => []IInv
BY InitInv, NextInv, PTL DEF Spec

\* Every variable keeps its type, whatever the numbers of clients, moves and
\* troubles; the queue of transitions is as short as the app's moves allow.
THEOREM TypeCorrect == Spec => []TypeOK
<1>1. IInv => TypeOK
  <2> SUFFICES ASSUME IInv PROVE TypeOK
    OBVIOUS
  <2>1. pending \in Seq({"pause", "resume"}) /\ Len(pending) <= 2 * MaxSwitches
    BY DEF IInv, Queued
  <2> QED BY <2>1 DEF IInv, Types, Transition, Chat, Native, ConnectorInv, TypeOK
<1> QED BY <1>1, Inductive, PTL

\* A client that was paused does not sync until it is resumed, unless its
\* supervisor or a resume had read the flag before (lifecycle.rs: pause).
THEOREM PausedStopped == Spec => []PausedStaysStopped
<1>1. IInv => PausedStaysStopped
  BY DEF IInv
<1> QED BY <1>1, Inductive, PTL

\* Only the connector's client syncs: no client that was given up does, unless
\* a start was under way when it was (client.rs: shutdown).
THEOREM CurrentSyncs == Spec => []OnlyCurrentSyncs
<1>1. IInv => OnlyCurrentSyncs
  BY DEF IInv
<1> QED BY <1>1, Inductive, PTL


-----------------------------------------------------------------------------
(* The client follows the app. Two more invariants: Told relates the flag of   *)
(* the connector's client to the last move of the app, through the queue;      *)
(* Awake says that without an ended session only a pause stops a client.       *)

Told ==
    /\ app = IF paused THEN "back" ELSE "front"
    /\ pending # <<>> => pending[Len(pending)] = IF paused THEN "pause" ELSE "resume"
    /\ pending = <<>> /\ chat.client # NoClient /\ ~unaware =>
         native[chat.client].paused = paused

Well(n) == n.session = "active" /\ n.sync # "refused" /\ n.supervisor # "stopping"

ClientAwake(c) ==
    /\ c <= opened => Well(native[c])
    /\ c = chat.client /\ c \notin raced /\ native[c].sync = "stopped" =>
         native[c].paused \/ Resuming(c)

Awake ==
    /\ ends \in Nat
    /\ transition.at = "stop" => native[transition.client].paused
    /\ ends = 0 => \A c \in Clients : ClientAwake(c)

FollowInv == Told /\ Awake

\* A step leaves the flag of c alone, and does not stop the connector's client.
Stays(c) ==
    /\ native'[c].paused = native[c].paused
    /\ Well(native[c]) =>
         /\ Well(native'[c])
         /\ native'[c].sync = "stopped" => native[c].sync = "stopped" \/ c # chat'.client

LEMMA OneStays ==
  ASSUME IInv, NEW c \in Clients, NEW n, native' = [native EXCEPT ![c] = n],
         n.paused = native[c].paused,
         Well(native[c]) =>
           Well(n) /\ (n.sync = "stopped" => native[c].sync = "stopped" \/ c # chat'.client)
  PROVE  \A d \in Clients : Stays(d)
BY DEF Stays, IInv, Types

LEMMA AllStay == UNCHANGED native => \A d \in Clients : Stays(d)
BY DEF Stays

\* A step that changes neither the flags nor what the app and its transition are at.
LEMMA FollowKept ==
  ASSUME IInv, FollowInv, UNCHANGED <<app, paused, pending, opened, ends>>,
         raced \subseteq raced',
         \/ chat'.client = chat.client /\ unaware' = unaware
         \/ chat'.client = NoClient,
         \/ transition' = transition
         \/ /\ transition.at \notin {"stop", "start"}
            /\ transition'.at \notin {"stop", "start"},
         \A c \in Clients : Stays(c)
  PROVE  FollowInv'
<1>1. Told'
  <2> SUFFICES ASSUME pending = <<>>, chat'.client # NoClient, ~unaware'
               PROVE  native'[chat'.client].paused = paused
    BY DEF FollowInv, Told
  <2>1. chat'.client = chat.client /\ unaware' = unaware /\ chat.client \in Clients
    BY DEF IInv, Types, Chat
  <2> QED BY <2>1 DEF FollowInv, Told, Stays
<1>2. (transition.at = "stop" => native[transition.client].paused)'
  <2> SUFFICES ASSUME transition'.at = "stop" PROVE native'[transition'.client].paused
    OBVIOUS
  <2>1. transition' = transition
    OBVIOUS
  <2>2. transition.client \in Clients
    BY <2>1 DEF IInv, ConnectorInv, Types, Clients
  <2> QED BY <2>1, <2>2 DEF FollowInv, Awake, Stays
<1>3. ASSUME ends = 0, NEW c \in Clients PROVE ClientAwake(c)'
  <2>1. ClientAwake(c) /\ Stays(c) /\ c # NoClient
    BY <1>3 DEF FollowInv, Awake, Clients, NoClient
  <2>2. Resuming(c) => Resuming(c)'
    BY DEF Resuming
  <2>3. c = chat.client => c <= opened
    BY DEF IInv, ConnectorInv, Types
  <2> QED BY <2>1, <2>2, <2>3 DEF ClientAwake, Stays
<1> QED BY <1>1, <1>2, <1>3 DEF FollowInv, Awake

LEMMA SwitchFollows == IInv /\ FollowInv /\ (Background \/ Foreground) => FollowInv'
<1> SUFFICES ASSUME IInv, FollowInv, Background \/ Foreground PROVE FollowInv'
  OBVIOUS
<1>1. pending \in Seq({"pause", "resume"}) /\ paused \in BOOLEAN
  BY DEF IInv, Queued, Types
<1>2. UNCHANGED <<transition, chat, native, raced, unaware, opened, ends>>
  BY DEF Background, Foreground, bounds
<1>3. Awake'
  BY <1>2 DEF FollowInv, Awake, ClientAwake, Well, Resuming
<1>4. CASE Background
  <2>1. app' = "back" /\ paused' = TRUE
    BY <1>4 DEF Background
  <2>2. ASSUME paused PROVE Told'
    <3>1. pending' = pending /\ paused = TRUE
      BY <1>1, <1>4, <2>2 DEF Background
    <3> QED BY <1>2, <2>1, <3>1 DEF FollowInv, Told
  <2>3. ASSUME ~paused PROVE Told'
    <3>1. pending' # <<>> /\ pending'[Len(pending')] = "pause"
      BY <1>1, <1>4, <2>3 DEF Background
    <3> QED BY <2>1, <3>1 DEF Told
  <2>4. Told'
    BY <2>2, <2>3
  <2> QED BY <1>3, <2>4 DEF FollowInv
<1>5. CASE Foreground
  <2>1. app' = "front" /\ paused' = FALSE
    BY <1>5 DEF Foreground
  <2>2. ASSUME ~paused PROVE Told'
    <3>1. pending' = pending /\ paused = FALSE
      BY <1>1, <1>5, <2>2 DEF Foreground
    <3> QED BY <1>2, <2>1, <2>2, <3>1 DEF FollowInv, Told
  <2>3. ASSUME paused PROVE Told'
    <3>1. pending' # <<>> /\ pending'[Len(pending')] = "resume"
      BY <1>1, <1>5, <2>3 DEF Foreground
    <3> QED BY <2>1, <3>1 DEF Told
  <2>4. Told'
    BY <2>2, <2>3
  <2> QED BY <1>3, <2>4 DEF FollowInv
<1> QED BY <1>4, <1>5

LEMMA PauseFollows == IInv /\ FollowInv /\ PauseBegins => FollowInv'
<1> SUFFICES ASSUME IInv, FollowInv, PauseBegins PROVE FollowInv'
  OBVIOUS
<1> DEFINE c == Connected
<1>1. /\ UNCHANGED <<app, paused, chat, opened, ends>> /\ transition = Idle
      /\ pending \in Seq({"pause", "resume"}) /\ pending # <<>> /\ pending' = Tail(pending)
      /\ pending[1] = "pause" /\ paused \in BOOLEAN
  BY DEF PauseBegins, Turn, bounds, IInv, Queued, Types
<1>2. /\ unaware' = (c = NoClient /\ chat.client # NoClient)
      /\ chat.client # NoClient => c \in {NoClient, chat.client}
  BY DEF PauseBegins, Missed, Connected, IInv, ConnectorInv
<1> DEFINE n == [native[c] EXCEPT !.paused = TRUE]
<1>3. ASSUME c # NoClient
      PROVE  /\ c \in Clients /\ native' = [native EXCEPT ![c] = n]
             /\ raced \subseteq raced'
             /\ transition' \in {[at |-> "stop", client |-> c], Idle}
  BY <1>3, ConnectedIs DEF PauseBegins
<1>4. c = NoClient => UNCHANGED <<transition, native, raced>>
  BY DEF PauseBegins
<1> HIDE DEF c
<1>5. pending' = <<>> => pending[Len(pending)] = "pause"
  <2>1. Len(pending') = Len(pending) - 1 /\ Len(pending) \in Nat
    BY <1>1
  <2>2. pending' = <<>> => Len(pending) = 1
    BY <2>1
  <2> QED BY <1>1, <2>2
<1>6. pending' # <<>> => pending'[Len(pending')] = pending[Len(pending)]
  BY <1>1
<1>7. native \in [Clients -> Native]
  BY DEF IInv, Types
<1>10. ASSUME c # NoClient
       PROVE  /\ n.paused = TRUE /\ n.sync = native[c].sync
              /\ n.session = native[c].session /\ n.supervisor = native[c].supervisor
  BY <1>3, <1>7, <1>10 DEF Native
<1> HIDE DEF n
<1>8. Told'
  <2>1. app' = IF paused' THEN "back" ELSE "front"
    BY <1>1 DEF FollowInv, Told
  <2>2. ASSUME pending' # <<>>
        PROVE  pending'[Len(pending')] = IF paused' THEN "pause" ELSE "resume"
    BY <1>1, <1>6, <2>2 DEF FollowInv, Told
  <2>3. ASSUME pending' = <<>>, chat'.client # NoClient, ~unaware'
        PROVE  native'[chat'.client].paused = paused'
    <3>1. paused = TRUE
      BY <1>1, <1>5, <2>3 DEF FollowInv, Told
    <3>2. c # NoClient /\ c = chat.client
      BY <1>1, <1>2, <2>3
    <3> QED BY <1>1, <1>3, <1>7, <1>10, <3>1, <3>2
  <2> QED BY <2>1, <2>2, <2>3 DEF Told
<1>9. Awake'
  <2>1. CASE c = NoClient
    BY <1>1, <1>4, <2>1 DEF FollowInv, Awake, ClientAwake, Resuming
  <2>2. CASE c # NoClient
    <3>1. \A d \in Clients :
            /\ native'[d].sync = native[d].sync /\ Well(native[d]) = Well(native'[d])
            /\ d # c => native'[d] = native[d]
            /\ ~Resuming(d)
      BY <1>1, <1>3, <1>7, <1>10, <2>2 DEF Well, Resuming, Idle
    <3>4. native'[c].paused = TRUE
      BY <1>3, <1>7, <1>10, <2>2
    <3>2. (transition.at = "stop" => native[transition.client].paused)'
      BY <1>3, <2>2, <3>4 DEF Idle
    <3>3. (ends = 0 => \A d \in Clients : ClientAwake(d))'
      BY <1>1, <1>3, <2>2, <3>1, <3>4 DEF FollowInv, Awake, ClientAwake
    <3> QED BY <1>1, <3>2, <3>3 DEF FollowInv, Awake
  <2> QED BY <2>1, <2>2
<1> QED BY <1>8, <1>9 DEF FollowInv

LEMMA ResumeFollows == IInv /\ FollowInv /\ ResumeBegins => FollowInv'
<1> SUFFICES ASSUME IInv, FollowInv, ResumeBegins PROVE FollowInv'
  OBVIOUS
<1> DEFINE c == Connected
<1>1. /\ UNCHANGED <<app, paused, chat, opened, raced, ends>> /\ transition = Idle
      /\ pending \in Seq({"pause", "resume"}) /\ pending # <<>> /\ pending' = Tail(pending)
      /\ pending[1] = "resume" /\ paused \in BOOLEAN
  BY DEF ResumeBegins, Turn, bounds, IInv, Queued, Types
<1>2. /\ unaware' = (c = NoClient /\ chat.client # NoClient)
      /\ chat.client # NoClient => c \in {NoClient, chat.client}
  BY DEF ResumeBegins, Missed, Connected, IInv, ConnectorInv
<1> DEFINE n == Resume(native[c])
<1>3. ASSUME c # NoClient
      PROVE  /\ c \in Clients /\ native' = [native EXCEPT ![c] = n]
             /\ transition' =
                  IF native[c].session = "active" /\ native[c].service = "installed"
                  THEN [at |-> "start", client |-> c] ELSE Idle
  BY <1>3, ConnectedIs DEF ResumeBegins
<1>4. c = NoClient => transition'.at = "refresh" /\ UNCHANGED native
  BY DEF ResumeBegins
<1> HIDE DEF c
<1>5. pending' = <<>> => pending[Len(pending)] = "resume"
  <2>1. Len(pending') = Len(pending) - 1 /\ Len(pending) \in Nat
    BY <1>1
  <2>2. pending' = <<>> => Len(pending) = 1
    BY <2>1
  <2> QED BY <1>1, <2>2
<1>6. pending' # <<>> => pending'[Len(pending')] = pending[Len(pending)]
  BY <1>1
<1>7. native \in [Clients -> Native]
  BY DEF IInv, Types
<1>10. ASSUME c # NoClient
       PROVE  /\ n.paused = FALSE /\ n.sync = native[c].sync
              /\ n.session = native[c].session /\ n.supervisor = native[c].supervisor
  BY <1>3, <1>7, <1>10 DEF Native, Resume
<1> HIDE DEF n
<1>8. Told'
  <2>1. app' = IF paused' THEN "back" ELSE "front"
    BY <1>1 DEF FollowInv, Told
  <2>2. ASSUME pending' # <<>>
        PROVE  pending'[Len(pending')] = IF paused' THEN "pause" ELSE "resume"
    BY <1>1, <1>6, <2>2 DEF FollowInv, Told
  <2>3. ASSUME pending' = <<>>, chat'.client # NoClient, ~unaware'
        PROVE  native'[chat'.client].paused = paused'
    <3>1. paused = FALSE
      BY <1>1, <1>5, <2>3 DEF FollowInv, Told
    <3>2. c # NoClient /\ c = chat.client
      BY <1>1, <1>2, <2>3
    <3> QED BY <1>1, <1>3, <1>7, <1>10, <3>1, <3>2
  <2> QED BY <2>1, <2>2, <2>3 DEF Told
<1>9. Awake'
  <2>1. CASE c = NoClient
    BY <1>1, <1>4, <2>1 DEF FollowInv, Awake, ClientAwake, Resuming, Idle
  <2>2. CASE c # NoClient
    <3>1. \A d \in Clients :
            /\ native'[d].sync = native[d].sync /\ Well(native[d]) = Well(native'[d])
            /\ d # c => native'[d] = native[d]
            /\ ~Resuming(d)
      BY <1>1, <1>3, <1>7, <1>10, <2>2 DEF Well, Resuming, Idle
    <3>2. transition'.at # "stop"
      BY <1>3, <2>2 DEF Idle
    <3>3. ASSUME ends = 0, c = chat.client, c \notin raced, native[c].sync = "stopped"
          PROVE  transition' = [at |-> "start", client |-> c]
      <4>1. ClientAwake(c) /\ ClientInv(c) /\ c <= opened
        BY <1>3, <2>2, <3>3 DEF FollowInv, Awake, IInv, ConnectorInv, Types, Clients
      <4>2. native[c].session = "active" /\ native[c].service = "installed"
        BY <1>3, <2>2, <3>1, <3>3, <4>1 DEF ClientAwake, ClientInv, Well
      <4> QED BY <1>3, <2>2, <4>2
    <3>4. ASSUME ends = 0, NEW d \in Clients PROVE ClientAwake(d)'
      <4>1. ClientAwake(d)
        BY <3>4 DEF FollowInv, Awake
      <4>2. CASE d = c
        BY <1>1, <3>1, <3>3, <3>4, <4>1, <4>2 DEF ClientAwake, Resuming
      <4>3. CASE d # c
        BY <1>1, <3>1, <4>1, <4>3 DEF ClientAwake
      <4> QED BY <4>2, <4>3
    <3> QED BY <1>1, <3>2, <3>4 DEF FollowInv, Awake
  <2> QED BY <2>1, <2>2
<1> QED BY <1>8, <1>9 DEF FollowInv

LEMMA PauseStopFollows == IInv /\ FollowInv /\ PauseStops => FollowInv'
<1> SUFFICES ASSUME IInv, FollowInv, PauseStops PROVE FollowInv'
  OBVIOUS
<1> DEFINE c == transition.client
           n == StopService(native[c])
<1>1. /\ native' = [native EXCEPT ![c] = n] /\ transition' = Idle
      /\ UNCHANGED <<app, paused, pending, chat, raced, unaware, opened, ends>>
  BY DEF PauseStops, bounds
<1>2. /\ c \in Clients /\ native \in [Clients -> Native] /\ native[c].paused = TRUE
      /\ transition.at = "stop"
  BY DEF PauseStops, IInv, Types, ConnectorInv, Clients, FollowInv, Awake, Native
<1>3. n.paused = native[c].paused /\ (Well(native[c]) => Well(n))
  BY <1>2 DEF StopService, SetSync, Well, Native
<1> HIDE DEF n
<1>4. \A d \in Clients :
        /\ native'[d].paused = native[d].paused /\ (Well(native[d]) => Well(native'[d]))
        /\ d # c => native'[d] = native[d]
        /\ ~Resuming(d)
  BY <1>1, <1>2, <1>3 DEF Resuming
<1>5. Told'
  BY <1>1, <1>4 DEF FollowInv, Told, IInv, Types, Chat
<1>6. ASSUME ends = 0, NEW d \in Clients PROVE ClientAwake(d)'
  <2>1. ClientAwake(d)
    BY <1>6 DEF FollowInv, Awake
  <2>2. CASE d = c
    BY <1>1, <1>2, <1>4, <2>1, <2>2 DEF ClientAwake
  <2>3. CASE d # c
    BY <1>1, <1>4, <2>1, <2>3 DEF ClientAwake
  <2> QED BY <2>2, <2>3
<1> QED BY <1>1, <1>5, <1>6 DEF FollowInv, Awake, Idle

LEMMA ResumeStartFollows == IInv /\ FollowInv /\ ResumeStarts => FollowInv'
<1> SUFFICES ASSUME IInv, FollowInv, ResumeStarts PROVE FollowInv'
  OBVIOUS
<1> DEFINE c == transition.client
           n == StartService(native[c])
<1>1. /\ native' = [native EXCEPT ![c] = n] /\ transition'.at = "refresh"
      /\ raced \subseteq raced'
      /\ UNCHANGED <<app, paused, pending, chat, unaware, opened, ends>>
  BY DEF ResumeStarts, bounds
<1>2. /\ c \in Clients /\ native \in [Clients -> Native] /\ Resuming(c)
  BY DEF ResumeStarts, IInv, Types, ConnectorInv, Clients, Resuming, Transition
<1>3. /\ n.paused = native[c].paused /\ (Well(native[c]) => Well(n))
      /\ n.sync # "stopped"
  BY <1>2 DEF StartService, SetSync, Well, Native, Syncing
<1> HIDE DEF n
<1>4. \A d \in Clients :
        /\ native'[d].paused = native[d].paused /\ (Well(native[d]) => Well(native'[d]))
        /\ d # c => native'[d] = native[d] /\ ~Resuming(d)
  BY <1>1, <1>2, <1>3 DEF Resuming
<1>5. Told'
  BY <1>1, <1>4 DEF FollowInv, Told, IInv, Types, Chat
<1>6. ASSUME ends = 0, NEW d \in Clients PROVE ClientAwake(d)'
  <2>1. ClientAwake(d)
    BY <1>6 DEF FollowInv, Awake
  <2>2. CASE d = c
    BY <1>1, <1>2, <1>3, <1>4, <2>1, <2>2 DEF ClientAwake
  <2>3. CASE d # c
    BY <1>1, <1>4, <2>1, <2>3 DEF ClientAwake
  <2> QED BY <2>2, <2>3
<1> QED BY <1>1, <1>5, <1>6 DEF FollowInv, Awake

LEMMA OpenFollows == IInv /\ FollowInv /\ Opens => FollowInv'
<1> SUFFICES ASSUME IInv, FollowInv, Opens PROVE FollowInv'
  OBVIOUS
<1> DEFINE c == opened + 1
           n == SetSession(native[c], "active")
<1>1. c \in Clients /\ opened \in Nat /\ native \in [Clients -> Native]
  BY DEF Opens, IInv, Types, Clients
<1>2. native[c] = NewClient
  BY <1>1 DEF IInv, ClientInv
<1>3. /\ native' = [native EXCEPT ![c] = n] /\ opened' = c
      /\ chat.client = NoClient /\ chat'.client = c
      /\ unaware' = (app = "back" /\ pending = <<>>)
      /\ UNCHANGED <<app, paused, pending, transition, raced, ends>>
  BY DEF Opens, IInv, Types, Chat
<1>4. Well(n) /\ n.sync = "idle" /\ n.paused = FALSE
  BY <1>2 DEF NewClient, SetSession, Well
<1> HIDE DEF n
<1>5. \A d \in Clients : native'[d] = IF d = c THEN n ELSE native[d]
  BY <1>1, <1>3
<1>6. Told'
  <2>1. paused \in BOOLEAN
    BY DEF IInv, Types
  <2> QED BY <1>1, <1>3, <1>4, <1>5, <2>1 DEF FollowInv, Told
<1>7. (transition.at = "stop" => native[transition.client].paused)'
  <2> SUFFICES ASSUME transition.at = "stop" PROVE native'[transition.client].paused
    BY <1>3
  <2>1. transition.client \in 1 .. opened /\ native[transition.client].paused
    BY DEF FollowInv, Awake, IInv, ConnectorInv
  <2> QED BY <1>1, <1>5, <2>1 DEF IInv, Types, Clients
<1>8. ASSUME ends = 0, NEW d \in Clients PROVE ClientAwake(d)'
  <2>1. ClientAwake(d)
    BY <1>8 DEF FollowInv, Awake
  <2>2. CASE d = c
    BY <1>1, <1>3, <1>4, <1>5, <2>2 DEF ClientAwake
  <2>3. CASE d # c
    BY <1>1, <1>3, <1>5, <2>1, <2>3 DEF ClientAwake, Clients
  <2> QED BY <2>2, <2>3
<1> QED BY <1>3, <1>6, <1>7, <1>8 DEF FollowInv, Awake

\* The connector's steps that leave the clients alone.
LEMMA QuietFollows ==
  IInv /\ FollowInv /\ (ResumeRefreshes \/ Connect \/ Refresh \/ Fresh \/ CallFails \/ AlreadySyncs)
    => FollowInv'
<1> SUFFICES ASSUME IInv, FollowInv,
                    \/ ResumeRefreshes \/ Connect \/ Refresh
                    \/ Fresh \/ CallFails \/ AlreadySyncs
             PROVE  FollowInv'
  OBVIOUS
<1>1. /\ UNCHANGED <<app, paused, pending, native, raced, unaware, opened, ends>>
      /\ chat'.client = chat.client
  BY DEF ResumeRefreshes, Connect, Refresh, Fresh, CallFails, AlreadySyncs, ToPhase, bounds,
         IInv, Types, Chat
<1>2. \/ transition' = transition
      \/ transition.at \notin {"stop", "start"} /\ transition'.at \notin {"stop", "start"}
  BY DEF ResumeRefreshes, Connect, Refresh, Fresh, CallFails, AlreadySyncs, Awaited, Idle
<1> QED BY <1>1, <1>2, AllStay, FollowKept

\* A step that changes one client alone, and no transition but one that waits for its end.
LEMMA OneFollows ==
  ASSUME IInv, FollowInv, NEW c \in Clients, NEW n,
         native' = [native EXCEPT ![c] = n],
         UNCHANGED <<app, paused, pending, opened, ends>>, raced \subseteq raced',
         \/ chat'.client = chat.client /\ unaware' = unaware
         \/ chat'.client = NoClient,
         transition' = transition \/ Awaited,
         n.paused = native[c].paused,
         Well(native[c]) =>
           Well(n) /\ (n.sync = "stopped" => native[c].sync = "stopped" \/ c # chat'.client)
  PROVE  FollowInv'
<1>1. \A d \in Clients : Stays(d)
  BY OneStays
<1>2. \/ transition' = transition
      \/ transition.at \notin {"stop", "start"} /\ transition'.at \notin {"stop", "start"}
  BY DEF Awaited, Idle
<1> QED BY <1>1, <1>2, FollowKept

LEMMA ClientFollows ==
  IInv /\ FollowInv /\ (Renews \/ SyncStarts \/ SyncStarted) => FollowInv'
<1> SUFFICES ASSUME IInv, FollowInv, Renews \/ SyncStarts \/ SyncStarted PROVE FollowInv'
  OBVIOUS
<1> DEFINE c == chat.client
<1>1. /\ c \in Clients /\ native[c] \in Native /\ chat'.client = c
      /\ UNCHANGED <<app, paused, pending, raced, unaware, opened, ends>>
  BY DEF Renews, SyncStarts, SyncStarted, ToPhase, bounds, IInv, Types, ConnectorInv, Chat
<1>2. transition' = transition \/ Awaited
  BY DEF Renews, SyncStarts, SyncStarted
<1>3. CASE Renews
  <2> DEFINE n == SetSession(native[c], "active")
  <2>1. n.paused = native[c].paused /\ n.sync = native[c].sync /\ (Well(native[c]) => Well(n))
    BY <1>1 DEF SetSession, Well, Native
  <2>2. native' = [native EXCEPT ![c] = n]
    BY <1>3 DEF Renews
  <2> QED BY <1>1, <1>2, <2>1, <2>2, OneFollows
<1>4. CASE SyncStarts
  <2> DEFINE n == StartService(native[c])
  <2>1. n.paused = native[c].paused /\ n.sync # "stopped" /\ (Well(native[c]) => Well(n))
    BY <1>1 DEF StartService, SetSync, Well, Native, Syncing
  <2>2. native' = [native EXCEPT ![c] = n]
    BY <1>4 DEF SyncStarts
  <2> QED BY <1>1, <1>2, <2>1, <2>2, OneFollows
<1>5. CASE SyncStarted
  <2> DEFINE n == [native[c] EXCEPT !.supervisor = "spawned", !.service = "installed"]
  <2>1. n.paused = native[c].paused /\ n.sync = native[c].sync /\ (Well(native[c]) => Well(n))
    BY <1>1 DEF Well, Native
  <2>2. native' = [native EXCEPT ![c] = n]
    BY <1>5 DEF SyncStarted
  <2> QED BY <1>1, <1>2, <2>1, <2>2, OneFollows
<1> QED BY <1>3, <1>4, <1>5

LEMMA CloseFollows == IInv /\ FollowInv /\ (Close \/ Closed) => FollowInv'
<1> SUFFICES ASSUME IInv, FollowInv, Close \/ Closed PROVE FollowInv'
  OBVIOUS
<1>1. /\ UNCHANGED <<app, paused, pending, opened, ends>> /\ raced \subseteq raced'
      /\ transition' = transition \/ Awaited
  BY DEF Close, Closed, bounds
<1>2. CASE Close
  <2> DEFINE c == chat.client
             n == Shutdown(native[c])
  <2>1. c \in Clients /\ c # NoClient /\ native[c] \in Native /\ chat'.client = NoClient
    BY <1>2 DEF Close, IInv, Types, Chat
  <2>2. n.paused = native[c].paused /\ n.sync = native[c].sync /\ (Well(native[c]) => Well(n))
    BY <2>1 DEF Shutdown, Well, Native
  <2>3. native' = [native EXCEPT ![c] = n]
    BY <1>2 DEF Close
  <2> QED BY <1>1, <2>1, <2>2, <2>3, OneFollows
<1>3. CASE Closed
  <2> DEFINE c == chat.old
             n == StopService(native[c])
  <2>1. /\ c \in Clients /\ c # NoClient /\ native[c] \in Native
        /\ chat.client = NoClient /\ chat'.client = NoClient
    BY <1>3 DEF Closed, IInv, Types, ConnectorInv, Chat
  <2>2. n.paused = native[c].paused /\ (Well(native[c]) => Well(n))
    BY <2>1 DEF StopService, SetSync, Well, Native
  <2>3. native' = [native EXCEPT ![c] = n]
    BY <1>3 DEF Closed
  <2> QED BY <1>1, <2>1, <2>2, <2>3, OneFollows
<1> QED BY <1>2, <1>3

LEMMA SupervisorFollows ==
  ASSUME IInv, FollowInv, NEW c \in Clients, NEW at, NEW n, Supervisor(c, at, n),
         n.paused = native[c].paused,
         Well(native[c]) => Well(n) /\ (n.sync = "stopped" => native[c].sync = "stopped")
  PROVE  FollowInv'
<1>1. /\ native' = [native EXCEPT ![c] = n]
      /\ UNCHANGED <<app, paused, pending, transition, chat, raced, unaware, opened, ends>>
  BY DEF Supervisor, bounds
<1> QED BY <1>1, OneFollows

LEMMA SuperviseFollows ==
  ASSUME IInv, FollowInv, NEW c \in Clients, Supervise(c)
  PROVE  FollowInv'
<1>1. native[c] \in Native
  BY DEF IInv, Types
<1> DEFINE fits(n) == /\ n.paused = native[c].paused
                      /\ Well(native[c]) =>
                           Well(n) /\ (n.sync = "stopped" => native[c].sync = "stopped")
<1>2. ASSUME NEW at, NEW n, Supervisor(c, at, n), fits(n) PROVE FollowInv'
  BY <1>2, SupervisorFollows
<1>3. CASE Subscribes(c)
  <2>1. fits([native[c] EXCEPT !.supervisor = "watching", !.news = {}])
    BY <1>1 DEF Well, Native
  <2> HIDE DEF fits
  <2> QED BY <1>2, <1>3, <2>1 DEF Subscribes
<1>4. CASE SeesSync(c)
  <2> DEFINE n == [native[c] EXCEPT !.news = @ \ {"sync"}]
             b == [n EXCEPT !.supervisor = "backoff"]
  <2>1. fits(n) /\ fits(b)
    BY <1>1 DEF Well, Native
  <2>2. ASSUME NEW s \in EndedSession, n.sync = "refused" PROVE fits(Report(n, s))
    BY <1>1, <2>2 DEF Well, Native, Report, SetSession
  <2> HIDE DEF fits
  <2> QED BY <1>2, <1>4, <2>1, <2>2 DEF SeesSync
<1>5. CASE SeesSession(c)
  <2> DEFINE n == [native[c] EXCEPT !.news = @ \ {"session"}]
             s == [n EXCEPT !.supervisor = "stopping"]
  <2>1. fits(n) /\ (n.session \in EndedSession => fits(s))
    BY <1>1 DEF Well, Native, EndedSession
  <2> HIDE DEF fits
  <2> QED BY <1>2, <1>5, <2>1 DEF SeesSession
<1>6. CASE StopsEnded(c)
  <2>1. native[c].supervisor = "stopping"
    BY <1>6 DEF StopsEnded, Supervisor
  <2>2. fits(Supervising(StopService(native[c])))
    BY <1>1, <2>1, StopDoes, SupervisingDoes DEF Well
  <2> HIDE DEF fits
  <2> QED BY <1>2, <1>6, <2>2 DEF StopsEnded
<1>7. CASE Retries(c)
  <2> DEFINE next == IF native[c].paused \/ native[c].session # "active"
                     THEN "watching" ELSE "restart"
  <2>1. fits([native[c] EXCEPT !.supervisor = next])
    BY <1>1 DEF Well, Native
  <2> HIDE DEF fits
  <2> QED BY <1>2, <1>7, <2>1 DEF Retries
<1>8. CASE Restarts(c)
  <2>1. fits(Supervising(StartService(native[c])))
    BY <1>1 DEF Well, Native, Supervising, StartService, SetSync, Syncing
  <2> HIDE DEF fits
  <2> QED BY <1>2, <1>8, <2>1 DEF Restarts
<1> QED BY <1>3, <1>4, <1>5, <1>6, <1>7, <1>8 DEF Supervise

LEMMA EnvironmentFollows ==
  ASSUME IInv, FollowInv, NEW c \in Clients, Environment(c)
  PROVE  FollowInv'
<1>1. native[c] \in Native /\ c \in Clients
  BY DEF IInv, Types
<1>2. CASE GoesOffline(c)
  <2>1. PICK s \in Syncing : native' = [native EXCEPT ![c] = SetSync(native[c], s)]
    BY <1>2 DEF GoesOffline
  <2>2. /\ SetSync(native[c], s).paused = native[c].paused
        /\ SetSync(native[c], s).sync # "stopped"
        /\ Well(native[c]) => Well(SetSync(native[c], s))
    BY <1>1 DEF SetSync, Well, Native, Syncing
  <2>3. UNCHANGED <<app, paused, pending, transition, chat, raced, unaware, opened, ends>>
    BY <1>2 DEF GoesOffline, bounds
  <2> QED BY <2>1, <2>2, <2>3, OneFollows
<1>3. CASE SyncFails(c)
  <2> DEFINE n == SetSync(native[c], "failed")
  <2>1. n.paused = native[c].paused /\ n.sync = "failed" /\ (Well(native[c]) => Well(n))
    BY <1>1 DEF SetSync, Well, Native
  <2>2. /\ native' = [native EXCEPT ![c] = n] /\ raced \subseteq raced'
        /\ UNCHANGED <<app, paused, pending, transition, chat, unaware, opened, ends>>
    BY <1>3 DEF SyncFails, Changed
  <2> HIDE DEF n
  <2> QED BY <2>1, <2>2, OneFollows
\* A session that ends leaves the flags alone; the rest is of runs without one.
<1>4. CASE SessionEnds(c) \/ AccountLocked(c)
  <2>1. ends' = ends + 1 /\ ends \in Nat
    BY <1>4 DEF SessionEnds, AccountLocked, FollowInv, Awake
  <2>2. \A d \in Clients : native'[d].paused = native[d].paused
    <3>1. \/ native' = [native EXCEPT ![c] = SetSync(native[c], "refused")]
          \/ native' = [native EXCEPT ![c] = SetSession(native[c], "expired")]
          \/ native' = [native EXCEPT ![c] = Report(native[c], "locked")]
      BY <1>4 DEF SessionEnds, AccountLocked, Changed
    <3>2. /\ SetSync(native[c], "refused").paused = native[c].paused
          /\ SetSession(native[c], "expired").paused = native[c].paused
          /\ Report(native[c], "locked").paused = native[c].paused
      BY <1>1, SetSyncDoes, SetSessionDoes, ReportDoes
         DEF SyncStates, Sessions, EndedSession
    <3> QED BY <3>1, <3>2 DEF IInv, Types
  <2>3. UNCHANGED <<app, paused, pending, transition, chat, unaware>>
    BY <1>4 DEF SessionEnds, AccountLocked, Changed
  <2>4. Told'
    BY <2>2, <2>3 DEF FollowInv, Told, IInv, Types, Chat
  <2>5. (transition.at = "stop" => native[transition.client].paused)'
    BY <2>2, <2>3 DEF FollowInv, Awake, IInv, Types, ConnectorInv, Clients
  <2> QED BY <2>1, <2>4, <2>5 DEF FollowInv, Awake
<1> QED BY <1>2, <1>3, <1>4 DEF Environment

LEMMA FollowInvariant == Spec => []FollowInv
<1>1. Init => FollowInv
  BY DEF Init, FollowInv, Told, Awake, ClientAwake, NewClient, Idle, NoClient, Clients
<1>2. IInv /\ FollowInv /\ [Next]_vars => FollowInv'
  <2> SUFFICES ASSUME IInv, FollowInv, [Next]_vars PROVE FollowInv'
    OBVIOUS
  <2>1. CASE Background \/ Foreground \/ Connect \/ Refresh \/ Close
    BY <2>1, SwitchFollows, QuietFollows, CloseFollows
  <2>2. CASE Lifecycle
    BY <2>2, PauseFollows, PauseStopFollows, ResumeFollows, ResumeStartFollows, QuietFollows
       DEF Lifecycle
  <2>3. CASE Connector
    BY <2>3, OpenFollows, ClientFollows, QuietFollows, CloseFollows DEF Connector
  <2>4. ASSUME NEW c \in Clients, Supervise(c) \/ Environment(c) PROVE FollowInv'
    BY <2>4, SuperviseFollows, EnvironmentFollows
  <2>5. CASE UNCHANGED vars
    <3>1. UNCHANGED <<app, paused, pending, native, raced, unaware, opened, ends, chat, transition>>
      BY <2>5 DEF vars, core, bounds
    <3> QED BY <3>1, AllStay, FollowKept
  <2> QED BY <2>1, <2>2, <2>3, <2>4, <2>5 DEF Next
<1> QED BY Inductive, <1>1, <1>2, PTL DEF Spec

\* Once the moves of the app are told, the connector's client follows the last of
\* them, whatever calls, ends of calls, failures and shutdowns came in between: its
\* flag is set exactly in the background, where it does not sync, and back in the
\* foreground it was not left stopped; for any number of clients, moves and
\* troubles, under the exemptions FollowsApp names (chat_app_lifecycle.dart:
\* didChangeAppLifecycleState; lifecycle.rs: pause, resume).
THEOREM FollowsTheApp == Spec => []FollowsApp
<1>1. IInv /\ FollowInv => FollowsApp
  <2> SUFFICES ASSUME IInv, FollowInv, pending = <<>>,
                      transition.at \notin {"stop", "start"},
                      chat.client # NoClient, ~unaware
               PROVE  LET n == native[chat.client] IN
                      /\ n.paused <=> app = "back"
                      /\ chat.client \notin raced =>
                           IF app = "back" THEN n.sync \notin Syncing
                           ELSE n.sync = "stopped" => ends > 0
    BY DEF FollowsApp
  <2> DEFINE c == chat.client
  <2>1. c \in Clients /\ c <= opened /\ paused \in BOOLEAN
    BY DEF IInv, Types, ConnectorInv, Chat
  <2>2. native[c].paused = paused /\ (paused = TRUE <=> app = "back")
    BY <2>1 DEF FollowInv, Told
  <2>3. ASSUME c \notin raced, app = "back" PROVE native[c].sync \notin Syncing
    <3>1. ClientInv(c) /\ native[c].paused /\ transition # [at |-> "stop", client |-> c]
      BY <2>1, <2>2, <2>3 DEF IInv
    <3>2. native[c].service = "installed"
      BY <2>1, <2>3, <3>1 DEF ClientInv
    <3> QED BY <2>1, <2>3, <3>1, <3>2 DEF IInv, PausedStaysStopped
  <2>4. ASSUME c \notin raced, app # "back", native[c].sync = "stopped" PROVE ends > 0
    <3>1. ~native[c].paused /\ ~Resuming(c) /\ ends \in Nat
      BY <2>1, <2>2, <2>4 DEF Resuming, FollowInv, Awake
    <3>2. ends # 0
      BY <2>1, <2>4, <3>1 DEF FollowInv, Awake, ClientAwake
    <3> QED BY <3>1, <3>2
  <2> QED BY <2>1, <2>2, <2>3, <2>4
<1> QED BY <1>1, Inductive, FollowInvariant, PTL
=============================================================================
