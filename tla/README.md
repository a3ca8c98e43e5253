# Verification of the NGO.Tools mobile platform

TLA+ models of the parts of this repository that carry its state and its
concurrency, model-checked with TLC and, where it pays, proved with TLAPS. The
repository is a Flutter platform: packages that an organization app is
assembled from, a Rust chat core behind a foreign-function bridge, and tools
that generate and release apps. Paths below are relative to `packages/` unless
they begin with another directory of the repository.

Contents: [the system](#the-system), [modules](#modules), [runs](#runs),
[bounds](#bounds), [fairness and deadlock](#fairness-and-deadlock),
[exemptions](#exemptions), [proofs](#proofs),
[disagreements](#where-the-documentation-and-the-code-disagree),
[what is not modelled](#what-is-not-modelled), [plan](#plan).

## The system

| Component | State it keeps | Operations | What makes it hard |
|---|---|---|---|
| `ngotools_auth` | session in memory and in the secure store, status, registered purgers | restore, signIn, renew, signOut, expire, the API interceptor | every method is interrupted at its awaits by every other; the store fails; the app is killed |
| `ngotools_chat_module`, connection | chat client, device record in memory and in the keychain, store directories and their key, renewal timer | connect, refresh, disconnect, markRecoveryPromptSeen, close | calls fail half way, the client reports while a call runs, the server may know another session |
| `ngotools_chat` (Dart and Rust), sync, and the app lifecycle | native session state, sync service, supervisor, paused flag | start, stop, pause, resume, token update | a supervisor task, a session task and facade calls on worker threads; the app leaves while the chat connects |
| `ngotools_chat`, room list | SDK entries, the task that mirrors and corrects them, its command queue, the controller's rooms and filter | watch, stop, setFilter, loadMore, leave, set a notification mode | calls of one page overtake each other on the bridge's threads; rooms that are left and modes that change are no change of the SDK's entries |
| `ngotools_chat`, timelines | SDK items with local echoes, one task for the items and one for who types, the page | watch, watchTyping, send, retry, cancel, paginate, close | what there is and what changes are two things to send; close overtakes watch; a slow reader of notices is dropped |
| `ngotools_chat`, tokens | token in memory, session in the state store, its hash in the crypto store, the SDK's refresh lock | restore, sign-in, token update, refresh, logout | the app and the iOS notification extension use one refresh token that works once; both die at any moment |
| `ngotools_contacts`, cache | one encrypted document (searches, contacts, drafts), its key | read, write, prune, purge | limits and ages, a clock that moves, kills between the temporary file and its rename, late writes after a purge |
| `ngotools_contacts`, drafts | drafts with idempotency keys, the editor page | create, save, discard, submit | lost answers and retries, two taps, pages left while they submit, other users' edits |
| `ngotools_contacts`, list | rows, question, request generation | load, search, changeSort, loadMore, retry | answers in any order |
| `ngotools_events`, list | events of a range of days | load, refresh, changeRange, showOnlyMine, loadMore | answers of abandoned requests, failed reloads |
| `ngotools_events`, duties | requests, optimistic answers, read-only notice | load, answer | loads and answers overlap; confirmations are lost |
| `ngotools_api` | capabilities snapshot, active load, queued refresh | load, refresh, invalidation on 403 | a refresh joins, follows or is caused by a load |
| `ngotools_navigation` | none | evaluate a route requirement | stale capabilities |
| `example/golden_app` | wires the above | bootstrap, sign-out order, connect on authentication | chat and authentication run concurrently, one object serves several users |
| tools, design system, generated and vendored code | none at run time | - | - |

### How the parts interact

`runtime.dart` of the app creates one `MobileAuthCubit`, one API client whose
interceptors take the cubit's token and report 401 (`expire`) and 403 (to the
capabilities cubit), and one `ChatConnector`. When the status becomes
`authenticated` it loads the capabilities and connects the chat. The cubit
purges private data through registered purgers, of which the contact cache is
one. The connector asks the API for a chat session, keeps the device record in
the keychain and drives a native client; the client reports its session state
back. `ChatAppLifecycle` turns moves of the app into pause, resume and refresh.
The chat pages watch room lists and timelines: a native task turns what the SDK
reports into batches of diffs, a stream carries them, a controller applies them.
On iOS a notification extension opens the same stores as the app and refreshes
the same session.
Pages own the list, event, duties and editor cubits; every one of them awaits a
repository whose answers come in any order.

### What makes each part correct

* **Authentication.** A session the user or the server ended does not come back
  through a call that was in flight; what it left on the device is removed or a
  call is at work to remove it; the status and the session agree; only a new
  call takes a session away; the app does not stay on "restoring".
* **Chat connection.** One client on the stores at a time; stores never lose
  their key; record, stores and token name the same device; nothing is left
  after disconnect or withdrawn access, nor of another user's chat when a connect
  goes on; the token is always renewed; the queue
  never blocks.
* **Chat sync.** A paused client and one that was given up stay stopped; an
  ended session stops the sync; a failed sync restarts; the client
  follows the last move of the app that reached it.
* **Room list and timelines.** At rest the list shows the rooms of its filter,
  none that was left, and the modes in force; a timeline shows what the SDK
  has from the first batch on; no native task outlives its page for good.
* **Chat tokens.** No refresh token is presented twice; a session ends only when
  the server refuses it; a renewed token takes effect.
* **Contact cache.** Limits hold; a page served has all its contacts; what was
  just stored is not what is evicted; drafts leave only by deletion or purge;
  a purged cache stays purged.
* **Drafts.** Applied at most once; kept until applied or discarded; called a
  conflict only when stale; no page is left busy; what was saved last is kept.
* **Lists.** What is shown answers the question shown; loading ends.
* **Duties.** When everything has arrived the screen agrees with the server; a
  denial is final.
* **Capabilities.** One load at a time; the snapshot catches up with denials;
  loading ends.

## Modules

Dart code runs without a break up to an `await`. So in every module one action
is the code between two awaits, and takes the outcome of the call that was
awaited from a small set: the answers the source tells apart. A call in progress
is a record with the place it waits at (`at`, `phase`) and the local variables
that are used after the wait. Requests to the server are split where the order
matters: sent, read or applied by the server, answered. Kills of the app reset
memory, keep the disk, and let a store call in flight have happened or not.

| Module | Code | State and actions |
|---|---|---|
| `MobileAuth` | `ngotools_auth/lib/src/mobile_auth_cubit.dart`, the interceptor and the purger interface | `status`, `session`, `operation`, `purgers` are the cubit's fields; `stored` and `private` the secure store and the private stores; `issued`, `live`, `owner` the server. `Call(t)` begins restore, signIn, renew, signOut or expire in slot `t`; `Flow(t)` continues it after its await; `Environment` registers purgers, answers API requests, fails and kills. |
| `ChatConnector` | `ngotools_chat_module/lib/src/chat_connector.dart`, `chat_device_store.dart`, `chat_client_factory.dart` | `call` is the running call of `_serial` (its `at` names the next await), `queue` those behind it, `chat` the client with `_syncing`, `_unwatch` and the timer; `store`, `key`, `disk` what is on the device; `server` the session NGO.Tools has. `Step` continues the call; `Request`, `ClientReports`, `TimerFires`, `TokenDue`, `ServerEnds`, `Close`, `Crash` interleave. |
| `ChatLifecycle` | `ngotools_chat/rust/src/api/lifecycle.rs`, `client.rs`, and `chat_app_lifecycle.dart` with the part of the connector that opens, starts, renews and closes clients | `native[c]` is one Rust client: session, paused flag, installed service, supervisor, and the news its `watch` receivers have not seen; `pending` and `transition` are the queue of the app's moves. |
| `ContactCache` | `ngotools_contacts/lib/src/contact_cache.dart`, `contact_cache_storage.dart` | `file` is the decrypted document and the number of the key it was written with; `op` the running operation and the document in its hands; `Steps` are load, prune, encrypt, write, rename and the two deletions of a purge. |
| `ContactDrafts` | `contact_draft_manager.dart`, `contact_editor.dart`, `contact_drafts.dart` | `store` the drafts, `page` the editor on the screen, `tasks` the calls of `_submit` from the dialog on, `version` and `replies` the server with its idempotency keys. |
| `MobileCapabilities` | `ngotools_api/lib/src/mobile_capabilities_cubit.dart`, `mobile_api_interceptors.dart`, `fetchCapabilities` | `active` and `queued` are the cubit's fields, `loads` the running calls with their two requests, `access` the number of the grants in force. |
| `ContactsList` | `contacts_cubit.dart` | `state`, `generation`, and the calls awaiting an answer with the state they captured. |
| `LatestResult` | abstract: what a list owes its user | `question`, `rows`, `waiting`; `ContactsList` implements it. |
| `RoomList` | `ngotools_chat/rust/src/api/rooms.rs`, `room.rs` (modes, leaving) and `room_list_controller.dart` | `room`, `recent`, `owed`, `entries` are the SDK's rooms and entries stream, `watch` the `RoomListWatch` with the locals of its task (one action per branch of its `select!`), `listCalls` the calls on the bridge's threads, `sink` the batches under way, `list` the controller. |
| `ChatTimeline` | `ngotools_chat/rust/src/api/timeline.rs` and its controller; the timelines of rooms and of threads | `items`, `typists` are the SDK's; `task[s]`, `slot`, `stream[s]` the task of each of the two streams, the field that holds it and what it has sent; `page` the controller, `handle` the Dart object whose end drops the native one, `pageCalls` the calls under way. |
| `ChatTokens` | `ngotools_chat/rust/src/api/client.rs` (sign-in, restore, update, logout), `session.rs`, `nse.rs`, the classes of `api/error.rs` a refresh ends in | `process[p]` is the app or the extension: the place it waits at, the token it uses and the hash it knows; `stored`, `hash`, `refreshLock` what they share on the device; `grant` the server's tokens; `signed`, `change` the session state and the news the session task has not received. |
| `DiffList` | `diff_list.dart`: `applyDiffs` | operators; both native lists use them to say what a controller shows. |
| `EventsList` | `ngotools_events/lib/src/events_cubit.dart` | as `ContactsList`, with days for rows. |
| `Duties` | `duties_cubit.dart`, `submitAvailability` | `state` with the pending requests, loads and answers under way, the server's answers. |

`MC*` modules extend their module with symmetry sets and, for `EventsList`, the
ranges. Two of them put modules together that share nothing that is modelled:
`MCEvents` the two cubits of `ngotools_events`, `MCChatNative` the room list, the
timeline and the tokens. There a variable `part`, chosen at the start, says
which of them moves, so that one run checks each of them and not their product;
of the timeline, the messages, the pages of older ones and the typing notices are
three parts. `*_proofs` modules hold the theorems; `Contacts_proofs` those of
`ContactsList` and `ContactDrafts`, `Events_proofs` those of `EventsList` and
`Duties`, `ChatNative_proofs` those of `RoomList`, `ChatTimeline` and `ChatTokens`.
No module uses RECURSIVE operators: `DiffList` and `RoomList` apply diffs and
collect rooms with recursive functions, which can be reasoned about.

Mutants. Definitions preceded by "Mutant of" are plausible mistakes in the code
they vary (a missing check after an await, a skipped purge, a step left out).
They are in no next-state relation; `PROJECT.json` names for each property the
mutant that breaks it.

## Runs

| Run | Configuration | Distinct states | Shows |
|---|---|---|---|
| `auth` | `MobileAuth.cfg` | 2,102,318 | Two overlapping authentication calls, two users, two stores with private data of which one is registered late, one failing store or purger call and one kill of the app: an ended session does not come back, what it left is being removed, and the screens are told the truth. Properties: `SessionMatchesStatus`, `EndedStaysEnded`, `OthersDataOnlyWhilePurging`, `RestoringAtWork`, `LeftoverAtWork`, `OnlyNewCallsEndSession`. |
| `connector_safety` | `ChatConnector_safety.cfg` | 1,719,880 | Two accounts, two issued sessions, one failing keychain or file call and one kill at any await: what is left in memory, in the keychain, in the stores and on the server agrees. Properties: `ClientAlone`, `KeyKept`, `RecordNamesDevice`, `RenewalKeepsDevice`, `NothingLeft`, `RenewalScheduled`. |
| `connector_liveness` | `ChatConnector_liveness.cfg` | 215,185 | Every call comes to an end, whatever the API and the client answer, and close() does. Properties: `CallsEnd`. |
| `connector_resync` (violation) | `ChatConnector_resync.cfg` | - | After an expired token is renewed the chat counts as connected, but nothing starts the sync service its supervisor stopped. Properties: `ConnectedSyncs`. |
| `lifecycle` | `ChatLifecycle.cfg` | 127,582 | Two clients one after the other, the app leaving and coming back, two calls of connect() or disconnect(), and a failing sync or an ending session: a paused and a given-up client stay stopped short of the named races, an ended session stops the sync, a failed one restarts, and the client follows the last move of the app that reached it. Properties: `PausedStaysStopped`, `OnlyCurrentSyncs`, `EndedStops`, `FailedRestarts`, `FollowsApp`. |
| `cache` | `ContactCache.cfg` | 520,209 | Every sequence of cache operations over two contacts, two searches and two drafts at limits of one, with a clock that moves both ways, a failing storage call and a kill at any await. Properties: `PagesComplete`, `JustStoredStays`, `PurgedGone`, `DraftsKept`. |
| `drafts` | `ContactDrafts.cfg` | 463,433 | A new contact and an edit drafted, submitted twice at the same time, left, lost, retried, discarded and killed, with another user's edit: applied once, kept until then, called a conflict only when stale, and no page left busy. Properties: `AppliedOnce`, `ConflictMeansStale`, `SubmittingAtWork`, `KeptUntilApplied`. |
| `drafts_edits` (violation) | `ContactDrafts_edits.cfg` | - | A submission that fails after its page was left overwrites what the user has saved since. Properties: `EditsKept`. |
| `capabilities` | `MobileCapabilities.cfg` | 139,529 | Overlapping loads, refreshes, denials and a close: one load at a time, a snapshot that catches up with every denial, and loading that ends. Properties: `OneLoad`, `CatchesUp`, `LoadsEnd`. |
| `contacts_list` | `ContactsList.cfg` | 32,493 | Searches, sorts, further pages and retries answered in any order: the list implements LatestResult, so that the rows shown answer the question shown, and every loading state ends though most answers are dropped. Properties: `LatestResultSpec`, `LoadingEnds`. |
| `events` | `Events.cfg` | 943,897 | The duties: loads and optimistic answers overlap, and once everything has arrived the screen agrees with the server. The event list: reloads, new ranges, the filter and further days are answered in any order, and the events are those of the range shown, unless a failed reload left others. Properties: `SettledShown`, `RangeLoadedUnlessTorn`. |
| `chat_native` | `ChatNative.cfg` | 1,401,914 | A room list under every order of native task, calls and syncs: at rest it shows the rooms of its filter and their modes. A timeline with messages sent, failing, retried and cancelled, older pages, typing notices and a page closed at any moment: it shows what the SDK has, and no task outlives it. The tokens of a session used by two processes, with lost answers, failing stores and kills: no refresh token is used twice, only the server ends a session, a renewed token takes over. Properties: `SettledListShown`, `ModesShown`, `TimelineAgrees`, `StreamsEnd`, `RefreshOnce`, `EndedOnlyIfRejected`, `UpdateTakesOver`. |

The type invariants (`TypeOK`, `ListTypeOK`, `EventsTypeOK`, `TokensTypeOK`),
`RowsAnswerQuestion` of `ContactsList`, `DenialLasts` of `Duties` and `ListAgrees` of
`RoomList` are in no run: they are [proved](#proofs). `TypingAgrees` of
`ChatTimeline` is only stated; TLC confirms it for the instance of `chat_native`
when it is checked there.

Two runs are meant to fail and show a disagreement of the code with its
documentation; they are described [below](#where-the-documentation-and-the-code-disagree).

## Bounds

Every bound is a constant named `Max...` or a finite set of slots (`Tasks`,
`Calls`, `Loads`), declared with a comment that calls it a bound; guards of the
actions that begin something new use it. What they have to allow for each module:

* `MobileAuth`: two slots, because every guard after an await compares the
  call with one other call (`operation`); two sessions and two users, the one
  before and the one after; two purgers, one registered late; one failure or
  kill, because each exemption is about a single one. Four operations per
  process: a call, the one that overtakes it, and two more to make the damage
  visible.
* `ChatConnector`: two accounts (the own one and the former user's), two issued
  sessions (the recorded one and the one the server has instead), one waiting
  call, since calls are served in order, one fault and one kill. The liveness
  run leaves out faults and kills, which only shorten calls.
* `ChatLifecycle`: two clients (given up and current), one move away and back,
  two calls of connect() or disconnect() or clients replaced within a call (so
  that a connected chat is connected again and a second client is opened), one
  trouble: a sync error or an ended
  session. Moves of the app before the chat connects, while it does, and after
  are all within them.
* `ContactCache`: two contacts, searches and drafts at limits of one, so that
  every write is over a limit and has to evict; three clock readings with an
  age of one (fresh, just stale, stale); one fault and one kill.
* `ContactDrafts`: a new contact and an edit, two submissions at a time, two
  editors one after the other, two contents and versions, one failing call.
  A lost answer is no fault and is not bounded.
* `MobileCapabilities`: two changes of grants, so that the one loaded, the one
  denied and the one in force may differ; three calls.
* `ContactsList`, `EventsList`: two requests under way and five in all (a
  dropped one, its replacement, further pages of it, a retry); three pages;
  a range that fits the step and one that does not.
* `Duties`: two requests, two answers, two loads under way and three of each in
  all.
* `RoomList`: two rooms and pages of one, so that a list is shorter than what it
  filters, grows by a page, and has a place to get wrong; two changes by users,
  other devices or the server beside what the page does.
* `ChatTimeline`: three messages or choices about them (a send that fails, is
  retried and is cancelled; two messages in the other order); three changes of
  who types and a buffer of one notice, so that a reader can lag; two older
  pages, the last of which reaches the start.
* `ChatTokens`: four tokens (issued, rotated, rotated again, one lost on the
  way), four starts of the two processes, one lost answer, failing store or kill,
  since each exemption is about a single one.

A bound can only cut behaviours off, and a state at a bound where nothing more
happens is no deadlock of the code.

## Fairness and deadlock

Fairness is stated only where a run checks liveness:

* WF of the continuation of each request or load (`ContactsList`,
  `MobileCapabilities`): Dio ends every request within its timeouts of 10 and
  20 s (`ngotools_api/lib/src/ngo_tools_mobile_api.dart:49-51`), and the Dart event loop
  runs the continuation of a completed future.
* WF of the capabilities' `Invalidation`: an event added to a stream is
  delivered.
* WF of `Step` and `Closed` in `ChatConnector`: API requests time out as above,
  the native client's calls are assumed to answer or fail.
* WF of the app's transitions, the connector's calls and each client's
  supervisor in `ChatLifecycle`; SF for each of the two branches of the
  supervisor's `select!`, which polls them in random order, so that a branch
  that is ready again and again is taken in the end.

Users, timers, the network's good will, the server's events and faults are never
fair.

`CHECK_DEADLOCK FALSE` is set where the system may rest: all calls have been
answered and the bounds allow no more, or a cubit was closed and nothing follows.
`ContactCache` and `ContactDrafts` are checked for deadlock.

## Exemptions

Some properties hold only short of a race or a failure that the code does not
handle. Each exemption is a history variable that no guard reads:

* `MobileAuth`: `faults` (a failing store or purger), `interrupted` (killed in
  the middle of a removal), `overtaken` (a sign-in that began before restore()
  had its answer, which the screens do not offer), `passedOver` (the stores that a
  removal left full, because the app had been started since and their purger not
  registered again). The contact cache is such a store.
* `ChatConnector`: `faults` for `RenewalScheduled`; `undeleted` and `ended` say
  when the promises of disconnect() apply.
* `ChatLifecycle`: `raced`, the clients for which a start was in hand when
  pause(), shutdown() or the end of the session came, or whose supervisor was
  not yet subscribed; `unaware`, whether the last move of the app did not reach the
  client, because the chat was connecting or had failed to.
* `EventsList`: `torn`, a failed reload that leaves the events of another range.
* `Duties`: `raced` (answered between a load's read and its arrival) and `lost`
  (applied, never confirmed).
* `RoomList`: `raced.filter` (two choices of a filter under way, or one before the
  watch was registered) and `raced.modes` (a mode cached after a later rule, or
  a rule that came while its room was not visible).
* `ChatTimeline`: `lagged`, a reader of typing notices that was too slow, which
  ends its stream.
* `ChatTokens`: `missed.rotation` (a rotated token lost with its answer, its
  process or a failing `persist_session`), `missed.announcement` (the extension wrote the old hash over the
  announced one), `missed.overtaken` (a refused request reloaded the tokens
  before the update did), `missed.rejected` (the server did refuse). An
  `update_access_token` that a failing store ends (`client.rs:241-244`) leaves the
  old token in use: the step counts as a miss of its own (`misses`), and
  `UpdateTakesOver` exempts it. Stores do not fail in a sign-in or a restore, which
  end with the error before they report the session active.

## Proofs

TLC checks the instances above, TLAPS the theorems for every value of the
constants, from the named assumptions in the modules. These say that null values
differ from real ones (`AuthAssumption`, `NotSetAssumption`), that new contacts
are not edited ones (`DraftsAssumption`), that the constructor's purgers are
among the purgers and the first question among the questions (`AuthAssumption`,
`FirstAssumption`), that the limits of the cache are positive, which its policy
enforces, and its keys finitely many (`PolicyAssumption`, `FiniteAssumption`),
that no range is longer than the server accepts (`DaysAssumption`), that a page of
rooms is not empty and the rooms are finitely many (`RoomListAssumption`), that
the SDK keeps at least one notice for a reader (`TimelineAssumption`), that the
value for no account is none (`ConnectorAssumption`), and that bounds are natural
numbers (these, `BoundAssumption`, `EventsBoundAssumption`, `ListAssumption`,
`LifecycleAssumption`, `TokensAssumption`).

Every safety property of every passing run is proved. Hardly one is inductive,
and what is added below is the account of why it holds nevertheless.

**`MobileAuth_proofs`.** `TypeCorrect`, and all six properties of the run. Three
invariants build on each other.

`EndedSessionsStayEnded`: a session that signOut() or expire() ended never
becomes the app's session again, except after a failing store or a kill in the
middle of a removal. `EndedStaysEnded` is not inductive: an ended session could
be sitting in a write, or in the store for restore() to find. `EndInv` adds that
restore is the first call and reads the store before anything is written
(`RestoreFirst`), that every session the device knows was issued, so that a
freshly issued one is new (`KnownIssued`), that a call that is still the current
one began after the last end and holds a session born then (`WriteInEpoch`: the
`operation` counter does its job), and that an ended session in the store has a
call at work to delete it (`StoredEnded`).

`MatchesStatus`, `RestoringWorks`, `NewCallsEnd`: what the screens are told.
`ScreenInv` adds that two calls are never both current (`OneCurrent`), that
there is no session to lose while the current call may still end in a failure
(`NothingToLose`), and that a removal fails only by a fault (`FailedByFault`).

`OthersPurged`, `LeftoverRemoved`: what is to be removed is not forgotten, in the
stores of the constructor and in those registered later, but for `passedOver`.
`RemoveInv` says, before restore() has its answer, whose data the private stores
hold (`DataOfStored`), and that a current renewal is of the session in use and
for the same user (`RenewSame`); with that, what is left without a session
(`LeftRemoved`) or of others (`OthersRemoved`) has a task that removes it.

**`MobileCapabilities_proofs`.** `LoadsAlone`: two loads never run at once. The
invariant `IInv` ties a running load to the `_activeLoad` field
(`RunningActive`) and to the status; each of the four ways to begin a load finds
that field empty or sets it. `TypeCorrect` states, beyond the types, that a
queued refresh has a load to wait for and that a loading state has its load.

**`ChatConnector_proofs`.** `ClientsAlone`, `KeyStays`, `RecordNames`,
`RenewalSameDevice`, `NothingIsLeft`, `RenewalIsScheduled`. Every await is a state
in which a call can fail or the app be killed, so `DeviceInv` says for each of
them what the steps before it have left: what a removal has taken away by then
(`Removed`), what a sign-in and a restore rely on (`SigningIn`, `Restoring`), that the stores
are those of the account the call has read (`SameAccount`), who owns the native client (`ClientOwned`), and that the server has no other session
than the stores' (`ServerAgrees`). `CallInv` says what a call may count on while
others queue behind it: what disconnect() has removed stays removed
(`GoneStays`), a client is kept through the calls that use it (`ClientKept`), and
a token that is due has its timer, or its refresh in the queue (`RenewalKept`).

**`ChatLifecycle_proofs`.** `PausedStopped`, `CurrentSyncs`, `FollowsTheApp`. A service
runs because somebody decided to start it and did, and the two are separate
steps. The invariant says of each client that is not counted in `raced` that no
such start is pending once it is paused or given up, and how far the connector
is with the client tells which service it has (`ClientInv`). `ConnectorInv` ties
the clients to the connector and to the transition that runs, and `Queued`
bounds the queue of transitions by the app's moves. `FollowInv` stands on these:
the last of the queued moves says where the app is, and with none queued the
client's flag does (`Told`); and as long as no session has ended, a stopped client
is a paused one or has its start pending (`Awake`, `ClientAwake`).

**`Contacts_proofs`, the list.** `RowsAnswer`: the rows are the pages of the
question shown, in order, for any number of requests answered in any order.
`ListInv` says that the state a call captured answers its own question
(`CallsOK`), that at most one call has the newest generation (`OneCurrent`), and
that the state still shows what that call captured (`CurrentOK`). `Implements` is
the refinement: every step of `ContactsList` is a step of `LatestResult` under the
mapping of `Latest`, or changes nothing it shows.

**`Contacts_proofs`, the drafts.** `DraftAppliedOnce`, `DraftKept`, `ConflictStale`,
`BusyAtWork`. The invariant follows the copies of a draft, in the store
(`StoreGood`), on the page (`PageGood`) and in each submission (`TasksGood`):
every copy has the key it was created with and a version the contact has had,
and one that is called a conflict not the last. `RepliesGood` says that the
server applied each key once, and only keys of drafts.

**`Events_proofs`, the duties.** `Settles`: when nothing is under way, the answers
shown are the server's, but for `raced` and `lost` requests. `Agreement` says
where the server's answer is to be found while something is under way: on the
screen, as the previous answer of an optimistic one, or in every load that did
not miss it. `Denied` proves the action property that nothing is sent after a
denial, and `TypeCorrect` that exactly the requests being answered are disabled.

**`Events_proofs`, the list.** `RangeComplete`: the events shown are those of the
days shown, each once and in order, but for `torn`. `EventsInv` says that at most
one call is wanted (`OneWanted`), that a reload asks for the days shown
(`ReloadAsks`) and "more" for those behind the ones it began with (`MoreAsks`),
and that a failure leaves the events of the range or none (`KeptAfterFailure`).
The arithmetic of ranges is in `DaysFollow`: two runs of days that follow each
other are one.

**`ContactCache_proofs`.** `PagesAreComplete`, `StoredPagesStay`,
`PurgedStaysGone`, `DraftsStay`. `IInv` says what the document in the hands of
the running operation is: of the type and within the limits, with all the
contacts of its pages, and with the file's drafts but for one that is being
deleted (`Carries`); and that a sealed cache runs nothing that writes
(`Sealed`, `OpGood`). `PruneGood` is the lemma about `_prune`: whatever it is
given, what it leaves is within the limits and has complete pages and all the
drafts; `StoredStays` that the latest entry is not what it evicts.

**`ChatNative_proofs`, the tokens.** `RefreshedOnce`, `OnlyRefusalsEnd`, `TakenOver`. The heart
of the invariant is where the newest token is at each moment: stored, or with
the holder of the lock that is about to store it, if no token was lost
(`NewestSaved`); the holder of the lock that has not asked yet knows the saved
hash (`Compared`), and the lock is held exactly between taking and releasing it
(`LockHeld`). For issued tokens `UpdateStored` says that a renewed one is
stored before it is announced, and `RefusalFirst` that what ends a session
comes after a refusal.

**`ChatNative_proofs`, the timeline.** `TimelineShown`: an open page shows the
SDK's timeline once the batches under way have arrived. It rests on lemmas about
`DiffList`: what is shown after one more batch sent and after one applied, what
each operation does to a list, and that the diff of mapped items does to what is
shown what the change did to the timeline. `StreamsEnded`: no task outlives its
timeline, because a task at work is in the slot where close and drop find it, or
the call that spawned it has not returned and will put it there (`TasksHeld`),
and the last reference is dropped when no call is left (`DroppedLast`).

**`ChatNative_proofs`, the room list.** `ListMirrorsTask` (`ListAgrees`),
`SettledModesShown` (`ModesShown`), `SettledShown` (`SettledListShown`). Three
invariants build on each other. `RoomsInv`: the visible rooms are the first of
the SDK's entries, which have no room twice (`Window`); without that a room that
moves past the end of the window would not be answered by one diff at its end.
The batches under way bring the controller to these rooms, with modes that are
right but where news of the rules is still to come or was raced for (`ShownRight`,
`Known`, `ModesCached`). `EntriesInv`: the entries are the rooms of the filter in
the order of activity, but for rooms of which news waits and those left and not
yet seen to (`OrderKept`, `Filtered`). `FilterTold`: the filter the page shows is
in force, or the last in the queue, or in the one call under way, unless
choices overtook one another.

Two notes on how. What needs induction over the length of a list or of the
batches is proved by its smallest counterexample (`LeastNumber`), since the
library's induction rules cannot be instantiated here. And a proof that would
not go through corrected three models: cases of `CASE` that are true together
leave its value open, and TLC takes the first, so that the runs had not noticed;
the cases now exclude each other.

Only model-checked: liveness, which needs fairness and ENABLED, for which TLAPS
has no rules here (`CallsEnd`, `EndedStops`, `FailedRestarts`, `LoadsEnd`,
`CatchesUp`, `LoadingEnds`), and `TypingAgrees`.

## Where the documentation and the code disagree

Two are findings with a run of their own:

* `connector_resync` (`ChatConnector!ConnectedSyncs`): after an expired token is
  renewed the chat is `ChatConnected`, "The chat runs"
  (`chat_connection_state.dart:35`), but the supervisor has stopped the sync
  service and nothing starts it before the app is paused and resumed.
* `drafts_edits` (`ContactDrafts!EditsKept`): a submission that fails after its
  page was left writes the draft back as it was when the submission began, over
  what the user has saved since.

The others are stated in the modules, under "What the documentation says and the
code does not keep", with the line they quote. TLC refutes each when it is checked
as the property of the instance given here (as the module's run, but for the
constants named):

| Formula | Instance | How it fails |
|---|---|---|
| `MobileAuth!OnlyRejectedSessionExpires` | one user, `Purgers = BootPurgers = {p1}`, `MaxTroubles = 0` | the 401 to a request with the old token ends the renewed session |
| `MobileAuth!LateStoresPurged` | one user, `Purgers = {p1, p2}`, `BootPurgers = {p1}`, `MaxTroubles = 1` | after a restart the session ends before the second store is registered again: its purger is not called |
| `ChatConnector!DisconnectEndsSession` | no faults, no kills | a session whose issue was never heard of is not in the record that disconnect() deletes by |
| `ChatConnector!SyncsSignedIn`, `ConnectingConnects` | no faults for the first, one for the second | a failed restore leaves `_client` set without a session; a purge that fails in a refusal leaves `ChatConnecting` without a call |
| `ChatLifecycle!BackgroundPauses` | `MaxClients = MaxConnects = 1`, no troubles | the pause looks at the state while the chat connects |
| `ChatLifecycle!ForegroundResumes` | `MaxConnects = 2`, no troubles | the resume looks at the state while the chat reconnects |
| `ChatLifecycle!PauseStopsSync` | `MaxConnects = 1`, one trouble | a restart read the flag before pause() set it |
| `ChatLifecycle!ShutdownStops` | `MaxConnects = 2` | resume() starts the service that shutdown() has stopped |
| `ChatLifecycle!ExpiredStops` | `MaxConnects = 1`, one trouble | the session ends between resume()'s check and its start |
| `ContactCache!NoCiphertextLeft` | one contact, search and draft, no faults, one kill | the temporary file outlives the purge |
| `ContactDrafts!DiscardedStays` | as `drafts_edits` | the failed submission writes a discarded draft back |
| `MobileCapabilities!ProblemTold` | one change, one call | one of two parallel requests is denied, the other is lost: reported as no answer |
| `ContactsList!CachedTold` | `MaxPage = MaxRequests = 2` | the source of the last page replaces that of cached pages before it |
| `EventsList!RangeLoaded` | `MaxRequests = 4` (as `events`, the part of the events) | further days are added to the events of a range whose reload failed |
| `EventsList!FilterKept` | `MaxRequests = 3` (likewise) | the answer to loadMore puts back the filter from before |
| `Duties!AcceptedShown`, `RevertedOnlyIfRejected`, `FailureTold` | two loads, two answers (as `events`, the part of the duties) | see the comments there |
| `RoomList!FilterShown` | as `chat_native`, the part of the rooms | two choices of a filter overtake each other, or one comes before the watch and is dropped |
| `RoomList!NoOrphan` | likewise | stop_room_list overtakes watch_room_list; the task lives until it finds its stream closed |
| `RoomList!ModesNeverRaced` | likewise | a mode is cached after a later rule has come |
| `ChatTimeline!TypingGoesOn`, `TypingShown` | as `chat_native`, the part of the typing | a slow reader's stream ends; who types when the stream begins is not told |
| `ChatTimeline!CancelFinds` | as `chat_native`, the part of the messages | the message was sent meanwhile: NotFound instead of the documented false |
| `ChatTimeline!PaginationEndsFirst` | as `chat_native`, the part of the pages | the page is closed while older messages load |
| `ChatTokens!AnnouncementHeard` | as `chat_native`, the part of the tokens | the extension writes the old hash over the announced one |
| `ChatTokens!RenewalUndisturbed` | likewise | a refused request reloads the renewed token first, and the update ends in a failure |
| `ChatTokens!ExpiredIsCurrent` | likewise | a request with the former token is refused after the renewal |
| `ChatTokens!LogoutForgets` | likewise | the extension persists what it has refreshed after the app has logged out |

## What is not modelled

`PROJECT.json` lists every component with its reason. In short:

* The Matrix SDK is external: its sync service, entries, timelines, send queue and
  refresh are modelled as far as the Rust code uses them.
* Of the native chat, the list of threads (`threads.rs`), which is watched and
  paged as the others are; edits, reactions, redactions, receipts and members,
  which are single calls of the SDK; media, encryption, logging, `abort_login`.
* Endpoints, conversions, labels, layout and the release gateway have no state
  that lasts over two calls; the tools are sequential programs over a working
  tree.
* Two compositions: the golden app's wiring of authentication, capabilities and
  chat, and the contact repository with its cache.
* Generated and vendored code is not written here. That includes
  `ngotools_chat/rust/src/frb_generated.rs`, which is two thirds of the Rust lines
  of the repository.
* Tokens, PKCE, attestation, ciphers and JSON are abstracted to whether they fit.

## Plan

The order followed the weight of what can go wrong: the session and the private
data of users (`MobileAuth`), then the chat that depends on it
(`ChatConnector`, `ChatLifecycle`), then what the user types (`ContactCache`,
`ContactDrafts`), then what is shown (`MobileCapabilities`, the lists,
`Duties`), then the native chat (`ChatTokens`, `RoomList`, `ChatTimeline`). These
are done, with the abstract specification `LatestResult`, and proofs of the
safety properties of all of them.

Left, in this order:

1. `GoldenRuntime`, a composition of `MobileAuth`, `MobileCapabilities` and the
   connector along `example/golden_app/lib/runtime.dart`: one capabilities cubit
   is kept while users come and go, and load() does nothing once there is a
   snapshot; the chat is disconnected before the token is gone; nobody renews
   the token.
2. A composition of `ContactCache` with `CachingContactsRepository`: pages that
   are stored after the mutation that outdated them.
3. Proofs: `TypingAgrees` of `ChatTimeline`; that `EventsList` implements
   `LatestResult`, which needs its failed reloads in the abstract specification.
4. The list of threads, which reports its failures without their kind
   (`threads.rs:116`).
