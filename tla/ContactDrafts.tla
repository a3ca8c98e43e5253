---------------------------- MODULE ContactDrafts ----------------------------
(* ContactDraftManager with the editor and drafts pages that call it. Calls of *)
(* the store are one step, at the moment they are made: EncryptedContactCache  *)
(* runs them one after another in the order of their calls and keeps each      *)
(* whole (module ContactCache). What the user does, other users' edits and the *)
(* requests of the app interleave between the awaits; a page may be left while *)
(* its submission runs, the app may be killed and a request or its answer may  *)
(* be lost.                                                                    *)
EXTENDS Naturals, FiniteSets, Functions

CONSTANTS
    NewContacts,   \* local ids of drafts of contacts to be created
    Edits,         \* local ids of drafts that edit the one contact there is
    Contents,      \* what the form may hold
    Tasks,         \* bound: submissions that run at the same time
    MaxPages,      \* bound: times an editor is opened
    MaxVersion,    \* bound: versions of the contact
    MaxFaults      \* bound: failing calls of the store and server errors

ASSUME DraftsAssumption == NewContacts \cap Edits = {}
ASSUME BoundAssumption == MaxPages \in Nat /\ MaxVersion \in Nat \ {0}
                           /\ MaxFaults \in Nat

VARIABLES
    store,      \* the draft store: local id -> draft
    page,       \* the editor page on the screen
    tasks,      \* the calls of _submit from its dialog on
    version,    \* server: the version of the contact
    replies,    \* server: the mutations applied, with their keys
    saved,      \* history: what the user last saved of each draft; absent once
                \* discarded
    opened, faults

server == <<version, replies>>
bounds == <<opened, faults>>
vars == <<store, page, tasks, server, saved, bounds>>

Drafts == NewContacts \cup Edits
States == {"local", "unsent", "validationFailure", "conflict"}
Shown == {"editing", "localSaved", "submitting", "saved", "unsent", "validationFailure",
          "conflict", "draftLimit", "storageFailure"}

\* base 0: the draft creates a contact. The idempotency key <<id, 0>> is drawn
\* with the draft.
Keys == Drafts \X (0 .. 3)
Draft == [id : Drafts, key : Keys, base : 0 .. MaxVersion, content : Contents, state : States]

NoDraft == [id |-> "none", key |-> <<"none", 0>>, base |-> 0, content |-> "none", state |-> "local"]
Closed == [id |-> 0, draft |-> NoDraft, status |-> "editing"]
Free == [at |-> "free", page |-> 0, draft |-> NoDraft, outcome |-> "none"]

Applied == {r.key[1] : r \in replies}

Init ==
    /\ store = [x \in {} |-> 0] /\ page = Closed /\ tasks = [t \in Tasks |-> Free]
    /\ version = 1 /\ replies = {}
    /\ saved = [x \in {} |-> 0] /\ opened = 0 /\ faults = 0

-----------------------------------------------------------------------------
(* The pages.                                                                   *)

Busy == page.status \in {"submitting", "saved"}
Put(f, x, v) == [y \in DOMAIN f \cup {x} |-> IF y = x THEN v ELSE f[y]]
Drop(f, x) == Restrict(f, DOMAIN f \ {x})
Fails == faults < MaxFaults /\ faults' = faults + 1
Works == UNCHANGED faults

\* The draft an editor opens with: a new one, of the version of the contact that
\* the details page shows, or a kept one.
Openable ==
    Range(store) \cup
    {[id |-> x, key |-> <<x, 0>>, base |-> IF x \in Edits THEN version ELSE 0,
      content |-> c, state |-> "local"] :
        x \in {y \in Drafts : /\ y \notin DOMAIN store \cup DOMAIN saved \cup Applied
                              /\ \A t \in Tasks : tasks[t] = Free \/ tasks[t].draft.id # y},
        c \in Contents}

Open ==
    /\ page = Closed /\ opened < MaxPages
    /\ \E d \in Openable : page' = [id |-> opened + 1, draft |-> d, status |-> "editing"]
    /\ opened' = opened + 1
    /\ UNCHANGED <<store, tasks, server, saved, faults>>

\* saveDraft with the form's content c; its failures are shown.
SaveDraft(c) ==
    LET d == [page.draft EXCEPT !.content = c, !.state = "local"] IN
    /\ store' = Put(store, d.id, d)
    /\ saved' = Put(saved, d.id, c)
    /\ page' = [page EXCEPT !.draft = d, !.status = "localSaved"]
    /\ Works

SaveFails ==
    /\ Fails
    /\ page' = [page EXCEPT !.status = "storageFailure"]
    /\ UNCHANGED <<store, saved>>

Save ==
    /\ page # Closed /\ ~Busy
    /\ \/ \E c \in Contents : SaveDraft(c)
       \/ SaveFails
    /\ UNCHANGED <<tasks, server, opened>>

\* _submit saves, then asks. A second tap before the first has saved opens a
\* second dialog.
Submit ==
    /\ page # Closed /\ ~Busy
    /\ \/ \E c \in Contents, t \in Tasks :
             /\ SaveDraft(c)
             /\ tasks[t] = Free
             /\ tasks' = [tasks EXCEPT ![t] = [Free EXCEPT !.at = "dialog", !.page = page.id]]
       \/ SaveFails /\ UNCHANGED tasks
    /\ UNCHANGED <<server, opened>>

Cancel(t) ==
    /\ tasks[t].at = "dialog"
    /\ tasks' = [tasks EXCEPT ![t] = Free]
    /\ UNCHANGED <<store, page, server, saved, bounds>>

Leave ==
    /\ page # Closed
    /\ \A t \in Tasks : tasks[t].at # "dialog"
    /\ page' = Closed
    /\ UNCHANGED <<store, tasks, server, saved, bounds>>

\* The drafts page is under the editor: a draft is discarded while none is open.
Discard(x) ==
    /\ page = Closed /\ x \in DOMAIN store
    /\ store' = Drop(store, x)
    /\ saved' = Drop(saved, x)
    /\ UNCHANGED <<page, tasks, server, bounds>>

-----------------------------------------------------------------------------
(* submitDraft.                                                                 *)

At(t, at) == tasks[t].at = at
Goto(t, at) == tasks' = [tasks EXCEPT ![t].at = at]
Show(t, status) ==
    page' = IF page.id = tasks[t].page THEN [page EXCEPT !.status = status] ELSE page
Ends(t, status) == tasks' = [tasks EXCEPT ![t] = Free] /\ Show(t, status)
Answer(t, outcome) ==
    tasks' = [tasks EXCEPT ![t].at = "answered", ![t].outcome = outcome]

\* Mutant of Submitted: a key for each submission.
SubmittedFresh(d) == [d EXCEPT !.key = <<@[1], (@[2] + 1) % 4>>]

\* The draft as it is sent: with the key it was created with.
Submitted(d) == d

\* writeDraft(submitting), of the draft the page holds when it is confirmed.
Confirm(t) ==
    /\ At(t, "dialog")
    /\ LET d == Submitted(page.draft) IN
       \/ /\ store' = Put(store, d.id, d)
          /\ tasks' = [tasks EXCEPT ![t].at = "request", ![t].draft = d]
          /\ page' = [page EXCEPT !.draft = d, !.status = "submitting"]
          /\ Works
       \/ Fails /\ Ends(t, "storageFailure") /\ UNCHANGED store
    /\ UNCHANGED <<server, saved, opened>>

\* The server answers a known key with what it did before, refuses another
\* content under it, and refuses a stale base and an invalid content.
Serve(t) ==
    /\ At(t, "request")
    /\ LET d == tasks[t].draft
           before == {r \in replies : r.key = d.key}
       IN CASE before # {} ->
                 /\ Answer(t, IF d.content \in {r.content : r \in before}
                              THEN "success" ELSE "keyInvalid")
                 /\ UNCHANGED server
            [] before = {} /\ d.base \notin {0, version} ->
                 Answer(t, "versionConflict") /\ UNCHANGED server
            [] OTHER ->
                 \/ Answer(t, "invalid") /\ UNCHANGED server
                 \/ /\ Answer(t, "success")
                    /\ replies' = replies \cup {[key |-> d.key, content |-> d.content]}
                    /\ \/ d.base = 0 /\ UNCHANGED version
                       \/ d.base # 0 /\ version < MaxVersion /\ version' = version + 1
    /\ UNCHANGED <<store, page, saved, bounds>>

\* The request or its answer is lost; or the server, or the session, fails.
Lost(t) ==
    /\ tasks[t].at \in {"request", "answered"}
    /\ \/ Answer(t, "network") /\ Works
       \/ Answer(t, "error") /\ Fails
    /\ UNCHANGED <<store, page, server, saved, opened>>

\* Mutant of Retained: any 409 is taken for a stale version.
RetainedAny409(outcome) ==
    CASE outcome \in {"versionConflict", "keyInvalid"} -> "conflict"
      [] outcome = "network" -> "unsent"
      [] outcome = "invalid" -> "validationFailure"
      [] OTHER -> "none"

\* The state a failed submission leaves its draft in; other errors leave it
\* alone (_mutationGuard, submitDraft).
Retained(outcome) ==
    CASE outcome = "versionConflict" -> "conflict"
      [] outcome = "network" -> "unsent"
      [] outcome = "invalid" -> "validationFailure"
      [] OTHER -> "none"

\* Mutant of Retain: a refused draft is given up.
RetainNothing(t) ==
    /\ At(t, "answered")
    /\ LET state == Retained(tasks[t].outcome) IN
       /\ state # "none"
       /\ store' = Drop(store, tasks[t].draft.id)
       /\ Ends(t, state) /\ Works
    /\ UNCHANGED <<server, saved, opened>>

\* _retain writes the draft as it was sent.
Retain(t) ==
    /\ At(t, "answered")
    /\ LET state == Retained(tasks[t].outcome)
           d == tasks[t].draft
       IN /\ state # "none"
          /\ \/ store' = Put(store, d.id, [d EXCEPT !.state = state]) /\ Ends(t, state) /\ Works
             \/ Fails /\ Ends(t, "storageFailure") /\ UNCHANGED store
    /\ UNCHANGED <<server, saved, opened>>

\* Mutant of Refused: the error is not caught by the page.
RefusedUncaught(t) ==
    /\ At(t, "answered") /\ tasks[t].outcome \in {"keyInvalid", "error"}
    /\ tasks' = [tasks EXCEPT ![t] = Free] /\ UNCHANGED page
    /\ UNCHANGED <<store, server, saved, bounds>>

Refused(t) ==
    /\ At(t, "answered") /\ tasks[t].outcome \in {"keyInvalid", "error"}
    /\ Ends(t, "storageFailure")
    /\ UNCHANGED <<store, server, saved, bounds>>

\* _complete: the contact is cached, the search pages are invalidated and the
\* draft is deleted; a failure leaves out what follows.
Complete(t) ==
    /\ At(t, "answered") /\ tasks[t].outcome = "success"
    /\ \/ Goto(t, "invalidate") /\ UNCHANGED page /\ Works
       \/ Ends(t, "storageFailure") /\ Fails
    /\ UNCHANGED <<store, server, saved, opened>>

Invalidate(t) ==
    /\ At(t, "invalidate")
    /\ \/ Goto(t, "delete") /\ UNCHANGED page /\ Works
       \/ Ends(t, "storageFailure") /\ Fails
    /\ UNCHANGED <<store, server, saved, opened>>

Delete(t) ==
    /\ At(t, "delete")
    /\ \/ /\ store' = Drop(store, tasks[t].draft.id)
          /\ Ends(t, "saved") /\ Works
       \/ Ends(t, "storageFailure") /\ Fails /\ UNCHANGED store
    /\ UNCHANGED <<server, saved, opened>>

-----------------------------------------------------------------------------
(* Other users and the app's end.                                               *)

OtherEdit ==
    /\ version < MaxVersion /\ version' = version + 1
    /\ UNCHANGED <<store, page, tasks, replies, saved, bounds>>

Kill ==
    /\ page' = Closed /\ tasks' = [t \in Tasks |-> Free]
    /\ UNCHANGED <<store, server, saved, bounds>>

-----------------------------------------------------------------------------
User == Open \/ Save \/ Submit \/ Leave \/ \E x \in Drafts : Discard(x)
Submission(t) == Serve(t) \/ Lost(t) \/ Retain(t) \/ Refused(t) \/ Complete(t)
                 \/ Invalidate(t) \/ Delete(t)
Next ==
    \/ User \/ OtherEdit \/ Kill
    \/ \E t \in Tasks : Cancel(t) \/ Confirm(t) \/ Submission(t)

Spec == Init /\ [][Next]_vars

-----------------------------------------------------------------------------
\* Every variable keeps its type; the page and the tasks hold drafts when they
\* are in use.
TypeOK ==
    /\ DOMAIN store \subseteq Drafts /\ \A x \in DOMAIN store : store[x] \in Draft /\ store[x].id = x
    /\ page.status \in Shown /\ page.id \in 0 .. opened /\ (page = Closed \/ page.draft \in Draft)
    /\ \A t \in Tasks : /\ tasks[t].page \in 0 .. opened
                        /\ tasks[t].at \notin {"free", "dialog"} => tasks[t].draft \in Draft
                        /\ tasks[t].at = "dialog" => page.id = tasks[t].page
    /\ version \in 1 .. MaxVersion /\ DOMAIN saved \subseteq Drafts

\* A draft is applied at most once, however often it is confirmed, lost, retried
\* and edited in between ("keeps one idempotency key across manual retries",
\* packages/ngotools_contacts/README.md:21).
AppliedOnce == \A r, s \in replies : r.key[1] = s.key[1] => r = s

\* A draft leaves the store only by the user's discard or after the server has
\* applied it ("Failures are retained", contact_draft_manager.dart:93).
KeptUntilApplied ==
    [][ \A x \in DOMAIN store \ DOMAIN store' : x \in Applied \/ Discard(x) ]_vars

\* A draft is called a conflict only if its contact has really changed since it
\* was drafted, also when its key was refused (_mutationGuard).
ConflictMeansStale ==
    \A x \in DOMAIN store : store[x].state = "conflict" => store[x].base \in 1 .. version - 1

\* A page is busy, its fields disabled, only while its submission is at work: any
\* other end of a submission gives the page back (contact_editor.dart:341).
SubmittingAtWork ==
    page.status = "submitting" =>
        \E t \in Tasks : /\ tasks[t].page = page.id
                         /\ tasks[t].at \in {"request", "answered", "invalidate", "delete"}

-----------------------------------------------------------------------------
(* What the documentation says and the code does not keep.                     *)

\* "retains ... user-created drafts without ... silent eviction" (README.md:19-20):
\* what the user saved last is what the store holds. A submission of an earlier
\* content writes that content back.
EditsKept == \A x \in DOMAIN store \cap DOMAIN saved : store[x].content = saved[x]

\* "Removes one draft after an explicit discard" (contact_cache.dart:121): a
\* discarded draft stays away until it is saved again. A submission that was
\* under way writes it back.
DiscardedStays == DOMAIN store \subseteq DOMAIN saved
=============================================================================
