----------------------------- MODULE ContactCache -----------------------------
(* EncryptedContactCache: one encrypted document with cached contacts, details *)
(* and search pages, and the user's drafts, in a file whose key is in the      *)
(* protected storage. Operations run one after another; each reads the whole  *)
(* document, changes it and replaces the file through a temporary one. The     *)
(* storage may fail or lose the key, the clock may move either way and the app *)
(* may be killed at every await.                                               *)
EXTENDS Integers, FiniteSets, Functions

CONSTANTS
    Contacts, Searches, Drafts,  \* contact ids, search keys, local draft ids
    MaxAge,                      \* ContactCachePolicy.maxAge, in clock ticks
    MaxSearches, MaxContacts, MaxDrafts,    \* the other limits of the policy
    MaxTime,                     \* bound: the clock shows 0 .. MaxTime
    MaxFaults,                   \* bound: storage calls that fail or lose the key
    MaxKills                     \* bound: times the app is killed

\* ContactCachePolicy accepts positive limits only.
ASSUME PolicyAssumption ==
    /\ MaxAge \in Nat \ {0} /\ MaxSearches \in Nat \ {0}
    /\ MaxContacts \in Nat \ {0} /\ MaxDrafts \in Nat \ {0}
\* Contact ids are machine integers, search keys digests, local ids UUIDs.
ASSUME FiniteAssumption ==
    IsFiniteSet(Contacts) /\ IsFiniteSet(Searches) /\ IsFiniteSet(Drafts)
ASSUME BoundAssumption == MaxTime \in Nat /\ MaxFaults \in Nat /\ MaxKills \in Nat

VARIABLES
    now,        \* the wall clock
    file,       \* the encrypted document: [doc, key] or NoFile
    temporary,  \* whether a temporary file lies beside it
    key,        \* the key in the protected storage; 0 when there is none
    purged,     \* EncryptedContactCache._purged
    op,         \* the running operation: [at, name, doc]
    cleared,    \* history: the last purge removed the file and the key
    keys,       \* number of keys made
    faults, kills

disk == <<file, temporary, key, keys>>
vars == <<now, disk, purged, op, cleared, faults, kills>>

Times == 0 .. MaxTime

\* Partial functions: what is cached, and when it was stored.
Cached(S) == UNION {[D -> Times] : D \in SUBSET S}
Pages == [ids : SUBSET Contacts, at : Times]
Document == [contacts : Cached(Contacts), details : Cached(Contacts),
             searches : UNION {[D -> Pages] : D \in SUBSET Searches},
             drafts : SUBSET Drafts]

None == [x \in {} |-> 0]
Empty == [contacts |-> None, details |-> None, searches |-> None, drafts |-> {}]
NoFile == [doc |-> Empty, key |-> 0]
Idle == [at |-> "none", name |-> "none", doc |-> Empty]

Init ==
    /\ now = 0
    /\ file = NoFile /\ temporary = FALSE /\ key = 0 /\ keys = 0
    /\ purged = FALSE /\ op = Idle /\ cleared = FALSE
    /\ faults = 0 /\ kills = 0

-----------------------------------------------------------------------------
(* The document.                                                                *)

\* A timestamp from the future, of a clock set back, counts as stale.
Fresh(t) == t <= now /\ now - t <= MaxAge

Without(f, S) == Restrict(f, DOMAIN f \ S)
With(f, x, v) == [y \in DOMAIN f \cup {x} |-> IF y = x THEN v ELSE f[y]]

\* The n latest of the entries dated by f, all of them if there are no more: of
\* equal timestamps the sort may put either first.
Latest(f, n) ==
    {R \in SUBSET DOMAIN f :
        /\ Cardinality(R) = IF Cardinality(DOMAIN f) <= n THEN Cardinality(DOMAIN f) ELSE n
        /\ \A x \in R, y \in DOMAIN f \ R : f[x] >= f[y]}

\* When each contact was cached last, in a page or by itself.
LatestStoredAt(contacts, details) ==
    LET At(f, c) == IF c \in DOMAIN f THEN f[c] ELSE -1 IN
    [c \in DOMAIN contacts \cup DOMAIN details |->
        IF At(contacts, c) >= At(details, c) THEN At(contacts, c) ELSE At(details, c)]

\* Mutant of Prune: pages whose contacts are evicted stay.
PruneDangling(d) ==
    {[contacts |-> Restrict(d.contacts, DOMAIN d.contacts \cap kept),
      details |-> Restrict(d.details, DOMAIN d.details \cap kept),
      searches |-> Restrict(d.searches, pages),
      drafts |-> d.drafts] :
        pages \in Latest([s \in DOMAIN d.searches |-> d.searches[s].at], MaxSearches),
        kept \in Latest(LatestStoredAt(d.contacts, d.details), MaxContacts)}

\* d with the contacts that are kept, and the pages that have all theirs.
Left(d, contacts, details, pages, kept) ==
    [contacts |-> Restrict(contacts, DOMAIN contacts \cap kept),
     details |-> Restrict(details, DOMAIN details \cap kept),
     searches |-> Restrict(d.searches, {s \in pages : d.searches[s].ids \subseteq kept}),
     drafts |-> d.drafts]

Prune(d) ==
    LET contacts == Restrict(d.contacts, {c \in DOMAIN d.contacts : Fresh(d.contacts[c])})
        details == Restrict(d.details, {c \in DOMAIN d.details : Fresh(d.details[c])})
        live == {s \in DOMAIN d.searches : /\ Fresh(d.searches[s].at)
                                           /\ d.searches[s].ids \subseteq DOMAIN contacts}
    IN {Left(d, contacts, details, pages, kept) :
            pages \in Latest([s \in live |-> d.searches[s].at], MaxSearches),
            kept \in Latest(LatestStoredAt(contacts, details), MaxContacts)}

-----------------------------------------------------------------------------
(* The steps of an operation.                                                   *)

Begin(name) == op.at = "none" /\ op' = [Idle EXCEPT !.at = "load", !.name = name]

\* The document that _loadDocument returns. A file that cannot be read with the
\* key, or whose key is gone, is deleted; the missing key is made anew.
Readable == file.key # 0 /\ file.key = key
Loaded == IF Readable THEN file.doc ELSE Empty

Load ==
    /\ op.at = "load"
    /\ IF file = NoFile
       THEN UNCHANGED disk
       ELSE /\ key' = IF key = 0 THEN keys + 1 ELSE key
            /\ keys' = IF key = 0 THEN keys + 1 ELSE keys
            /\ file' = IF Readable THEN file ELSE NoFile
            /\ UNCHANGED temporary

\* Writes(docs): the operation changes the document; Returns: it ends unchanged.
Writes(docs) == \E d \in docs : op' = [op EXCEPT !.at = "encrypt", !.doc = d]
Returns == op' = Idle
Rest == UNCHANGED <<now, purged, cleared, faults, kills>>

\* Mutant of Request: the cache does not seal itself.
RequestUnsealed ==
    /\ \E name \in {"readSearch", "readContact", "writeSearch", "writeContact",
                    "invalidateSearches", "writeDraft", "deleteDraft"} : Begin(name)
    /\ Rest /\ UNCHANGED disk

\* An operation of a purged cache returns nothing or throws.
Request ==
    /\ \E name \in {"readSearch", "readContact", "writeSearch", "writeContact",
                    "invalidateSearches", "writeDraft", "deleteDraft"} : Begin(name)
    /\ ~purged
    /\ Rest /\ UNCHANGED disk

\* readSearch: a stale page is removed; a page with a missing or stale contact
\* is removed with that contact.
ReadSearch ==
    /\ op.name = "readSearch" /\ Load
    /\ \E s \in Searches :
       LET d == Loaded
           bad == {c \in d.searches[s].ids :
                      c \notin DOMAIN d.contacts \/ ~Fresh(d.contacts[c])}
           dropped == [d EXCEPT !.searches = Without(@, {s})]
       IN CASE s \notin DOMAIN d.searches -> Returns
            [] s \in DOMAIN d.searches /\ ~Fresh(d.searches[s].at) -> Writes({dropped})
            [] s \in DOMAIN d.searches /\ Fresh(d.searches[s].at) /\ bad # {} ->
                 Writes({[dropped EXCEPT !.contacts = Without(@, {c})] : c \in bad})
            [] OTHER -> Returns
    /\ Rest

ReadContact ==
    /\ op.name = "readContact" /\ Load
    /\ \E c \in Contacts :
       IF c \in DOMAIN Loaded.details /\ ~Fresh(Loaded.details[c])
       THEN Writes({[Loaded EXCEPT !.details = Without(@, {c})]})
       ELSE Returns
    /\ Rest

\* Mutant of Stored: a contact that is cached already keeps its timestamp.
StoredOnce(d, s, ids) ==
    [d EXCEPT !.contacts = [c \in DOMAIN @ \cup ids |-> IF c \in DOMAIN @ THEN @[c] ELSE now],
              !.searches = With(@, s, [ids |-> ids, at |-> now])]

\* Stored(d, s, ids): d with a page of results under s.
Stored(d, s, ids) ==
    [d EXCEPT !.contacts = [c \in DOMAIN @ \cup ids |-> IF c \in ids THEN now ELSE @[c]],
              !.searches = With(@, s, [ids |-> ids, at |-> now])]

WriteSearch ==
    /\ op.name = "writeSearch" /\ Load
    /\ \E s \in Searches, ids \in SUBSET Contacts : Writes(Prune(Stored(Loaded, s, ids)))
    /\ Rest

WriteContact ==
    /\ op.name = "writeContact" /\ Load
    /\ \E c \in Contacts :
          Writes(Prune([Loaded EXCEPT !.contacts = With(@, c, now),
                                      !.details = With(@, c, now)]))
    /\ Rest

InvalidateSearches ==
    /\ op.name = "invalidateSearches" /\ Load
    /\ Writes({[Loaded EXCEPT !.searches = None]})
    /\ Rest

\* A new draft over the limit is refused, never stored in place of another.
WriteDraft ==
    /\ op.name = "writeDraft" /\ Load
    /\ \E x \in Drafts :
       IF x \notin Loaded.drafts /\ Cardinality(Loaded.drafts) >= MaxDrafts
       THEN Returns
       ELSE Writes({[Loaded EXCEPT !.drafts = @ \cup {x}]})
    /\ Rest

DeleteDraft ==
    /\ op.name = "deleteDraft" /\ Load
    /\ \E x \in Drafts :
       IF x \in Loaded.drafts
       THEN Writes({[Loaded EXCEPT !.drafts = @ \ {x}]})
       ELSE Returns
    /\ Rest

\* _writeDocument: the key is read or made, ...
Encrypt ==
    /\ op.at = "encrypt"
    /\ key' = IF key = 0 THEN keys + 1 ELSE key
    /\ keys' = IF key = 0 THEN keys + 1 ELSE keys
    /\ op' = [op EXCEPT !.at = "write"]
    /\ UNCHANGED <<file, temporary>> /\ Rest

\* Mutant of WriteTemporary: the old file is deleted first.
WriteInPlace ==
    /\ op.at = "write"
    /\ file' = NoFile /\ temporary' = TRUE
    /\ op' = [op EXCEPT !.at = "rename"]
    /\ UNCHANGED <<key, keys>> /\ Rest

\* ... the temporary file is written ...
WriteTemporary ==
    /\ op.at = "write"
    /\ temporary' = TRUE
    /\ op' = [op EXCEPT !.at = "rename"]
    /\ UNCHANGED <<file, key, keys>> /\ Rest

\* ... and takes the place of the old one. The key of the file is the one that
\* Encrypt read, even if the protected storage has lost it since.
Rename ==
    /\ op.at = "rename"
    /\ file' = [doc |-> op.doc, key |-> keys]
    /\ temporary' = FALSE
    /\ op' = Idle
    /\ UNCHANGED <<key, keys>> /\ Rest

\* purgePrivateData: seals the cache, then deletes the file and the key; either
\* may fail without keeping the other from being deleted.
Purge ==
    /\ op.at = "none"
    /\ op' = [Idle EXCEPT !.at = "purge", !.name = "purge"]
    /\ purged' = TRUE
    /\ UNCHANGED <<now, disk, cleared, faults, kills>>

PurgeFile ==
    /\ op.at = "purge"
    /\ \/ file' = NoFile /\ op' = [op EXCEPT !.at = "purgeKey"] /\ UNCHANGED faults
       \/ /\ faults < MaxFaults /\ faults' = faults + 1
          /\ op' = [op EXCEPT !.at = "purgeKeyOnly"] /\ UNCHANGED file
    /\ UNCHANGED <<now, temporary, key, keys, purged, cleared, kills>>

PurgeKey ==
    /\ op.at \in {"purgeKey", "purgeKeyOnly"}
    /\ \/ key' = 0 /\ cleared' = (op.at = "purgeKey") /\ UNCHANGED faults
       \/ /\ faults < MaxFaults /\ faults' = faults + 1
          /\ cleared' = FALSE /\ UNCHANGED key
    /\ op' = Idle
    /\ UNCHANGED <<now, file, temporary, keys, purged, kills>>

-----------------------------------------------------------------------------
(* The environment.                                                             *)

ClockMoves ==
    /\ now' \in Times
    /\ UNCHANGED <<disk, purged, op, cleared, faults, kills>>

\* A storage call throws: the operation ends; a temporary file is deleted, if
\* it can be. An unreadable file may stay beside the key just made anew.
StorageFails ==
    /\ op.at \in {"load", "encrypt", "write", "rename"} /\ faults < MaxFaults
    /\ faults' = faults + 1
    /\ op' = Idle
    /\ temporary' \in {temporary, FALSE}
    /\ \/ UNCHANGED <<key, keys>>
       \/ /\ op.at = "load" /\ file # NoFile /\ key = 0
          /\ key' = keys + 1 /\ keys' = keys + 1
    /\ UNCHANGED <<now, file, purged, cleared, kills>>

\* The protected storage starts anew (resetOnError).
KeyLost ==
    /\ key # 0 /\ faults < MaxFaults
    /\ faults' = faults + 1
    /\ key' = 0
    /\ UNCHANGED <<now, file, temporary, keys, purged, op, cleared, kills>>

\* The app is killed, or a session ends and the next begins with a new cache.
Restart ==
    /\ kills < MaxKills
    /\ kills' = kills + 1
    /\ op' = Idle /\ purged' = FALSE /\ cleared' = FALSE
    /\ UNCHANGED <<now, disk, faults>>

-----------------------------------------------------------------------------
Operation == ReadSearch \/ ReadContact \/ WriteSearch \/ WriteContact
             \/ InvalidateSearches \/ WriteDraft \/ DeleteDraft
Steps == Operation \/ Encrypt \/ WriteTemporary \/ Rename \/ PurgeFile \/ PurgeKey
Next == Request \/ Purge \/ Steps \/ ClockMoves \/ StorageFails \/ KeyLost \/ Restart

Spec == Init /\ [][Next]_vars

-----------------------------------------------------------------------------
\* Every variable keeps its type and the document its limits, in the file and
\* on its way there, whatever the clock does.
WithinLimits(d) ==
    /\ Cardinality(DOMAIN d.contacts \cup DOMAIN d.details) <= MaxContacts
    /\ Cardinality(DOMAIN d.searches) <= MaxSearches
    /\ Cardinality(d.drafts) <= MaxDrafts

TypeOK ==
    /\ now \in Times /\ purged \in BOOLEAN /\ cleared \in BOOLEAN
    /\ file.doc \in Document /\ op.doc \in Document
    /\ op.at \in {"none", "load", "encrypt", "write", "rename", "purge", "purgeKey",
                  "purgeKeyOnly"}
    /\ temporary \in BOOLEAN /\ key \in {0, keys} /\ file.key \in 0 .. keys
    /\ WithinLimits(file.doc) /\ WithinLimits(op.doc)

\* A page that is on its way to the file after a write can be served: pruning
\* has left all its contacts (_prune; only reads may leave a page without).
PagesComplete ==
    op.name \in {"writeSearch", "writeContact"} =>
        \A s \in DOMAIN op.doc.searches :
            op.doc.searches[s].ids \subseteq DOMAIN op.doc.contacts

\* What was just stored is not what pruning evicts: a page no larger than the
\* cache is in the pruned document with its contacts, unless entries of the
\* same moment compete with it (_prune, writeSearch).
JustStoredStays ==
    \A s \in Searches, ids \in SUBSET Contacts :
        /\ Cardinality(ids) <= MaxContacts
        /\ \A t \in DOMAIN file.doc.searches : file.doc.searches[t].at # now
        /\ \A c \in DOMAIN file.doc.contacts : file.doc.contacts[c] # now
        /\ \A c \in DOMAIN file.doc.details : file.doc.details[c] # now
        => \A d \in Prune(Stored(file.doc, s, ids)) :
              s \in DOMAIN d.searches /\ ids \subseteq DOMAIN d.contacts

\* A draft leaves the file only because the user deleted it, the data are
\* purged or the file cannot be read any more - never for lack of room, by age,
\* or because the app was killed while it replaced the file ("without a TTL or
\* silent eviction", README.md:19-20).
DraftsKept ==
    [][ file.doc.drafts \subseteq file'.doc.drafts
        \/ op.name \in {"deleteDraft", "purge"} \/ ~Readable ]_vars

\* Once a purge has removed the file and the key no late operation brings
\* either back ("A purged cache seals itself", README.md:16-17).
PurgedGone == purged /\ cleared => file = NoFile /\ key = 0

-----------------------------------------------------------------------------
(* What the documentation says and the code does not keep.                     *)

\* "attempt to remove both ciphertext and key" (README.md:16): the temporary
\* file of a write that was cut short is never deleted.
NoCiphertextLeft == cleared => ~temporary
=============================================================================
