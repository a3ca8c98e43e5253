------------------------ MODULE ContactCache_proofs -------------------------
(* Theorems about ContactCache, for any contacts, searches, drafts, limits,    *)
(* times, faults and kills: the document keeps its limits, its pages are       *)
(* complete after a write, what was just stored stays, no draft is evicted and *)
(* nothing comes back after a purge. The invariant relates the document of the *)
(* running operation to the file it was read from.                             *)
EXTENDS ContactCache, FiniteSetTheorems, TLAPS

USE PolicyAssumption, FiniteAssumption, BoundAssumption
    DEF PolicyAssumption, FiniteAssumption, BoundAssumption

Complete(d) == \A s \in DOMAIN d.searches : d.searches[s].ids \subseteq DOMAIN d.contacts

Good(d) == d \in Document /\ WithinLimits(d)

Writing == {"encrypt", "write", "rename"}
Purging == {"purge", "purgeKey", "purgeKeyOnly"}
Names == {"none", "readSearch", "readContact", "writeSearch", "writeContact",
          "invalidateSearches", "writeDraft", "deleteDraft", "purge"}

\* What runs is of its kind: a purge seals, a sealed cache runs nothing else.
OpGood ==
    /\ op.at \in {"none", "load"} \cup Writing \cup Purging
    /\ op.name \in Names
    /\ op = [at |-> op.at, name |-> op.name, doc |-> op.doc]
    /\ op.at \in Purging <=> op.name = "purge"
    /\ op.at \in {"none", "load"} \cup Purging => op.doc = Empty
    /\ op.at = "none" => op.name = "none"
    /\ purged => op.at \in {"none"} \cup Purging
    /\ op.at \in Purging => purged

DiskGood ==
    /\ keys \in Nat /\ key \in {0, keys}
    /\ file = [doc |-> file.doc, key |-> file.key] /\ file.key \in 0 .. keys
    /\ temporary \in BOOLEAN

\* The drafts of the file are in what is to replace it, but for a deleted one.
Carries ==
    op.at \in Writing /\ op.name # "deleteDraft" => file.doc.drafts \subseteq op.doc.drafts

\* What a purge has removed is gone while the cache is sealed.
Sealed ==
    /\ purged /\ cleared => file = NoFile /\ key = 0
    /\ op.at = "purgeKey" => file = NoFile
    /\ cleared => purged

IInv == /\ now \in Times /\ purged \in BOOLEAN /\ cleared \in BOOLEAN
        /\ Good(file.doc) /\ Good(op.doc)
        /\ OpGood /\ DiskGood /\ Carries /\ Sealed /\ PagesComplete

-----------------------------------------------------------------------------
(* The document.                                                                *)

LEMMA CachedOf ==
  ASSUME NEW S, NEW f
  PROVE  f \in Cached(S) <=> DOMAIN f \subseteq S /\ f \in [DOMAIN f -> Times]
<1>1. ASSUME f \in Cached(S)
      PROVE  DOMAIN f \subseteq S /\ f \in [DOMAIN f -> Times]
  <2>1. PICK D \in SUBSET S : f \in [D -> Times]
    BY <1>1 DEF Cached
  <2> QED
    BY <2>1
<1> QED
  BY <1>1 DEF Cached

SearchTable == UNION {[D -> Pages] : D \in SUBSET Searches}

LEMMA TableOf ==
  ASSUME NEW f
  PROVE  f \in SearchTable <=> DOMAIN f \subseteq Searches /\ f \in [DOMAIN f -> Pages]
<1>1. ASSUME f \in SearchTable
      PROVE  DOMAIN f \subseteq Searches /\ f \in [DOMAIN f -> Pages]
  <2>1. PICK D \in SUBSET Searches : f \in [D -> Pages]
    BY <1>1 DEF SearchTable
  <2> QED
    BY <2>1
<1> QED
  BY <1>1 DEF SearchTable

\* A document is well formed if its four parts are.
LEMMA DocumentOf ==
  ASSUME NEW d
  PROVE  d \in Document <=>
           /\ d = [contacts |-> d.contacts, details |-> d.details,
                   searches |-> d.searches, drafts |-> d.drafts]
           /\ d.contacts \in Cached(Contacts) /\ d.details \in Cached(Contacts)
           /\ d.searches \in SearchTable /\ d.drafts \subseteq Drafts
BY DEF Document, SearchTable

\* A part of what is cached is well formed too.
LEMMA Parts ==
  ASSUME NEW f \in Cached(Contacts), NEW D \in SUBSET DOMAIN f
  PROVE  /\ Restrict(f, D) \in Cached(Contacts) /\ DOMAIN Restrict(f, D) = D
         /\ \A c \in D : Restrict(f, D)[c] = f[c]
BY CachedOf DEF Restrict

LEMMA TableParts ==
  ASSUME NEW f \in SearchTable, NEW D \in SUBSET DOMAIN f
  PROVE  /\ Restrict(f, D) \in SearchTable /\ DOMAIN Restrict(f, D) = D
         /\ \A s \in D : Restrict(f, D)[s] = f[s]
BY TableOf DEF Restrict

\* Fewer contacts, pages and drafts keep the limits.
LEMMA Fewer ==
  ASSUME NEW d, NEW e, Good(d), e \in Document,
         DOMAIN e.contacts \cup DOMAIN e.details \subseteq
            DOMAIN d.contacts \cup DOMAIN d.details,
         DOMAIN e.searches \subseteq DOMAIN d.searches, e.drafts \subseteq d.drafts
  PROVE  Good(e)
<1>1. /\ DOMAIN d.contacts \cup DOMAIN d.details \in SUBSET Contacts
      /\ DOMAIN d.searches \in SUBSET Searches /\ d.drafts \in SUBSET Drafts
  BY DocumentOf, CachedOf, TableOf DEF Good
<1>2. /\ IsFiniteSet(DOMAIN d.contacts \cup DOMAIN d.details)
      /\ IsFiniteSet(DOMAIN d.searches) /\ IsFiniteSet(d.drafts)
  BY <1>1, FS_Subset
<1>3. /\ Cardinality(DOMAIN e.contacts \cup DOMAIN e.details)
           =< Cardinality(DOMAIN d.contacts \cup DOMAIN d.details)
      /\ Cardinality(DOMAIN e.searches) =< Cardinality(DOMAIN d.searches)
      /\ Cardinality(e.drafts) =< Cardinality(d.drafts)
  <2>1. /\ DOMAIN e.contacts \cup DOMAIN e.details \in
             SUBSET (DOMAIN d.contacts \cup DOMAIN d.details)
        /\ DOMAIN e.searches \in SUBSET DOMAIN d.searches /\ e.drafts \in SUBSET d.drafts
    OBVIOUS
  <2> QED
    BY <1>2, <2>1, FS_Subset
<1>4. /\ IsFiniteSet(DOMAIN e.contacts \cup DOMAIN e.details)
      /\ IsFiniteSet(DOMAIN e.searches) /\ IsFiniteSet(e.drafts)
  BY <1>2, FS_Subset
<1>5. \A S : IsFiniteSet(S) => Cardinality(S) \in Nat
  BY FS_CardinalityType
<1> HIDE DEF Document
<1> QED
  BY <1>2, <1>3, <1>4, <1>5 DEF Good, WithinLimits

\* The latest entries are some of them and no more than asked for.
LEMMA LatestFew ==
  ASSUME NEW f, NEW n \in Nat, IsFiniteSet(DOMAIN f), NEW R \in Latest(f, n)
  PROVE  /\ R \subseteq DOMAIN f /\ IsFiniteSet(R) /\ Cardinality(R) \in Nat
         /\ Cardinality(R) =< n
         /\ R = DOMAIN f \/ Cardinality(R) = n
         /\ \A x \in R, y \in DOMAIN f \ R : f[x] >= f[y]
<1>1. /\ R \in SUBSET DOMAIN f
      /\ Cardinality(R) = IF Cardinality(DOMAIN f) <= n THEN Cardinality(DOMAIN f) ELSE n
      /\ \A x \in R, y \in DOMAIN f \ R : f[x] >= f[y]
  BY DEF Latest
<1>2. IsFiniteSet(R) /\ (Cardinality(DOMAIN f) = Cardinality(R) => DOMAIN f = R)
  BY <1>1, FS_Subset
<1>3. Cardinality(R) \in Nat /\ Cardinality(DOMAIN f) \in Nat
  BY <1>2, FS_CardinalityType
<1> QED
  BY <1>1, <1>2, <1>3

\* What Prune chooses and what it leaves.
FreshContacts(d) == Restrict(d.contacts, {c \in DOMAIN d.contacts : Fresh(d.contacts[c])})
FreshDetails(d) == Restrict(d.details, {c \in DOMAIN d.details : Fresh(d.details[c])})
Live(d) == {s \in DOMAIN d.searches : /\ Fresh(d.searches[s].at)
                                      /\ d.searches[s].ids \subseteq DOMAIN FreshContacts(d)}
Stamps(d) == LatestStoredAt(FreshContacts(d), FreshDetails(d))

LEMMA PruneOf ==
  ASSUME NEW d, NEW e \in Prune(d)
  PROVE  \E pages \in Latest([s \in Live(d) |-> d.searches[s].at], MaxSearches),
            kept \in Latest(Stamps(d), MaxContacts) :
               e = Left(d, FreshContacts(d), FreshDetails(d), pages, kept)
<1> DEFINE C == FreshContacts(d)
           D == FreshDetails(d)
           P == Latest([s \in Live(d) |-> d.searches[s].at], MaxSearches)
           K == Latest(Stamps(d), MaxContacts)
<1>1. Prune(d) = {Left(d, C, D, pages, kept) : pages \in P, kept \in K}
  BY DEF Prune, Live, Stamps, FreshContacts, FreshDetails
<1> HIDE DEF P, K, C, D
<1>2. \E pages \in P, kept \in K : e = Left(d, C, D, pages, kept)
  BY <1>1
<1> QED
  BY <1>2 DEF P, K, C, D

LEMMA FreshParts ==
  ASSUME NEW d \in Document
  PROVE  /\ FreshContacts(d) \in Cached(Contacts) /\ FreshDetails(d) \in Cached(Contacts)
         /\ DOMAIN FreshContacts(d) \subseteq DOMAIN d.contacts
         /\ \A c \in DOMAIN FreshContacts(d) : FreshContacts(d)[c] = d.contacts[c]
         /\ DOMAIN FreshDetails(d) \subseteq DOMAIN d.details
         /\ \A c \in DOMAIN FreshDetails(d) : FreshDetails(d)[c] = d.details[c]
         /\ DOMAIN Stamps(d) = DOMAIN FreshContacts(d) \cup DOMAIN FreshDetails(d)
         /\ DOMAIN Stamps(d) \subseteq Contacts /\ IsFiniteSet(DOMAIN Stamps(d))
         /\ Live(d) \subseteq DOMAIN d.searches /\ DOMAIN d.searches \subseteq Searches
         /\ IsFiniteSet(Live(d))
<1> HIDE DEF Document
<1>1. /\ d.contacts \in Cached(Contacts) /\ d.details \in Cached(Contacts)
      /\ d.searches \in SearchTable
  BY DocumentOf
<1>2. /\ FreshContacts(d) \in Cached(Contacts)
      /\ DOMAIN FreshContacts(d) \subseteq DOMAIN d.contacts
      /\ \A c \in DOMAIN FreshContacts(d) : FreshContacts(d)[c] = d.contacts[c]
  <2> DEFINE D == {c \in DOMAIN d.contacts : Fresh(d.contacts[c])}
  <2>1. D \in SUBSET DOMAIN d.contacts /\ FreshContacts(d) = Restrict(d.contacts, D)
    BY DEF FreshContacts
  <2> HIDE DEF D
  <2> QED
    BY <1>1, <2>1, Parts
<1>3. /\ FreshDetails(d) \in Cached(Contacts)
      /\ DOMAIN FreshDetails(d) \subseteq DOMAIN d.details
      /\ \A c \in DOMAIN FreshDetails(d) : FreshDetails(d)[c] = d.details[c]
  <2> DEFINE D == {c \in DOMAIN d.details : Fresh(d.details[c])}
  <2>1. D \in SUBSET DOMAIN d.details /\ FreshDetails(d) = Restrict(d.details, D)
    BY DEF FreshDetails
  <2> HIDE DEF D
  <2> QED
    BY <1>1, <2>1, Parts
<1>4. DOMAIN Stamps(d) = DOMAIN FreshContacts(d) \cup DOMAIN FreshDetails(d)
  BY DEF Stamps, LatestStoredAt
<1>5. DOMAIN Stamps(d) \in SUBSET Contacts
  BY <1>2, <1>3, <1>4, CachedOf
<1>6. Live(d) \in SUBSET DOMAIN d.searches /\ DOMAIN d.searches \in SUBSET Searches
  BY <1>1, TableOf DEF Live
<1>7. Live(d) \in SUBSET Searches
  BY <1>6
<1> QED
  BY <1>2, <1>3, <1>4, <1>5, <1>6, <1>7, FS_Subset

\* A document that was pruned is within its limits, its pages are complete and its
\* drafts are all there.
LEMMA PruneGood ==
  ASSUME NEW d \in Document, Cardinality(d.drafts) =< MaxDrafts, NEW e \in Prune(d)
  PROVE  Good(e) /\ Complete(e) /\ e.drafts = d.drafts
<1> HIDE DEF Document
<1> DEFINE dated == [s \in Live(d) |-> d.searches[s].at]
           C == FreshContacts(d)
           D == FreshDetails(d)
<1>1. PICK pages \in Latest(dated, MaxSearches), kept \in Latest(Stamps(d), MaxContacts) :
         e = Left(d, C, D, pages, kept)
  BY PruneOf
<1>2. DOMAIN dated = Live(d) /\ IsFiniteSet(DOMAIN dated)
  BY FreshParts
<1>3. /\ pages \subseteq Live(d) /\ IsFiniteSet(pages) /\ Cardinality(pages) \in Nat
      /\ Cardinality(pages) =< MaxSearches
  <2> HIDE DEF dated
  <2>1. pages \in Latest(dated, MaxSearches)
    OBVIOUS
  <2> QED
    BY <1>2, <2>1, LatestFew
<1>4. /\ kept \subseteq DOMAIN Stamps(d) /\ IsFiniteSet(kept) /\ Cardinality(kept) \in Nat
      /\ Cardinality(kept) =< MaxContacts
  BY FreshParts, LatestFew
<1>5. /\ C \in Cached(Contacts) /\ D \in Cached(Contacts) /\ Live(d) \subseteq DOMAIN d.searches
      /\ d.searches \in SearchTable /\ d.drafts \subseteq Drafts
  BY FreshParts, DocumentOf
<1> DEFINE P == {s \in pages : d.searches[s].ids \subseteq kept}
<1>6. /\ e = [contacts |-> e.contacts, details |-> e.details, searches |-> e.searches,
              drafts |-> e.drafts]
      /\ e.contacts = Restrict(C, DOMAIN C \cap kept)
      /\ e.details = Restrict(D, DOMAIN D \cap kept)
      /\ e.searches = Restrict(d.searches, P) /\ e.drafts = d.drafts
  BY <1>1 DEF Left
<1>7. /\ P \in SUBSET pages /\ P \in SUBSET DOMAIN d.searches
      /\ \A s \in P : /\ d.searches[s].ids \subseteq kept
                      /\ d.searches[s].ids \subseteq DOMAIN C
  BY <1>3, <1>5 DEF Live
<1> HIDE DEF P, C, D
<1>8. /\ e.contacts \in Cached(Contacts) /\ DOMAIN e.contacts = DOMAIN C \cap kept
  BY <1>5, <1>6, Parts
<1>9. /\ e.details \in Cached(Contacts) /\ DOMAIN e.details = DOMAIN D \cap kept
  BY <1>5, <1>6, Parts
<1>10. /\ e.searches \in SearchTable /\ DOMAIN e.searches = P
       /\ \A s \in P : e.searches[s] = d.searches[s]
  BY <1>5, <1>6, <1>7, TableParts
<1>11. e \in Document
  BY <1>5, <1>6, <1>8, <1>9, <1>10, DocumentOf
<1>12. Cardinality(DOMAIN e.contacts \cup DOMAIN e.details) =< MaxContacts
  <2>1. DOMAIN e.contacts \cup DOMAIN e.details \in SUBSET kept
    BY <1>8, <1>9
  <2>2. /\ Cardinality(DOMAIN e.contacts \cup DOMAIN e.details) \in Nat
        /\ Cardinality(DOMAIN e.contacts \cup DOMAIN e.details) =< Cardinality(kept)
    BY <1>4, <2>1, FS_Subset, FS_CardinalityType
  <2> QED
    BY <1>4, <2>2
<1>13. Cardinality(DOMAIN e.searches) =< MaxSearches
  <2>1. Cardinality(P) \in Nat /\ Cardinality(P) =< Cardinality(pages)
    BY <1>3, <1>7, FS_Subset, FS_CardinalityType
  <2> QED
    BY <1>3, <1>10, <2>1
<1>14. Good(e)
  BY <1>6, <1>11, <1>12, <1>13 DEF Good, WithinLimits
<1>15. Complete(e)
  BY <1>7, <1>8, <1>10 DEF Complete
<1> QED
  BY <1>6, <1>14, <1>15

\* A document with one more entry is well formed.
LEMMA WithCached ==
  ASSUME NEW f \in Cached(Contacts), NEW c \in Contacts, NEW t \in Times
  PROVE  /\ With(f, c, t) \in Cached(Contacts)
         /\ DOMAIN With(f, c, t) = DOMAIN f \cup {c}
BY CachedOf DEF With

LEMMA WithPage ==
  ASSUME NEW f \in SearchTable, NEW s \in Searches, NEW p \in Pages
  PROVE  /\ With(f, s, p) \in SearchTable /\ DOMAIN With(f, s, p) = DOMAIN f \cup {s}
         /\ With(f, s, p)[s] = p
         /\ \A t \in DOMAIN f \ {s} : With(f, s, p)[t] = f[t]
BY TableOf DEF With

LEMMA StoredIs ==
  ASSUME NEW f \in Document, NEW s \in Searches, NEW ids \in SUBSET Contacts, now \in Times
  PROVE  LET d == Stored(f, s, ids) IN
         /\ d \in Document
         /\ d.contacts = [c \in DOMAIN f.contacts \cup ids |->
                            IF c \in ids THEN now ELSE f.contacts[c]]
         /\ DOMAIN d.searches = DOMAIN f.searches \cup {s}
         /\ d.searches[s] = [ids |-> ids, at |-> now]
         /\ \A t \in DOMAIN f.searches \ {s} : d.searches[t] = f.searches[t]
         /\ d.details = f.details /\ d.drafts = f.drafts
<1> HIDE DEF Document
<1> DEFINE d == Stored(f, s, ids)
           p == [ids |-> ids, at |-> now]
<1>1. /\ f.contacts \in Cached(Contacts) /\ f.details \in Cached(Contacts)
      /\ f.searches \in SearchTable /\ f.drafts \subseteq Drafts
      /\ f = [contacts |-> f.contacts, details |-> f.details,
              searches |-> f.searches, drafts |-> f.drafts]
  BY DocumentOf
<1>2. /\ d = [contacts |-> d.contacts, details |-> d.details,
              searches |-> d.searches, drafts |-> d.drafts]
      /\ d.contacts = [c \in DOMAIN f.contacts \cup ids |->
                         IF c \in ids THEN now ELSE f.contacts[c]]
      /\ d.searches = With(f.searches, s, p)
      /\ d.details = f.details /\ d.drafts = f.drafts
  <2> DEFINE g == [c \in DOMAIN f.contacts \cup ids |-> IF c \in ids THEN now ELSE f.contacts[c]]
             w == With(f.searches, s, p)
  <2>1. d = [f EXCEPT !.contacts = g, !.searches = w]
    BY DEF Stored
  <2> HIDE DEF d, g, w
  <2>2. /\ d = [contacts |-> d.contacts, details |-> d.details,
                searches |-> d.searches, drafts |-> d.drafts]
        /\ d.contacts = g /\ d.searches = w /\ d.details = f.details /\ d.drafts = f.drafts
    BY <1>1, <2>1
  <2> QED
    BY <2>2 DEF g, w
<1>3. d.contacts \in Cached(Contacts)
  BY <1>1, <1>2, CachedOf
<1>4. p \in Pages
  BY DEF Pages
<1> HIDE DEF d, p
<1>5. /\ d.searches \in SearchTable /\ DOMAIN d.searches = DOMAIN f.searches \cup {s}
      /\ d.searches[s] = p
      /\ \A t \in DOMAIN f.searches \ {s} : d.searches[t] = f.searches[t]
  BY <1>1, <1>2, <1>4, WithPage
<1>6. d \in Document
  BY <1>1, <1>2, <1>3, <1>5, DocumentOf
<1> QED
  BY <1>2, <1>5, <1>6 DEF d, p

LEMMA StoredFits ==
  ASSUME NEW f \in Document, NEW s \in Searches, NEW ids \in SUBSET Contacts, now \in Times
  PROVE  Stored(f, s, ids) \in Document /\ Stored(f, s, ids).drafts = f.drafts
<1> HIDE DEF Document
<1> DEFINE d == Stored(f, s, ids)
<1> HIDE DEF d
<1>1. /\ d \in Document /\ d.details = f.details
      /\ d.contacts = [c \in DOMAIN f.contacts \cup ids |->
                         IF c \in ids THEN now ELSE f.contacts[c]]
      /\ DOMAIN d.searches = DOMAIN f.searches \cup {s}
      /\ d.searches[s] = [ids |-> ids, at |-> now]
      /\ \A t \in DOMAIN f.searches \ {s} : d.searches[t] = f.searches[t]
      /\ d.drafts = f.drafts
  BY StoredIs DEF d
<1> QED
  BY <1>1 DEF d

\* What is stored now, and nothing else at this moment, is left by Prune.
LEMMA StoredStays ==
  ASSUME NEW f \in Document, now \in Times, NEW s \in Searches, NEW ids \in SUBSET Contacts,
         Cardinality(ids) =< MaxContacts,
         \A t \in DOMAIN f.searches : f.searches[t].at # now,
         \A c \in DOMAIN f.contacts : f.contacts[c] # now,
         \A c \in DOMAIN f.details : f.details[c] # now,
         NEW e \in Prune(Stored(f, s, ids))
  PROVE  s \in DOMAIN e.searches /\ ids \subseteq DOMAIN e.contacts
<1> HIDE DEF Document
<1> DEFINE d == Stored(f, s, ids)
           dated == [x \in Live(d) |-> d.searches[x].at]
           C == FreshContacts(d)
           D == FreshDetails(d)
<1>1. /\ d \in Document /\ d.details = f.details
      /\ d.contacts = [c \in DOMAIN f.contacts \cup ids |->
                         IF c \in ids THEN now ELSE f.contacts[c]]
      /\ DOMAIN d.searches = DOMAIN f.searches \cup {s}
      /\ d.searches[s] = [ids |-> ids, at |-> now]
      /\ \A t \in DOMAIN f.searches \ {s} : d.searches[t] = f.searches[t]
  BY StoredIs
<1>2. PICK pages \in Latest(dated, MaxSearches), kept \in Latest(Stamps(d), MaxContacts) :
         e = Left(d, C, D, pages, kept)
  BY PruneOf
<1> HIDE DEF d
<1>3. Fresh(now) /\ \A t \in Times : Fresh(t) => t =< now
  BY DEF Fresh, Times
<1>4. /\ C \in Cached(Contacts) /\ D \in Cached(Contacts)
      /\ \A c \in DOMAIN C : c \in DOMAIN d.contacts /\ C[c] = d.contacts[c]
      /\ \A c \in DOMAIN D : c \in DOMAIN d.details /\ D[c] = d.details[c]
      /\ DOMAIN Stamps(d) = DOMAIN C \cup DOMAIN D /\ IsFiniteSet(DOMAIN Stamps(d))
      /\ Live(d) \subseteq DOMAIN d.searches /\ IsFiniteSet(Live(d))
  BY <1>1, FreshParts
<1>5. /\ \A c \in DOMAIN C : C[c] \in Times /\ C[c] =< now
      /\ \A c \in DOMAIN D : D[c] \in Times /\ D[c] =< now
  <2>1. /\ \A c \in DOMAIN C : C[c] \in Times
        /\ \A c \in DOMAIN D : D[c] \in Times
    BY <1>4, CachedOf
  <2>2. /\ \A c \in DOMAIN C : Fresh(C[c])
        /\ \A c \in DOMAIN D : Fresh(D[c])
    BY <1>4 DEF FreshContacts, FreshDetails, Restrict
  <2> QED
    BY <1>3, <2>1, <2>2
<1>6. ids \subseteq DOMAIN C /\ \A c \in ids : C[c] = now
  <2>1. \A c \in ids : c \in DOMAIN d.contacts /\ d.contacts[c] = now
    BY <1>1
  <2>2. ids \subseteq DOMAIN C
    BY <1>3, <2>1 DEF FreshContacts, Restrict
  <2> QED
    BY <1>4, <2>1, <2>2
<1>7. s \in Live(d)
  BY <1>1, <1>3, <1>6 DEF Live
<1>8. \A c \in DOMAIN Stamps(d) :
         /\ c \in ids => Stamps(d)[c] = now
         /\ c \notin ids => Stamps(d)[c] \in Int /\ Stamps(d)[c] < now
  <2> SUFFICES ASSUME NEW c \in DOMAIN Stamps(d)
               PROVE  /\ c \in ids => Stamps(d)[c] = now
                      /\ c \notin ids => Stamps(d)[c] \in Int /\ Stamps(d)[c] < now
    OBVIOUS
  <2> DEFINE x == IF c \in DOMAIN C THEN C[c] ELSE -1
             y == IF c \in DOMAIN D THEN D[c] ELSE -1
  <2>1. Stamps(d)[c] = IF x >= y THEN x ELSE y
    BY <1>4 DEF Stamps, LatestStoredAt
  <2>2. c \in DOMAIN D => D[c] # now
    BY <1>1, <1>4
  <2>3. c \in DOMAIN C /\ c \notin ids => C[c] # now
    <3> SUFFICES ASSUME c \in DOMAIN C, c \notin ids PROVE C[c] # now
      OBVIOUS
    <3>1. c \in DOMAIN d.contacts /\ C[c] = d.contacts[c]
      BY <1>4
    <3> HIDE DEF C, D
    <3>2. c \in DOMAIN f.contacts /\ d.contacts[c] = f.contacts[c]
      BY <1>1, <3>1
    <3> QED
      BY <3>1, <3>2
  <2> HIDE DEF C, D
  <2>4. x \in Int /\ y \in Int /\ x =< now /\ y =< now /\ now >= 0 /\ now \in Int
    BY <1>5 DEF Times
  <2>5. (c \in ids => x = now) /\ (c \notin ids => x < now) /\ y < now
    BY <1>5, <1>6, <2>2, <2>3, <2>4 DEF Times
  <2> HIDE DEF x, y
  <2> QED
    BY <2>1, <2>4, <2>5
<1>9. ids \subseteq kept
  <2> SUFFICES ASSUME NEW c \in ids, c \notin kept PROVE FALSE
    OBVIOUS
  <2>1. /\ kept \subseteq DOMAIN Stamps(d) /\ Cardinality(kept) \in Nat
        /\ kept = DOMAIN Stamps(d) \/ Cardinality(kept) = MaxContacts
        /\ \A x \in kept, y \in DOMAIN Stamps(d) \ kept : Stamps(d)[x] >= Stamps(d)[y]
    BY <1>4, LatestFew
  <2>2. c \in DOMAIN Stamps(d) \ kept /\ Stamps(d)[c] = now
    BY <1>4, <1>6, <1>8
  <2>3. \A x \in kept : x \in ids
    <3> SUFFICES ASSUME NEW x \in kept, x \notin ids PROVE FALSE
      OBVIOUS
    <3>1. Stamps(d)[x] >= now /\ Stamps(d)[x] \in Int /\ Stamps(d)[x] < now
      BY <1>8, <2>1, <2>2
    <3> QED
      BY <3>1 DEF Times
  <2>4. kept \in SUBSET (ids \ {c})
    BY <2>3
  <2>5. IsFiniteSet(ids) /\ Cardinality(ids) \in Nat
    BY FS_Subset, FS_CardinalityType
  <2>6. IsFiniteSet(ids \ {c}) /\ Cardinality(ids \ {c}) = Cardinality(ids) - 1
    BY <2>5, FS_RemoveElement
  <2>7. Cardinality(kept) =< Cardinality(ids) - 1
    BY <2>4, <2>6, FS_Subset
  <2>8. Cardinality(kept) = MaxContacts
    BY <2>1, <2>2
  <2> QED
    BY <2>5, <2>7, <2>8
<1>10. s \in pages
  <2> SUFFICES ASSUME s \notin pages PROVE FALSE
    OBVIOUS
  <2>1. DOMAIN dated = Live(d) /\ dated[s] = now
    BY <1>1, <1>7
  <2>2. /\ pages \subseteq Live(d) /\ IsFiniteSet(pages)
        /\ pages = Live(d) \/ Cardinality(pages) = MaxSearches
        /\ \A x \in pages : dated[x] >= now
    BY <1>4, <1>7, <2>1, LatestFew
  <2>3. Cardinality(pages) # 0
    BY <1>7, <2>2
  <2>4. PICK x \in pages : TRUE
    BY <2>2, <2>3, FS_EmptySet
  <2>5. x # s /\ x \in Live(d) /\ x \in DOMAIN f.searches
    BY <1>1, <1>4, <2>2
  <2>6. dated[x] = d.searches[x].at /\ d.searches[x] = f.searches[x]
    BY <1>1, <2>5
  <2>7. f.searches[x].at \in Times
    <3>1. f.searches \in SearchTable
      BY DocumentOf
    <3>2. f.searches[x] \in Pages
      BY <2>5, <3>1, TableOf
    <3> QED
      BY <3>2 DEF Pages
  <2>8. dated[x] =< now /\ dated[x] # now
    BY <1>3, <2>5, <2>6, <2>7 DEF Live
  <2>9. dated[x] >= now /\ dated[x] \in Times
    BY <2>2, <2>6, <2>7
  <2> QED
    BY <2>8, <2>9 DEF Times
<1>11. d.searches[s].ids \subseteq kept
  BY <1>1, <1>9
<1>12. /\ s \in DOMAIN e.searches
       /\ DOMAIN e.contacts = DOMAIN C \cap kept
  BY <1>2, <1>10, <1>11 DEF Left, Restrict
<1> QED
  BY <1>6, <1>9, <1>12

-----------------------------------------------------------------------------
(* The operations.                                                              *)

LEMMA NothingGood == Good(Empty) /\ Complete(Empty) /\ NoFile.doc = Empty /\ Empty.drafts = {}
<1>1. None \in Cached(Contacts) /\ None \in SearchTable
  BY CachedOf, TableOf DEF None
<1>2. /\ Empty = [contacts |-> Empty.contacts, details |-> Empty.details,
                  searches |-> Empty.searches, drafts |-> Empty.drafts]
      /\ Empty.contacts = None /\ Empty.details = None /\ Empty.searches = None
      /\ Empty.drafts = {} /\ NoFile.doc = Empty
  BY DEF Empty, NoFile
<1>3. DOMAIN None = {} /\ DOMAIN None \cup DOMAIN None = {}
  BY DEF None
<1>4. Empty \in Document
  BY <1>1, <1>2, DocumentOf
<1>5. WithinLimits(Empty)
  BY <1>2, <1>3, FS_EmptySet DEF WithinLimits
<1> QED
  BY <1>2, <1>3, <1>4, <1>5 DEF Good, Complete

\* The document that an operation reads, and what is left of the file.
LEMMA Loads ==
  ASSUME IInv, Load
  PROVE  /\ op.at = "load" /\ Good(Loaded) /\ ~purged /\ ~cleared
         /\ DiskGood' /\ Good(file'.doc) /\ file'.doc.drafts \subseteq Loaded.drafts
<1> HIDE DEF Document
<1>1. op.at = "load" /\ ~purged /\ ~cleared
  BY DEF Load, IInv, OpGood, Sealed, Purging
<1>2. Good(Loaded)
  BY NothingGood DEF Loaded, IInv
<1>3. CASE file = NoFile
  BY <1>1, <1>2, <1>3, NothingGood DEF Load, disk, IInv, DiskGood
<1>4. CASE file # NoFile
  <2>1. /\ key' = IF key = 0 THEN keys + 1 ELSE key
        /\ keys' = IF key = 0 THEN keys + 1 ELSE keys
        /\ file' = IF Readable THEN file ELSE NoFile
        /\ UNCHANGED temporary
    BY <1>4 DEF Load
  <2>2. NoFile = [doc |-> NoFile.doc, key |-> NoFile.key] /\ NoFile.key = 0
    BY DEF NoFile
  <2>3. DiskGood'
    BY <2>1, <2>2 DEF IInv, DiskGood
  <2>4. CASE Readable
    BY <1>1, <1>2, <2>1, <2>3, <2>4 DEF IInv, Loaded
  <2>5. CASE ~Readable
    BY <1>1, <1>2, <2>1, <2>3, <2>5, NothingGood
  <2> QED
    BY <2>4, <2>5
<1> QED
  BY <1>3, <1>4

\* What an operation writes or leaves.
LEMMA Operates ==
  ASSUME IInv, Load, Rest, op.name \in Names,
         \/ Returns
         \/ \E d : /\ op' = [op EXCEPT !.at = "encrypt", !.doc = d] /\ Good(d)
                   /\ op.name \in {"writeSearch", "writeContact"} => Complete(d)
                   /\ op.name # "deleteDraft" => Loaded.drafts \subseteq d.drafts
  PROVE  IInv'
<1> HIDE DEF Document
<1>1. /\ op.at = "load" /\ Good(Loaded) /\ ~purged /\ ~cleared
      /\ DiskGood' /\ Good(file'.doc) /\ file'.doc.drafts \subseteq Loaded.drafts
  BY Loads
<1>2. UNCHANGED <<now, purged, cleared>>
  BY DEF Rest
<1>3. CASE Returns
  BY <1>1, <1>2, <1>3, NothingGood
     DEF Returns, Idle, IInv, OpGood, Carries, Sealed, PagesComplete, Writing, Purging, Names
<1>4. ASSUME NEW d, op' = [op EXCEPT !.at = "encrypt", !.doc = d], Good(d),
             op.name \in {"writeSearch", "writeContact"} => Complete(d),
             op.name # "deleteDraft" => Loaded.drafts \subseteq d.drafts
      PROVE  IInv'
  <2>1. /\ op' = [at |-> "encrypt", name |-> op.name, doc |-> d]
        /\ op.name # "purge"
    BY <1>1, <1>4 DEF IInv, OpGood, Purging
  <2>2. op'.at = "encrypt" /\ op'.name = op.name /\ op'.doc = d
    BY <2>1
  <2>3. OpGood'
    BY <1>1, <1>2, <2>1, <2>2 DEF OpGood, Writing, Purging, Names, IInv
  <2>4. PagesComplete'
    BY <1>4, <2>2 DEF PagesComplete, Complete
  <2>5. Carries' /\ Sealed'
    BY <1>1, <1>2, <1>4, <2>2 DEF Carries, Sealed
  <2> QED
    BY <1>1, <1>2, <1>4, <2>2, <2>3, <2>4, <2>5 DEF IInv
<1> QED
  BY <1>3, <1>4

\* The parts of a document, and the same with one of them changed.
LEMMA PartsOf ==
  ASSUME NEW d, Good(d)
  PROVE  /\ d.contacts \in Cached(Contacts) /\ d.details \in Cached(Contacts)
         /\ d.searches \in SearchTable /\ d.drafts \subseteq Drafts
         /\ d = [contacts |-> d.contacts, details |-> d.details,
                 searches |-> d.searches, drafts |-> d.drafts]
         /\ d \in Document /\ IsFiniteSet(d.drafts) /\ Cardinality(d.drafts) \in Nat
         /\ Cardinality(d.drafts) =< MaxDrafts
<1> HIDE DEF Document
<1>1. d \in Document /\ Cardinality(d.drafts) =< MaxDrafts
  BY DEF Good, WithinLimits
<1>2. d.drafts \in SUBSET Drafts
  BY <1>1, DocumentOf
<1>3. IsFiniteSet(d.drafts) /\ Cardinality(d.drafts) \in Nat
  BY <1>2, FS_Subset, FS_CardinalityType
<1> QED
  BY <1>1, <1>2, <1>3, DocumentOf

LEMMA WithoutCached ==
  ASSUME NEW f \in Cached(Contacts), NEW S
  PROVE  Without(f, S) \in Cached(Contacts) /\ DOMAIN Without(f, S) \subseteq DOMAIN f
BY Parts DEF Without

LEMMA WithoutPage ==
  ASSUME NEW f \in SearchTable, NEW S
  PROVE  Without(f, S) \in SearchTable /\ DOMAIN Without(f, S) \subseteq DOMAIN f
BY TableParts DEF Without

\* A document with fewer contacts, details, pages or drafts is good.
LEMMA Shrinks ==
  ASSUME NEW d, Good(d), NEW c \in Cached(Contacts), NEW b \in Cached(Contacts),
         NEW p \in SearchTable, NEW x \in SUBSET d.drafts,
         DOMAIN c \subseteq DOMAIN d.contacts, DOMAIN b \subseteq DOMAIN d.details,
         DOMAIN p \subseteq DOMAIN d.searches
  PROVE  Good([contacts |-> c, details |-> b, searches |-> p, drafts |-> x])
<1> HIDE DEF Document
<1> DEFINE e == [contacts |-> c, details |-> b, searches |-> p, drafts |-> x]
<1>1. /\ e.contacts = c /\ e.details = b /\ e.searches = p /\ e.drafts = x
      /\ e = [contacts |-> e.contacts, details |-> e.details,
              searches |-> e.searches, drafts |-> e.drafts]
  OBVIOUS
<1> HIDE DEF e
<1>2. x \subseteq Drafts
  BY PartsOf
<1>3. e \in Document
  BY <1>1, <1>2, DocumentOf
<1>4. Good(e)
  BY <1>1, <1>3, Fewer
<1> QED
  BY <1>4 DEF e

LEMMA ReadSearchKeeps == IInv /\ ReadSearch => IInv'
<1> SUFFICES ASSUME IInv, ReadSearch PROVE IInv'
  OBVIOUS
<1> HIDE DEF Document
<1> DEFINE d == Loaded
<1>1. Load /\ Rest /\ op.name = "readSearch" /\ op.name \in Names
  BY DEF ReadSearch, Names
<1>2. Good(d)
  BY <1>1, Loads
<1>3. PICK s \in Searches :
         \/ Returns
         \/ Writes({[d EXCEPT !.searches = Without(@, {s})]})
         \/ \E c \in Contacts \cup d.searches[s].ids :
               Writes({[[d EXCEPT !.searches = Without(@, {s})] EXCEPT
                            !.contacts = Without(@, {c})]})
  <2> DEFINE dropped(s) == [d EXCEPT !.searches = Without(@, {s})]
             bad(s) == {c \in d.searches[s].ids :
                          c \notin DOMAIN d.contacts \/ ~Fresh(d.contacts[c])}
  <2>1. PICK s \in Searches :
           \/ Returns \/ Writes({dropped(s)})
           \/ Writes({[dropped(s) EXCEPT !.contacts = Without(@, {c})] : c \in bad(s)})
    BY DEF ReadSearch
  <2>2. CASE Writes({[dropped(s) EXCEPT !.contacts = Without(@, {c})] : c \in bad(s)})
    <3>1. PICK c \in bad(s) :
             op' = [op EXCEPT !.at = "encrypt",
                              !.doc = [dropped(s) EXCEPT !.contacts = Without(@, {c})]]
      BY <2>2 DEF Writes
    <3> QED
      BY <3>1 DEF Writes
  <2> QED
    BY <2>1, <2>2
<1> HIDE DEF d
<1>4. /\ Without(d.searches, {s}) \in SearchTable
      /\ DOMAIN Without(d.searches, {s}) \subseteq DOMAIN d.searches
  BY <1>2, PartsOf, WithoutPage
<1> DEFINE p == Without(d.searches, {s})
           e == [contacts |-> d.contacts, details |-> d.details, searches |-> p,
                 drafts |-> d.drafts]
<1>5. [d EXCEPT !.searches = Without(@, {s})] = e
  BY <1>2, PartsOf
<1> HIDE DEF p
<1>6. Good(e) /\ e.drafts = d.drafts
  BY <1>2, <1>4, PartsOf, Shrinks DEF p
<1>7. CASE Writes({e})
  BY <1>1, <1>6, <1>7, Operates DEF Writes, d
<1>8. ASSUME NEW c, Writes({[e EXCEPT !.contacts = Without(@, {c})]}) PROVE IInv'
  <2>1. [e EXCEPT !.contacts = Without(@, {c})] =
          [contacts |-> Without(d.contacts, {c}), details |-> d.details, searches |-> p,
           drafts |-> d.drafts]
    OBVIOUS
  <2>2. /\ Without(d.contacts, {c}) \in Cached(Contacts)
        /\ DOMAIN Without(d.contacts, {c}) \subseteq DOMAIN d.contacts
    BY <1>2, PartsOf, WithoutCached
  <2> DEFINE g == [contacts |-> Without(d.contacts, {c}), details |-> d.details,
                   searches |-> p, drafts |-> d.drafts]
  <2>3. Good(g) /\ g.drafts = d.drafts
    BY <1>2, <1>4, <2>2, PartsOf, Shrinks DEF p
  <2>4. op' = [op EXCEPT !.at = "encrypt", !.doc = g]
    BY <1>8, <2>1 DEF Writes
  <2> HIDE DEF g
  <2> QED
    BY <1>1, <2>3, <2>4, Operates DEF d
<1>9. CASE Returns
  BY <1>1, <1>9, Operates
<1> QED
  BY <1>3, <1>5, <1>7, <1>8, <1>9

LEMMA ReadContactKeeps == IInv /\ ReadContact => IInv'
<1> SUFFICES ASSUME IInv, ReadContact PROVE IInv'
  OBVIOUS
<1> HIDE DEF Document
<1> DEFINE d == Loaded
<1>1. Load /\ Rest /\ op.name = "readContact" /\ op.name \in Names /\ Good(d)
  BY Loads DEF ReadContact, Names
<1>2. PICK c \in Contacts : Returns \/ Writes({[d EXCEPT !.details = Without(@, {c})]})
  BY DEF ReadContact
<1> HIDE DEF d
<1>3. /\ Without(d.details, {c}) \in Cached(Contacts)
      /\ DOMAIN Without(d.details, {c}) \subseteq DOMAIN d.details
  BY <1>1, PartsOf, WithoutCached
<1> DEFINE e == [contacts |-> d.contacts, details |-> Without(d.details, {c}),
                 searches |-> d.searches, drafts |-> d.drafts]
<1>4. [d EXCEPT !.details = Without(@, {c})] = e
  BY <1>1, PartsOf
<1>5. Good(e) /\ e.drafts = d.drafts
  BY <1>1, <1>3, PartsOf, Shrinks
<1> HIDE DEF e
<1> QED
  BY <1>1, <1>2, <1>4, <1>5, Operates DEF Writes, d

\* What is pruned may be written.
LEMMA PrunedWrites ==
  ASSUME IInv, Load, Rest, op.name \in Names, NEW d \in Document, d.drafts = Loaded.drafts,
         Writes(Prune(d))
  PROVE  IInv'
<1> HIDE DEF Document
<1>1. PICK e \in Prune(d) : op' = [op EXCEPT !.at = "encrypt", !.doc = e]
  BY DEF Writes
<1>2. Cardinality(d.drafts) =< MaxDrafts
  BY Loads, PartsOf
<1>3. Good(e) /\ Complete(e) /\ e.drafts = Loaded.drafts
  BY <1>2, PruneGood
<1> QED
  BY <1>1, <1>3, Operates

LEMMA WriteSearchKeeps == IInv /\ WriteSearch => IInv'
<1> SUFFICES ASSUME IInv, WriteSearch PROVE IInv'
  OBVIOUS
<1> HIDE DEF Document
<1>1. Load /\ Rest /\ op.name \in Names /\ Good(Loaded) /\ now \in Times
  BY Loads DEF WriteSearch, Names, IInv
<1>2. PICK s \in Searches, ids \in SUBSET Contacts : Writes(Prune(Stored(Loaded, s, ids)))
  BY DEF WriteSearch
<1>3. Loaded \in Document /\ now \in Times
  BY <1>1, PartsOf
<1>4. Stored(Loaded, s, ids) \in Document /\ Stored(Loaded, s, ids).drafts = Loaded.drafts
  BY <1>3, StoredFits
<1> QED
  BY <1>1, <1>2, <1>4, PrunedWrites

LEMMA WriteContactKeeps == IInv /\ WriteContact => IInv'
<1> SUFFICES ASSUME IInv, WriteContact PROVE IInv'
  OBVIOUS
<1> HIDE DEF Document
<1> DEFINE f == Loaded
<1>1. Load /\ Rest /\ op.name \in Names /\ Good(f) /\ now \in Times
  BY Loads DEF WriteContact, Names, IInv
<1>2. PICK c \in Contacts :
         Writes(Prune([f EXCEPT !.contacts = With(@, c, now), !.details = With(@, c, now)]))
  BY DEF WriteContact
<1> HIDE DEF f
<1> DEFINE d == [f EXCEPT !.contacts = With(@, c, now), !.details = With(@, c, now)]
<1>3. /\ d.contacts = With(f.contacts, c, now) /\ d.details = With(f.details, c, now)
      /\ d.searches = f.searches /\ d.drafts = f.drafts
      /\ d = [contacts |-> d.contacts, details |-> d.details,
              searches |-> d.searches, drafts |-> d.drafts]
  <2> DEFINE g == With(f.contacts, c, now)
             h == With(f.details, c, now)
  <2>1. d = [f EXCEPT !.contacts = g, !.details = h]
    OBVIOUS
  <2>2. f = [contacts |-> f.contacts, details |-> f.details,
             searches |-> f.searches, drafts |-> f.drafts]
    BY <1>1, PartsOf
  <2> HIDE DEF d, g, h
  <2>3. /\ d.contacts = g /\ d.details = h /\ d.searches = f.searches /\ d.drafts = f.drafts
        /\ d = [contacts |-> d.contacts, details |-> d.details,
                searches |-> d.searches, drafts |-> d.drafts]
    BY <2>1, <2>2
  <2> QED
    BY <2>3 DEF g, h
<1> HIDE DEF d
<1>4. d.contacts \in Cached(Contacts) /\ d.details \in Cached(Contacts)
  <2>1. /\ f.contacts \in Cached(Contacts) /\ f.details \in Cached(Contacts)
        /\ now \in Times
    BY <1>1, PartsOf
  <2>2. With(f.contacts, c, now) \in Cached(Contacts)
    BY <2>1, WithCached
  <2>3. With(f.details, c, now) \in Cached(Contacts)
    BY <2>1, WithCached
  <2> QED
    BY <1>3, <2>2, <2>3
<1>5. d \in Document
  BY <1>1, <1>3, <1>4, PartsOf, DocumentOf
<1>6. Writes(Prune(d))
  BY <1>2 DEF d
<1> QED
  BY <1>1, <1>3, <1>5, <1>6, PrunedWrites DEF f

LEMMA InvalidateSearchesKeeps == IInv /\ InvalidateSearches => IInv'
<1> SUFFICES ASSUME IInv, InvalidateSearches PROVE IInv'
  OBVIOUS
<1> HIDE DEF Document
<1> DEFINE d == Loaded
<1>1. /\ Load /\ Rest /\ op.name = "invalidateSearches" /\ op.name \in Names /\ Good(d)
      /\ Writes({[d EXCEPT !.searches = None]})
  BY Loads DEF InvalidateSearches, Names
<1> HIDE DEF d
<1> DEFINE e == [contacts |-> d.contacts, details |-> d.details, searches |-> None,
                 drafts |-> d.drafts]
<1>2. [d EXCEPT !.searches = None] = e
  BY <1>1, PartsOf
<1>3. None \in SearchTable /\ DOMAIN None \subseteq DOMAIN d.searches
  BY TableOf DEF None
<1>4. Good(e) /\ e.drafts = d.drafts
  BY <1>1, <1>3, PartsOf, Shrinks
<1> HIDE DEF e
<1> QED
  BY <1>1, <1>2, <1>4, Operates DEF Writes, d

LEMMA WriteDraftKeeps == IInv /\ WriteDraft => IInv'
<1> SUFFICES ASSUME IInv, WriteDraft PROVE IInv'
  OBVIOUS
<1> HIDE DEF Document
<1> DEFINE d == Loaded
<1>1. Load /\ Rest /\ op.name \in Names /\ Good(d)
  BY Loads DEF WriteDraft, Names
<1>2. PICK x \in Drafts :
         IF x \notin d.drafts /\ Cardinality(d.drafts) >= MaxDrafts
         THEN Returns
         ELSE Writes({[d EXCEPT !.drafts = @ \cup {x}]})
  BY DEF WriteDraft
<1>3. CASE Returns
  BY <1>1, <1>3, Operates
<1>4. CASE /\ x \in d.drafts \/ ~(Cardinality(d.drafts) >= MaxDrafts)
           /\ Writes({[d EXCEPT !.drafts = @ \cup {x}]})
  <2> HIDE DEF d
  <2> DEFINE e == [d EXCEPT !.drafts = @ \cup {x}]
  <2>1. /\ e.contacts = d.contacts /\ e.details = d.details /\ e.searches = d.searches
        /\ e.drafts = d.drafts \cup {x}
        /\ e = [contacts |-> e.contacts, details |-> e.details,
                searches |-> e.searches, drafts |-> e.drafts]
    <3>1. d = [contacts |-> d.contacts, details |-> d.details,
               searches |-> d.searches, drafts |-> d.drafts]
      BY <1>1, PartsOf
    <3> DEFINE y == d.drafts \cup {x}
    <3>2. e = [d EXCEPT !.drafts = y]
      OBVIOUS
    <3> HIDE DEF e, y
    <3>3. /\ e.contacts = d.contacts /\ e.details = d.details /\ e.searches = d.searches
          /\ e.drafts = y
          /\ e = [contacts |-> e.contacts, details |-> e.details,
                  searches |-> e.searches, drafts |-> e.drafts]
      BY <3>1, <3>2
    <3> QED
      BY <3>3 DEF y
  <2> HIDE DEF e
  <2>2. e \in Document
    BY <1>1, <2>1, PartsOf, DocumentOf
  <2>3. Cardinality(d.drafts \cup {x}) =
          IF x \in d.drafts THEN Cardinality(d.drafts) ELSE Cardinality(d.drafts) + 1
    BY <1>1, PartsOf, FS_AddElement
  <2>4. Cardinality(e.drafts) =< MaxDrafts
    BY <1>1, <1>4, <2>1, <2>3, PartsOf
  <2>5. Good(e)
    BY <1>1, <2>1, <2>2, <2>4 DEF Good, WithinLimits
  <2>6. op' = [op EXCEPT !.at = "encrypt", !.doc = e] /\ op.name = "writeDraft"
    BY <1>4 DEF Writes, e, WriteDraft
  <2> QED
    BY <1>1, <2>1, <2>5, <2>6, Operates DEF d
<1> QED
  BY <1>2, <1>3, <1>4

LEMMA DeleteDraftKeeps == IInv /\ DeleteDraft => IInv'
<1> SUFFICES ASSUME IInv, DeleteDraft PROVE IInv'
  OBVIOUS
<1> HIDE DEF Document
<1> DEFINE d == Loaded
<1>1. Load /\ Rest /\ op.name \in Names /\ op.name = "deleteDraft" /\ Good(d)
  BY Loads DEF DeleteDraft, Names
<1>2. PICK x \in Drafts : Returns \/ Writes({[d EXCEPT !.drafts = @ \ {x}]})
  BY DEF DeleteDraft
<1> HIDE DEF d
<1> DEFINE e == [contacts |-> d.contacts, details |-> d.details, searches |-> d.searches,
                 drafts |-> d.drafts \ {x}]
<1>3. [d EXCEPT !.drafts = @ \ {x}] = e
  <2>1. d = [contacts |-> d.contacts, details |-> d.details,
             searches |-> d.searches, drafts |-> d.drafts]
    BY <1>1, PartsOf
  <2> DEFINE y == d.drafts \ {x}
  <2>2. [d EXCEPT !.drafts = @ \ {x}] = [d EXCEPT !.drafts = y]
    OBVIOUS
  <2> HIDE DEF y
  <2>3. [d EXCEPT !.drafts = y] = [contacts |-> d.contacts, details |-> d.details,
                                   searches |-> d.searches, drafts |-> y]
    BY <2>1
  <2> QED
    BY <2>2, <2>3 DEF y
<1>4. Good(e)
  BY <1>1, PartsOf, Shrinks
<1> HIDE DEF e
<1> QED
  BY <1>1, <1>2, <1>3, <1>4, Operates DEF Writes, d

-----------------------------------------------------------------------------
(* The other steps.                                                             *)

LEMMA WritingKeeps == IInv /\ (Encrypt \/ WriteTemporary \/ Rename) => IInv'
<1> SUFFICES ASSUME IInv PROVE Encrypt \/ WriteTemporary \/ Rename => IInv'
  OBVIOUS
<1> HIDE DEF Document
<1> USE DEF Rest, Writing, Purging, Names
<1>1. CASE Encrypt
  <2>1. DiskGood' /\ ~purged /\ ~cleared /\ UNCHANGED file
    BY <1>1 DEF Encrypt, IInv, DiskGood, OpGood, Sealed
  <2>2. /\ op'.at = "write" /\ op'.name = op.name /\ op'.doc = op.doc
        /\ op' = [at |-> op'.at, name |-> op'.name, doc |-> op'.doc]
    BY <1>1 DEF Encrypt, IInv, OpGood
  <2> QED
    BY <1>1, <2>1, <2>2 DEF Encrypt, IInv, OpGood, Carries, Sealed, PagesComplete
<1>2. CASE WriteTemporary
  <2>1. DiskGood' /\ ~purged /\ ~cleared /\ UNCHANGED file
    BY <1>2 DEF WriteTemporary, IInv, DiskGood, OpGood, Sealed
  <2>2. /\ op'.at = "rename" /\ op'.name = op.name /\ op'.doc = op.doc
        /\ op' = [at |-> op'.at, name |-> op'.name, doc |-> op'.doc]
    BY <1>2 DEF WriteTemporary, IInv, OpGood
  <2> QED
    BY <1>2, <2>1, <2>2 DEF WriteTemporary, IInv, OpGood, Carries, Sealed, PagesComplete
<1>3. CASE Rename
  <2>1. ~purged /\ ~cleared /\ op' = Idle /\ op.doc = file'.doc
    BY <1>3 DEF Rename, IInv, OpGood, Sealed
  <2>2. file'.key = keys /\ file' = [doc |-> file'.doc, key |-> file'.key]
    BY <1>3 DEF Rename
  <2>3. DiskGood' /\ Good(file'.doc)
    <3>1. Good(op.doc)
      BY DEF IInv
    <3>2. Good(file'.doc)
      BY <2>1, <3>1
    <3>3. /\ temporary' \in BOOLEAN /\ keys' = keys /\ key' = key
          /\ keys \in Nat /\ key \in {0, keys} /\ file'.key \in 0 .. keys
      <4>1. temporary' = FALSE /\ UNCHANGED <<key, keys>>
        BY <1>3 DEF Rename
      <4>2. keys \in Nat /\ key \in {0, keys}
        BY DEF IInv, DiskGood
      <4>3. temporary' \in BOOLEAN
        BY <4>1
      <4> QED
        BY <2>2, <4>1, <4>2, <4>3
    <3> QED
      BY <2>2, <3>2, <3>3 DEF DiskGood
  <2>4. op'.doc = Empty /\ op'.at = "none" /\ op'.name = "none" /\ UNCHANGED <<now, purged, cleared>>
    BY <1>3, <2>1 DEF Idle, Rename
  <2>5. OpGood'
    BY <2>1, <2>4 DEF OpGood, Idle
  <2> QED
    BY <2>1, <2>3, <2>4, <2>5, NothingGood DEF IInv, Carries, Sealed, PagesComplete
<1> QED
  BY <1>1, <1>2, <1>3

LEMMA PurgeKeeps == IInv /\ (Purge \/ PurgeFile \/ PurgeKey) => IInv'
<1> SUFFICES ASSUME IInv PROVE Purge \/ PurgeFile \/ PurgeKey => IInv'
  OBVIOUS
<1> HIDE DEF Document
<1> USE NothingGood DEF Writing, Purging, Names
<1>1. CASE Purge
  <2>1. /\ op' = [at |-> "purge", name |-> "purge", doc |-> Empty]
        /\ purged' /\ UNCHANGED <<now, file, temporary, key, keys, cleared>>
    BY <1>1 DEF Purge, Idle, disk
  <2>2. purged' \in BOOLEAN /\ (cleared => purged)
    BY <1>1 DEF Purge, IInv, Sealed
  <2>3. OpGood' /\ DiskGood'
    BY <2>1 DEF IInv, OpGood, DiskGood
  <2>4. Sealed'
    BY <2>1, <2>2 DEF IInv, Sealed
  <2> QED
    BY <2>1, <2>2, <2>3, <2>4 DEF IInv, Carries, PagesComplete
<1>2. CASE PurgeFile
  <2>1. /\ op.at = "purge" /\ op.name = "purge" /\ op.doc = Empty
        /\ op = [at |-> op.at, name |-> op.name, doc |-> op.doc]
        /\ UNCHANGED <<now, temporary, key, keys, purged, cleared>>
    BY <1>2 DEF PurgeFile, IInv, OpGood
  <2>2. \/ file' = NoFile /\ op' = [at |-> "purgeKey", name |-> "purge", doc |-> Empty]
        \/ UNCHANGED file /\ op' = [at |-> "purgeKeyOnly", name |-> "purge", doc |-> Empty]
    BY <1>2, <2>1 DEF PurgeFile
  <2>3. NoFile = [doc |-> NoFile.doc, key |-> NoFile.key] /\ NoFile.key = 0
    BY DEF NoFile
  <2>4. OpGood'
    BY <2>1, <2>2 DEF IInv, OpGood
  <2>5. DiskGood' /\ Good(file'.doc)
    BY <2>1, <2>2, <2>3 DEF IInv, DiskGood
  <2>6. Sealed'
    BY <2>1, <2>2 DEF IInv, Sealed
  <2> QED
    BY <2>1, <2>2, <2>4, <2>5, <2>6 DEF IInv, Carries, PagesComplete
<1>3. CASE PurgeKey
  <2>1. /\ op.at \in {"purgeKey", "purgeKeyOnly"} /\ op' = Idle
        /\ UNCHANGED <<now, file, temporary, keys, purged>>
    BY <1>3 DEF PurgeKey
  <2>2. \/ key' = 0 /\ cleared' = (op.at = "purgeKey")
        \/ cleared' = FALSE /\ UNCHANGED key
    BY <1>3 DEF PurgeKey
  <2>3. op'.at = "none" /\ op'.name = "none" /\ op'.doc = Empty
    BY <2>1 DEF Idle
  <2>4. OpGood'
    BY <2>1 DEF OpGood, Idle
  <2>5. DiskGood' /\ cleared' \in BOOLEAN
    BY <2>1, <2>2 DEF IInv, DiskGood
  <2>6. Sealed'
    <3>1. cleared' => key' = 0 /\ op.at = "purgeKey"
      BY <2>2
    <3>2. purged /\ (op.at = "purgeKey" => file = NoFile)
      BY <2>1 DEF IInv, OpGood, Sealed
    <3> QED
      BY <2>1, <2>3, <3>1, <3>2 DEF Sealed
  <2> QED
    BY <2>1, <2>3, <2>4, <2>5, <2>6 DEF IInv, Carries, PagesComplete
<1> QED
  BY <1>1, <1>2, <1>3

LEMMA OthersKeep == IInv /\ (Request \/ ClockMoves \/ StorageFails \/ KeyLost \/ Restart
                             \/ UNCHANGED vars) => IInv'
<1> SUFFICES ASSUME IInv
             PROVE  Request \/ ClockMoves \/ StorageFails \/ KeyLost \/ Restart
                    \/ UNCHANGED vars => IInv'
  OBVIOUS
<1> HIDE DEF Document
<1> USE NothingGood DEF Writing, Purging, Names
<1>1. CASE Request
  <2>1. PICK name \in Names \ {"none", "purge"} :
           op' = [at |-> "load", name |-> name, doc |-> Empty]
    BY <1>1 DEF Request, Begin, Idle
  <2>2. UNCHANGED <<now, file, temporary, key, keys, purged, cleared>> /\ ~purged
    BY <1>1 DEF Request, Rest, disk
  <2>3. OpGood' /\ DiskGood' /\ Sealed'
    BY <2>1, <2>2 DEF IInv, OpGood, DiskGood, Sealed
  <2> QED
    BY <2>1, <2>2, <2>3 DEF IInv, Carries, PagesComplete, Complete
<1>2. CASE ClockMoves
  BY <1>2 DEF ClockMoves, disk, IInv, OpGood, DiskGood, Carries, Sealed, PagesComplete
<1>3. CASE StorageFails
  <2>1. /\ op.at \in {"load", "encrypt", "write", "rename"} /\ op' = Idle
        /\ temporary' \in {temporary, FALSE} /\ UNCHANGED <<now, file, purged, cleared>>
        /\ \/ UNCHANGED <<key, keys>>
           \/ key' = keys + 1 /\ keys' = keys + 1
    BY <1>3 DEF StorageFails
  <2>2. op'.at = "none" /\ op'.name = "none" /\ op'.doc = Empty
    BY <2>1 DEF Idle
  <2>3. OpGood' /\ Sealed'
    BY <2>1, <2>2 DEF IInv, OpGood, Sealed, Idle
  <2>4. temporary' \in BOOLEAN
    BY <2>1 DEF IInv, DiskGood
  <2>5. DiskGood'
    BY <2>1, <2>4 DEF IInv, DiskGood
  <2> QED
    BY <2>1, <2>2, <2>3, <2>5 DEF IInv, Carries, PagesComplete
<1>4. CASE KeyLost
  BY <1>4 DEF KeyLost, IInv, OpGood, DiskGood, Carries, Sealed, PagesComplete
<1>5. CASE Restart
  <2>1. /\ op' = Idle /\ purged' = FALSE /\ cleared' = FALSE
        /\ UNCHANGED <<now, file, temporary, key, keys>>
    BY <1>5 DEF Restart, disk
  <2>2. op'.at = "none" /\ op'.name = "none" /\ op'.doc = Empty
    BY <2>1 DEF Idle
  <2>3. OpGood' /\ DiskGood' /\ Sealed'
    BY <2>1, <2>2 DEF IInv, OpGood, DiskGood, Sealed, Idle
  <2> QED
    BY <2>1, <2>2, <2>3 DEF IInv, Carries, PagesComplete
<1>6. CASE UNCHANGED vars
  BY <1>6 DEF vars, disk, IInv, OpGood, DiskGood, Carries, Sealed, PagesComplete
<1> QED
  BY <1>1, <1>2, <1>3, <1>4, <1>5, <1>6

-----------------------------------------------------------------------------
LEMMA InitIInv == Init => IInv
<1> SUFFICES ASSUME Init PROVE IInv
  OBVIOUS
<1> HIDE DEF Document
<1>1. /\ op.at = "none" /\ op.name = "none" /\ op.doc = Empty
      /\ op = [at |-> op.at, name |-> op.name, doc |-> op.doc]
      /\ file.doc = NoFile.doc /\ file.key = 0
      /\ file = [doc |-> file.doc, key |-> file.key]
      /\ now = 0 /\ key = 0 /\ keys = 0 /\ temporary = FALSE /\ purged = FALSE
      /\ cleared = FALSE
  BY DEF Init, Idle, NoFile
<1>2. purged \in BOOLEAN /\ cleared \in BOOLEAN /\ temporary \in BOOLEAN
  BY <1>1
<1>3. now \in Times
  BY <1>1 DEF Times
<1>4. OpGood /\ DiskGood /\ Sealed
  BY <1>1, <1>2 DEF OpGood, DiskGood, Sealed, Purging, Names
<1> QED
  BY <1>1, <1>2, <1>3, <1>4, NothingGood DEF IInv, Carries, PagesComplete, Writing

LEMMA NextIInv == IInv /\ [Next]_vars => IInv'
BY ReadSearchKeeps, ReadContactKeeps, WriteSearchKeeps, WriteContactKeeps,
   InvalidateSearchesKeeps, WriteDraftKeeps, DeleteDraftKeeps, WritingKeeps, PurgeKeeps,
   OthersKeep DEF Next, Steps, Operation

LEMMA Inductive == Spec => []IInv
BY InitIInv, NextIInv, PTL DEF Spec

\* The document keeps its types and the limits of its policy, in the file and on
\* its way there.
THEOREM CacheTypeCorrect == Spec => []TypeOK
<1>1. IInv => TypeOK
  BY DEF IInv, Good, OpGood, DiskGood, TypeOK, Writing, Purging
<1> QED
  BY <1>1, Inductive, PTL

\* What a write leaves in the document are pages with all their contacts.
THEOREM PagesAreComplete == Spec => []PagesComplete
<1>1. IInv => PagesComplete
  BY DEF IInv
<1> QED
  BY <1>1, Inductive, PTL

\* A page that was just stored is not what is evicted for it.
THEOREM StoredPagesStay == Spec => []JustStoredStays
<1>1. IInv => JustStoredStays
  <2> SUFFICES ASSUME IInv PROVE JustStoredStays
    OBVIOUS
  <2> HIDE DEF Document
  <2>1. file.doc \in Document /\ now \in Times
    BY DEF IInv, Good
  <2> QED
    BY <2>1, StoredStays DEF JustStoredStays
<1> QED
  BY <1>1, Inductive, PTL

\* After a purge that has succeeded nothing brings the file or the key back.
THEOREM PurgedStaysGone == Spec => []PurgedGone
<1>1. IInv => PurgedGone
  BY DEF IInv, Sealed, PurgedGone
<1> QED
  BY <1>1, Inductive, PTL

\* No draft leaves the file but by a deletion, a purge or the loss of the key.
THEOREM DraftsStay == Spec => DraftsKept
<1> DEFINE Kept == \/ file.doc.drafts \subseteq file'.doc.drafts
                   \/ op.name \in {"deleteDraft", "purge"} \/ ~Readable
<1>1. IInv /\ [Next]_vars => Kept
  <2> SUFFICES ASSUME IInv, [Next]_vars PROVE Kept
    OBVIOUS
  <2> HIDE DEF Document
  <2>1. CASE Load
    <3>1. file' = file \/ ~Readable
      BY <2>1 DEF Load, disk
    <3> QED
      BY <3>1
  <2>2. CASE Rename
    BY <2>2 DEF Rename, IInv, Carries, Writing
  <2>3. CASE PurgeFile
    BY <2>3 DEF PurgeFile, IInv, OpGood, Purging
  <2>4. CASE Request \/ Purge \/ Encrypt \/ WriteTemporary \/ PurgeKey \/ ClockMoves
             \/ StorageFails \/ KeyLost \/ Restart \/ UNCHANGED vars
    BY <2>4 DEF Request, Purge, Encrypt, WriteTemporary, PurgeKey, ClockMoves, StorageFails,
                KeyLost, Restart, vars, disk
  <2>5. Operation => Load
    BY DEF Operation, ReadSearch, ReadContact, WriteSearch, WriteContact, InvalidateSearches,
           WriteDraft, DeleteDraft
  <2> QED
    BY <2>1, <2>2, <2>3, <2>4, <2>5 DEF Next, Steps
<1>2. IInv /\ [Next]_vars => [Kept]_vars
  BY <1>1
<1> QED
  BY <1>2, Inductive, PTL DEF Spec, DraftsKept
=============================================================================
