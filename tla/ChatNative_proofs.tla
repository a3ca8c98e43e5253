-------------------------- MODULE ChatNative_proofs --------------------------
(* Theorems about the chat's native side, for every value of the constants of  *)
(* its modules.                                                                *)
(*                                                                             *)
(* ChatTokens: types; that a refresh token is used once; that only the server  *)
(* ends the app's session; and that a renewed token is taken over. None is     *)
(* inductive. Two processes know tokens, two stores hold them, and the server  *)
(* accepts the newest: what the parts below say is where the newest token is   *)
(* at each moment of a refresh, a login and a renewal.                         *)
(*                                                                             *)
(* ChatTimeline: that the page shows the SDK's timeline once the batches under *)
(* way have arrived, and that no task outlives its timeline. The first rests   *)
(* on lemmas about DiffList: what is shown after one more batch, after one     *)
(* batch fewer, and that a diff of mapped items does to what is shown what the *)
(* change did to the timeline. The second needs to know who would still end    *)
(* each task: the slot it is in or the call that is about to put it there.     *)
(*                                                                             *)
(* RoomList: that the controller's list becomes the rooms the task mirrors,    *)
(* that at rest it shows the rooms of the page's filter in the order of        *)
(* activity, and their modes. The first needs the window: the visible rooms    *)
(* are the first of entries without repetition, which is what makes one diff   *)
(* at the end of the window the answer to one at its start. The second needs   *)
(* what the entries are while news waits, and where the filter is on its way.  *)
EXTENDS ChatTimeline, ChatTokens, RoomList, FiniteSetTheorems, WellFoundedInduction, TLAPS

-----------------------------------------------------------------------------
(* ChatTokens.                                                                 *)

Holding == {"restored", "asking", "answered", "persisted"}
Unsaved(p) == process[p].at \in {"answered", "persisted"}

\* No token is newer than the newest.
NoneNewer ==
    /\ stored <= grant.newest /\ hash <= grant.newest /\ grant.refresh <= grant.newest
    /\ \A p \in Processes :
          /\ process[p].token <= grant.newest /\ process[p].known <= grant.newest
          /\ process[p].update <= grant.newest

\* The lock is held by the process that is between taking and releasing it.
LockHeld == \A p \in Processes : process[p].at \in Holding <=> refreshLock = p

\* Each place belongs to a way of signing in, and some to the app.
KindsFit ==
    /\ \A p \in Processes :
          /\ process[p].at \in {"loggedIn", "asking", "answered",
                 "persisted"} => kind = "oauth"
          /\ process[p].update # 0 => process[p].at \in {"renewed", "stored", "refresh"}
    /\ process["app"].update # 0 => kind = "issued"
    /\ process["nse"].update = 0
    /\ process["app"].at \in {"renewed", "stored"} => kind = "issued"
    /\ kind = "issued" => process["nse"].at # "refresh"
    /\ process["nse"].at \notin {"loggedIn", "leaving", "renewed", "stored"}

\* An OAuth client uses the token whose hash it knows.
TokensKnown ==
    kind = "oauth" => \A p \in Processes :
        /\ process[p].at \in {"restoring", "restored", "up", "refresh", "asking",
               "loggedIn"} =>
              process[p].token = process[p].known
        /\ process[p].at \in {"restoring", "restored", "up", "refresh", "asking",
               "answered",
                              "persisted", "loggedIn"} => process[p].token # 0

\* A login has its hash saved and nothing stored, and nobody else gets the lock.
LoginAlone ==
    process["app"].at = "loggedIn" =>
        /\ stored = 0 /\ refreshLock = Free
        /\ hash = process["app"].token
        /\ process["nse"].known # hash

\* A session that is left cannot be refreshed.
LeavingEnded == kind = "oauth" /\ process["app"].at = "leaving" => grant.refresh = 0

\* Who holds the lock and has not asked yet knows the hash that is saved.
Compared ==
    kind = "oauth" => \A p \in Processes :
        process[p].at \in {"restored", "asking"} => hash \in {0, process[p].known}

\* As long as no rotated token was lost, the one the server would take is what
\* the stores hold, or what the holder of the lock is about to store.
NewestSaved ==
    kind = "oauth" /\ ~missed.rotation /\ grant.refresh # 0 =>
        /\ \A p \in Processes :
              /\ Unsaved(p) => process[p].token = grant.refresh
              /\ process[p].at = "persisted" => stored = grant.refresh
        /\ (\A p \in Processes : ~Unsaved(p)) => hash = grant.refresh /\ stored \in {0,
               grant.refresh}

\* A renewal under way: the new token is stored before it is announced, and
\* what the client knows is older, unless a refused request was first.
UpdateStored ==
    kind = "issued" =>
        /\ process["app"].at \in {"renewed", "stored",
               "refresh"} => process["app"].update # 0
        /\ process["app"].at \in {"stored", "refresh"} => stored = process["app"].update
        /\ process["app"].at \in {"renewed", "stored", "refresh"} /\ ~missed.overtaken =>
              process["app"].known # process["app"].update
        /\ process["app"].at = "refresh" /\ ~missed.overtaken /\ ~missed.announcement =>
              hash = process["app"].update

\* What ends the session is preceded by a refusal.
RefusalFirst ==
    /\ missed.overtaken => missed.rejected
    /\ change = "unknownToken" => missed.rejected

IInv ==
    /\ TokensTypeOK /\ NoneNewer /\ LockHeld /\ KindsFit /\ TokensKnown /\ LoginAlone
    /\ LeavingEnded /\ Compared /\ NewestSaved /\ UpdateStored /\ RefusalFirst
    /\ RefreshOnce /\ EndedOnlyIfRejected

-----------------------------------------------------------------------------
(* Types.                                                                       *)

\* A process that changes keeps its type.
LEMMA TokenChanges ==
  ASSUME TokensTypeOK, NEW p \in Processes, NEW r \in ProcessRecord, Becomes(p, r)
  PROVE  process' \in [Processes -> ProcessRecord]
BY DEF TokensTypeOK, Becomes

\* What the type says of one process.
LEMMA Typed ==
  ASSUME TokensTypeOK, NEW p \in Processes
  PROVE  /\ process[p] \in ProcessRecord
         /\ process[p].token \in Nat /\ process[p].known \in Nat
                /\ process[p].update \in Nat
         /\ process[p].request \in Nat
         /\ stored \in Nat /\ 0 \in Nat
BY DEF TokensTypeOK, ProcessRecord

\* Giving out a token keeps the server's type.
LEMMA Granted ==
  ASSUME TokensTypeOK, NEW good \in SUBSET Nat, Grants(good)
  PROVE  /\ grant'.newest = grant.newest + 1
         /\ grant'.newest \in Nat
         /\ grant' \in [newest : Nat, good : SUBSET Nat, refresh : Nat, reused : BOOLEAN]
<1>1. grant.newest + 1 \in Nat /\ grant.newest \in Nat
  BY DEF TokensTypeOK
<1>2. (IF kind = "oauth" THEN grant.newest + 1 ELSE 0) \in Nat
  BY <1>1
<1> QED
  BY <1>1, <1>2 DEF TokensTypeOK, Grants

\* Every step keeps the types.
LEMMA TypesKept ==
  ASSUME TokensTypeOK, [TokensNext]_tokensVars
  PROVE  TokensTypeOK'
<1>1. ASSUME NEW p \in Processes, Start(p) PROVE TokensTypeOK'
  <2>1. [process[p] EXCEPT !.at = "opened"] \in ProcessRecord
    BY Typed DEF ProcessRecord, Places
  <2>2. process' \in [Processes -> ProcessRecord]
    BY <1>1, <2>1, TokenChanges DEF Start, Goes
  <2> QED
    BY <1>1, <2>2, Typed DEF Start, TokensTypeOK, Processes, Goes
<1>2. ASSUME NEW p \in Processes, ReadStored(p) PROVE TokensTypeOK'
  <2>1. [process[p] EXCEPT !.at = "restoring", !.token = stored,
            !.known = stored] \in ProcessRecord
    BY Typed DEF ProcessRecord, Places
  <2>2. process' \in [Processes -> ProcessRecord]
    BY <1>2, <2>1, TokenChanges DEF ReadStored
  <2> QED
    BY <1>2, <2>2, Typed DEF ReadStored, TokensTypeOK, Processes
<1>3. ASSUME NEW p \in Processes, RestoreLocks(p) PROVE TokensTypeOK'
  <2>1. Reload(p) \in ProcessRecord
    BY Typed DEF ProcessRecord, Places, Reload
  <2>2. Down \in ProcessRecord
    BY DEF ProcessRecord, Places, Down
  <2>3. [process[p] EXCEPT !.at = "restored"] \in ProcessRecord
    BY Typed DEF ProcessRecord, Places
  <2>4. process' \in [Processes -> ProcessRecord]
    BY <1>3, <2>1, <2>2, <2>3, TokenChanges DEF RestoreLocks, Goes
  <2> QED
    BY <1>3, <2>4, Typed DEF RestoreLocks, TokensTypeOK, Processes, Goes, SetActive
<1>4. ASSUME NEW p \in Processes, RestoreSaves(p) PROVE TokensTypeOK'
  <2>1. [process[p] EXCEPT !.at = "up"] \in ProcessRecord
    BY Typed DEF ProcessRecord, Places
  <2>2. process' \in [Processes -> ProcessRecord]
    BY <1>4, <2>1, TokenChanges DEF RestoreSaves, Goes
  <2> QED
    BY <1>4, <2>2, Typed DEF RestoreSaves, TokensTypeOK, Processes, Goes, SetActive,
                             Mismatch, Free
<1>5. ASSUME NEW p \in Processes, Rejected(p) PROVE TokensTypeOK'
  <2>1. [process[p] EXCEPT !.at = "refresh"] \in ProcessRecord
    BY Typed DEF ProcessRecord, Places
  <2>2. process' \in [Processes -> ProcessRecord]
    BY <1>5, <2>1, TokenChanges DEF Rejected, Goes
  <2> QED
    BY <1>5, <2>2, Typed DEF Rejected, TokensTypeOK, Processes, Goes
<1>6. ASSUME NEW p \in Processes, RefreshReloads(p) PROVE TokensTypeOK'
  <2>1. [Reload(p) EXCEPT !.request = 0] \in ProcessRecord
    BY Typed DEF ProcessRecord, Places, Reload
  <2>2. [process[p] EXCEPT !.at = "up", !.request = 0] \in ProcessRecord
    BY Typed DEF ProcessRecord, Places
  <2>3. process' \in [Processes -> ProcessRecord]
    BY <1>6, <2>1, <2>2, TokenChanges DEF RefreshReloads, RefreshFails
  <2> QED
    BY <1>6, <2>3, Typed DEF RefreshReloads, TokensTypeOK, Processes, RefreshFails,
                             FailsWith, Tells, ClassifyRefresh, Report, Broadcasts
<1>7. ASSUME NEW p \in Processes, RefreshAsks(p) PROVE TokensTypeOK'
  <2>1. [process[p] EXCEPT !.at = "asking"] \in ProcessRecord
    BY Typed DEF ProcessRecord, Places
  <2>2. process' \in [Processes -> ProcessRecord]
    BY <1>7, <2>1, TokenChanges DEF RefreshAsks, Goes
  <2> QED
    BY <1>7, <2>2, Typed DEF RefreshAsks, TokensTypeOK, Processes, Goes, Locks
<1>8. ASSUME NEW p \in Processes, RefreshAnswered(p) PROVE TokensTypeOK'
  <2>1. /\ grant' \in [newest : Nat, good : SUBSET Nat, refresh : Nat, reused : BOOLEAN]
        /\ grant'.newest \in Nat
    BY <1>8, Granted DEF RefreshAnswered, TokensTypeOK
  <2>2. [process[p] EXCEPT !.at = "answered", !.token = grant'.newest] \in ProcessRecord
    BY <2>1, Typed DEF ProcessRecord, Places
  <2>3. [process[p] EXCEPT !.at = "up", !.request = 0] \in ProcessRecord
    BY Typed DEF ProcessRecord, Places
  <2>4. process' \in [Processes -> ProcessRecord]
    BY <1>8, <2>2, <2>3, TokenChanges DEF RefreshAnswered, RefreshFails
  <2>5. missed' \in [rotation : BOOLEAN, announcement : BOOLEAN, overtaken : BOOLEAN,
                     rejected : BOOLEAN]
    BY <1>8 DEF RefreshAnswered, TokensTypeOK
  <2>6. /\ refreshLock' \in Processes \cup {Free} /\ misses' \in Nat
        /\ signed' \in {"signedOut", "active", "expired"}
        /\ change' \in {"none", "unknownToken", "tokensRefreshed"}
    BY <1>8 DEF RefreshAnswered, TokensTypeOK, RefreshFails, FailsWith, Tells,
                ClassifyRefresh, Report, Broadcasts, Misses, Free
  <2> QED
    BY <1>8, <2>1, <2>4, <2>5, <2>6 DEF RefreshAnswered, TokensTypeOK
<1>9. ASSUME NEW p \in Processes, RefreshUnanswered(p) PROVE TokensTypeOK'
  <2>1. [process[p] EXCEPT !.at = "up", !.request = 0] \in ProcessRecord
    BY Typed DEF ProcessRecord, Places
  <2>2. process' \in [Processes -> ProcessRecord]
    BY <1>9, <2>1, TokenChanges DEF RefreshUnanswered, RefreshFails
  <2> QED
    BY <1>9, <2>2, Typed DEF RefreshUnanswered, TokensTypeOK, Processes, RefreshFails,
                             FailsWith, Tells, ClassifyRefresh, Report, Broadcasts, Misses,
                             Free
<1>10. ASSUME NEW p \in Processes, RefreshRefused(p) PROVE TokensTypeOK'
  <2>1. [process[p] EXCEPT !.at = "up", !.request = 0] \in ProcessRecord
    BY Typed DEF ProcessRecord, Places
  <2>2. process' \in [Processes -> ProcessRecord]
    BY <1>10, <2>1, TokenChanges DEF RefreshRefused, RefreshFails
  <2> QED
    BY <1>10, <2>2, Typed DEF RefreshRefused, TokensTypeOK, Processes, RefreshFails,
                              FailsWith, Tells, ClassifyRefresh, Report, Broadcasts, Free
<1>11. ASSUME NEW p \in Processes, PersistSession(p) PROVE TokensTypeOK'
  <2>1. [process[p] EXCEPT !.at = "persisted"] \in ProcessRecord
    BY Typed DEF ProcessRecord, Places
  <2>2. process' \in [Processes -> ProcessRecord]
    BY <1>11, <2>1, TokenChanges DEF PersistSession, Goes
  <2> QED
    BY <1>11, <2>2, Typed DEF PersistSession, TokensTypeOK, Processes, Goes
<1>12. ASSUME NEW p \in Processes, RefreshSaves(p) PROVE TokensTypeOK'
  <2>1. [process[p] EXCEPT !.at = "up", !.known = process[p].token,
            !.request = 0] \in ProcessRecord
    BY Typed DEF ProcessRecord, Places
  <2>2. process' \in [Processes -> ProcessRecord]
    BY <1>12, <2>1, TokenChanges DEF RefreshSaves
  <2> QED
    BY <1>12, <2>2, Typed DEF RefreshSaves, TokensTypeOK, Processes, Broadcasts, Free
<1>13. ASSUME NEW p \in Processes, Request(p) PROVE TokensTypeOK'
  <2>1. [process[p] EXCEPT !.request = @ + process[p].token] \in ProcessRecord
    BY Typed DEF ProcessRecord, Places
  <2>2. process' \in [Processes -> ProcessRecord]
    BY <1>13, <2>1, TokenChanges DEF Request
  <2> QED
    BY <1>13, <2>2, Typed DEF Request, TokensTypeOK, Processes
<1>14. ASSUME NEW p \in Processes, Accepted(p) PROVE TokensTypeOK'
  <2>1. [process[p] EXCEPT !.request = 0] \in ProcessRecord
    BY Typed DEF ProcessRecord, Places
  <2>2. process' \in [Processes -> ProcessRecord]
    BY <1>14, <2>1, TokenChanges DEF Accepted
  <2> QED
    BY <1>14, <2>2, Typed DEF Accepted, TokensTypeOK, Processes
<1>15. ASSUME NEW p \in Processes, IssuedRejected(p) PROVE TokensTypeOK'
  <2>1. [process[p] EXCEPT !.token = stored, !.known = stored,
            !.request = 0] \in ProcessRecord
    BY Typed DEF ProcessRecord, Places
  <2>2. [process[p] EXCEPT !.request = 0] \in ProcessRecord
    BY Typed DEF ProcessRecord, Places
  <2>3. process' \in [Processes -> ProcessRecord]
    BY <1>15, <2>1, <2>2, TokenChanges DEF IssuedRejected
  <2> QED
    BY <1>15, <2>3, Typed DEF IssuedRejected, TokensTypeOK, Processes, FailsWith, Tells,
                              ClassifyRefresh, Report, Broadcasts, Mismatch, At
<1>16. ASSUME NEW p \in Processes, Kill(p) PROVE TokensTypeOK'
  <2>1. Down \in ProcessRecord
    BY DEF ProcessRecord, Places, Down
  <2>2. process' \in [Processes -> ProcessRecord]
    BY <1>16, <2>1, TokenChanges DEF Kill
  <2>3. refreshLock' \in Processes \cup {Free} /\ misses' \in Nat
    BY <1>16 DEF Kill, TokensTypeOK, Misses
  <2>4. missed' = [missed EXCEPT !.rotation = TRUE] \/ missed' = missed
    BY <1>16 DEF Kill, TokensTypeOK
  <2>5. missed' \in [rotation : BOOLEAN, announcement : BOOLEAN, overtaken : BOOLEAN,
                     rejected : BOOLEAN]
    BY <2>4 DEF TokensTypeOK
  <2>6. UNCHANGED <<kind, grant, stored, hash, signed, change, starts>>
    BY <1>16 DEF Kill
  <2> QED
    BY <2>2, <2>3, <2>5, <2>6 DEF TokensTypeOK
<1>17. CASE NothingStored
  <2>1. Down \in ProcessRecord
    BY DEF Processes, ProcessRecord, Places, Down
  <2>2. process' \in [Processes -> ProcessRecord]
    BY <1>17, <2>1, TokenChanges DEF NothingStored, Processes
  <2> QED
    BY <1>17, <2>2, Typed DEF NothingStored, TokensTypeOK, Processes
<1>18. CASE NotificationShown
  <2>1. Down \in ProcessRecord
    BY DEF Processes, ProcessRecord, Places, Down
  <2>2. process' \in [Processes -> ProcessRecord]
    BY <1>18, <2>1, TokenChanges DEF NotificationShown, Processes
  <2> QED
    BY <1>18, <2>2, Typed DEF NotificationShown, TokensTypeOK, Processes
<1>19. CASE SignInWithToken
  <2>1. grant.newest + 1 \in Nat
    BY DEF TokensTypeOK
  <2> QED
    BY <1>19, <2>1, Granted DEF SignInWithToken, TokensTypeOK
<1>20. CASE FinishLogin
  <2>1. grant.newest + 1 \in Nat
    BY DEF TokensTypeOK
  <2>2. /\ grant' \in [newest : Nat, good : SUBSET Nat, refresh : Nat, reused : BOOLEAN]
        /\ grant'.newest \in Nat
    BY <1>20, <2>1, Granted DEF FinishLogin
  <2>3. [Down EXCEPT !.at = "loggedIn", !.token = grant'.newest,
            !.known = grant'.newest] \in ProcessRecord
    BY <2>2 DEF Down, ProcessRecord, Places
  <2>4. process' \in [Processes -> ProcessRecord]
    BY <1>20, <2>3, TokenChanges DEF FinishLogin, Processes
  <2> QED
    BY <1>20, <2>2, <2>4 DEF FinishLogin, TokensTypeOK
<1>21. CASE LoginPersists
  <2>1. [process["app"] EXCEPT !.at = "up"] \in ProcessRecord
    BY Typed DEF Processes, ProcessRecord, Places
  <2>2. process' \in [Processes -> ProcessRecord]
    BY <1>21, <2>1, TokenChanges DEF LoginPersists, Processes, Goes
  <2> QED
    BY <1>21, <2>2, Typed DEF LoginPersists, TokensTypeOK, Processes, Goes, SetActive
<1>22. CASE Renewed
  <2>1. PICK kept \in {{}, grant.good} : Grants(kept \cup {grant.newest + 1})
    BY <1>22 DEF Renewed
  <2>2. kept \cup {grant.newest + 1} \in SUBSET Nat
    BY DEF TokensTypeOK
  <2>3. /\ grant' \in [newest : Nat, good : SUBSET Nat, refresh : Nat, reused : BOOLEAN]
        /\ grant'.newest \in Nat
    BY <2>1, <2>2, Granted
  <2>4. [process["app"] EXCEPT !.at = "renewed", !.update = grant'.newest] \in ProcessRecord
    BY <2>3, Typed DEF Processes, ProcessRecord, Places
  <2>5. process' \in [Processes -> ProcessRecord]
    BY <1>22, <2>4, TokenChanges DEF Renewed, Processes
  <2> QED
    BY <1>22, <2>3, <2>5 DEF Renewed, TokensTypeOK
<1>23. CASE StoreAccessToken
  <2>1. [process["app"] EXCEPT !.at = "stored"] \in ProcessRecord
    BY Typed DEF Processes, ProcessRecord, Places
  <2>2. process' \in [Processes -> ProcessRecord]
    BY <1>23, <2>1, TokenChanges DEF StoreAccessToken, Processes, Goes
  <2> QED
    BY <1>23, <2>2, Typed DEF StoreAccessToken, TokensTypeOK, Processes, Goes
<1>24. CASE AnnounceSessionTokens
  <2>1. [process["app"] EXCEPT !.at = "refresh"] \in ProcessRecord
    BY Typed DEF Processes, ProcessRecord, Places
  <2>2. process' \in [Processes -> ProcessRecord]
    BY <1>24, <2>1, TokenChanges DEF AnnounceSessionTokens, Processes, Goes
  <2> QED
    BY <1>24, <2>2, Typed DEF AnnounceSessionTokens, TokensTypeOK, Processes, Goes
<1>25. CASE UpdateReloads
  <2>1. Reload("app") \in ProcessRecord
    BY Typed DEF Processes, ProcessRecord, Places, Reload
  <2>2. process' \in [Processes -> ProcessRecord]
    BY <1>25, <2>1, TokenChanges DEF UpdateReloads, Processes
  <2> QED
    BY <1>25, <2>2, Typed DEF UpdateReloads, TokensTypeOK, Processes, Broadcasts
<1>26. CASE UpdateFails
  <2>1. [process["app"] EXCEPT !.at = "up", !.update = 0] \in ProcessRecord
    BY Typed DEF Processes, ProcessRecord, Places
  <2>2. process' \in [Processes -> ProcessRecord]
    BY <1>26, <2>1, TokenChanges DEF UpdateFails, Processes
  <2> QED
    BY <1>26, <2>2, Typed DEF UpdateFails, TokensTypeOK, Processes, FailsWith,
                              ClassifyRefresh, Report
<1>27. CASE SessionChanged
  BY <1>27 DEF SessionChanged, TokensTypeOK
<1>28. CASE Logout
  <2>1. [process["app"] EXCEPT !.at = "leaving"] \in ProcessRecord
    BY Typed DEF Processes, ProcessRecord, Places
  <2>2. process' \in [Processes -> ProcessRecord]
    BY <1>28, <2>1, TokenChanges DEF Logout, Processes, Goes
  <2> QED
    BY <1>28, <2>2, Typed DEF Logout, TokensTypeOK, Processes, Goes
<1>29. CASE ForgetSession
  <2>1. Down \in ProcessRecord
    BY DEF Processes, ProcessRecord, Places, Down
  <2>2. process' \in [Processes -> ProcessRecord]
    BY <1>29, <2>1, TokenChanges DEF ForgetSession, Processes
  <2> QED
    BY <1>29, <2>2, Typed DEF ForgetSession, TokensTypeOK, Processes
<1>30. CASE Expire
  BY <1>30 DEF Expire, TokensTypeOK
<1>31. CASE Revoke
  BY <1>31 DEF Revoke, TokensTypeOK
<1>33. CASE UpdateStopped
  <2>1. [process["app"] EXCEPT !.at = "up", !.update = 0] \in ProcessRecord
    BY Typed DEF Processes, ProcessRecord, Places
  <2>2. process' \in [Processes -> ProcessRecord]
    BY <1>33, <2>1, TokenChanges DEF UpdateStopped, Processes
  <2> QED
    BY <1>33, <2>2 DEF UpdateStopped, TokensTypeOK, Misses
<1>34. ASSUME NEW p \in Processes, PersistFails(p) PROVE TokensTypeOK'
  <2>1. [process[p] EXCEPT !.at = "persisted"] \in ProcessRecord
    BY Typed DEF ProcessRecord, Places
  <2>2. process' \in [Processes -> ProcessRecord]
    BY <1>34, <2>1, TokenChanges DEF PersistFails, Goes
  <2>3. missed' \in [rotation : BOOLEAN, announcement : BOOLEAN, overtaken : BOOLEAN,
                     rejected : BOOLEAN]
    BY <1>34 DEF PersistFails, TokensTypeOK
  <2>4. misses' \in Nat
    BY <1>34 DEF PersistFails, TokensTypeOK, Misses
  <2>5. UNCHANGED <<kind, grant, stored, hash, refreshLock, signed, change, starts>>
    BY <1>34 DEF PersistFails
  <2> QED
    BY <2>2, <2>3, <2>4, <2>5 DEF TokensTypeOK
<1>32. CASE UNCHANGED tokensVars
  BY <1>32 DEF tokensVars, TokensTypeOK
<1> QED
  BY <1>1, <1>2, <1>3, <1>4, <1>5, <1>6, <1>7, <1>8, <1>9, <1>10, <1>11, <1>12, <1>13,
     <1>14, <1>15, <1>16, <1>17, <1>18, <1>19, <1>20, <1>21, <1>22, <1>23, <1>24, <1>25,
     <1>26, <1>27, <1>28, <1>29, <1>30, <1>31, <1>32, <1>33, <1>34
     DEF TokensNext, Restoring, Refreshing, Requesting

-----------------------------------------------------------------------------
(* What the actions that have several outcomes do.                             *)

\* A restore reloads, fails, or takes the lock.
LEMMA RestoreLocksDoes ==
  ASSUME NEW p \in Processes, RestoreLocks(p)
  PROVE  /\ process[p].at = "restoring" /\ refreshLock = Free
         /\ UNCHANGED <<kind, grant, stored, change, missed, starts, misses>>
         /\ \/ /\ Mismatch(p) /\ stored # 0
               /\ Becomes(p, Reload(p)) /\ hash' = stored /\ signed' \in {signed, "active"}
               /\ UNCHANGED refreshLock
            \/ /\ Mismatch(p) /\ stored = 0
               /\ Becomes(p, Down) /\ UNCHANGED <<hash, refreshLock, signed>>
            \/ /\ ~Mismatch(p)
               /\ Goes(p, "restored") /\ refreshLock' = p /\ UNCHANGED <<hash, signed>>
BY DEF RestoreLocks, At, SetActive

\* The next token reaches the process or is lost on the way.
LEMMA RefreshAnsweredDoes ==
  ASSUME NEW p \in Processes, RefreshAnswered(p), TokensTypeOK
  PROVE  /\ process[p].at = "asking" /\ process[p].token = grant.refresh
         /\ grant' = [grant EXCEPT !.newest = @ + 1, !.good = {grant.newest + 1},
                      !.refresh = IF kind = "oauth" THEN grant.newest + 1 ELSE 0]
         /\ UNCHANGED <<kind, stored, hash, starts>>
         /\ \/ /\ Becomes(p, [process[p] EXCEPT !.at = "answered",
                                             !.token = grant.newest + 1])
               /\ UNCHANGED <<refreshLock, signed, change, missed>>
            \/ /\ missed' = [missed EXCEPT !.rotation = TRUE] /\ refreshLock' = Free
               /\ Becomes(p, [process[p] EXCEPT !.at = "up", !.request = 0])
               /\ signed' = signed /\ change' = change
<1>1. grant'.newest = grant.newest + 1
  BY DEF RefreshAnswered, Grants, TokensTypeOK
<1>2. /\ process[p].at = "asking" /\ process[p].token = grant.refresh
      /\ grant' = [grant EXCEPT !.newest = @ + 1, !.good = {grant.newest + 1},
                   !.refresh = IF kind = "oauth" THEN grant.newest + 1 ELSE 0]
      /\ UNCHANGED <<kind, stored, hash, starts>>
  BY DEF RefreshAnswered, At, Grants
<1>3. CASE /\ Becomes(p, [process[p] EXCEPT !.at = "answered", !.token = grant'.newest])
           /\ UNCHANGED <<refreshLock, signed, change, missed, misses>>
  BY <1>1, <1>2, <1>3
<1>4. CASE /\ Misses /\ missed' = [missed EXCEPT !.rotation = TRUE]
           /\ refreshLock' = Free
           /\ RefreshFails(p, "request")
  BY <1>2, <1>4 DEF RefreshFails, FailsWith, Tells, ClassifyRefresh, Report
<1> QED
  BY <1>3, <1>4 DEF RefreshAnswered

\* A refused request reloads the tokens, or fails.
LEMMA IssuedRejectedDoes ==
  ASSUME NEW p \in Processes, IssuedRejected(p), TokensTypeOK
  PROVE  /\ process[p].at \in {"up", "renewed", "stored", "refresh"} /\ refreshLock = Free
         /\ kind = "issued"
         /\ UNCHANGED <<kind, grant, stored, refreshLock, starts, misses>>
         /\ missed'.rejected <=> missed.rejected \/ p = "app"
         /\ missed'.overtaken <=> missed.overtaken \/ (Mismatch(p) /\ ~At(p, "up"))
         /\ missed'.rotation = missed.rotation /\ missed'.announcement = missed.announcement
         /\ \/ /\ Mismatch(p) /\ stored # 0
               /\ Becomes(p, [process[p] EXCEPT !.token = stored, !.known = stored,
                                             !.request = 0])
               /\ hash' = stored /\ UNCHANGED signed
               /\ change' \in {change, "tokensRefreshed"}
            \/ /\ ~(Mismatch(p) /\ stored # 0)
               /\ Becomes(p, [process[p] EXCEPT !.request = 0])
               /\ UNCHANGED hash
               /\ p # "app" => UNCHANGED <<signed, change>>
<1>1. /\ process[p].at \in {"up", "renewed", "stored", "refresh"} /\ refreshLock = Free
      /\ kind = "issued"
      /\ UNCHANGED <<kind, grant, stored, refreshLock, starts, misses>>
  BY DEF IssuedRejected
<1>2. /\ missed'.rejected <=> missed.rejected \/ p = "app"
      /\ missed'.overtaken <=> missed.overtaken \/ (Mismatch(p) /\ ~At(p, "up"))
      /\ missed'.rotation = missed.rotation /\ missed'.announcement = missed.announcement
  <2>1. missed' = [missed EXCEPT !.rejected = @ \/ p = "app",
                                 !.overtaken = @ \/ (Mismatch(p) /\ ~At(p, "up"))]
    BY DEF IssuedRejected
  <2> QED
    BY <2>1 DEF TokensTypeOK
<1>3. CASE Mismatch(p) /\ stored # 0
  BY <1>1, <1>2, <1>3 DEF IssuedRejected, Broadcasts
<1>4. CASE ~(Mismatch(p) /\ stored # 0)
  BY <1>1, <1>2, <1>4 DEF IssuedRejected, FailsWith, Tells, Broadcasts
<1> QED
  BY <1>3, <1>4

-----------------------------------------------------------------------------
(* Every step keeps the invariant. Each lemma has one step per action.         *)

\* Where tokens are known, and the lock.
LEMMA WhereKept ==
  ASSUME IInv, [TokensNext]_tokensVars, TokensTypeOK'
  PROVE  NoneNewer' /\ LockHeld' /\ KindsFit' /\ TokensKnown'
<1> USE DEF Processes, Free, Down, Holding, Unsaved, At, Becomes, Goes, IInv, TokensTypeOK,
            NoneNewer, LockHeld, KindsFit, TokensKnown, UpdateStored
<1>1. ASSUME NEW p \in Processes, Start(p)
      PROVE  NoneNewer' /\ LockHeld' /\ KindsFit' /\ TokensKnown'
  BY <1>1 DEF Start
<1>2. ASSUME NEW p \in Processes, ReadStored(p)
      PROVE  NoneNewer' /\ LockHeld' /\ KindsFit' /\ TokensKnown'
  BY <1>2 DEF ReadStored
<1>3. ASSUME NEW p \in Processes, RestoreLocks(p)
      PROVE  NoneNewer' /\ LockHeld' /\ KindsFit' /\ TokensKnown'
  <2>1. CASE Mismatch(p) /\ stored # 0
    <3>1. /\ process[p].at = "restoring" /\ refreshLock = Free
          /\ process' = [process EXCEPT ![p] = [process[p] EXCEPT !.at = "up",
                 !.token = stored, !.known = stored, !.update = 0]]
          /\ hash' = stored /\ signed' \in {signed, "active"}
          /\ UNCHANGED <<kind, grant, stored, refreshLock, change, missed, starts, misses>>
      BY <1>3, <2>1, RestoreLocksDoes DEF Reload
    <3> QED
      BY <2>1, <3>1 DEF Mismatch
  <2>2. CASE Mismatch(p) /\ stored = 0
    <3>1. /\ process[p].at = "restoring" /\ refreshLock = Free
          /\ process' = [process EXCEPT ![p] = Down]
          /\ UNCHANGED <<kind, grant, stored, hash, refreshLock, signed, change, missed,
                 starts, misses>>
      BY <1>3, <2>2, RestoreLocksDoes DEF Reload
    <3> QED
      BY <2>2, <3>1 DEF Mismatch
  <2>3. CASE ~Mismatch(p)
    <3>1. /\ process[p].at = "restoring" /\ refreshLock = Free
          /\ process' = [process EXCEPT ![p] = [process[p] EXCEPT !.at = "restored"]]
          /\ refreshLock' = p
          /\ UNCHANGED <<kind, grant, stored, hash, signed, change, missed, starts, misses>>
      BY <1>3, <2>3, RestoreLocksDoes DEF Reload
    <3> QED
      BY <2>3, <3>1 DEF Mismatch
  <2> QED
    BY <1>3, <2>1, <2>2, <2>3
<1>4. ASSUME NEW p \in Processes, RestoreSaves(p)
      PROVE  NoneNewer' /\ LockHeld' /\ KindsFit' /\ TokensKnown'
  BY <1>4 DEF RestoreSaves, SetActive, Mismatch
<1>5. ASSUME NEW p \in Processes, Rejected(p)
      PROVE  NoneNewer' /\ LockHeld' /\ KindsFit' /\ TokensKnown'
  BY <1>5 DEF Rejected
<1>6. ASSUME NEW p \in Processes, RefreshReloads(p)
      PROVE  NoneNewer' /\ LockHeld' /\ KindsFit' /\ TokensKnown'
  <2>1. CASE stored # 0
    <3>1. /\ process[p].at = "refresh" /\ refreshLock = Free
          /\ kind = "oauth" /\ Mismatch(p)
          /\ process' = [process EXCEPT ![p] = [process[p] EXCEPT !.at = "up",
                 !.token = stored, !.known = stored, !.update = 0, !.request = 0]]
          /\ hash' = stored
          /\ UNCHANGED <<kind, grant, stored, refreshLock, signed, missed, starts, misses>>
      BY <1>6, <2>1 DEF RefreshReloads, RefreshFails, Locks, Reload
    <3> QED
      BY <2>1, <3>1 DEF Mismatch
  <2>2. CASE stored = 0
    <3>1. /\ process[p].at = "refresh" /\ refreshLock = Free
          /\ kind = "oauth" /\ Mismatch(p)
          /\ process' = [process EXCEPT ![p] = [process[p] EXCEPT !.at = "up",
                 !.request = 0]]
          /\ UNCHANGED <<kind, grant, stored, hash, refreshLock, missed, starts, misses>>
      BY <1>6, <2>2 DEF RefreshReloads, RefreshFails, Locks, Reload
    <3> QED
      BY <2>2, <3>1 DEF Mismatch
  <2> QED
    BY <1>6, <2>1, <2>2
<1>7. ASSUME NEW p \in Processes, RefreshAsks(p)
      PROVE  NoneNewer' /\ LockHeld' /\ KindsFit' /\ TokensKnown'
  BY <1>7 DEF RefreshAsks, Mismatch, Locks
<1>8. ASSUME NEW p \in Processes, RefreshAnswered(p)
      PROVE  NoneNewer' /\ LockHeld' /\ KindsFit' /\ TokensKnown'
  <2>1. CASE /\ Becomes(p, [process[p] EXCEPT !.at = "answered", !.token = grant.newest + 1])
             /\ UNCHANGED <<refreshLock, signed, change, missed>>
    <3>1. /\ process[p].at = "asking" /\ process[p].token = grant.refresh
          /\ grant'.newest = grant.newest + 1
          /\ grant'.refresh = IF kind = "oauth" THEN grant.newest + 1 ELSE 0
          /\ grant'.reused = grant.reused
          /\ process' = [process EXCEPT ![p] = [process[p] EXCEPT !.at = "answered",
                 !.token = grant.newest + 1]]
          /\ UNCHANGED <<kind, stored, hash, refreshLock, signed, change, missed, starts>>
      BY <1>8, <2>1, RefreshAnsweredDoes DEF Reload
    <3> QED
      BY <2>1, <3>1, Typed DEF Mismatch
  <2>2. CASE /\ missed' = [missed EXCEPT !.rotation = TRUE] /\ refreshLock' = Free
             /\ Becomes(p, [process[p] EXCEPT !.at = "up", !.request = 0])
             /\ signed' = signed /\ change' = change
    <3>1. /\ process[p].at = "asking" /\ process[p].token = grant.refresh
          /\ grant'.newest = grant.newest + 1
          /\ grant'.refresh = IF kind = "oauth" THEN grant.newest + 1 ELSE 0
          /\ grant'.reused = grant.reused
          /\ process' = [process EXCEPT ![p] = [process[p] EXCEPT !.at = "up",
                 !.request = 0]]
          /\ refreshLock' = Free /\ missed' = [missed EXCEPT !.rotation = TRUE]
          /\ UNCHANGED <<kind, stored, hash, signed, change, starts>>
      BY <1>8, <2>2, RefreshAnsweredDoes DEF Reload
    <3> QED
      BY <2>2, <3>1, Typed DEF Mismatch
  <2> QED
    BY <1>8, <2>1, <2>2, RefreshAnsweredDoes
<1>9. ASSUME NEW p \in Processes, RefreshUnanswered(p)
      PROVE  NoneNewer' /\ LockHeld' /\ KindsFit' /\ TokensKnown'
  BY <1>9 DEF RefreshUnanswered, Misses, RefreshFails, FailsWith, Tells, ClassifyRefresh,
              Report, Broadcasts
<1>10. ASSUME NEW p \in Processes, RefreshRefused(p)
      PROVE  NoneNewer' /\ LockHeld' /\ KindsFit' /\ TokensKnown'
  BY <1>10 DEF RefreshRefused, RefreshFails, FailsWith, Tells, ClassifyRefresh, Report,
               Broadcasts
<1>11. ASSUME NEW p \in Processes, PersistSession(p)
      PROVE  NoneNewer' /\ LockHeld' /\ KindsFit' /\ TokensKnown'
  BY <1>11 DEF PersistSession
<1>12. ASSUME NEW p \in Processes, RefreshSaves(p)
      PROVE  NoneNewer' /\ LockHeld' /\ KindsFit' /\ TokensKnown'
  BY <1>12 DEF RefreshSaves, Broadcasts
<1>13. ASSUME NEW p \in Processes, Request(p)
      PROVE  NoneNewer' /\ LockHeld' /\ KindsFit' /\ TokensKnown'
  BY <1>13 DEF Request
<1>14. ASSUME NEW p \in Processes, Accepted(p)
      PROVE  NoneNewer' /\ LockHeld' /\ KindsFit' /\ TokensKnown'
  BY <1>14 DEF Accepted
<1>15. ASSUME NEW p \in Processes, IssuedRejected(p)
      PROVE  NoneNewer' /\ LockHeld' /\ KindsFit' /\ TokensKnown'
  <2>1. CASE Mismatch(p) /\ stored # 0
    <3>1. /\ process[p].at \in {"up", "renewed", "stored", "refresh"} /\ refreshLock = Free
          /\ kind = "issued"
          /\ missed'.rejected <=> missed.rejected \/ p = "app"
          /\ missed'.overtaken <=> missed.overtaken \/ (Mismatch(p) /\ ~At(p, "up"))
          /\ missed'.rotation = missed.rotation
                 /\ missed'.announcement = missed.announcement
          /\ process' = [process EXCEPT ![p] = [process[p] EXCEPT !.token = stored,
                 !.known = stored, !.request = 0]]
          /\ hash' = stored /\ change' \in {change, "tokensRefreshed"}
          /\ UNCHANGED <<kind, grant, stored, refreshLock, signed, starts, misses>>
      BY <1>15, <2>1, IssuedRejectedDoes DEF Reload
    <3> QED
      BY <2>1, <3>1 DEF Mismatch
  <2>2. CASE ~(Mismatch(p) /\ stored # 0)
    <3>1. /\ process[p].at \in {"up", "renewed", "stored", "refresh"} /\ refreshLock = Free
          /\ kind = "issued"
          /\ missed'.rejected <=> missed.rejected \/ p = "app"
          /\ missed'.overtaken <=> missed.overtaken \/ (Mismatch(p) /\ ~At(p, "up"))
          /\ missed'.rotation = missed.rotation
                 /\ missed'.announcement = missed.announcement
          /\ process' = [process EXCEPT ![p] = [process[p] EXCEPT !.request = 0]]
          /\ p # "app" => change' = change /\ signed' = signed
          /\ UNCHANGED <<kind, grant, stored, hash, refreshLock, starts, misses>>
      BY <1>15, <2>2, IssuedRejectedDoes DEF Reload
    <3> QED
      BY <2>2, <3>1 DEF Mismatch
  <2> QED
    BY <1>15, <2>1, <2>2
<1>16. ASSUME NEW p \in Processes, Kill(p)
      PROVE  NoneNewer' /\ LockHeld' /\ KindsFit' /\ TokensKnown'
  BY <1>16 DEF Kill, Misses
<1>17. CASE NothingStored
  BY <1>17 DEF NothingStored
<1>18. CASE NotificationShown
  BY <1>18 DEF NotificationShown
<1>19. CASE SignInWithToken
  <2>1. grant'.newest = grant.newest + 1 /\ grant'.refresh <= grant'.newest
    BY <1>19 DEF SignInWithToken, Grants
  <2>2. NoneNewer'
    BY <1>19, <2>1, Typed DEF SignInWithToken
  <2>3. LockHeld' /\ KindsFit' /\ TokensKnown'
    BY <1>19, <2>1 DEF SignInWithToken
  <2> QED
    BY <2>2, <2>3
<1>20. CASE FinishLogin
  <2>1. grant'.newest = grant.newest + 1 /\ grant'.refresh <= grant'.newest
    BY <1>20 DEF FinishLogin, Grants
  <2>2. NoneNewer'
    BY <1>20, <2>1, Typed DEF FinishLogin
  <2>3. LockHeld' /\ KindsFit' /\ TokensKnown'
    BY <1>20, <2>1 DEF FinishLogin
  <2> QED
    BY <2>2, <2>3
<1>21. CASE LoginPersists
  BY <1>21 DEF LoginPersists, SetActive
<1>22. CASE Renewed
  <2>1. grant'.newest = grant.newest + 1 /\ grant'.refresh <= grant'.newest
    BY <1>22 DEF Renewed, Grants
  <2>2. NoneNewer'
    BY <1>22, <2>1, Typed DEF Renewed
  <2>3. LockHeld' /\ KindsFit' /\ TokensKnown'
    BY <1>22, <2>1 DEF Renewed
  <2> QED
    BY <2>2, <2>3
<1>23. CASE StoreAccessToken
  BY <1>23 DEF StoreAccessToken
<1>24. CASE AnnounceSessionTokens
  BY <1>24 DEF AnnounceSessionTokens
<1>25. CASE UpdateReloads
  BY <1>25 DEF UpdateReloads, Broadcasts, Mismatch, Reload, Locks
<1>26. CASE UpdateFails
  BY <1>26 DEF UpdateFails, Mismatch, FailsWith, Locks, ClassifyRefresh, Report
<1>27. CASE SessionChanged
  BY <1>27 DEF SessionChanged
<1>28. CASE Logout
  BY <1>28 DEF Logout
<1>29. CASE ForgetSession
  BY <1>29 DEF ForgetSession
<1>30. CASE Expire
  BY <1>30 DEF Expire
<1>31. CASE Revoke
  BY <1>31 DEF Revoke
<1>33. CASE UpdateStopped
  BY <1>33 DEF UpdateStopped, Misses
<1>34. ASSUME NEW p \in Processes, PersistFails(p)
      PROVE  NoneNewer' /\ LockHeld' /\ KindsFit' /\ TokensKnown'
  BY <1>34 DEF PersistFails, Misses
<1>32. CASE UNCHANGED tokensVars
  BY <1>32 DEF tokensVars
<1> QED
  BY <1>1, <1>2, <1>3, <1>4, <1>5, <1>6, <1>7, <1>8, <1>9, <1>10, <1>11, <1>12, <1>13,
     <1>14, <1>15, <1>16, <1>17, <1>18, <1>19, <1>20, <1>21, <1>22, <1>23, <1>24, <1>25,
     <1>26, <1>27, <1>28, <1>29, <1>30, <1>31, <1>32, <1>33, <1>34
     DEF TokensNext, Restoring, Refreshing, Requesting

\* The newest token of an OAuth session stays where the stores have it.
LEMMA SavedKept ==
  ASSUME IInv, [TokensNext]_tokensVars, TokensTypeOK'
  PROVE  LoginAlone' /\ LeavingEnded' /\ Compared' /\ NewestSaved' /\ RefreshOnce'
<1> USE DEF Processes, Free, Down, Holding, Unsaved, At, Becomes, Goes, IInv, TokensTypeOK,
            NoneNewer, LockHeld, KindsFit, TokensKnown, LoginAlone, LeavingEnded, Compared,
            NewestSaved, RefreshOnce
<1>1. ASSUME NEW p \in Processes, Start(p)
      PROVE  LoginAlone' /\ LeavingEnded' /\ Compared' /\ NewestSaved' /\ RefreshOnce'
  BY <1>1 DEF Start
<1>2. ASSUME NEW p \in Processes, ReadStored(p)
      PROVE  LoginAlone' /\ LeavingEnded' /\ Compared' /\ NewestSaved' /\ RefreshOnce'
  BY <1>2 DEF ReadStored
<1>3. ASSUME NEW p \in Processes, RestoreLocks(p)
      PROVE  LoginAlone' /\ LeavingEnded' /\ Compared' /\ NewestSaved' /\ RefreshOnce'
  <2>1. CASE Mismatch(p) /\ stored # 0
    <3>1. /\ process[p].at = "restoring" /\ refreshLock = Free
          /\ process' = [process EXCEPT ![p] = [process[p] EXCEPT !.at = "up",
                 !.token = stored, !.known = stored, !.update = 0]]
          /\ hash' = stored /\ signed' \in {signed, "active"}
          /\ UNCHANGED <<kind, grant, stored, refreshLock, change, missed, starts, misses>>
      BY <1>3, <2>1, RestoreLocksDoes DEF Reload
    <3> QED
      BY <2>1, <3>1 DEF Mismatch
  <2>2. CASE Mismatch(p) /\ stored = 0
    <3>1. /\ process[p].at = "restoring" /\ refreshLock = Free
          /\ process' = [process EXCEPT ![p] = Down]
          /\ UNCHANGED <<kind, grant, stored, hash, refreshLock, signed, change, missed,
                 starts, misses>>
      BY <1>3, <2>2, RestoreLocksDoes DEF Reload
    <3> QED
      BY <2>2, <3>1 DEF Mismatch
  <2>3. CASE ~Mismatch(p)
    <3>1. /\ process[p].at = "restoring" /\ refreshLock = Free
          /\ process' = [process EXCEPT ![p] = [process[p] EXCEPT !.at = "restored"]]
          /\ refreshLock' = p
          /\ UNCHANGED <<kind, grant, stored, hash, signed, change, missed, starts, misses>>
      BY <1>3, <2>3, RestoreLocksDoes DEF Reload
    <3> QED
      BY <2>3, <3>1 DEF Mismatch
  <2> QED
    BY <1>3, <2>1, <2>2, <2>3
<1>4. ASSUME NEW p \in Processes, RestoreSaves(p)
      PROVE  LoginAlone' /\ LeavingEnded' /\ Compared' /\ NewestSaved' /\ RefreshOnce'
  BY <1>4 DEF RestoreSaves, SetActive, Mismatch
<1>5. ASSUME NEW p \in Processes, Rejected(p)
      PROVE  LoginAlone' /\ LeavingEnded' /\ Compared' /\ NewestSaved' /\ RefreshOnce'
  BY <1>5 DEF Rejected
<1>6. ASSUME NEW p \in Processes, RefreshReloads(p)
      PROVE  LoginAlone' /\ LeavingEnded' /\ Compared' /\ NewestSaved' /\ RefreshOnce'
  <2>1. CASE stored # 0
    <3>1. /\ process[p].at = "refresh" /\ refreshLock = Free
          /\ kind = "oauth" /\ Mismatch(p)
          /\ process' = [process EXCEPT ![p] = [process[p] EXCEPT !.at = "up",
                 !.token = stored, !.known = stored, !.update = 0, !.request = 0]]
          /\ hash' = stored
          /\ UNCHANGED <<kind, grant, stored, refreshLock, signed, missed, starts, misses>>
      BY <1>6, <2>1 DEF RefreshReloads, RefreshFails, Locks, Reload
    <3> QED
      BY <2>1, <3>1 DEF Mismatch
  <2>2. CASE stored = 0
    <3>1. /\ process[p].at = "refresh" /\ refreshLock = Free
          /\ kind = "oauth" /\ Mismatch(p)
          /\ process' = [process EXCEPT ![p] = [process[p] EXCEPT !.at = "up",
                 !.request = 0]]
          /\ UNCHANGED <<kind, grant, stored, hash, refreshLock, missed, starts, misses>>
      BY <1>6, <2>2 DEF RefreshReloads, RefreshFails, Locks, Reload
    <3> QED
      BY <2>2, <3>1 DEF Mismatch
  <2> QED
    BY <1>6, <2>1, <2>2
<1>7. ASSUME NEW p \in Processes, RefreshAsks(p)
      PROVE  LoginAlone' /\ LeavingEnded' /\ Compared' /\ NewestSaved' /\ RefreshOnce'
  BY <1>7 DEF RefreshAsks, Mismatch, Locks
<1>8. ASSUME NEW p \in Processes, RefreshAnswered(p)
      PROVE  LoginAlone' /\ LeavingEnded' /\ Compared' /\ NewestSaved' /\ RefreshOnce'
  <2>1. CASE /\ Becomes(p, [process[p] EXCEPT !.at = "answered", !.token = grant.newest + 1])
             /\ UNCHANGED <<refreshLock, signed, change, missed>>
    <3>1. /\ process[p].at = "asking" /\ process[p].token = grant.refresh
          /\ grant'.newest = grant.newest + 1
          /\ grant'.refresh = IF kind = "oauth" THEN grant.newest + 1 ELSE 0
          /\ grant'.reused = grant.reused
          /\ process' = [process EXCEPT ![p] = [process[p] EXCEPT !.at = "answered",
                 !.token = grant.newest + 1]]
          /\ UNCHANGED <<kind, stored, hash, refreshLock, signed, change, missed, starts>>
      BY <1>8, <2>1, RefreshAnsweredDoes DEF Reload
    <3> QED
      BY <2>1, <3>1 DEF Mismatch
  <2>2. CASE /\ missed' = [missed EXCEPT !.rotation = TRUE] /\ refreshLock' = Free
             /\ Becomes(p, [process[p] EXCEPT !.at = "up", !.request = 0])
             /\ signed' = signed /\ change' = change
    <3>1. /\ process[p].at = "asking" /\ process[p].token = grant.refresh
          /\ grant'.newest = grant.newest + 1
          /\ grant'.refresh = IF kind = "oauth" THEN grant.newest + 1 ELSE 0
          /\ grant'.reused = grant.reused
          /\ process' = [process EXCEPT ![p] = [process[p] EXCEPT !.at = "up",
                 !.request = 0]]
          /\ refreshLock' = Free /\ missed' = [missed EXCEPT !.rotation = TRUE]
          /\ UNCHANGED <<kind, stored, hash, signed, change, starts>>
      BY <1>8, <2>2, RefreshAnsweredDoes DEF Reload
    <3> QED
      BY <2>2, <3>1 DEF Mismatch
  <2> QED
    BY <1>8, <2>1, <2>2, RefreshAnsweredDoes
<1>9. ASSUME NEW p \in Processes, RefreshUnanswered(p)
      PROVE  LoginAlone' /\ LeavingEnded' /\ Compared' /\ NewestSaved' /\ RefreshOnce'
  BY <1>9 DEF RefreshUnanswered, Misses, RefreshFails, FailsWith, Tells, ClassifyRefresh,
              Report, Broadcasts
<1>10. ASSUME NEW p \in Processes, RefreshRefused(p)
      PROVE  LoginAlone' /\ LeavingEnded' /\ Compared' /\ NewestSaved' /\ RefreshOnce'
  BY <1>10 DEF RefreshRefused, RefreshFails, FailsWith, Tells, ClassifyRefresh, Report,
               Broadcasts
<1>11. ASSUME NEW p \in Processes, PersistSession(p)
      PROVE  LoginAlone' /\ LeavingEnded' /\ Compared' /\ NewestSaved' /\ RefreshOnce'
  BY <1>11 DEF PersistSession
<1>12. ASSUME NEW p \in Processes, RefreshSaves(p)
      PROVE  LoginAlone' /\ LeavingEnded' /\ Compared' /\ NewestSaved' /\ RefreshOnce'
  BY <1>12 DEF RefreshSaves, Broadcasts
<1>13. ASSUME NEW p \in Processes, Request(p)
      PROVE  LoginAlone' /\ LeavingEnded' /\ Compared' /\ NewestSaved' /\ RefreshOnce'
  BY <1>13 DEF Request
<1>14. ASSUME NEW p \in Processes, Accepted(p)
      PROVE  LoginAlone' /\ LeavingEnded' /\ Compared' /\ NewestSaved' /\ RefreshOnce'
  BY <1>14 DEF Accepted
<1>15. ASSUME NEW p \in Processes, IssuedRejected(p)
      PROVE  LoginAlone' /\ LeavingEnded' /\ Compared' /\ NewestSaved' /\ RefreshOnce'
  <2>1. CASE Mismatch(p) /\ stored # 0
    <3>1. /\ process[p].at \in {"up", "renewed", "stored", "refresh"} /\ refreshLock = Free
          /\ kind = "issued"
          /\ missed'.rejected <=> missed.rejected \/ p = "app"
          /\ missed'.overtaken <=> missed.overtaken \/ (Mismatch(p) /\ ~At(p, "up"))
          /\ missed'.rotation = missed.rotation
                 /\ missed'.announcement = missed.announcement
          /\ process' = [process EXCEPT ![p] = [process[p] EXCEPT !.token = stored,
                 !.known = stored, !.request = 0]]
          /\ hash' = stored /\ change' \in {change, "tokensRefreshed"}
          /\ UNCHANGED <<kind, grant, stored, refreshLock, signed, starts, misses>>
      BY <1>15, <2>1, IssuedRejectedDoes DEF Reload
    <3> QED
      BY <2>1, <3>1 DEF Mismatch
  <2>2. CASE ~(Mismatch(p) /\ stored # 0)
    <3>1. /\ process[p].at \in {"up", "renewed", "stored", "refresh"} /\ refreshLock = Free
          /\ kind = "issued"
          /\ missed'.rejected <=> missed.rejected \/ p = "app"
          /\ missed'.overtaken <=> missed.overtaken \/ (Mismatch(p) /\ ~At(p, "up"))
          /\ missed'.rotation = missed.rotation
                 /\ missed'.announcement = missed.announcement
          /\ process' = [process EXCEPT ![p] = [process[p] EXCEPT !.request = 0]]
          /\ p # "app" => change' = change /\ signed' = signed
          /\ UNCHANGED <<kind, grant, stored, hash, refreshLock, starts, misses>>
      BY <1>15, <2>2, IssuedRejectedDoes DEF Reload
    <3> QED
      BY <2>2, <3>1 DEF Mismatch
  <2> QED
    BY <1>15, <2>1, <2>2
<1>16. ASSUME NEW p \in Processes, Kill(p)
      PROVE  LoginAlone' /\ LeavingEnded' /\ Compared' /\ NewestSaved' /\ RefreshOnce'
  BY <1>16 DEF Kill, Misses
<1>17. CASE NothingStored
  BY <1>17 DEF NothingStored
<1>18. CASE NotificationShown
  BY <1>18 DEF NotificationShown
<1>19. CASE SignInWithToken
  BY <1>19 DEF SignInWithToken, Grants
<1>20. CASE FinishLogin
  BY <1>20 DEF FinishLogin, Grants
<1>21. CASE LoginPersists
  BY <1>21 DEF LoginPersists, SetActive
<1>22. CASE Renewed
  BY <1>22 DEF Renewed, Grants
<1>23. CASE StoreAccessToken
  BY <1>23 DEF StoreAccessToken
<1>24. CASE AnnounceSessionTokens
  BY <1>24 DEF AnnounceSessionTokens
<1>25. CASE UpdateReloads
  BY <1>25 DEF UpdateReloads, Broadcasts, Mismatch, Reload, Locks
<1>26. CASE UpdateFails
  BY <1>26 DEF UpdateFails, Mismatch, FailsWith, Locks, ClassifyRefresh, Report
<1>27. CASE SessionChanged
  BY <1>27 DEF SessionChanged
<1>28. CASE Logout
  BY <1>28 DEF Logout
<1>29. CASE ForgetSession
  BY <1>29 DEF ForgetSession
<1>30. CASE Expire
  BY <1>30 DEF Expire
<1>31. CASE Revoke
  BY <1>31 DEF Revoke
<1>33. CASE UpdateStopped
  BY <1>33 DEF UpdateStopped, Misses
<1>34. ASSUME NEW p \in Processes, PersistFails(p)
      PROVE  LoginAlone' /\ LeavingEnded' /\ Compared' /\ NewestSaved' /\ RefreshOnce'
  BY <1>34 DEF PersistFails, Misses
<1>32. CASE UNCHANGED tokensVars
  BY <1>32 DEF tokensVars
<1> QED
  BY <1>1, <1>2, <1>3, <1>4, <1>5, <1>6, <1>7, <1>8, <1>9, <1>10, <1>11, <1>12, <1>13,
     <1>14, <1>15, <1>16, <1>17, <1>18, <1>19, <1>20, <1>21, <1>22, <1>23, <1>24, <1>25,
     <1>26, <1>27, <1>28, <1>29, <1>30, <1>31, <1>32, <1>33, <1>34
     DEF TokensNext, Restoring, Refreshing, Requesting

\* A renewal stays on its way, and no session ends without a refusal.
LEMMA IssuedKept ==
  ASSUME IInv, [TokensNext]_tokensVars, TokensTypeOK'
  PROVE  UpdateStored' /\ RefusalFirst' /\ EndedOnlyIfRejected'
<1> USE DEF Processes, Free, Down, Holding, Unsaved, At, Becomes, Goes, IInv, TokensTypeOK,
            NoneNewer, LockHeld, KindsFit, TokensKnown, LoginAlone, UpdateStored,
            RefusalFirst, EndedOnlyIfRejected
<1>1. ASSUME NEW p \in Processes, Start(p)
      PROVE  UpdateStored' /\ RefusalFirst' /\ EndedOnlyIfRejected'
  BY <1>1 DEF Start
<1>2. ASSUME NEW p \in Processes, ReadStored(p)
      PROVE  UpdateStored' /\ RefusalFirst' /\ EndedOnlyIfRejected'
  BY <1>2 DEF ReadStored
<1>3. ASSUME NEW p \in Processes, RestoreLocks(p)
      PROVE  UpdateStored' /\ RefusalFirst' /\ EndedOnlyIfRejected'
  <2>1. CASE Mismatch(p) /\ stored # 0
    <3>1. /\ process[p].at = "restoring" /\ refreshLock = Free
          /\ process' = [process EXCEPT ![p] = [process[p] EXCEPT !.at = "up",
                 !.token = stored, !.known = stored, !.update = 0]]
          /\ hash' = stored /\ signed' \in {signed, "active"}
          /\ UNCHANGED <<kind, grant, stored, refreshLock, change, missed, starts, misses>>
      BY <1>3, <2>1, RestoreLocksDoes DEF Reload
    <3> QED
      BY <2>1, <3>1 DEF Mismatch
  <2>2. CASE Mismatch(p) /\ stored = 0
    <3>1. /\ process[p].at = "restoring" /\ refreshLock = Free
          /\ process' = [process EXCEPT ![p] = Down]
          /\ UNCHANGED <<kind, grant, stored, hash, refreshLock, signed, change, missed,
                 starts, misses>>
      BY <1>3, <2>2, RestoreLocksDoes DEF Reload
    <3> QED
      BY <2>2, <3>1 DEF Mismatch
  <2>3. CASE ~Mismatch(p)
    <3>1. /\ process[p].at = "restoring" /\ refreshLock = Free
          /\ process' = [process EXCEPT ![p] = [process[p] EXCEPT !.at = "restored"]]
          /\ refreshLock' = p
          /\ UNCHANGED <<kind, grant, stored, hash, signed, change, missed, starts, misses>>
      BY <1>3, <2>3, RestoreLocksDoes DEF Reload
    <3> QED
      BY <2>3, <3>1 DEF Mismatch
  <2> QED
    BY <1>3, <2>1, <2>2, <2>3
<1>4. ASSUME NEW p \in Processes, RestoreSaves(p)
      PROVE  UpdateStored' /\ RefusalFirst' /\ EndedOnlyIfRejected'
  BY <1>4 DEF RestoreSaves, SetActive, Mismatch
<1>5. ASSUME NEW p \in Processes, Rejected(p)
      PROVE  UpdateStored' /\ RefusalFirst' /\ EndedOnlyIfRejected'
  BY <1>5 DEF Rejected
<1>6. ASSUME NEW p \in Processes, RefreshReloads(p)
      PROVE  UpdateStored' /\ RefusalFirst' /\ EndedOnlyIfRejected'
  BY <1>6 DEF RefreshReloads, Broadcasts, Mismatch, Reload, Locks, RefreshFails, FailsWith,
              Tells, ClassifyRefresh, Report
<1>7. ASSUME NEW p \in Processes, RefreshAsks(p)
      PROVE  UpdateStored' /\ RefusalFirst' /\ EndedOnlyIfRejected'
  BY <1>7 DEF RefreshAsks, Mismatch, Locks
<1>8. ASSUME NEW p \in Processes, RefreshAnswered(p)
      PROVE  UpdateStored' /\ RefusalFirst' /\ EndedOnlyIfRejected'
  BY <1>8 DEF RefreshAnswered, Misses, Grants, RefreshFails, FailsWith, Tells,
              ClassifyRefresh, Report, Broadcasts
<1>9. ASSUME NEW p \in Processes, RefreshUnanswered(p)
      PROVE  UpdateStored' /\ RefusalFirst' /\ EndedOnlyIfRejected'
  BY <1>9 DEF RefreshUnanswered, Misses, RefreshFails, FailsWith, Tells, ClassifyRefresh,
              Report, Broadcasts
<1>10. ASSUME NEW p \in Processes, RefreshRefused(p)
      PROVE  UpdateStored' /\ RefusalFirst' /\ EndedOnlyIfRejected'
  BY <1>10 DEF RefreshRefused, RefreshFails, FailsWith, Tells, ClassifyRefresh, Report,
               Broadcasts
<1>11. ASSUME NEW p \in Processes, PersistSession(p)
      PROVE  UpdateStored' /\ RefusalFirst' /\ EndedOnlyIfRejected'
  BY <1>11 DEF PersistSession
<1>12. ASSUME NEW p \in Processes, RefreshSaves(p)
      PROVE  UpdateStored' /\ RefusalFirst' /\ EndedOnlyIfRejected'
  BY <1>12 DEF RefreshSaves, Broadcasts
<1>13. ASSUME NEW p \in Processes, Request(p)
      PROVE  UpdateStored' /\ RefusalFirst' /\ EndedOnlyIfRejected'
  BY <1>13 DEF Request
<1>14. ASSUME NEW p \in Processes, Accepted(p)
      PROVE  UpdateStored' /\ RefusalFirst' /\ EndedOnlyIfRejected'
  BY <1>14 DEF Accepted
<1>15. ASSUME NEW p \in Processes, IssuedRejected(p)
      PROVE  UpdateStored' /\ RefusalFirst' /\ EndedOnlyIfRejected'
  <2>1. CASE Mismatch(p) /\ stored # 0
    <3>1. /\ process[p].at \in {"up", "renewed", "stored", "refresh"} /\ refreshLock = Free
          /\ kind = "issued"
          /\ missed'.rejected <=> missed.rejected \/ p = "app"
          /\ missed'.overtaken <=> missed.overtaken \/ (Mismatch(p) /\ ~At(p, "up"))
          /\ missed'.rotation = missed.rotation
                 /\ missed'.announcement = missed.announcement
          /\ process' = [process EXCEPT ![p] = [process[p] EXCEPT !.token = stored,
                 !.known = stored, !.request = 0]]
          /\ hash' = stored /\ change' \in {change, "tokensRefreshed"}
          /\ UNCHANGED <<kind, grant, stored, refreshLock, signed, starts, misses>>
      BY <1>15, <2>1, IssuedRejectedDoes DEF Reload
    <3> QED
      BY <2>1, <3>1 DEF Mismatch
  <2>2. CASE ~(Mismatch(p) /\ stored # 0)
    <3>1. /\ process[p].at \in {"up", "renewed", "stored", "refresh"} /\ refreshLock = Free
          /\ kind = "issued"
          /\ missed'.rejected <=> missed.rejected \/ p = "app"
          /\ missed'.overtaken <=> missed.overtaken \/ (Mismatch(p) /\ ~At(p, "up"))
          /\ missed'.rotation = missed.rotation
                 /\ missed'.announcement = missed.announcement
          /\ process' = [process EXCEPT ![p] = [process[p] EXCEPT !.request = 0]]
          /\ p # "app" => change' = change /\ signed' = signed
          /\ UNCHANGED <<kind, grant, stored, hash, refreshLock, starts, misses>>
      BY <1>15, <2>2, IssuedRejectedDoes DEF Reload
    <3> QED
      BY <2>2, <3>1 DEF Mismatch
  <2> QED
    BY <1>15, <2>1, <2>2
<1>16. ASSUME NEW p \in Processes, Kill(p)
      PROVE  UpdateStored' /\ RefusalFirst' /\ EndedOnlyIfRejected'
  BY <1>16 DEF Kill, Misses
<1>17. CASE NothingStored
  BY <1>17 DEF NothingStored
<1>18. CASE NotificationShown
  BY <1>18 DEF NotificationShown
<1>19. CASE SignInWithToken
  BY <1>19 DEF SignInWithToken, Grants
<1>20. CASE FinishLogin
  BY <1>20 DEF FinishLogin, Grants
<1>21. CASE LoginPersists
  BY <1>21 DEF LoginPersists, SetActive
<1>22. CASE Renewed
  BY <1>22 DEF Renewed, Grants
<1>23. CASE StoreAccessToken
  BY <1>23 DEF StoreAccessToken
<1>24. CASE AnnounceSessionTokens
  BY <1>24 DEF AnnounceSessionTokens
<1>25. CASE UpdateReloads
  BY <1>25 DEF UpdateReloads, Broadcasts, Mismatch, Reload, Locks
<1>26. CASE UpdateFails
  BY <1>26 DEF UpdateFails, Mismatch, FailsWith, Locks, ClassifyRefresh, Report
<1>27. CASE SessionChanged
  BY <1>27 DEF SessionChanged
<1>28. CASE Logout
  BY <1>28 DEF Logout
<1>29. CASE ForgetSession
  BY <1>29 DEF ForgetSession
<1>30. CASE Expire
  BY <1>30 DEF Expire
<1>31. CASE Revoke
  BY <1>31 DEF Revoke
<1>33. CASE UpdateStopped
  BY <1>33 DEF UpdateStopped, Misses
<1>34. ASSUME NEW p \in Processes, PersistFails(p)
      PROVE  UpdateStored' /\ RefusalFirst' /\ EndedOnlyIfRejected'
  BY <1>34 DEF PersistFails, Misses
<1>32. CASE UNCHANGED tokensVars
  BY <1>32 DEF tokensVars
<1> QED
  BY <1>1, <1>2, <1>3, <1>4, <1>5, <1>6, <1>7, <1>8, <1>9, <1>10, <1>11, <1>12, <1>13,
     <1>14, <1>15, <1>16, <1>17, <1>18, <1>19, <1>20, <1>21, <1>22, <1>23, <1>24, <1>25,
     <1>26, <1>27, <1>28, <1>29, <1>30, <1>31, <1>32, <1>33, <1>34
     DEF TokensNext, Restoring, Refreshing, Requesting

\* Where an update ends in "up", the new token has been taken over, a store failed,
\* or one of the other writers was first.
LEMMA UpdateEnds ==
  ASSUME IInv, TokensTypeOK', TokensNext,
         process["app"].update # 0, process'["app"].update = 0, process'["app"].at = "up"
  PROVE  \/ process'["app"].token = process["app"].update /\ signed' = "active"
         \/ misses' > misses \/ missed'.announcement \/ missed'.overtaken
<1> USE DEF IInv, TokensTypeOK, Processes, Down, Becomes, Goes, At
<1>1. /\ process["app"].at \in {"renewed", "stored", "refresh"} /\ kind = "issued"
      /\ process["app"].at \in {"stored", "refresh"} => stored = process["app"].update
      /\ process["app"].known # process["app"].update \/ missed.overtaken
  BY DEF KindsFit, UpdateStored
<1>2. UpdateReloads \/ UpdateFails \/ UpdateStopped
  <2>1. ASSUME NEW p \in Processes, Start(p) PROVE FALSE
    BY <1>1, <2>1 DEF Start
  <2>2. ASSUME NEW p \in Processes, ReadStored(p) PROVE FALSE
    BY <1>1, <2>2 DEF ReadStored
  <2>3. ASSUME NEW p \in Processes, RestoreLocks(p) PROVE FALSE
    BY <1>1, <2>3, RestoreLocksDoes DEF Reload
  <2>4. ASSUME NEW p \in Processes, RestoreSaves(p) PROVE FALSE
    BY <1>1, <2>4 DEF RestoreSaves
  <2>5. ASSUME NEW p \in Processes, Rejected(p) PROVE FALSE
    BY <1>1, <2>5 DEF Rejected
  <2>6. ASSUME NEW p \in Processes, RefreshReloads(p) PROVE FALSE
    BY <1>1, <2>6 DEF RefreshReloads, Reload, Locks, RefreshFails
  <2>7. ASSUME NEW p \in Processes, RefreshAsks(p) PROVE FALSE
    BY <1>1, <2>7 DEF RefreshAsks, Locks
  <2>8. ASSUME NEW p \in Processes, RefreshAnswered(p) PROVE FALSE
    BY <1>1, <2>8, RefreshAnsweredDoes DEF RefreshFails
  <2>9. ASSUME NEW p \in Processes, RefreshUnanswered(p) PROVE FALSE
    BY <1>1, <2>9 DEF RefreshUnanswered, RefreshFails
  <2>10. ASSUME NEW p \in Processes, RefreshRefused(p) PROVE FALSE
    BY <1>1, <2>10 DEF RefreshRefused, RefreshFails
  <2>11. ASSUME NEW p \in Processes, PersistSession(p) PROVE FALSE
    BY <1>1, <2>11 DEF PersistSession
  <2>12. ASSUME NEW p \in Processes, RefreshSaves(p) PROVE FALSE
    BY <1>1, <2>12 DEF RefreshSaves
  <2>13. ASSUME NEW p \in Processes, Request(p) PROVE FALSE
    BY <1>1, <2>13 DEF Request
  <2>14. ASSUME NEW p \in Processes, Accepted(p) PROVE FALSE
    BY <1>1, <2>14 DEF Accepted
  <2>15. ASSUME NEW p \in Processes, IssuedRejected(p) PROVE FALSE
    <3>1. PICK r \in {[process[p] EXCEPT !.token = stored, !.known = stored, !.request = 0],
                      [process[p] EXCEPT !.request = 0]} :
            process' = [process EXCEPT ![p] = r]
      BY <2>15, IssuedRejectedDoes
    <3>2. r.update = process[p].update
      BY <3>1, Typed DEF ProcessRecord
    <3> QED
      BY <3>1, <3>2
  <2>16. ASSUME NEW p \in Processes, Kill(p) PROVE FALSE
    BY <1>1, <2>16 DEF Kill
  <2>17. ASSUME NothingStored PROVE FALSE
    BY <1>1, <2>17 DEF NothingStored
  <2>18. ASSUME NotificationShown PROVE FALSE
    BY <1>1, <2>18 DEF NotificationShown
  <2>19. ASSUME SignInWithToken PROVE FALSE
    BY <1>1, <2>19 DEF SignInWithToken
  <2>20. ASSUME FinishLogin PROVE FALSE
    BY <1>1, <2>20 DEF FinishLogin
  <2>21. ASSUME LoginPersists PROVE FALSE
    BY <1>1, <2>21 DEF LoginPersists
  <2>22. ASSUME Renewed PROVE FALSE
    BY <1>1, <2>22 DEF Renewed
  <2>23. ASSUME StoreAccessToken PROVE FALSE
    BY <1>1, <2>23 DEF StoreAccessToken
  <2>24. ASSUME AnnounceSessionTokens PROVE FALSE
    BY <1>1, <2>24 DEF AnnounceSessionTokens
  <2>25. ASSUME SessionChanged PROVE FALSE
    BY <1>1, <2>25 DEF SessionChanged
  <2>26. ASSUME Logout PROVE FALSE
    BY <1>1, <2>26 DEF Logout
  <2>27. ASSUME ForgetSession PROVE FALSE
    BY <1>1, <2>27 DEF ForgetSession
  <2>28. ASSUME Expire PROVE FALSE
    BY <1>1, <2>28 DEF Expire
  <2>29. ASSUME Revoke PROVE FALSE
    BY <1>1, <2>29 DEF Revoke
  <2>30. ASSUME NEW p \in Processes, PersistFails(p) PROVE FALSE
    BY <1>1, <2>30 DEF PersistFails
  <2> QED
    BY <2>1, <2>2, <2>3, <2>4, <2>5, <2>6, <2>7, <2>8, <2>9, <2>10, <2>11, <2>12, <2>13,
       <2>14, <2>15, <2>16, <2>17, <2>18, <2>19, <2>20, <2>21, <2>22, <2>23, <2>24, <2>25,
       <2>26, <2>27, <2>28, <2>29, <2>30
       DEF TokensNext, Restoring, Refreshing, Requesting
<1>3. CASE UpdateReloads
  <2>1. process'["app"].token = stored
    BY <1>3 DEF UpdateReloads, Reload
  <2>2. stored = process["app"].update
    BY <1>1, <1>3 DEF UpdateReloads, Locks
  <2> QED
    BY <1>3, <2>1, <2>2 DEF UpdateReloads
<1>4. CASE UpdateFails
  <2>1. hash \in {0, process["app"].known} /\ process["app"].at = "refresh"
            /\ UNCHANGED missed
    BY <1>4 DEF UpdateFails, Locks, Mismatch
  <2>2. hash = process["app"].update \/ missed.overtaken \/ missed.announcement
    BY <1>1, <2>1 DEF UpdateStored
  <2> QED
    BY <1>1, <2>1, <2>2
<1>5. CASE UpdateStopped
  BY <1>5 DEF UpdateStopped, Misses
<1> QED
  BY <1>2, <1>3, <1>4, <1>5

-----------------------------------------------------------------------------
(* The theorems.                                                                *)

\* The invariant holds at first, and every step keeps it.
LEMMA InitIInv == TokensInit => IInv
BY DEF TokensInit, IInv, TokensTypeOK, ProcessRecord, Places, Down, Processes, Free,
   NoneNewer,
       LockHeld, Holding, KindsFit, TokensKnown, LoginAlone, LeavingEnded, Compared,
           NewestSaved,
       Unsaved, UpdateStored, RefusalFirst, RefreshOnce, EndedOnlyIfRejected

LEMMA NextIInv == IInv /\ [TokensNext]_tokensVars => IInv'
<1> SUFFICES ASSUME IInv, [TokensNext]_tokensVars PROVE IInv'
  OBVIOUS
<1>1. TokensTypeOK'
  BY TypesKept DEF IInv
<1> QED
  BY <1>1, WhereKept, SavedKept, IssuedKept DEF IInv

LEMMA Inductive == TokensSpec => []IInv
BY InitIInv, NextIInv, PTL DEF TokensSpec

\* In every state every variable has its type.
THEOREM TokensTyped == TokensSpec => []TokensTypeOK
<1>1. IInv => TokensTypeOK
  BY DEF IInv
<1> QED
  BY <1>1, Inductive, PTL

\* However the app and the extension refresh, restore, die and come back, none
\* presents a refresh token again, unless an answer, a process or a failing store
\* lost the token that replaces it.
THEOREM RefreshedOnce == TokensSpec => []RefreshOnce
<1>1. IInv => RefreshOnce
  BY DEF IInv
<1> QED
  BY <1>1, Inductive, PTL

\* The app shows an ended session only after the server has refused what the
\* session rests on, unless the extension wrote the old hash.
THEOREM OnlyRefusalsEnd == TokensSpec => []EndedOnlyIfRejected
<1>1. IInv => EndedOnlyIfRejected
  BY DEF IInv
<1> QED
  BY <1>1, Inductive, PTL

\* Every update_access_token that ends in a running client ends with the renewed
\* token in use and an active session, unless a store failed in the step that
\* ends it or another writer was first.
THEOREM TakenOver == TokensSpec => UpdateTakesOver
<1>1. IInv /\ IInv' /\ [TokensNext]_tokensVars =>
        [process["app"].update # 0 /\ process'["app"].update = 0
            /\ process'["app"].at = "up" =>
            \/ process'["app"].token = process["app"].update /\ signed' = "active"
            \/ misses' > misses
            \/ missed'.announcement \/ missed'.overtaken]_tokensVars
  <2>1. IInv' => TokensTypeOK'
    BY DEF IInv
  <2> QED
    BY <2>1, UpdateEnds
<1> QED
  BY <1>1, Inductive, PTL DEF TokensSpec, UpdateTakesOver

-----------------------------------------------------------------------------
(* DiffList: what a batch does, and what several do.                           *)

\* A set of numbers that has any has a least one: stands in for induction, which
\* takes an operator as a parameter.
LEMMA LeastNumber ==
  ASSUME NEW S \in SUBSET Nat, S # {}
  PROVE  \E n \in S : \A m \in S : n <= m
<1> DEFINE R == {ss \in Nat \X Nat : ss[1] < ss[2]}
<1>1. R = OpToRel(<, Nat)
  BY DEF OpToRel
<1>2. IsWellFoundedOn(R, Nat)
  BY <1>1, NatLessThanWellFounded
<1> HIDE DEF R
<1>3. \E n \in S : \A m \in S : ~(<<m, n>> \in R)
  BY <1>2, WFMin
<1>4. \A m, n \in Nat : <<m, n>> \notin R => n <= m
  BY DEF R
<1> QED BY <1>3, <1>4

-----------------------------------------------------------------------------
\* A batch of one diff does what the diff does; a batch of two, one after the other.
LEMMA ApplyOne ==
  ASSUME NEW shown, NEW d
  PROVE  ApplyDiffs(shown, <<d>>) = ApplyDiff(shown, d)
<1> DEFINE Fits(f) == f = [n \in 0 .. Len(<<d>>) |->
                             IF n = 0 THEN shown ELSE ApplyDiff(f[n - 1], <<d>>[n])]
           w == [n \in 0 .. 1 |-> IF n = 0 THEN shown ELSE ApplyDiff(shown, d)]
           f == CHOOSE g : Fits(g)
<1>1. w = [n \in 0 .. Len(<<d>>) |-> IF n = 0 THEN shown ELSE ApplyDiff(w[n - 1], <<d>>[n])]
  <2>1. w[0] = shown /\ 0 .. 1 = {0, 1} /\ Len(<<d>>) = 1 /\ <<d>>[1] = d
    OBVIOUS
  <2> HIDE DEF w
  <2>2. w = [n \in {0, 1} |-> IF n = 0 THEN shown ELSE ApplyDiff(shown, d)]
    BY <2>1 DEF w
  <2>3. \A n \in {0, 1} : n # 0 => w[n - 1] = shown /\ <<d>>[n] = d
    BY <2>1
  <2> QED BY <2>1, <2>2, <2>3
<1>2. Fits(f)
  <2>1. Fits(w)
    BY <1>1
  <2> HIDE DEF w
  <2> QED BY <2>1
<1>3. ApplyDiffs(shown, <<d>>) = f[Len(<<d>>)]
  BY DEF ApplyDiffs
<1> HIDE DEF f
<1>4. f[0] = shown /\ f[1] = ApplyDiff(f[0], d) /\ Len(<<d>>) = 1
  BY <1>2
<1> QED BY <1>3, <1>4

LEMMA ApplyTwo ==
  ASSUME NEW shown, NEW d, NEW e
  PROVE  ApplyDiffs(shown, <<d, e>>) = ApplyDiff(ApplyDiff(shown, d), e)
<1> DEFINE b == <<d, e>>
           Fits(f) == f = [n \in 0 .. Len(b) |->
                             IF n = 0 THEN shown ELSE ApplyDiff(f[n - 1], b[n])]
           w == [n \in {0, 1, 2} |-> IF n = 0 THEN shown ELSE IF n = 1 THEN ApplyDiff(shown, d)
                           ELSE ApplyDiff(ApplyDiff(shown, d), e)]
           f == CHOOSE g : Fits(g)
<1>0. 0 .. Len(b) = {0, 1, 2} /\ Len(b) = 2 /\ b[1] = d /\ b[2] = e
  OBVIOUS
<1>1. Fits(w)
  <2>1. w[0] = shown /\ w[1] = ApplyDiff(w[0], d) /\ w[2] = ApplyDiff(w[1], e)
    OBVIOUS
  <2>2. w = [n \in {0, 1, 2} |-> w[n]]
    OBVIOUS
  <2> HIDE DEF w, b
  <2>3. \A n \in {0, 1, 2} : w[n] = IF n = 0 THEN shown ELSE ApplyDiff(w[n - 1], b[n])
    BY <2>1, <1>0
  <2> QED BY <2>2, <2>3, <1>0
<1>2. Fits(f)
  <2> HIDE DEF w
  <2> QED BY <1>1
<1>3. ApplyDiffs(shown, <<d, e>>) = f[Len(b)]
  BY DEF ApplyDiffs
<1> HIDE DEF f, b
<1>4. f[0] = shown /\ f[1] = ApplyDiff(f[0], d) /\ f[2] = ApplyDiff(f[1], e)
  BY <1>2, <1>0
<1> QED BY <1>3, <1>4, <1>0

-----------------------------------------------------------------------------
Shows(f, n, shown, batches) ==
    f = [m \in 0 .. n |-> IF m = 0 THEN shown ELSE ApplyDiffs(f[m - 1], batches[m])]

\* The lists shown after each batch: what Arrived defines exists.
LEMMA ShowsExists ==
  ASSUME NEW shown, NEW batches, NEW n \in Nat
  PROVE  \E f : Shows(f, n, shown, batches)
<1> DEFINE S == {m \in Nat : ~\E f : Shows(f, m, shown, batches)}
<1>1. SUFFICES ASSUME S # {} PROVE FALSE
  OBVIOUS
<1>2. PICK m \in S : \A k \in S : m <= k
  <2>1. S \in SUBSET Nat
    OBVIOUS
  <2> HIDE DEF S
  <2> QED BY <1>1, <2>1, LeastNumber
<1>3. m # 0
  <2>1. Shows([k \in 0 .. 0 |-> shown], 0, shown, batches)
    BY DEF Shows
  <2> QED BY <2>1, <1>2
<1>4. m \in Nat /\ m - 1 \in Nat /\ m - 1 \notin S
  BY <1>2, <1>3
<1>5. PICK f : Shows(f, m - 1, shown, batches)
  BY <1>4
<1> DEFINE g == [k \in 0 .. m |-> IF k = m THEN ApplyDiffs(f[m - 1], batches[m]) ELSE f[k]]
<1>6. \A k \in 0 .. m : g[k] = IF k = 0 THEN shown ELSE ApplyDiffs(g[k - 1], batches[k])
  <2> SUFFICES ASSUME NEW k \in 0 .. m
               PROVE  g[k] = IF k = 0 THEN shown ELSE ApplyDiffs(g[k - 1], batches[k])
    OBVIOUS
  <2>1. CASE k = m
    BY <2>1, <1>3, <1>4
  <2>2. CASE k # m
    <3>1. k \in 0 .. m - 1 /\ (k # 0 => k - 1 \in 0 .. m - 1)
      BY <2>2, <1>4
    <3>2. f[k] = IF k = 0 THEN shown ELSE ApplyDiffs(f[k - 1], batches[k])
      BY <1>5, <3>1 DEF Shows
    <3>3. g[k] = f[k] /\ (k # 0 => g[k - 1] = f[k - 1])
      BY <2>2, <3>1, <1>4
    <3> QED BY <3>2, <3>3
  <2> QED BY <2>1, <2>2
<1>7. Shows(g, m, shown, batches)
  <2>1. g = [k \in 0 .. m |-> g[k]]
    OBVIOUS
  <2> HIDE DEF g
  <2> QED BY <2>1, <1>6 DEF Shows
<1> QED BY <1>7, <1>2

LEMMA ArrivedShows ==
  ASSUME NEW shown, NEW batches, Len(batches) \in Nat
  PROVE  \E f : Shows(f, Len(batches), shown, batches) /\ Arrived(shown, batches) = f[Len(batches)]
<1> DEFINE f == CHOOSE f : Shows(f, Len(batches), shown, batches)
<1>1. Shows(f, Len(batches), shown, batches)
  BY ShowsExists
<1>2. Arrived(shown, batches) = f[Len(batches)]
  BY DEF Arrived, Shows
<1> QED BY <1>1, <1>2

LEMMA ShowsStep ==
  ASSUME NEW shown, NEW batches, NEW n \in Nat, NEW f, Shows(f, n, shown, batches)
  PROVE  /\ f[0] = shown
         /\ \A m \in 1 .. n : f[m] = ApplyDiffs(f[m - 1], batches[m])
<1>1. f[0] = shown
  BY DEF Shows
<1>2. \A m \in 1 .. n : f[m] = ApplyDiffs(f[m - 1], batches[m])
  BY DEF Shows
<1> QED BY <1>1, <1>2

\* What is shown after n batches depends on these batches only.
LEMMA ShowsPrefix ==
  ASSUME NEW l1, NEW s1, NEW n1 \in Nat, NEW f, Shows(f, n1, l1, s1),
         NEW l2, NEW s2, NEW n \in Nat, NEW g, Shows(g, n, l2, s2),
         n <= n1, g[0] = f[0], \A m \in 1 .. n : s2[m] = s1[m]
  PROVE  g[n] = f[n]
<1> DEFINE S == {m \in 0 .. n : g[m] # f[m]}
<1>1. SUFFICES ASSUME S # {} PROVE FALSE
  BY DEF S
<1>2. PICK m \in S : \A k \in S : m <= k
  <2>1. S \in SUBSET Nat
    OBVIOUS
  <2> HIDE DEF S
  <2> QED BY <1>1, <2>1, LeastNumber
<1>3. m \in 1 .. n /\ m - 1 \in 0 .. n /\ m - 1 \notin S
  BY <1>2
<1>4. g[m - 1] = f[m - 1]
  BY <1>3
<1>5. g[m] = ApplyDiffs(g[m - 1], s2[m])
  BY <1>3, ShowsStep
<1>6. f[m] = ApplyDiffs(f[m - 1], s1[m])
  <2>1. m \in 1 .. n1
    BY <1>3
  <2> QED BY <2>1, ShowsStep
<1> QED BY <1>2, <1>3, <1>4, <1>5, <1>6

\* To start one batch later is to be one batch further.
LEMMA ShowsLater ==
  ASSUME NEW l1, NEW s1, NEW n1 \in Nat, NEW f, Shows(f, n1, l1, s1),
         NEW l2, NEW s2, NEW n \in Nat, NEW g, Shows(g, n, l2, s2),
         n + 1 = n1, g[0] = f[1], \A m \in 1 .. n : s2[m] = s1[m + 1]
  PROVE  g[n] = f[n + 1]
<1> DEFINE S == {m \in 0 .. n : g[m] # f[m + 1]}
<1>1. SUFFICES ASSUME S # {} PROVE FALSE
  BY DEF S
<1>2. PICK m \in S : \A k \in S : m <= k
  <2>1. S \in SUBSET Nat
    OBVIOUS
  <2> HIDE DEF S
  <2> QED BY <1>1, <2>1, LeastNumber
<1>3. m \in 1 .. n /\ m - 1 \in 0 .. n /\ m - 1 \notin S
  BY <1>2
<1>4. g[m - 1] = f[m]
  BY <1>3
<1>5. g[m] = ApplyDiffs(g[m - 1], s2[m])
  BY <1>3, ShowsStep
<1>6. f[m + 1] = ApplyDiffs(f[m], s1[m + 1])
  <2>1. m + 1 \in 1 .. n1 /\ (m + 1) - 1 = m
    BY <1>3
  <2>2. \A j \in 1 .. n1 : f[j] = ApplyDiffs(f[j - 1], s1[j])
    BY ShowsStep
  <2>3. f[m + 1] = ApplyDiffs(f[(m + 1) - 1], s1[m + 1])
    BY <2>1, <2>2, Zenon
  <2> QED BY <2>1, <2>3
<1> QED BY <1>2, <1>3, <1>4, <1>5, <1>6

\* With nothing under way, what is shown is what will be.
LEMMA ArrivedNone ==
  ASSUME NEW shown
  PROVE  Arrived(shown, <<>>) = shown
<1>1. PICK f : Shows(f, Len(<<>>), shown, <<>>) /\ Arrived(shown, <<>>) = f[Len(<<>>)]
  BY ArrivedShows
<1> QED BY <1>1, ShowsStep

\* One more batch under way is applied last.
LEMMA ArrivedAppend ==
  ASSUME NEW shown, NEW B, NEW batches \in Seq(B), NEW b \in B
  PROVE  Arrived(shown, Append(batches, b)) = ApplyDiffs(Arrived(shown, batches), b)
<1> DEFINE n == Len(batches)
           next == Append(batches, b)
<1>1. n \in Nat /\ Len(next) = n + 1 /\ next[n + 1] = b /\ \A m \in 1 .. n : next[m] = batches[m]
  OBVIOUS
<1> HIDE DEF n, next
<1>2. PICK f : Shows(f, n, shown, batches) /\ Arrived(shown, batches) = f[n]
  BY <1>1, ArrivedShows DEF n
<1>3. PICK g : Shows(g, n + 1, shown, next) /\ Arrived(shown, next) = g[n + 1]
  BY <1>1, ArrivedShows
<1>4. g[n + 1] = ApplyDiffs(g[n], b)
  <2>1. n + 1 \in Nat /\ n + 1 \in 1 .. n + 1 /\ (n + 1) - 1 = n
    BY <1>1
  <2> QED BY <2>1, <1>1, <1>3, ShowsStep
<1>5. f[n] = g[n]
  <2>1. f[0] = g[0]
    BY <1>1, <1>2, <1>3, ShowsStep
  <2>2. \A m \in 1 .. n : batches[m] = next[m]
    BY <1>1
  <2>3. n + 1 \in Nat /\ n <= n + 1
    BY <1>1
  <2> QED BY <1>1, <1>2, <1>3, <2>1, <2>2, <2>3, ShowsPrefix
<1> QED BY <1>2, <1>3, <1>4, <1>5 DEF next

\* The first batch under way is applied first.
LEMMA ArrivedHead ==
  ASSUME NEW shown, NEW B, NEW batches \in Seq(B), batches # <<>>
  PROVE  Arrived(ApplyDiffs(shown, Head(batches)), Tail(batches)) = Arrived(shown, batches)
<1> DEFINE n == Len(batches) - 1
           rest == Tail(batches)
<1>1. n \in Nat /\ n + 1 \in Nat /\ Len(batches) = n + 1 /\ Len(rest) = n /\ batches[1] = Head(batches)
      /\ \A m \in 1 .. n : rest[m] = batches[m + 1]
  OBVIOUS
<1> HIDE DEF n, rest
<1>2. PICK f : Shows(f, n + 1, shown, batches) /\ Arrived(shown, batches) = f[n + 1]
  BY <1>1, ArrivedShows
<1>3. PICK g : /\ Shows(g, n, ApplyDiffs(shown, Head(batches)), rest)
               /\ Arrived(ApplyDiffs(shown, Head(batches)), rest) = g[n]
  BY <1>1, ArrivedShows
<1>4. g[0] = f[1]
  <2>1. f[1] = ApplyDiffs(f[1 - 1], batches[1]) /\ f[0] = shown
    <3>1. 1 \in 1 .. n + 1
      BY <1>1
    <3> QED BY <3>1, <1>1, <1>2, ShowsStep
  <2>2. f[1] = ApplyDiffs(shown, batches[1])
    BY <2>1
  <2>3. g[0] = ApplyDiffs(shown, Head(batches))
    BY <1>1, <1>3, ShowsStep
  <2> QED BY <1>1, <2>2, <2>3
<1>5. g[n] = f[n + 1]
  BY <1>1, <1>2, <1>3, <1>4, ShowsLater
<1> QED BY <1>1, <1>2, <1>3, <1>5 DEF rest

-----------------------------------------------------------------------------
(* ChatTimeline: the lists, and the items the stream makes of the SDK's.        *)

Echo == {"none", "notSentYet", "sendingFailed", "sent", "remote"}
Items == [id : Int, echo : Echo]
Shown == [id : Int, key : {"local", "remote"}, state : {"sending", "failed", "sent"}]

\* Element by element, what an insertion and a removal give.
LEMMA InsertAtIs ==
  ASSUME NEW X, NEW s \in Seq(X), NEW i \in 1 .. Len(s) + 1, NEW x \in X
  PROVE  /\ InsertAt(s, i, x) \in Seq(X)
         /\ InsertAt(s, i, x) = [k \in 1 .. Len(s) + 1 |->
                IF k < i THEN s[k] ELSE IF k = i THEN x ELSE s[k - 1]]
<1> DEFINE a == SubSeq(s, 1, i - 1)
           b == SubSeq(s, i, Len(s))
           c == a \o <<x>>
<1>1. a \in Seq(X) /\ Len(a) = i - 1 /\ \A k \in 1 .. i - 1 : a[k] = s[k]
  OBVIOUS
<1>2. /\ b \in Seq(X) /\ Len(b) = Len(s) + 1 - i
      /\ \A k \in 1 .. Len(s) + 1 - i : b[k] = s[k + i - 1]
  OBVIOUS
<1> HIDE DEF a, b
<1>3. /\ c \in Seq(X) /\ Len(c) = i /\ c[i] = x
      /\ \A k \in 1 .. i - 1 : c[k] = s[k]
  BY <1>1
<1> HIDE DEF c
<1> DEFINE d == c \o b
<1>4. /\ d \in Seq(X) /\ Len(d) = Len(s) + 1
      /\ \A k \in 1 .. i : d[k] = c[k]
      /\ \A k \in i + 1 .. Len(s) + 1 : d[k] = b[k - i]
  <2>0. c \in Seq(X) /\ b \in Seq(X)
    BY <1>2, <1>3
  <2>1. d \in Seq(X)
    BY <2>0
  <2>2. Len(d) = Len(c) + Len(b)
    BY <2>0
  <2>3. \A k \in 1 .. Len(c) : d[k] = c[k]
    BY <2>0
  <2>4. \A k \in Len(c) + 1 .. Len(c) + Len(b) : d[k] = b[k - Len(c)]
    BY <2>0
  <2> QED BY <2>1, <2>2, <2>3, <2>4, <1>2, <1>3
<1> HIDE DEF d
<1>5. \A k \in 1 .. Len(s) + 1 : d[k] = IF k < i THEN s[k] ELSE IF k = i THEN x ELSE s[k - 1]
  <2> SUFFICES ASSUME NEW k \in 1 .. Len(s) + 1
               PROVE  d[k] = IF k < i THEN s[k] ELSE IF k = i THEN x ELSE s[k - 1]
    OBVIOUS
  <2>1. CASE k <= i
    BY <2>1, <1>3, <1>4
  <2>2. CASE k > i
    <3>1. k - i \in 1 .. Len(s) + 1 - i /\ (k - i) + i - 1 = k - 1
      BY <2>2
    <3>2. d[k] = b[k - i]
      BY <2>2, <1>4
    <3>3. b[k - i] = s[(k - i) + i - 1]
      BY <3>1, <1>2, Zenon
    <3> QED BY <3>1, <3>2, <3>3, <2>2
  <2> QED BY <2>1, <2>2
<1>6. d = [k \in 1 .. Len(s) + 1 |-> d[k]]
  BY <1>4
<1>7. InsertAt(s, i, x) = d
  BY DEF InsertAt, a, b, c, d
<1> QED BY <1>4, <1>5, <1>6, <1>7

LEMMA RemoveAtIs ==
  ASSUME NEW X, NEW s \in Seq(X), NEW i \in 1 .. Len(s)
  PROVE  /\ RemoveAt(s, i) \in Seq(X)
         /\ RemoveAt(s, i) = [k \in 1 .. Len(s) - 1 |-> IF k < i THEN s[k] ELSE s[k + 1]]
<1> DEFINE a == SubSeq(s, 1, i - 1)
           b == SubSeq(s, i + 1, Len(s))
<1>1. a \in Seq(X) /\ Len(a) = i - 1 /\ \A k \in 1 .. i - 1 : a[k] = s[k]
  OBVIOUS
<1>2. /\ b \in Seq(X) /\ Len(b) = Len(s) - i
      /\ \A k \in 1 .. Len(s) - i : b[k] = s[k + i]
  OBVIOUS
<1> HIDE DEF a, b
<1> DEFINE d == a \o b
<1>4. /\ d \in Seq(X) /\ Len(d) = Len(s) - 1
      /\ \A k \in 1 .. i - 1 : d[k] = a[k]
      /\ \A k \in i .. Len(s) - 1 : d[k] = b[k - (i - 1)]
  <2>0. a \in Seq(X) /\ b \in Seq(X)
    BY <1>1, <1>2
  <2>1. d \in Seq(X)
    BY <2>0
  <2>3. Len(d) = Len(a) + Len(b)
    BY <2>0
  <2>4. \A k \in 1 .. Len(a) : d[k] = a[k]
    BY <2>0
  <2>2. \A k \in Len(a) + 1 .. Len(a) + Len(b) : d[k] = b[k - Len(a)]
    BY <2>0
  <2> QED BY <2>1, <2>2, <2>3, <2>4, <1>1, <1>2
<1> HIDE DEF d
<1>5. \A k \in 1 .. Len(s) - 1 : d[k] = IF k < i THEN s[k] ELSE s[k + 1]
  <2> SUFFICES ASSUME NEW k \in 1 .. Len(s) - 1
               PROVE  d[k] = IF k < i THEN s[k] ELSE s[k + 1]
    OBVIOUS
  <2>1. CASE k < i
    BY <2>1, <1>1, <1>4
  <2>2. CASE k >= i
    <3>1. k - (i - 1) \in 1 .. Len(s) - i /\ (k - (i - 1)) + i = k + 1
      BY <2>2
    <3>2. d[k] = b[k - (i - 1)] /\ b[k - (i - 1)] = s[(k - (i - 1)) + i]
      BY <3>1, <2>2, <1>2, <1>4
    <3> QED BY <3>1, <3>2, <2>2
  <2> QED BY <2>1, <2>2
<1>6. d = [k \in 1 .. Len(s) - 1 |-> d[k]]
  BY <1>4
<1>7. RemoveAt(s, i) = d
  BY DEF RemoveAt, a, b, d
<1> QED BY <1>4, <1>5, <1>6, <1>7

LEMMA ItemShown ==
  ASSUME NEW item \in Items
  PROVE  MapItem(item) \in Shown
BY DEF Items, Shown, MapItem, EventKey, SendState

\* Mapping keeps the places of the items; a change of the SDK's list, mapped, is the
\* same change of the mapped list.
LEMMA MapItemsIs ==
  ASSUME NEW s \in Seq(Items)
  PROVE  /\ MapItems(s) \in Seq(Shown) /\ Len(MapItems(s)) = Len(s)
         /\ DOMAIN s = 1 .. Len(s) /\ \A k \in 1 .. Len(s) : s[k] \in Items
         /\ MapItems(s) = [k \in 1 .. Len(s) |-> MapItem(s[k])]
         /\ \A k \in 1 .. Len(s) : MapItems(s)[k] = MapItem(s[k])
<1>1. DOMAIN s = 1 .. Len(s) /\ \A k \in 1 .. Len(s) : s[k] \in Items
  OBVIOUS
<1>2. MapItems(s) = [k \in 1 .. Len(s) |-> MapItem(s[k])]
  BY <1>1 DEF MapItems
<1>3. \A k \in 1 .. Len(s) : MapItem(s[k]) \in Shown
  BY <1>1, ItemShown
<1>4. MapItems(s) \in Seq(Shown) /\ Len(MapItems(s)) = Len(s)
  BY <1>2, <1>3
<1> QED BY <1>1, <1>2, <1>4

LEMMA MapAppend ==
  ASSUME NEW s \in Seq(Items), NEW x \in Items
  PROVE  /\ Append(s, x) \in Seq(Items)
         /\ MapItems(Append(s, x)) = MapItems(s) \o MapItems(<<x>>)
<1> DEFINE t == Append(s, x)
           m == MapItems(s)
           one == MapItems(<<x>>)
<1>1. t \in Seq(Items) /\ Len(t) = Len(s) + 1 /\ t[Len(s) + 1] = x
      /\ \A k \in 1 .. Len(s) : t[k] = s[k]
  OBVIOUS
<1>2. m \in Seq(Shown) /\ Len(m) = Len(s) /\ \A k \in 1 .. Len(s) : m[k] = MapItem(s[k])
  BY MapItemsIs
<1>3. one = <<MapItem(x)>>
  <2>1. <<x>> \in Seq(Items) /\ Len(<<x>>) = 1 /\ <<x>>[1] = x
    OBVIOUS
  <2>2. one = [k \in 1 .. 1 |-> MapItem(<<x>>[k])]
    BY <2>1, MapItemsIs
  <2> QED BY <2>1, <2>2
<1>4. MapItem(x) \in Shown /\ Len(s) \in Nat
  BY ItemShown
<1>5. MapItems(t) = [k \in 1 .. Len(s) + 1 |-> MapItem(t[k])]
  BY <1>1, MapItemsIs
<1> HIDE DEF t, m, one
<1>6. m \o one = [k \in 1 .. Len(s) + 1 |-> IF k <= Len(s) THEN m[k] ELSE MapItem(x)]
  BY <1>2, <1>3, <1>4
<1>7. \A k \in 1 .. Len(s) + 1 : MapItem(t[k]) = IF k <= Len(s) THEN m[k] ELSE MapItem(x)
  BY <1>1, <1>2, <1>4
<1> QED BY <1>1, <1>5, <1>6, <1>7 DEF t, m, one

LEMMA MapOne ==
  ASSUME NEW x \in Items
  PROVE  <<x>> \in Seq(Items) /\ MapItems(<<x>>) = <<MapItem(x)>> /\ MapItem(x) \in Shown
<1>1. <<x>> \in Seq(Items) /\ Len(<<x>>) = 1 /\ <<x>>[1] = x
  OBVIOUS
<1>2. MapItems(<<x>>) = [k \in 1 .. 1 |-> MapItem(<<x>>[k])]
  BY <1>1, MapItemsIs
<1> QED BY <1>1, <1>2, ItemShown

LEMMA MapFront ==
  ASSUME NEW s \in Seq(Items), NEW x \in Items
  PROVE  /\ <<x>> \o s \in Seq(Items)
         /\ MapItems(<<x>> \o s) = MapItems(<<x>>) \o MapItems(s)
<1> DEFINE t == <<x>> \o s
           m == MapItems(s)
           one == MapItems(<<x>>)
<1>1. t \in Seq(Items) /\ Len(t) = Len(s) + 1 /\ t[1] = x
      /\ \A k \in 2 .. Len(s) + 1 : t[k] = s[k - 1]
  OBVIOUS
<1>2. m \in Seq(Shown) /\ Len(m) = Len(s) /\ \A k \in 1 .. Len(s) : m[k] = MapItem(s[k])
  BY MapItemsIs
<1>3. one = <<MapItem(x)>> /\ MapItem(x) \in Shown /\ Len(s) \in Nat
  BY MapOne
<1>5. MapItems(t) = [k \in 1 .. Len(s) + 1 |-> MapItem(t[k])]
  BY <1>1, MapItemsIs
<1> HIDE DEF t, m, one
<1>6. one \o m = [k \in 1 .. Len(s) + 1 |-> IF k = 1 THEN MapItem(x) ELSE m[k - 1]]
  BY <1>2, <1>3
<1>7. \A k \in 1 .. Len(s) + 1 : MapItem(t[k]) = IF k = 1 THEN MapItem(x) ELSE m[k - 1]
  <2> SUFFICES ASSUME NEW k \in 1 .. Len(s) + 1
               PROVE  MapItem(t[k]) = IF k = 1 THEN MapItem(x) ELSE m[k - 1]
    OBVIOUS
  <2>1. CASE k = 1
    BY <2>1, <1>1
  <2>2. CASE k # 1
    <3>1. k \in 2 .. Len(s) + 1 /\ k - 1 \in 1 .. Len(s)
      BY <2>2, <1>3
    <3> QED BY <2>2, <3>1, <1>1, <1>2
  <2> QED BY <2>1, <2>2
<1> QED BY <1>1, <1>5, <1>6, <1>7 DEF t, m, one

LEMMA MapInsert ==
  ASSUME NEW s \in Seq(Items), NEW i \in 1 .. Len(s) + 1, NEW x \in Items
  PROVE  /\ InsertAt(s, i, x) \in Seq(Items)
         /\ MapItems(InsertAt(s, i, x)) = InsertAt(MapItems(s), i, MapItem(x))
<1> DEFINE t == InsertAt(s, i, x)
           m == MapItems(s)
<1>1. /\ t \in Seq(Items)
      /\ t = [k \in 1 .. Len(s) + 1 |-> IF k < i THEN s[k] ELSE IF k = i THEN x ELSE s[k - 1]]
  BY InsertAtIs
<1>2. m \in Seq(Shown) /\ Len(m) = Len(s) /\ \A k \in 1 .. Len(s) : m[k] = MapItem(s[k])
  BY MapItemsIs
<1>3. MapItem(x) \in Shown /\ Len(s) \in Nat
  BY ItemShown
<1> HIDE DEF t, m
<1>4. InsertAt(m, i, MapItem(x)) =
          [k \in 1 .. Len(s) + 1 |->
              IF k < i THEN m[k] ELSE IF k = i THEN MapItem(x) ELSE m[k - 1]]
  <2>1. i \in 1 .. Len(m) + 1
    BY <1>2
  <2> QED BY <2>1, <1>2, <1>3, InsertAtIs
<1>5. MapItems(t) = [k \in 1 .. Len(s) + 1 |-> MapItem(t[k])]
  <2>1. Len(t) = Len(s) + 1
    BY <1>1, <1>3
  <2> QED BY <2>1, <1>1, MapItemsIs
<1>6. \A k \in 1 .. Len(s) + 1 :
          MapItem(t[k]) = IF k < i THEN m[k] ELSE IF k = i THEN MapItem(x) ELSE m[k - 1]
  BY <1>1, <1>2, <1>3
<1> QED BY <1>1, <1>4, <1>5, <1>6 DEF t, m

LEMMA MapRemove ==
  ASSUME NEW s \in Seq(Items), NEW i \in 1 .. Len(s)
  PROVE  /\ RemoveAt(s, i) \in Seq(Items) /\ Len(RemoveAt(s, i)) = Len(s) - 1
         /\ MapItems(RemoveAt(s, i)) = RemoveAt(MapItems(s), i)
<1> DEFINE t == RemoveAt(s, i)
           m == MapItems(s)
<1>1. /\ t \in Seq(Items)
      /\ t = [k \in 1 .. Len(s) - 1 |-> IF k < i THEN s[k] ELSE s[k + 1]]
  BY RemoveAtIs
<1>2. m \in Seq(Shown) /\ Len(m) = Len(s) /\ \A k \in 1 .. Len(s) : m[k] = MapItem(s[k])
  BY MapItemsIs
<1>3. Len(s) - 1 \in Nat
  OBVIOUS
<1> HIDE DEF t, m
<1>4. RemoveAt(m, i) = [k \in 1 .. Len(s) - 1 |-> IF k < i THEN m[k] ELSE m[k + 1]]
  <2>1. i \in 1 .. Len(m)
    BY <1>2
  <2> QED BY <2>1, <1>2, RemoveAtIs
<1>5. Len(t) = Len(s) - 1
  BY <1>1, <1>3
<1>6. MapItems(t) = [k \in 1 .. Len(s) - 1 |-> MapItem(t[k])]
  BY <1>1, <1>5, MapItemsIs
<1>7. \A k \in 1 .. Len(s) - 1 : MapItem(t[k]) = IF k < i THEN m[k] ELSE m[k + 1]
  BY <1>1, <1>2, <1>3
<1> QED BY <1>1, <1>4, <1>5, <1>6, <1>7 DEF t, m

LEMMA MapSet ==
  ASSUME NEW s \in Seq(Items), NEW i \in 1 .. Len(s), NEW x \in Items
  PROVE  /\ [s EXCEPT ![i] = x] \in Seq(Items)
         /\ MapItems([s EXCEPT ![i] = x]) = [MapItems(s) EXCEPT ![i] = MapItem(x)]
<1> DEFINE t == [s EXCEPT ![i] = x]
           m == MapItems(s)
<1>1. /\ t \in Seq(Items) /\ Len(t) = Len(s)
      /\ \A k \in 1 .. Len(s) : t[k] = IF k = i THEN x ELSE s[k]
  OBVIOUS
<1>2. /\ m = [k \in 1 .. Len(s) |-> MapItem(s[k])]
      /\ \A k \in 1 .. Len(s) : m[k] = MapItem(s[k])
  BY MapItemsIs
<1>3. MapItems(t) = [k \in 1 .. Len(s) |-> MapItem(t[k])]
  BY <1>1, MapItemsIs
<1> HIDE DEF t
<1>4. [m EXCEPT ![i] = MapItem(x)] =
          [k \in 1 .. Len(s) |-> IF k = i THEN MapItem(x) ELSE m[k]]
  BY <1>2
<1> HIDE DEF m
<1>5. \A k \in 1 .. Len(s) : MapItem(t[k]) = IF k = i THEN MapItem(x) ELSE m[k]
  BY <1>1, <1>2
<1> QED BY <1>1, <1>3, <1>4, <1>5 DEF t, m

\* There is a place for a message of the room, before the first echo or at the end.
LEMMA FirstEchoFits ==
  ASSUME NEW s \in Seq(Items)
  PROVE  FirstEcho(s) \in 1 .. Len(s) + 1
<1> DEFINE echoes == {i \in DOMAIN s : s[i].echo \notin {"none", "remote"}}
<1>1. echoes \in SUBSET Nat /\ echoes \subseteq 1 .. Len(s) + 1 /\ Len(s) + 1 \in 1 .. Len(s) + 1
  OBVIOUS
<1>2. FirstEcho(s) = IF echoes = {} THEN Len(s) + 1
                     ELSE CHOOSE i \in echoes : \A j \in echoes : i <= j
  BY DEF FirstEcho
<1> HIDE DEF echoes
<1>3. echoes # {} => \E i \in echoes : \A j \in echoes : i <= j
  BY <1>1, LeastNumber
<1> QED BY <1>1, <1>2, <1>3

-----------------------------------------------------------------------------
Ops == {"append", "pushFront", "pushBack", "popFront", "popBack", "insert", "set", "remove", "reset"}
Diffs == [op : Ops, at : Int, values : Seq(Shown)]

\* The diffs of a change, applied to what is shown, give what the change shows.
Mapped(diffs) == [i \in DOMAIN diffs |-> MapDiff(diffs[i])]
Follows(s, next, diffs) ==
    /\ next \in Seq(Items)
    /\ Mapped(diffs) \in Seq(Diffs)
    /\ ApplyDiffs(MapItems(s), Mapped(diffs)) = MapItems(next)

\* What the diffs of a change are once mapped.
LEMMA MapDiffIs ==
  ASSUME NEW op \in Ops, NEW at \in Int, NEW v \in Seq(Items)
  PROVE  MapDiff(Diff(op, at, v)) = Diff(op, at, MapItems(v)) /\ Diff(op, at, MapItems(v)) \in Diffs
<1>1. MapItems(v) \in Seq(Shown)
  BY MapItemsIs
<1> QED BY <1>1 DEF MapDiff, Diff, Diffs

LEMMA MappedOne ==
  ASSUME NEW d, MapDiff(d) \in Diffs
  PROVE  Mapped(<<d>>) = <<MapDiff(d)>> /\ Mapped(<<d>>) \in Seq(Diffs)
<1>1. DOMAIN <<d>> = 1 .. 1 /\ <<d>>[1] = d
  OBVIOUS
<1>2. Mapped(<<d>>) = [i \in 1 .. 1 |-> MapDiff(d)]
  BY <1>1 DEF Mapped
<1>3. <<MapDiff(d)>> = [i \in 1 .. 1 |-> MapDiff(d)]
  OBVIOUS
<1>4. <<MapDiff(d)>> \in Seq(Diffs)
  OBVIOUS
<1> QED BY <1>2, <1>3, <1>4

LEMMA MappedTwo ==
  ASSUME NEW d, NEW e, MapDiff(d) \in Diffs, MapDiff(e) \in Diffs
  PROVE  Mapped(<<d, e>>) = <<MapDiff(d), MapDiff(e)>> /\ Mapped(<<d, e>>) \in Seq(Diffs)
<1>1. DOMAIN <<d, e>> = 1 .. 2 /\ <<d, e>>[1] = d /\ <<d, e>>[2] = e
  OBVIOUS
<1>2. Mapped(<<d, e>>) = [i \in 1 .. 2 |-> IF i = 1 THEN MapDiff(d) ELSE MapDiff(e)]
  BY <1>1 DEF Mapped
<1>3. <<MapDiff(d), MapDiff(e)>> = [i \in 1 .. 2 |-> IF i = 1 THEN MapDiff(d) ELSE MapDiff(e)]
  OBVIOUS
<1>4. <<MapDiff(d), MapDiff(e)>> \in Seq(Diffs)
  OBVIOUS
<1> QED BY <1>2, <1>3, <1>4

\* Each change of the SDK's timeline comes with diffs that follow it.
LEMMA SetFollows ==
  ASSUME NEW s \in Seq(Items), NEW i \in 1 .. Len(s), NEW x \in Items
  PROVE  Follows(s, [s EXCEPT ![i] = x], <<Diff("set", i - 1, <<x>>)>>)
<1> DEFINE d == Diff("set", i - 1, MapItems(<<x>>))
<1>1. MapDiff(Diff("set", i - 1, <<x>>)) = d /\ d \in Diffs /\ MapItems(<<x>>) = <<MapItem(x)>>
  <2>1. "set" \in Ops /\ i - 1 \in Int /\ <<x>> \in Seq(Items)
    BY DEF Ops
  <2>2. MapDiff(Diff("set", i - 1, <<x>>)) = d /\ d \in Diffs
    BY <2>1, MapDiffIs, Zenon
  <2> QED BY <2>2, MapOne
<1>2. ApplyDiff(MapItems(s), d) = [MapItems(s) EXCEPT ![i] = MapItem(x)]
  <2>1. (i - 1) + 1 = i /\ <<MapItem(x)>>[1] = MapItem(x)
    OBVIOUS
  <2> QED BY <1>1, <2>1 DEF ApplyDiff, Diff
<1> HIDE DEF d
<1>3. /\ [s EXCEPT ![i] = x] \in Seq(Items)
      /\ MapItems([s EXCEPT ![i] = x]) = [MapItems(s) EXCEPT ![i] = MapItem(x)]
  BY MapSet
<1> QED BY <1>1, <1>2, <1>3, MappedOne, ApplyOne, Zenon DEF Follows

LEMMA PushBackFollows ==
  ASSUME NEW s \in Seq(Items), NEW x \in Items
  PROVE  Follows(s, Append(s, x), <<Diff("pushBack", 0, <<x>>)>>)
<1> DEFINE d == Diff("pushBack", 0, MapItems(<<x>>))
<1>1. MapDiff(Diff("pushBack", 0, <<x>>)) = d /\ d \in Diffs
  <2>1. "pushBack" \in Ops /\ 0 \in Int /\ <<x>> \in Seq(Items)
    BY DEF Ops
  <2>2. MapDiff(Diff("pushBack", 0, <<x>>)) = d /\ d \in Diffs
    BY <2>1, MapDiffIs, Zenon
  <2> QED BY <2>2, MapOne
<1>2. ApplyDiff(MapItems(s), d) = MapItems(s) \o MapItems(<<x>>)
  BY DEF ApplyDiff, Diff
<1> HIDE DEF d
<1>3. Append(s, x) \in Seq(Items) /\ MapItems(Append(s, x)) = MapItems(s) \o MapItems(<<x>>)
  BY MapAppend
<1> QED BY <1>1, <1>2, <1>3, MappedOne, ApplyOne, Zenon DEF Follows

LEMMA PushFrontFollows ==
  ASSUME NEW s \in Seq(Items), NEW x \in Items
  PROVE  Follows(s, <<x>> \o s, <<Diff("pushFront", 0, <<x>>)>>)
<1> DEFINE d == Diff("pushFront", 0, MapItems(<<x>>))
<1>1. MapDiff(Diff("pushFront", 0, <<x>>)) = d /\ d \in Diffs
  <2>1. "pushFront" \in Ops /\ 0 \in Int /\ <<x>> \in Seq(Items)
    BY DEF Ops
  <2>2. MapDiff(Diff("pushFront", 0, <<x>>)) = d /\ d \in Diffs
    BY <2>1, MapDiffIs, Zenon
  <2> QED BY <2>2, MapOne
<1>2. ApplyDiff(MapItems(s), d) = MapItems(<<x>>) \o MapItems(s)
  BY DEF ApplyDiff, Diff
<1> HIDE DEF d
<1>3. <<x>> \o s \in Seq(Items) /\ MapItems(<<x>> \o s) = MapItems(<<x>>) \o MapItems(s)
  BY MapFront
<1> QED BY <1>1, <1>2, <1>3, MappedOne, ApplyOne, Zenon DEF Follows

LEMMA InsertApplied ==
  ASSUME NEW s \in Seq(Items), NEW i \in 1 .. Len(s) + 1, NEW x \in Items
  PROVE  /\ MapDiff(Diff("insert", i - 1, <<x>>)) \in Diffs
         /\ ApplyDiff(MapItems(s), MapDiff(Diff("insert", i - 1, <<x>>))) =
                MapItems(InsertAt(s, i, x))
<1> DEFINE d == Diff("insert", i - 1, MapItems(<<x>>))
<1>1. MapDiff(Diff("insert", i - 1, <<x>>)) = d /\ d \in Diffs /\ MapItems(<<x>>) = <<MapItem(x)>>
  <2>1. "insert" \in Ops /\ i - 1 \in Int /\ <<x>> \in Seq(Items)
    BY DEF Ops
  <2>2. MapDiff(Diff("insert", i - 1, <<x>>)) = d /\ d \in Diffs
    BY <2>1, MapDiffIs, Zenon
  <2> QED BY <2>2, MapOne
<1>2. ApplyDiff(MapItems(s), d) = InsertAt(MapItems(s), i, MapItem(x))
  <2>1. (i - 1) + 1 = i /\ <<MapItem(x)>>[1] = MapItem(x)
    OBVIOUS
  <2> QED BY <1>1, <2>1 DEF ApplyDiff, Diff
<1> QED BY <1>1, <1>2, MapInsert

LEMMA RemoveApplied ==
  ASSUME NEW s \in Seq(Items), NEW i \in 1 .. Len(s)
  PROVE  /\ MapDiff(Diff("remove", i - 1, <<>>)) \in Diffs
         /\ ApplyDiff(MapItems(s), MapDiff(Diff("remove", i - 1, <<>>))) =
                MapItems(RemoveAt(s, i))
<1> DEFINE d == Diff("remove", i - 1, MapItems(<<>>))
<1>1. MapDiff(Diff("remove", i - 1, <<>>)) = d /\ d \in Diffs
  <2>1. "remove" \in Ops /\ i - 1 \in Int /\ <<>> \in Seq(Items)
    BY DEF Ops
  <2>2. MapDiff(Diff("remove", i - 1, <<>>)) = d /\ d \in Diffs
    BY <2>1, MapDiffIs, Zenon
  <2> QED BY <2>2
<1>2. ApplyDiff(MapItems(s), d) = RemoveAt(MapItems(s), i)
  <2>1. (i - 1) + 1 = i
    OBVIOUS
  <2> QED BY <2>1 DEF ApplyDiff, Diff
<1> QED BY <1>1, <1>2, MapRemove

LEMMA InsertFollows ==
  ASSUME NEW s \in Seq(Items), NEW i \in 1 .. Len(s) + 1, NEW x \in Items
  PROVE  Follows(s, InsertAt(s, i, x), <<Diff("insert", i - 1, <<x>>)>>)
BY InsertApplied, MappedOne, ApplyOne, MapInsert DEF Follows

LEMMA RemoveFollows ==
  ASSUME NEW s \in Seq(Items), NEW i \in 1 .. Len(s)
  PROVE  Follows(s, RemoveAt(s, i), <<Diff("remove", i - 1, <<>>)>>)
BY RemoveApplied, MappedOne, ApplyOne, MapRemove DEF Follows

LEMMA MoveFollows ==
  ASSUME NEW s \in Seq(Items), NEW i \in 1 .. Len(s), NEW x \in Items,
         NEW rest, rest = RemoveAt(s, i), NEW at \in 1 .. Len(rest) + 1
  PROVE  Follows(s, InsertAt(rest, at, x),
                 <<Diff("remove", i - 1, <<>>), Diff("insert", at - 1, <<x>>)>>)
<1> DEFINE d == MapDiff(Diff("remove", i - 1, <<>>))
           e == MapDiff(Diff("insert", at - 1, <<x>>))
<1>1. d \in Diffs /\ ApplyDiff(MapItems(s), d) = MapItems(rest) /\ rest \in Seq(Items)
  BY RemoveApplied, MapRemove
<1>2. e \in Diffs /\ ApplyDiff(MapItems(rest), e) = MapItems(InsertAt(rest, at, x))
  BY <1>1, InsertApplied
<1>3. InsertAt(rest, at, x) \in Seq(Items)
  BY <1>1, MapInsert
<1> QED BY <1>1, <1>2, <1>3, MappedTwo, ApplyTwo DEF Follows

-----------------------------------------------------------------------------
(* ChatTimeline: the inductive invariant.                                      *)

TaskStates == {"none", "spawned", "running", "ended"}
PageFields == {"open", "items", "typing", "paginating", "reachedStart"}
TimelineTypes ==
    /\ items \in Seq(Items)
    /\ task \in [Streams -> TaskStates] /\ slot \subseteq Streams
    /\ DOMAIN stream = Streams /\ stream["items"] \in Seq(Seq(Diffs))
    /\ DOMAIN page = PageFields /\ page.open \in BOOLEAN
    /\ handle \in {"held", "dropped"}
    /\ older \in Nat /\ events \in Nat

\* A page is left before its timeline is closed.
ClosedOnceLeft == PageCall("close") \in pageCalls => ~page.open

\* A task that runs is in its slot, where close and drop find it, or the call
\* that spawned it has not returned and will put it there.
TasksHeld ==
    \A s \in Streams : task[s] \in {"spawned", "running"} => s \in slot \/ PageCall(s) \in pageCalls

\* A timeline is dropped when nobody calls it any more.
DroppedLast == handle = "dropped" => ~page.open /\ pageCalls = {}

TimelineInv ==
    /\ TimelineTypes /\ ClosedOnceLeft /\ TimelineAgrees
    /\ TasksHeld /\ DroppedLast /\ StreamsEnd

\* The invariant holds at first and every step keeps it.
LEMMA InitHolds == TimelineInit => TimelineInv
<1> SUFFICES ASSUME TimelineInit PROVE TimelineInv
  OBVIOUS
<1>1. TimelineTypes
  <2>1. OlderPages \in Nat
    BY TimelineAssumption
  <2> QED BY <2>1 DEF TimelineInit, TimelineTypes, TaskStates, PageFields, Streams
<1>2. ClosedOnceLeft
  BY DEF TimelineInit, ClosedOnceLeft, PageCall, Streams
<1>3. TimelineAgrees /\ TasksHeld /\ DroppedLast /\ StreamsEnd
  BY DEF TimelineInit, TimelineAgrees, TasksHeld, DroppedLast, StreamsEnd, Streams
<1> QED BY <1>1, <1>2, <1>3 DEF TimelineInv

\* What a change of the SDK's timeline keeps.
LEMMA ChangeKeeps ==
  ASSUME TimelineInv, NEW next, NEW diffs, Follows(items, next, diffs), Changed(next,
         diffs),
         page' = page, task' = task
  PROVE  /\ items' \in Seq(Items)
         /\ DOMAIN stream' = Streams /\ stream'["items"] \in Seq(Seq(Diffs))
         /\ TimelineAgrees'
<1> DEFINE batch == Mapped(diffs)
<1>1. /\ items' = next /\ next \in Seq(Items) /\ batch \in Seq(Diffs)
      /\ ApplyDiffs(MapItems(items), batch) = MapItems(next)
      /\ stream' = IF task["items"] = "running" THEN Feeds("items", batch) ELSE stream
  BY DEF Follows, Changed, Mapped
<1>2. DOMAIN stream = Streams /\ stream["items"] \in Seq(Seq(Diffs)) /\ "items" \in Streams
  BY DEF TimelineInv, TimelineTypes, Streams
<1> HIDE DEF batch
<1>3. CASE task["items"] = "running" /\ page.open
  <2>1. stream' = [stream EXCEPT !["items"] = Append(@, batch)]
    BY <1>1, <1>3 DEF Feeds
  <2>2. DOMAIN stream' = Streams /\ stream'["items"] = Append(stream["items"], batch)
    BY <2>1, <1>2
  <2>3. Arrived(page.items, stream'["items"]) = ApplyDiffs(Arrived(page.items, stream["items"]), batch)
    BY <2>2, <1>1, <1>2, ArrivedAppend
  <2>4. Arrived(page.items, stream["items"]) = MapItems(items)
    BY <1>3 DEF TimelineInv, TimelineAgrees
  <2>5. TimelineAgrees'
    BY <2>3, <2>4, <1>1 DEF TimelineAgrees
  <2> QED BY <2>2, <2>5, <1>1, <1>2
<1>4. CASE ~(task["items"] = "running" /\ page.open)
  <2>1. DOMAIN stream' = Streams /\ stream'["items"] = stream["items"]
    BY <1>1, <1>2, <1>4 DEF Feeds
  <2> QED BY <2>1, <1>1, <1>2, <1>4 DEF TimelineAgrees
<1> QED BY <1>3, <1>4

\* Where neither the timeline nor what is shown of it changes, both agree.
LEMMA QuietKeeps ==
  ASSUME TimelineAgrees, items' = items,
         page'.open => page.open /\ page'.items = page.items /\ stream'["items"] = stream["items"],
         task'["items"] = "running" => task["items"] = "running"
  PROVE  TimelineAgrees'
BY DEF TimelineAgrees

\* The calls of a page are told apart by their names.
LEMMA CallNames ==
  ASSUME NEW a, NEW b, NEW x, a # b
  PROVE  <<a, x>> # PageCall(b) /\ PageCall(a) # PageCall(b) 
BY DEF PageCall

LEMMA SetsFollow ==
  ASSUME TimelineInv, NEW i \in DOMAIN items, NEW echo \in Echo, Sets(i, echo)
  PROVE  \E next, diffs : Follows(items, next, diffs) /\ Changed(next, diffs)
<1>1. items \in Seq(Items) /\ i \in 1 .. Len(items) /\ items[i] \in Items
  BY DEF TimelineInv, TimelineTypes
<1>2. Sent(i, echo) \in Items
  BY <1>1 DEF Sent, Items, Echo
<1> QED BY <1>1, <1>2, SetFollows DEF Sets

-----------------------------------------------------------------------------
\* Steps that leave the tasks, the page and who holds the timeline alone, and
\* end at most calls that are not those which began the streams.
LEMMA TasksKept ==
  ASSUME TimelineInv, task' = task, slot' = slot, handle' = handle, page' = page,
         pageCalls' \subseteq pageCalls,
         \A s \in Streams : PageCall(s) \in pageCalls => PageCall(s) \in pageCalls'
  PROVE  ClosedOnceLeft' /\ TasksHeld' /\ DroppedLast' /\ StreamsEnd'
BY DEF TimelineInv, ClosedOnceLeft, TasksHeld, DroppedLast, StreamsEnd

\* A step that only changes the timeline, and ends a call about a message at most.
LEMMA ChangeSteps ==
  ASSUME TimelineInv, NEW next, NEW diffs, Follows(items, next, diffs), Changed(next,
         diffs),
         task' = task, slot' = slot, handle' = handle, page' = page,
         older' \in Nat, events' \in Nat, pageCalls' \subseteq pageCalls,
         \A s \in Streams : PageCall(s) \in pageCalls => PageCall(s) \in pageCalls'
  PROVE  TimelineInv'
<1>1. items' \in Seq(Items) /\ DOMAIN stream' = Streams /\ stream'["items"] \in Seq(Seq(Diffs))
      /\ TimelineAgrees'
  BY ChangeKeeps
<1>2. ClosedOnceLeft' /\ TasksHeld' /\ DroppedLast' /\ StreamsEnd'
  BY TasksKept
<1>3. TimelineTypes'
  BY <1>1 DEF TimelineInv, TimelineTypes
<1> QED BY <1>1, <1>2, <1>3 DEF TimelineInv

LEMMA MessagesKeep == ASSUME TimelineInv, MessageSteps PROVE TimelineInv'
<1>0. /\ items \in Seq(Items) /\ DOMAIN items = 1 .. Len(items) /\ Len(items) \in Nat
      /\ \A i \in DOMAIN items : items[i] \in Items
      /\ older \in Nat /\ events \in Nat
  BY DEF TimelineInv, TimelineTypes
<1>1. CASE SendText
  <2> DEFINE x == [id |-> events', echo |-> "notSentYet"]
  <2>1. events' = events + 1 /\ x \in Items
    BY <1>0, <1>1 DEF SendText, Event, Items, Echo
  <2>2. Follows(items, Append(items, x), <<Diff("pushBack", 0, <<x>>)>>)
    BY <1>0, <2>1, PushBackFollows
  <2>3. Changed(Append(items, x), <<Diff("pushBack", 0, <<x>>)>>)
    BY <1>1 DEF SendText
  <2> HIDE DEF x
  <2>4. UNCHANGED <<task, slot, page, handle, pageCalls, older>>
    BY <1>1 DEF SendText
  <2> QED BY <1>0, <2>1, <2>2, <2>3, <2>4, ChangeSteps
<1>2. CASE SyncMessage
  <2> DEFINE x == [id |-> events', echo |-> "none"]
             at == FirstEcho(items)
  <2>1. events' = events + 1 /\ x \in Items
    BY <1>0, <1>2 DEF SyncMessage, Event, Items, Echo
  <2>2. Follows(items, InsertAt(items, at, x), <<Diff("insert", at - 1, <<x>>)>>)
    BY <1>0, <2>1, FirstEchoFits, InsertFollows
  <2>3. Changed(InsertAt(items, at, x), <<Diff("insert", at - 1, <<x>>)>>)
    BY <1>2 DEF SyncMessage
  <2>4. UNCHANGED <<task, slot, page, handle, pageCalls, older>>
    BY <1>2 DEF SyncMessage
  <2> HIDE DEF x, at
  <2> QED BY <1>0, <2>1, <2>2, <2>3, <2>4, ChangeSteps
<1>3. ASSUME NEW i \in DOMAIN items, QueueSends(i) PROVE TimelineInv'
  <2>1. PICK echo \in {"sent", "sendingFailed"} : Sets(i, echo)
    BY <1>3 DEF QueueSends
  <2>2. PICK next, diffs : Follows(items, next, diffs) /\ Changed(next, diffs)
    BY <2>1, SetsFollow DEF Echo
  <2>3. UNCHANGED <<task, slot, page, handle, pageCalls, older, events>>
    BY <1>3 DEF QueueSends
  <2> QED BY <1>0, <2>2, <2>3, ChangeSteps
<1>4. ASSUME NEW i \in DOMAIN items, RemoteEcho(i) PROVE TimelineInv'
  <2> DEFINE rest == RemoveAt(items, i)
             at == FirstEcho(rest)
             x == Sent(i, "remote")
             next == InsertAt(rest, at, x)
             diffs == <<Diff("remove", i - 1, <<>>), Diff("insert", at - 1, <<x>>)>>
  <2>1. x \in Items
    BY <1>0 DEF Sent, Items, Echo
  <2>2. rest \in Seq(Items)
    BY <1>0, MapRemove
  <2>3. at \in 1 .. Len(rest) + 1
    BY <2>2, FirstEchoFits
  <2>4. Changed(next, diffs)
    BY <1>4 DEF RemoteEcho
  <2>5. UNCHANGED <<task, slot, page, handle, pageCalls, older, events>>
    BY <1>4 DEF RemoteEcho
  <2>6. Follows(items, next, diffs)
    <3> HIDE DEF at, x
    <3> QED BY <1>0, <2>1, <2>3, MoveFollows
  <2> HIDE DEF rest, at, x, next, diffs
  <2> QED BY <1>0, <2>4, <2>5, <2>6, ChangeSteps
<1>5. ASSUME NEW id \in 1 .. MaxEvents, Retry(id) PROVE TimelineInv'
  <2>1. /\ UNCHANGED <<task, slot, page, handle, older, events>>
        /\ pageCalls' = pageCalls \ {<<"retry", id>>}
    BY <1>5 DEF Retry
  <2>2. \A s \in Streams : PageCall(s) # <<"retry", id>>
    BY DEF PageCall, Streams
  <2>3. CASE UNCHANGED <<items, stream>>
    <3>1. ClosedOnceLeft' /\ TasksHeld' /\ DroppedLast' /\ StreamsEnd'
      BY <2>1, <2>2, TasksKept
    <3>2. TimelineTypes' /\ TimelineAgrees'
      BY <2>1, <2>3, QuietKeeps DEF TimelineInv, TimelineTypes
    <3> QED BY <3>1, <3>2 DEF TimelineInv
  <2>4. CASE \E i \in DOMAIN items : Sets(i, "notSentYet")
    <3>1. PICK next, diffs : Follows(items, next, diffs) /\ Changed(next, diffs)
      BY <2>4, SetsFollow DEF Echo
    <3> QED BY <1>0, <3>1, <2>1, <2>2, ChangeSteps
  <2> QED BY <1>5, <2>3, <2>4 DEF Retry, SendHandle, Echoes
<1>6. ASSUME NEW id \in 1 .. MaxEvents, Cancel(id) PROVE TimelineInv'
  <2>1. /\ UNCHANGED <<task, slot, page, handle, older, events>>
        /\ pageCalls' = pageCalls \ {<<"cancel", id>>}
    BY <1>6 DEF Cancel
  <2>2. \A s \in Streams : PageCall(s) # <<"cancel", id>>
    BY DEF PageCall, Streams
  <2>3. CASE UNCHANGED <<items, stream>>
    <3>1. ClosedOnceLeft' /\ TasksHeld' /\ DroppedLast' /\ StreamsEnd'
      BY <2>1, <2>2, TasksKept
    <3>2. TimelineTypes' /\ TimelineAgrees'
      BY <2>1, <2>3, QuietKeeps DEF TimelineInv, TimelineTypes
    <3> QED BY <3>1, <3>2 DEF TimelineInv
  <2>4. CASE \E i \in DOMAIN items : Changed(RemoveAt(items, i), <<Diff("remove", i - 1, <<>>)>>)
    <3>1. PICK i \in DOMAIN items : Changed(RemoveAt(items, i), <<Diff("remove", i - 1, <<>>)>>)
      BY <2>4
    <3>2. Follows(items, RemoveAt(items, i), <<Diff("remove", i - 1, <<>>)>>)
      BY <1>0, RemoveFollows
    <3> QED BY <1>0, <3>1, <3>2, <2>1, <2>2, ChangeSteps
  <2> QED BY <1>6, <2>3, <2>4 DEF Cancel, SendHandle, Echoes
<1> QED BY <1>1, <1>2, <1>3, <1>4, <1>5, <1>6 DEF MessageSteps

LEMMA StreamsKeep == ASSUME TimelineInv, StreamSteps PROVE TimelineInv'
<1>0. /\ items \in Seq(Items)
      /\ task \in [Streams -> TaskStates] /\ slot \subseteq Streams
      /\ DOMAIN stream = Streams /\ stream["items"] \in Seq(Seq(Diffs))
      /\ "items" \in Streams /\ "typing" \in Streams
  BY DEF TimelineInv, TimelineTypes, Streams
<1>1. ASSUME NEW s \in Streams, WatchSpawns(s) PROVE TimelineInv'
  <2>1. TimelineTypes'
    BY <1>1 DEF WatchSpawns, TimelineInv, TimelineTypes, TaskStates
  <2>2. ClosedOnceLeft' /\ TasksHeld' /\ DroppedLast' /\ StreamsEnd'
    BY <1>0, <1>1
       DEF WatchSpawns, TimelineInv, ClosedOnceLeft, TasksHeld, DroppedLast, StreamsEnd
  <2>3. TimelineAgrees'
    BY <1>0, <1>1, QuietKeeps DEF WatchSpawns, TimelineInv
  <2> QED BY <2>1, <2>2, <2>3 DEF TimelineInv
<1>2. ASSUME NEW s \in Streams, WatchReplaces(s) PROVE TimelineInv'
  <2>1. TimelineTypes'
    BY <1>2 DEF WatchReplaces, TimelineInv, TimelineTypes
  <2>2. ClosedOnceLeft' /\ TasksHeld' /\ DroppedLast' /\ StreamsEnd'
    BY <1>0, <1>2 DEF WatchReplaces, TimelineInv, ClosedOnceLeft, TasksHeld, DroppedLast,
                      StreamsEnd, PageCall
  <2>3. TimelineAgrees'
    BY <1>2, QuietKeeps DEF WatchReplaces, TimelineInv
  <2> QED BY <2>1, <2>2, <2>3 DEF TimelineInv
<1>3. ASSUME WatchBegins("items") PROVE TimelineInv'
  <2> DEFINE batch == <<Diff("reset", 0, MapItems(items))>>
  <2>1. batch \in Seq(Diffs)
    <3>1. MapItems(items) \in Seq(Shown)
      BY <1>0, MapItemsIs
    <3>2. Diff("reset", 0, MapItems(items)) \in Diffs
      BY <3>1 DEF Diff, Diffs, Ops
    <3> QED BY <3>2
  <2>2. /\ task["items"] = "spawned" /\ task' = [task EXCEPT !["items"] = "running"]
        /\ stream' = Feeds("items", batch)
        /\ UNCHANGED <<items, slot, page, handle, pageCalls, older, events>>
    BY <1>3 DEF WatchBegins
  <2> HIDE DEF batch
  <2>3. /\ DOMAIN stream' = Streams
        /\ stream'["items"] = IF page.open THEN Append(stream["items"], batch)
                              ELSE stream["items"]
    BY <2>2, <1>0 DEF Feeds
  <2>4. TimelineTypes'
    <3>1. stream'["items"] \in Seq(Seq(Diffs))
      BY <1>0, <2>1, <2>3
    <3>2. task' \in [Streams -> TaskStates]
      BY <1>0, <2>2 DEF TaskStates
    <3> QED BY <2>2, <2>3, <3>1, <3>2 DEF TimelineInv, TimelineTypes
  <2>5. ClosedOnceLeft' /\ TasksHeld' /\ DroppedLast' /\ StreamsEnd'
    BY <1>0, <2>2 DEF TimelineInv, ClosedOnceLeft, TasksHeld, DroppedLast, StreamsEnd
  <2>6. TimelineAgrees'
    <3> SUFFICES ASSUME page.open
                 PROVE  Arrived(page.items, stream'["items"]) = MapItems(items)
      BY <2>2 DEF TimelineAgrees
    <3>1. Arrived(page.items, stream'["items"]) =
              ApplyDiffs(Arrived(page.items, stream["items"]), batch)
      BY <1>0, <2>1, <2>3, ArrivedAppend
    <3>2. ApplyDiffs(Arrived(page.items, stream["items"]), batch) =
              ApplyDiff(Arrived(page.items, stream["items"]), Diff("reset", 0, MapItems(items)))
      BY ApplyOne DEF batch
    <3>3. ApplyDiff(Arrived(page.items, stream["items"]), Diff("reset", 0, MapItems(items))) =
              MapItems(items)
      BY DEF ApplyDiff, Diff
    <3> QED BY <3>1, <3>2, <3>3
  <2> QED BY <2>4, <2>5, <2>6 DEF TimelineInv
<1>4. ASSUME WatchBegins("typing") PROVE TimelineInv'
  <2>1. /\ task["typing"] = "spawned" /\ task' = [task EXCEPT !["typing"] = "running"]
        /\ stream' = Feeds("typing", {})
        /\ UNCHANGED <<items, slot, page, handle, pageCalls, older, events>>
    BY <1>4 DEF WatchBegins
  <2>2. DOMAIN stream' = Streams /\ stream'["items"] = stream["items"]
    BY <2>1, <1>0 DEF Feeds
  <2>3. TimelineTypes'
    BY <2>1, <2>2 DEF TimelineInv, TimelineTypes, TaskStates
  <2>4. ClosedOnceLeft' /\ TasksHeld' /\ DroppedLast' /\ StreamsEnd'
    BY <1>0, <2>1 DEF TimelineInv, ClosedOnceLeft, TasksHeld, DroppedLast, StreamsEnd
  <2>5. TimelineAgrees'
    BY <1>0, <2>1, <2>2, QuietKeeps DEF TimelineInv
  <2> QED BY <2>3, <2>4, <2>5 DEF TimelineInv
<1>5. ASSUME NEW s \in Streams, PageSinkClosed(s) PROVE TimelineInv'
  <2>1. TimelineTypes'
    BY <1>5 DEF PageSinkClosed, TimelineInv, TimelineTypes, TaskStates
  <2>2. ClosedOnceLeft' /\ TasksHeld' /\ DroppedLast' /\ StreamsEnd'
    BY <1>0, <1>5
       DEF PageSinkClosed, TimelineInv, ClosedOnceLeft, TasksHeld, DroppedLast, StreamsEnd
  <2>3. TimelineAgrees'
    BY <1>0, <1>5, QuietKeeps DEF PageSinkClosed, TimelineInv
  <2> QED BY <2>1, <2>2, <2>3 DEF TimelineInv
<1>6. CASE TypingReceived
  <2>1. /\ task' = task \/ task' = [task EXCEPT !["typing"] = "ended"]
        /\ stream' = stream \/ stream' = Feeds("typing", Head(typists.notices) \ {"self"})
        /\ UNCHANGED <<items, slot, page, handle, pageCalls, older, events>>
    BY <1>6 DEF TypingReceived
  <2>2. DOMAIN stream' = Streams /\ stream'["items"] = stream["items"]
    BY <2>1, <1>0 DEF Feeds
  <2>3. TimelineTypes'
    BY <2>1, <2>2 DEF TimelineInv, TimelineTypes, TaskStates
  <2>4. ClosedOnceLeft' /\ TasksHeld' /\ DroppedLast' /\ StreamsEnd'
    BY <1>0, <2>1 DEF TimelineInv, ClosedOnceLeft, TasksHeld, DroppedLast, StreamsEnd
  <2>5. TimelineAgrees'
    BY <1>0, <2>1, <2>2, QuietKeeps DEF TimelineInv
  <2> QED BY <2>3, <2>4, <2>5 DEF TimelineInv
<1>7. CASE Close
  <2>1. ~page.open
    BY <1>7 DEF Close, TimelineInv, ClosedOnceLeft
  <2>2. /\ task' \in [Streams -> TaskStates]
        /\ \A s \in Streams : task'[s] = IF s \in slot THEN "ended" ELSE task[s]
    BY <1>0, <1>7 DEF Close, Aborted, TaskStates
  <2>3. TimelineTypes'
    <3>1. DOMAIN stream' = Streams /\ stream'["items"] = <<>> /\ slot' = {}
          /\ UNCHANGED <<items, page, handle, older, events>>
      BY <1>0, <1>7 DEF Close
    <3>2. stream'["items"] \in Seq(Seq(Diffs))
      BY <3>1
    <3> QED BY <2>2, <3>1, <3>2 DEF TimelineInv, TimelineTypes
  <2>4. ClosedOnceLeft' /\ TasksHeld' /\ DroppedLast' /\ StreamsEnd'
    BY <1>0, <1>7, <2>1, <2>2
       DEF Close, TimelineInv, ClosedOnceLeft, TasksHeld, DroppedLast,
                      StreamsEnd, PageCall, Streams
  <2>5. TimelineAgrees'
    BY <1>7, <2>1 DEF Close, TimelineAgrees
  <2> QED BY <2>3, <2>4, <2>5 DEF TimelineInv
<1>8. CASE DropTimeline
  <2>1. ~page.open /\ pageCalls = {}
    BY <1>8 DEF DropTimeline
  <2>2. /\ task' \in [Streams -> TaskStates]
        /\ \A s \in Streams : task'[s] = IF s \in slot THEN "ended" ELSE task[s]
    BY <1>0, <1>8 DEF DropTimeline, Aborted, TaskStates
  <2>3. TimelineTypes'
    BY <1>8, <2>2 DEF DropTimeline, TimelineInv, TimelineTypes
  <2>4. \A s \in Streams : task'[s] \in {"none", "ended"}
    BY <2>1, <2>2 DEF TimelineInv, TimelineTypes, TasksHeld, TaskStates
  <2>5. ClosedOnceLeft' /\ TasksHeld' /\ DroppedLast' /\ StreamsEnd'
    BY <1>8, <2>1, <2>4
       DEF DropTimeline, TimelineInv, ClosedOnceLeft, TasksHeld, DroppedLast,
                      StreamsEnd
  <2>6. TimelineAgrees'
    BY <1>8, <2>1 DEF DropTimeline, TimelineAgrees
  <2> QED BY <2>3, <2>5, <2>6 DEF TimelineInv
<1>9. ASSUME NEW who \in SUBSET People, Typing(who) PROVE TimelineInv'
  <2>1. UNCHANGED <<items, task, slot, stream, page, handle, pageCalls, older, events>>
    BY <1>9 DEF Typing
  <2>2. ClosedOnceLeft' /\ TasksHeld' /\ DroppedLast' /\ StreamsEnd'
    BY <2>1, TasksKept
  <2>3. TimelineTypes' /\ TimelineAgrees'
    BY <2>1, QuietKeeps DEF TimelineInv, TimelineTypes
  <2> QED BY <2>2, <2>3 DEF TimelineInv
<1> QED BY <1>1, <1>2, <1>3, <1>4, <1>5, <1>6, <1>7, <1>8, <1>9 DEF StreamSteps, Streams

\* What the page does while it is open keeps who holds the timeline.
LEMMA OpenKeeps ==
  ASSUME TimelineInv, page.open, task' = task, slot' = slot, handle' = handle,
         page'.open = page.open,
         PageCall("close") \in pageCalls' => PageCall("close") \in pageCalls,
         \A s \in Streams : PageCall(s) \in pageCalls => PageCall(s) \in pageCalls'
  PROVE  ClosedOnceLeft' /\ TasksHeld' /\ DroppedLast' /\ StreamsEnd'
BY DEF TimelineInv, ClosedOnceLeft, TasksHeld, DroppedLast, StreamsEnd

LEMMA PagesKeep == ASSUME TimelineInv, PageSteps PROVE TimelineInv'
<1>0. /\ items \in Seq(Items)
      /\ DOMAIN stream = Streams /\ stream["items"] \in Seq(Seq(Diffs))
      /\ DOMAIN page = PageFields /\ page.open \in BOOLEAN
      /\ older \in Nat /\ events \in Nat
  BY DEF TimelineInv, TimelineTypes
<1>1. ASSUME NEW what \in {"retry", "cancel"}, Choose(what) PROVE TimelineInv'
  <2>1. PICK i \in DOMAIN page.items : pageCalls' = pageCalls \cup {<<what, page.items[i].id>>}
    BY <1>1 DEF Choose
  <2>2. /\ page.open /\ events' = events + 1
        /\ UNCHANGED <<items, task, slot, stream, page, handle, older>>
    BY <1>1 DEF Choose, Event
  <2>3. ClosedOnceLeft' /\ TasksHeld' /\ DroppedLast' /\ StreamsEnd'
    <3>1. PageCall("close") # <<what, page.items[i].id>>
      BY <1>1 DEF PageCall
    <3> QED BY <2>1, <2>2, <3>1, OpenKeeps
  <2>4. TimelineTypes' /\ TimelineAgrees'
    <3>1. events' \in Nat
      BY <1>0, <2>2
    <3> QED BY <2>2, <3>1, QuietKeeps DEF TimelineInv, TimelineTypes
  <2> QED BY <2>3, <2>4 DEF TimelineInv
<1>2. CASE PaginateBack
  <2>1. /\ page.open /\ page' = [page EXCEPT !.paginating = TRUE]
        /\ pageCalls' = pageCalls \cup {PageCall("paginate")}
        /\ UNCHANGED <<items, task, slot, stream, handle, older, events>>
    BY <1>2 DEF PaginateBack
  <2>2. DOMAIN page' = PageFields /\ page'.open = page.open /\ page'.items = page.items
    BY <2>1, <1>0 DEF PageFields
  <2>3. ClosedOnceLeft' /\ TasksHeld' /\ DroppedLast' /\ StreamsEnd'
    <3>1. PageCall("close") # PageCall("paginate")
      BY DEF PageCall
    <3> QED BY <2>1, <2>2, <3>1, OpenKeeps
  <2>4. TimelineTypes' /\ TimelineAgrees'
    BY <2>1, <2>2, QuietKeeps DEF TimelineInv, TimelineTypes
  <2> QED BY <2>3, <2>4 DEF TimelineInv
<1>3. CASE PaginateLoads
  <2>1. PICK answer \in {"reachedStart", "paginated"} :
            pageCalls' = (pageCalls \ {PageCall("paginate")}) \cup {PageCall(answer)}
    BY <1>3 DEF PaginateLoads
  <2>2. PageCall("paginate") \in pageCalls /\ UNCHANGED <<task, slot, page, handle, events>>
    BY <1>3 DEF PaginateLoads
  <2>3. ClosedOnceLeft' /\ TasksHeld' /\ DroppedLast' /\ StreamsEnd'
    <3>1. /\ PageCall("close") # PageCall(answer)
          /\ \A s \in Streams : PageCall(s) # PageCall("paginate")
      BY <2>1 DEF PageCall, Streams
    <3> QED BY <2>1, <2>2, <3>1 DEF TimelineInv, ClosedOnceLeft, TasksHeld, DroppedLast, StreamsEnd
  <2>4. CASE UNCHANGED <<items, stream, older>>
    <3>1. TimelineTypes' /\ TimelineAgrees'
      BY <2>2, <2>4, QuietKeeps DEF TimelineInv, TimelineTypes
    <3> QED BY <2>3, <3>1 DEF TimelineInv
  <2>5. CASE older # 0
    <3> DEFINE x == [id |-> 0 - older, echo |-> "none"]
    <3>1. /\ older' = older - 1 /\ older' \in Nat
          /\ Changed(<<x>> \o items, <<Diff("pushFront", 0, <<x>>)>>)
      BY <1>0, <1>3, <2>5 DEF PaginateLoads
    <3>2. x \in Items
      BY <1>0 DEF Items, Echo
    <3>3. Follows(items, <<x>> \o items, <<Diff("pushFront", 0, <<x>>)>>)
      BY <1>0, <3>2, PushFrontFollows
    <3> HIDE DEF x
    <3>4. items' \in Seq(Items) /\ DOMAIN stream' = Streams /\ stream'["items"] \in Seq(Seq(Diffs))
          /\ TimelineAgrees'
      BY <2>2, <3>1, <3>3, ChangeKeeps
    <3>5. TimelineTypes'
      BY <2>2, <3>1, <3>4 DEF TimelineInv, TimelineTypes
    <3> QED BY <2>3, <3>4, <3>5 DEF TimelineInv
  <2> QED BY <1>3, <2>4, <2>5 DEF PaginateLoads
<1>4. CASE PaginateFails \/ PaginateReturns
  <2>1. PICK call \in {"paginate", "paginated", "reachedStart"} :
            pageCalls' = pageCalls \ {PageCall(call)}
    BY <1>4 DEF PaginateFails, PaginateReturns
  <2>2. UNCHANGED <<items, task, slot, stream, handle, older, events>>
    BY <1>4 DEF PaginateFails, PaginateReturns
  <2>3. DOMAIN page' = PageFields /\ page'.open = page.open /\ page'.items = page.items
    BY <1>0, <1>4 DEF PaginateFails, PaginateReturns, PageFields
  <2>4. ClosedOnceLeft' /\ TasksHeld' /\ DroppedLast' /\ StreamsEnd'
    <3>1. \A s \in Streams : PageCall(s) # PageCall(call)
      BY <2>1 DEF PageCall, Streams
    <3> QED BY <2>1, <2>2, <2>3, <3>1 DEF TimelineInv, ClosedOnceLeft, TasksHeld, DroppedLast,
                                          StreamsEnd
  <2>5. TimelineTypes' /\ TimelineAgrees'
    BY <2>2, <2>3, QuietKeeps DEF TimelineInv, TimelineTypes
  <2> QED BY <2>4, <2>5 DEF TimelineInv
<1>5. CASE Receive("items")
  <2>1. /\ page.open /\ stream["items"] # <<>>
        /\ page' = [page EXCEPT !.items = ApplyDiffs(@, Head(stream["items"]))]
        /\ stream' = [stream EXCEPT !["items"] = Tail(@)]
        /\ UNCHANGED <<items, task, slot, handle, pageCalls, older, events>>
    BY <1>5 DEF Receive
  <2>2. /\ DOMAIN page' = PageFields /\ page'.open = page.open
        /\ page'.items = ApplyDiffs(page.items, Head(stream["items"]))
    BY <1>0, <2>1 DEF PageFields
  <2>3. /\ DOMAIN stream' = Streams /\ stream'["items"] = Tail(stream["items"])
        /\ stream'["items"] \in Seq(Seq(Diffs))
    BY <1>0, <2>1 DEF Streams
  <2>4. ClosedOnceLeft' /\ TasksHeld' /\ DroppedLast' /\ StreamsEnd'
    BY <2>1, <2>2, OpenKeeps
  <2>5. TimelineTypes'
    BY <2>1, <2>2, <2>3 DEF TimelineInv, TimelineTypes
  <2>6. TimelineAgrees'
    <3>1. Arrived(page'.items, stream'["items"]) = Arrived(page.items, stream["items"])
      BY <1>0, <2>1, <2>2, <2>3, ArrivedHead
    <3> QED BY <2>1, <2>2, <3>1 DEF TimelineInv, TimelineAgrees
  <2> QED BY <2>4, <2>5, <2>6 DEF TimelineInv
<1>6. CASE Receive("typing")
  <2>1. /\ page.open
        /\ page' = [page EXCEPT !.typing = Head(stream["typing"])]
        /\ stream' = [stream EXCEPT !["typing"] = Tail(@)]
        /\ UNCHANGED <<items, task, slot, handle, pageCalls, older, events>>
    BY <1>6 DEF Receive
  <2>2. DOMAIN page' = PageFields /\ page'.open = page.open /\ page'.items = page.items
    BY <1>0, <2>1 DEF PageFields
  <2>3. DOMAIN stream' = Streams /\ stream'["items"] = stream["items"]
    BY <1>0, <2>1 DEF Streams
  <2>4. ClosedOnceLeft' /\ TasksHeld' /\ DroppedLast' /\ StreamsEnd'
    BY <2>1, <2>2, OpenKeeps
  <2>5. TimelineTypes' /\ TimelineAgrees'
    BY <2>1, <2>2, <2>3, QuietKeeps DEF TimelineInv, TimelineTypes
  <2> QED BY <2>4, <2>5 DEF TimelineInv
<1>7. CASE Dispose
  <2>1. /\ page.open /\ page' = [page EXCEPT !.open = FALSE]
        /\ pageCalls' = pageCalls \cup {PageCall("close")}
        /\ UNCHANGED <<items, task, slot, stream, handle, older, events>>
    BY <1>7 DEF Dispose
  <2>2. DOMAIN page' = PageFields /\ page'.open = FALSE
    BY <1>0, <2>1 DEF PageFields
  <2>3. ClosedOnceLeft' /\ TasksHeld' /\ DroppedLast' /\ StreamsEnd'
    BY <2>1, <2>2 DEF TimelineInv, ClosedOnceLeft, TasksHeld, DroppedLast, StreamsEnd
  <2>4. TimelineTypes' /\ TimelineAgrees'
    BY <2>1, <2>2, QuietKeeps DEF TimelineInv, TimelineTypes
  <2> QED BY <2>3, <2>4 DEF TimelineInv
<1> QED BY <1>1, <1>2, <1>3, <1>4, <1>5, <1>6, <1>7 DEF PageSteps, Streams

\* The timeline's inductive invariant.
THEOREM TimelineInductive == TimelineSpec => []TimelineInv
<1>1. TimelineInit => TimelineInv
  BY InitHolds
<1>2. TimelineInv /\ [TimelineNext]_timelineVars => TimelineInv'
  <2> SUFFICES ASSUME TimelineInv, [TimelineNext]_timelineVars PROVE TimelineInv'
    OBVIOUS
  <2>1. CASE UNCHANGED timelineVars
    <3>1. UNCHANGED <<items, task, slot, stream, page, handle, pageCalls, older, events>>
      BY <2>1 DEF timelineVars
    <3>2. ClosedOnceLeft' /\ TasksHeld' /\ DroppedLast' /\ StreamsEnd'
      BY <3>1, TasksKept
    <3>3. TimelineTypes' /\ TimelineAgrees'
      BY <3>1, QuietKeeps DEF TimelineInv, TimelineTypes
    <3> QED BY <3>2, <3>3 DEF TimelineInv
  <2> QED BY <2>1, StreamsKeep, MessagesKeep, PagesKeep DEF TimelineNext
<1> QED BY <1>1, <1>2, PTL DEF TimelineSpec

\* Once the batches under way have arrived, an open page shows the timeline of the SDK:
\* watch subscribes and sends what there is in one step, and every later change is sent
\* as the diffs that make it (timeline.rs line 353).
THEOREM TimelineShown == TimelineSpec => []TimelineAgrees
BY TimelineInductive, PTL DEF TimelineInv

\* No task outlives its timeline, whichever of close, a watch and the last reference
\* comes last (timeline.rs lines 584 and 613).
THEOREM StreamsEnded == TimelineSpec => []StreamsEnd
BY TimelineInductive, PTL DEF TimelineInv
-----------------------------------------------------------------------------
(* RoomList: sequences.                                                        *)

LEMMA SeqsEqual ==
  ASSUME NEW X, NEW s \in Seq(X), NEW t \in Seq(X), Len(s) = Len(t),
         \A k \in 1 .. Len(s) : s[k] = t[k]
  PROVE  s = t
OBVIOUS

LEMMA ConcatIs ==
  ASSUME NEW X, NEW s \in Seq(X), NEW t \in Seq(X)
  PROVE  /\ s \o t \in Seq(X) /\ Len(s \o t) = Len(s) + Len(t)
         /\ \A k \in 1 .. Len(s) : (s \o t)[k] = s[k]
         /\ \A k \in 1 .. Len(t) : (s \o t)[Len(s) + k] = t[k]
OBVIOUS

LEMMA InsertAtHas ==
  ASSUME NEW X, NEW s \in Seq(X), NEW i \in 1 .. Len(s) + 1, NEW x \in X
  PROVE  /\ InsertAt(s, i, x) \in Seq(X) /\ Len(InsertAt(s, i, x)) = Len(s) + 1
         /\ InsertAt(s, i, x)[i] = x
         /\ \A k \in 1 .. i - 1 : InsertAt(s, i, x)[k] = s[k]
         /\ \A k \in i .. Len(s) : InsertAt(s, i, x)[k + 1] = s[k]
<1> DEFINE t == InsertAt(s, i, x)
<1>1. t \in Seq(X)
      /\ t = [k \in 1 .. Len(s) + 1 |-> IF k < i THEN s[k] ELSE IF k = i THEN x ELSE s[k - 1]]
  BY InsertAtIs
<1>2. Len(s) \in Nat
  OBVIOUS
<1> HIDE DEF t
<1>3. Len(t) = Len(s) + 1
  BY <1>1, <1>2
<1>4. t[i] = x /\ \A k \in 1 .. i - 1 : t[k] = s[k]
  BY <1>1
<1>5. \A k \in i .. Len(s) : t[k + 1] = s[k]
  BY <1>1, <1>2
<1> QED BY <1>1, <1>3, <1>4, <1>5 DEF t

LEMMA RemoveAtHas ==
  ASSUME NEW X, NEW s \in Seq(X), NEW i \in 1 .. Len(s)
  PROVE  /\ RemoveAt(s, i) \in Seq(X) /\ Len(RemoveAt(s, i)) = Len(s) - 1
         /\ \A k \in 1 .. i - 1 : RemoveAt(s, i)[k] = s[k]
         /\ \A k \in i .. Len(s) - 1 : RemoveAt(s, i)[k] = s[k + 1]
<1> DEFINE t == RemoveAt(s, i)
<1>1. t \in Seq(X)
      /\ t = [k \in 1 .. Len(s) - 1 |-> IF k < i THEN s[k] ELSE s[k + 1]]
  BY RemoveAtIs
<1>2. Len(s) - 1 \in Nat
  OBVIOUS
<1> HIDE DEF t
<1>3. Len(t) = Len(s) - 1
  BY <1>1, <1>2
<1>4. \A k \in 1 .. i - 1 : t[k] = s[k]
  BY <1>1
<1>5. \A k \in i .. Len(s) - 1 : t[k] = s[k + 1]
  BY <1>1, <1>2
<1> QED BY <1>1, <1>3, <1>4, <1>5 DEF t

LEMMA InsertLast ==
  ASSUME NEW X, NEW s \in Seq(X), NEW x \in X, NEW i \in 1 .. Len(s) + 1
  PROVE  i = Len(s) + 1 => s \o <<x>> = InsertAt(s, i, x)
<1> DEFINE a == s \o <<x>>
           b == InsertAt(s, i, x)
<1>0. /\ <<x>> \in Seq(X) /\ Len(<<x>>) = 1 /\ <<x>>[1] = x /\ Len(s) \in Nat
      /\ i = Len(s) + 1 => i - 1 = Len(s)
  OBVIOUS
<1>1. /\ a \in Seq(X) /\ Len(a) = Len(s) + 1 /\ a[Len(s) + 1] = x
      /\ \A k \in 1 .. Len(s) : a[k] = s[k]
  BY <1>0, ConcatIs
<1>2. b \in Seq(X) /\ Len(b) = Len(s) + 1
  BY InsertAtHas
<1>3. b[i] = x
  BY InsertAtHas
<1>4. \A k \in 1 .. i - 1 : b[k] = s[k]
  <2> TAKE k \in 1 .. i - 1
  <2> QED BY InsertAtHas
<1> HIDE DEF a, b
<1> QED BY <1>0, <1>1, <1>2, <1>3, <1>4, SeqsEqual DEF a, b

\* The ends of a list are places of it.
LEMMA EndsAre ==
  ASSUME NEW X, NEW s \in Seq(X)
  PROVE  /\ s # <<>> => Tail(s) = RemoveAt(s, 1) /\ Front(s) = RemoveAt(s, Len(s))
         /\ \A x \in X : <<x>> \o s = InsertAt(s, 1, x) /\ s \o <<x>> = InsertAt(s, Len(s) + 1, x)
<1>1. ASSUME s # <<>> PROVE Tail(s) = RemoveAt(s, 1) /\ Front(s) = RemoveAt(s, Len(s))
  <2>0. Len(s) \in Nat \ {0} /\ 1 \in 1 .. Len(s) /\ Len(s) \in 1 .. Len(s)
    BY <1>1
  <2>1. /\ Tail(s) \in Seq(X) /\ Len(Tail(s)) = Len(s) - 1
        /\ \A k \in 1 .. Len(s) - 1 : Tail(s)[k] = s[k + 1]
    BY <1>1
  <2>2. /\ Front(s) \in Seq(X) /\ Len(Front(s)) = Len(s) - 1
        /\ \A k \in 1 .. Len(s) - 1 : Front(s)[k] = s[k]
    <3> DEFINE n == Len(s) - 1
               t == SubSeq(s, 1, n)
    <3>1. n \in Nat /\ n <= Len(s)
      BY <2>0
    <3> HIDE DEF n
    <3>2. t \in Seq(X) /\ Len(t) = n /\ \A k \in 1 .. n : t[k] = s[k]
      BY <3>1
    <3> QED BY <3>2 DEF Front, n
  <2>3. Tail(s) = RemoveAt(s, 1)
    <3>1. /\ RemoveAt(s, 1) \in Seq(X) /\ Len(RemoveAt(s, 1)) = Len(s) - 1
          /\ \A k \in 1 .. Len(s) - 1 : RemoveAt(s, 1)[k] = s[k + 1]
      BY <2>0, RemoveAtHas
    <3> QED BY <2>1, <3>1, SeqsEqual
  <2>4. Front(s) = RemoveAt(s, Len(s))
    <3>1. /\ RemoveAt(s, Len(s)) \in Seq(X) /\ Len(RemoveAt(s, Len(s))) = Len(s) - 1
          /\ \A k \in 1 .. Len(s) - 1 : RemoveAt(s, Len(s))[k] = s[k]
      BY <2>0, RemoveAtHas
    <3> QED BY <2>2, <3>1, SeqsEqual
  <2> QED BY <2>3, <2>4
<1>2. ASSUME NEW x \in X
      PROVE  <<x>> \o s = InsertAt(s, 1, x) /\ s \o <<x>> = InsertAt(s, Len(s) + 1, x)
  <2>0. /\ <<x>> \in Seq(X) /\ Len(<<x>>) = 1 /\ <<x>>[1] = x /\ Len(s) \in Nat
        /\ 1 \in 1 .. Len(s) + 1 /\ Len(s) + 1 \in 1 .. Len(s) + 1
    OBVIOUS
  <2>1. <<x>> \o s = InsertAt(s, 1, x)
    <3> DEFINE a == <<x>> \o s
               b == InsertAt(s, 1, x)
    <3>1. a \in Seq(X) /\ Len(a) = Len(s) + 1 /\ a[1] = x /\ \A k \in 1 .. Len(s) : a[1 + k] = s[k]
      BY <2>0, ConcatIs
    <3>2. b \in Seq(X) /\ Len(b) = Len(s) + 1 /\ b[1] = x /\ \A k \in 1 .. Len(s) : b[k + 1] = s[k]
      BY <2>0, InsertAtHas
    <3> HIDE DEF a, b
    <3>3. \A k \in 1 .. Len(s) + 1 : a[k] = b[k]
      <4> SUFFICES ASSUME NEW k \in 1 .. Len(s) + 1, k # 1 PROVE a[k] = b[k]
        BY <3>1, <3>2
      <4>1. k - 1 \in 1 .. Len(s) /\ 1 + (k - 1) = k /\ (k - 1) + 1 = k
        BY <2>0
      <4>2. a[1 + (k - 1)] = s[k - 1] /\ b[(k - 1) + 1] = s[k - 1]
        BY <4>1, <3>1, <3>2
      <4> QED BY <4>1, <4>2
    <3> QED BY <3>1, <3>2, <3>3, SeqsEqual DEF a, b
  <2>2. s \o <<x>> = InsertAt(s, Len(s) + 1, x)
    BY <2>0, InsertLast
  <2> QED BY <2>1, <2>2
<1> QED BY <1>1, <1>2

LEMMA FirstOfHas ==
  ASSUME NEW X, NEW s \in Seq(X), NEW n \in Nat
  PROVE  /\ FirstOf(s, n) \in Seq(X)
         /\ n < Len(s) => Len(FirstOf(s, n)) = n
         /\ n >= Len(s) => FirstOf(s, n) = s
         /\ Len(FirstOf(s, n)) <= Len(s) /\ Len(FirstOf(s, n)) <= n
         /\ \A k \in 1 .. Len(FirstOf(s, n)) : FirstOf(s, n)[k] = s[k]
<1> DEFINE m == IF n < Len(s) THEN n ELSE Len(s)
           t == SubSeq(s, 1, m)
<1>1. m \in Nat /\ m <= Len(s)
  OBVIOUS
<1>2. t \in Seq(X) /\ Len(t) = m /\ \A k \in 1 .. m : t[k] = s[k]
  BY <1>1
<1>3. n >= Len(s) => t = s
  BY <1>2, SeqsEqual
<1> QED BY <1>1, <1>2, <1>3 DEF FirstOf

-----------------------------------------------------------------------------
(* RoomList: lists of summaries, and the ids they show.                      *)

Summaries == [id : Rooms, mode : Modes]
RoomDiffs == [op : Ops, at : Int, values : Seq(Summaries)]

\* The rooms of a list and what is known of each.
Has(rooms, known, ids) == rooms \in Seq(known) /\ Ids(rooms) = ids

LEMMA IdsHave ==
  ASSUME NEW known \in SUBSET Summaries, NEW rooms \in Seq(known)
  PROVE  /\ Ids(rooms) \in Seq(Rooms) /\ Len(Ids(rooms)) = Len(rooms)
         /\ \A k \in 1 .. Len(rooms) : Ids(rooms)[k] = rooms[k].id /\ rooms[k] \in known
<1>1. \A k \in 1 .. Len(rooms) : rooms[k] \in known
  OBVIOUS
<1>2. \A k \in 1 .. Len(rooms) : rooms[k].id \in Rooms
  BY <1>1 DEF Summaries
<1>3. Ids(rooms) = [k \in 1 .. Len(rooms) |-> rooms[k].id]
  BY DEF Ids
<1>4. Ids(rooms) \in Seq(Rooms) /\ Len(Ids(rooms)) = Len(rooms)
  BY <1>2, <1>3
<1> QED BY <1>1, <1>3, <1>4

LEMMA HasInsert ==
  ASSUME NEW known \in SUBSET Summaries, NEW rooms, NEW ids, Has(rooms, known, ids),
         NEW x \in known, NEW i \in 1 .. Len(ids) + 1
  PROVE  Has(InsertAt(rooms, i, x), known, InsertAt(ids, i, x.id))
<1>1. /\ rooms \in Seq(known) /\ ids \in Seq(Rooms) /\ Len(ids) = Len(rooms) /\ Len(rooms) \in Nat
      /\ \A k \in 1 .. Len(rooms) : ids[k] = rooms[k].id
      /\ x.id \in Rooms
  BY IdsHave DEF Has, Summaries
<1> DEFINE t == InsertAt(rooms, i, x)
           u == InsertAt(ids, i, x.id)
<1>2. i \in 1 .. Len(rooms) + 1
  BY <1>1
<1>3. /\ t \in Seq(known) /\ Len(t) = Len(rooms) + 1 /\ t[i] = x
      /\ \A k \in 1 .. i - 1 : t[k] = rooms[k]
      /\ \A k \in i .. Len(rooms) : t[k + 1] = rooms[k]
  <2>1. t \in Seq(known) /\ Len(t) = Len(rooms) + 1
    BY <1>1, <1>2, InsertAtHas
  <2>2. t[i] = x
    BY <1>1, <1>2, InsertAtHas
  <2>3. \A k \in 1 .. i - 1 : t[k] = rooms[k]
    BY <1>1, <1>2, InsertAtHas
  <2>4. \A k \in i .. Len(rooms) : t[k + 1] = rooms[k]
    BY <1>1, <1>2, InsertAtHas
  <2> QED BY <2>1, <2>2, <2>3, <2>4
<1>4. /\ u \in Seq(Rooms) /\ Len(u) = Len(ids) + 1 /\ u[i] = x.id
      /\ \A k \in 1 .. i - 1 : u[k] = ids[k]
      /\ \A k \in i .. Len(ids) : u[k + 1] = ids[k]
  BY <1>1, InsertAtHas
<1> HIDE DEF t, u
<1>5. /\ Ids(t) \in Seq(Rooms) /\ Len(Ids(t)) = Len(t)
      /\ \A k \in 1 .. Len(t) : Ids(t)[k] = t[k].id
  BY <1>3, IdsHave
<1>6. \A k \in 1 .. Len(rooms) + 1 : t[k].id = u[k]
  <2> SUFFICES ASSUME NEW k \in 1 .. Len(rooms) + 1 PROVE t[k].id = u[k]
    OBVIOUS
  <2>1. CASE k = i
    BY <2>1, <1>3, <1>4
  <2>2. CASE k < i
    BY <2>2, <1>1, <1>2, <1>3, <1>4
  <2>3. CASE k > i
    <3>1. k - 1 \in i .. Len(rooms) /\ (k - 1) + 1 = k /\ k - 1 \in 1 .. Len(rooms)
      BY <2>3, <1>1, <1>2
    <3>2. t[(k - 1) + 1] = rooms[k - 1] /\ u[(k - 1) + 1] = ids[k - 1]
      BY <3>1, <1>1, <1>3, <1>4
    <3> QED BY <3>1, <3>2, <1>1
  <2> QED BY <2>1, <2>2, <2>3, <1>2
<1>7. Ids(t) = u
  BY <1>1, <1>3, <1>4, <1>5, <1>6, SeqsEqual
<1> QED BY <1>3, <1>7 DEF Has, t, u

LEMMA HasRemove ==
  ASSUME NEW known \in SUBSET Summaries, NEW rooms, NEW ids, Has(rooms, known, ids),
         NEW i \in 1 .. Len(ids)
  PROVE  Has(RemoveAt(rooms, i), known, RemoveAt(ids, i))
<1>1. /\ rooms \in Seq(known) /\ ids \in Seq(Rooms) /\ Len(ids) = Len(rooms) /\ Len(rooms) \in Nat
      /\ \A k \in 1 .. Len(rooms) : ids[k] = rooms[k].id
  BY IdsHave DEF Has
<1> DEFINE t == RemoveAt(rooms, i)
           u == RemoveAt(ids, i)
<1>2. i \in 1 .. Len(rooms)
  BY <1>1
<1>3. /\ t \in Seq(known) /\ Len(t) = Len(rooms) - 1
      /\ \A k \in 1 .. i - 1 : t[k] = rooms[k]
      /\ \A k \in i .. Len(rooms) - 1 : t[k] = rooms[k + 1]
  BY <1>1, <1>2, RemoveAtHas
<1>4. /\ u \in Seq(Rooms) /\ Len(u) = Len(ids) - 1
      /\ \A k \in 1 .. i - 1 : u[k] = ids[k]
      /\ \A k \in i .. Len(ids) - 1 : u[k] = ids[k + 1]
  BY <1>1, RemoveAtHas
<1> HIDE DEF t, u
<1>5. /\ Ids(t) \in Seq(Rooms) /\ Len(Ids(t)) = Len(t)
      /\ \A k \in 1 .. Len(t) : Ids(t)[k] = t[k].id
  BY <1>3, IdsHave
<1>6. \A k \in 1 .. Len(rooms) - 1 : t[k].id = u[k]
  <2> SUFFICES ASSUME NEW k \in 1 .. Len(rooms) - 1 PROVE t[k].id = u[k]
    OBVIOUS
  <2>1. CASE k < i
    BY <2>1, <1>1, <1>2, <1>3, <1>4
  <2>2. CASE k >= i
    <3>1. k \in i .. Len(rooms) - 1 /\ k + 1 \in 1 .. Len(rooms)
      BY <2>2, <1>1, <1>2
    <3>2. t[k] = rooms[k + 1] /\ u[k] = ids[k + 1]
      BY <3>1, <1>1, <1>3, <1>4
    <3> QED BY <3>1, <3>2, <1>1
  <2> QED BY <2>1, <2>2, <1>2
<1>7. Ids(t) = u
  BY <1>1, <1>3, <1>4, <1>5, <1>6, SeqsEqual
<1> QED BY <1>3, <1>7 DEF Has, t, u

LEMMA HasSet ==
  ASSUME NEW known \in SUBSET Summaries, NEW rooms, NEW ids, Has(rooms, known, ids),
         NEW x \in known, NEW i \in 1 .. Len(ids), ids[i] = x.id
  PROVE  Has([rooms EXCEPT ![i] = x], known, ids)
<1>1. /\ rooms \in Seq(known) /\ ids \in Seq(Rooms) /\ Len(ids) = Len(rooms) /\ Len(rooms) \in Nat
      /\ \A k \in 1 .. Len(rooms) : ids[k] = rooms[k].id
  BY IdsHave DEF Has
<1> DEFINE t == [rooms EXCEPT ![i] = x]
<1>3. /\ t \in Seq(known) /\ Len(t) = Len(rooms)
      /\ \A k \in 1 .. Len(rooms) : t[k] = IF k = i THEN x ELSE rooms[k]
  BY <1>1
<1> HIDE DEF t
<1>5. /\ Ids(t) \in Seq(Rooms) /\ Len(Ids(t)) = Len(t)
      /\ \A k \in 1 .. Len(t) : Ids(t)[k] = t[k].id
  BY <1>3, IdsHave
<1>6. \A k \in 1 .. Len(rooms) : t[k].id = ids[k]
  BY <1>1, <1>3
<1>7. Ids(t) = ids
  BY <1>1, <1>3, <1>5, <1>6, SeqsEqual
<1> QED BY <1>3, <1>7 DEF Has, t

LEMMA HasConcat ==
  ASSUME NEW known \in SUBSET Summaries, NEW rooms, NEW ids, Has(rooms, known, ids),
         NEW more, NEW jds, Has(more, known, jds)
  PROVE  Has(rooms \o more, known, ids \o jds)
<1>1. /\ rooms \in Seq(known) /\ ids \in Seq(Rooms) /\ Len(ids) = Len(rooms) /\ Len(rooms) \in Nat
      /\ \A k \in 1 .. Len(rooms) : ids[k] = rooms[k].id
  BY IdsHave DEF Has
<1>2. /\ more \in Seq(known) /\ jds \in Seq(Rooms) /\ Len(jds) = Len(more) /\ Len(more) \in Nat
      /\ \A k \in 1 .. Len(more) : jds[k] = more[k].id
  BY IdsHave DEF Has
<1> DEFINE t == rooms \o more
           u == ids \o jds
<1>3. /\ t \in Seq(known) /\ Len(t) = Len(rooms) + Len(more)
      /\ \A k \in 1 .. Len(rooms) : t[k] = rooms[k]
      /\ \A k \in 1 .. Len(more) : t[Len(rooms) + k] = more[k]
  BY <1>1, <1>2, ConcatIs
<1>4. /\ u \in Seq(Rooms) /\ Len(u) = Len(ids) + Len(jds)
      /\ \A k \in 1 .. Len(ids) : u[k] = ids[k]
      /\ \A k \in 1 .. Len(jds) : u[Len(ids) + k] = jds[k]
  <2>1. ids \in Seq(Rooms) /\ jds \in Seq(Rooms)
    BY <1>1, <1>2
  <2> QED BY <2>1, ConcatIs
<1> HIDE DEF t, u
<1>5. /\ Ids(t) \in Seq(Rooms) /\ Len(Ids(t)) = Len(t)
      /\ \A k \in 1 .. Len(t) : Ids(t)[k] = t[k].id
  BY <1>3, IdsHave
<1>6. \A k \in 1 .. Len(t) : t[k].id = u[k]
  <2> SUFFICES ASSUME NEW k \in 1 .. Len(t) PROVE t[k].id = u[k]
    OBVIOUS
  <2>1. CASE k <= Len(rooms)
    BY <2>1, <1>1, <1>3, <1>4
  <2>2. CASE k > Len(rooms)
    <3>1. k - Len(rooms) \in 1 .. Len(more) /\ Len(rooms) + (k - Len(rooms)) = k
      BY <2>2, <1>1, <1>2, <1>3
    <3>2. /\ t[Len(rooms) + (k - Len(rooms))] = more[k - Len(rooms)]
          /\ u[Len(rooms) + (k - Len(rooms))] = jds[k - Len(rooms)]
      BY <3>1, <1>1, <1>2, <1>3, <1>4
    <3> QED BY <3>1, <3>2, <1>2
  <2> QED BY <2>1, <2>2, <1>1, <1>3
<1>7. Ids(t) = u
  BY <1>1, <1>2, <1>3, <1>4, <1>5, <1>6, SeqsEqual
<1> QED BY <1>3, <1>7 DEF Has, t, u

-----------------------------------------------------------------------------
(* RoomList: what one diff does to a list of summaries.                      *)

\* What a list needs to know of a room is what the SDK knows of it now.
KnownNow(known) == known \in SUBSET Summaries /\ \A q \in Rooms : Summarize(q) \in known

LEMMA SummarizeAllHas ==
  ASSUME NEW known, KnownNow(known), NEW ids \in Seq(Rooms)
  PROVE  SummarizeAll(ids) \in Seq(Summaries) /\ Has(SummarizeAll(ids), known, ids)
<1>1. /\ DOMAIN ids = 1 .. Len(ids) /\ Len(ids) \in Nat
      /\ \A k \in 1 .. Len(ids) : ids[k] \in Rooms
  OBVIOUS
<1>2. \A k \in 1 .. Len(ids) : Summarize(ids[k]) \in known /\ Summarize(ids[k]).id = ids[k]
  BY <1>1 DEF KnownNow, Summarize
<1> DEFINE s == SummarizeAll(ids)
<1>3. s = [k \in 1 .. Len(ids) |-> Summarize(ids[k])]
  BY <1>1 DEF SummarizeAll
<1> HIDE DEF s
<1>4. s \in Seq(known) /\ Len(s) = Len(ids) /\ \A k \in 1 .. Len(ids) : s[k].id = ids[k]
  BY <1>1, <1>2, <1>3
<1>5. known \in SUBSET Summaries
  BY DEF KnownNow
<1>6. s \in Seq(Summaries)
  BY <1>1, <1>2, <1>3, <1>5
<1>7. Ids(s) \in Seq(Rooms) /\ Len(Ids(s)) = Len(s) /\ \A k \in 1 .. Len(s) : Ids(s)[k] = s[k].id
  BY <1>4, <1>5, IdsHave
<1>8. Ids(s) = ids
  BY <1>4, <1>7, SeqsEqual
<1> QED BY <1>4, <1>6, <1>8 DEF s, Has

LEMMA SummarizeOne ==
  ASSUME NEW r \in Rooms
  PROVE  SummarizeAll(<<r>>) = <<Summarize(r)>> /\ Summarize(r).id = r
<1>1. DOMAIN <<r>> = 1 .. 1 /\ <<r>>[1] = r
  OBVIOUS
<1>2. SummarizeAll(<<r>>) = [k \in 1 .. 1 |-> Summarize(r)]
  BY <1>1 DEF SummarizeAll
<1>3. <<Summarize(r)>> = [k \in 1 .. 1 |-> Summarize(r)]
  OBVIOUS
<1> QED BY <1>2, <1>3 DEF Summarize

LEMMA MapRoomDiffIs ==
  ASSUME NEW known, KnownNow(known), NEW op \in Ops, NEW at \in Int, NEW ids \in Seq(Rooms)
  PROVE  /\ MapRoomDiff(Diff(op, at, ids)) = Diff(op, at, SummarizeAll(ids))
         /\ MapRoomDiff(Diff(op, at, ids)) \in RoomDiffs
<1>1. SummarizeAll(ids) \in Seq(Summaries)
  BY SummarizeAllHas
<1> QED BY <1>1 DEF MapRoomDiff, Diff, RoomDiffs

LEMMA Values ==
  ASSUME NEW r \in Rooms
  PROVE  <<r>> \in Seq(Rooms) /\ <<>> \in Seq(Rooms)
OBVIOUS

\* A diff of a room that goes takes the room off its place.
LEMMA LeavesDo ==
  ASSUME NEW known, KnownNow(known), NEW rooms, NEW from, Has(rooms, known, from),
         NEW r \in Rooms, Position(from, r) \in 1 .. Len(from), NEW g \in Leaves(from, r)
  PROVE  /\ MapRoomDiff(g) \in RoomDiffs
         /\ Has(ApplyDiff(rooms, MapRoomDiff(g)), known, RemoveAt(from, Position(from, r)))
<1> DEFINE p == Position(from, r)
<1>0. /\ rooms \in Seq(known) /\ from \in Seq(Rooms) /\ Len(from) = Len(rooms)
      /\ Len(rooms) \in Nat /\ <<>> \in Seq(Rooms)
  BY IdsHave DEF Has, KnownNow
<1>1. /\ p \in 1 .. Len(rooms)
      /\ \/ g = Diff("remove", p - 1, <<>>)
         \/ p = 1 /\ g = Diff("popFront", 0, <<>>)
         \/ p = Len(rooms) /\ g = Diff("popBack", 0, <<>>)
  BY <1>0 DEF Leaves
<1>2. known \in SUBSET Summaries /\ p \in 1 .. Len(from)
  BY DEF KnownNow
<1> HIDE DEF p
<1>3. Has(RemoveAt(rooms, p), known, RemoveAt(from, p))
  BY <1>2, HasRemove
<1>4. rooms # <<>>
  BY <1>0, <1>1
<1>5. Tail(rooms) = RemoveAt(rooms, 1) /\ Front(rooms) = RemoveAt(rooms, Len(rooms))
  BY <1>0, <1>4, EndsAre
<1>6. CASE g = Diff("remove", p - 1, <<>>)
  <2>1. "remove" \in Ops /\ p - 1 \in Int /\ (p - 1) + 1 = p
    BY <1>1, <1>0 DEF Ops
  <2>2. MapRoomDiff(g) = Diff("remove", p - 1, SummarizeAll(<<>>)) /\ MapRoomDiff(g) \in RoomDiffs
    BY <1>0, <1>6, <2>1, MapRoomDiffIs
  <2>3. ApplyDiff(rooms, MapRoomDiff(g)) = RemoveAt(rooms, p)
    BY <2>1, <2>2 DEF ApplyDiff, Diff
  <2> QED BY <2>2, <2>3, <1>3 DEF p
<1>7. CASE p = 1 /\ g = Diff("popFront", 0, <<>>)
  <2>1. "popFront" \in Ops /\ 0 \in Int
    BY DEF Ops
  <2>2. MapRoomDiff(g) = Diff("popFront", 0, SummarizeAll(<<>>)) /\ MapRoomDiff(g) \in RoomDiffs
    BY <1>0, <1>7, <2>1, MapRoomDiffIs
  <2>3. ApplyDiff(rooms, MapRoomDiff(g)) = Tail(rooms)
    BY <2>2 DEF ApplyDiff, Diff
  <2> QED BY <2>2, <2>3, <1>3, <1>5, <1>7 DEF p
<1>8. CASE p = Len(rooms) /\ g = Diff("popBack", 0, <<>>)
  <2>1. "popBack" \in Ops /\ 0 \in Int
    BY DEF Ops
  <2>2. MapRoomDiff(g) = Diff("popBack", 0, SummarizeAll(<<>>)) /\ MapRoomDiff(g) \in RoomDiffs
    BY <1>0, <1>8, <2>1, MapRoomDiffIs
  <2>3. ApplyDiff(rooms, MapRoomDiff(g)) = Front(rooms)
    BY <2>2 DEF ApplyDiff, Diff
  <2> QED BY <2>2, <2>3, <1>3, <1>5, <1>8 DEF p
<1> QED BY <1>1, <1>6, <1>7, <1>8

\* A diff of a room that comes puts it where the list has it.
LEMMA EntersDo ==
  ASSUME NEW known, KnownNow(known), NEW rooms, NEW ids, Has(rooms, known, ids),
         NEW r \in Rooms, NEW to, Len(to) = Len(ids) + 1, Position(to, r) \in 1 .. Len(ids) + 1,
         NEW c \in Enters(to, r)
  PROVE  /\ MapRoomDiff(c) \in RoomDiffs
         /\ Has(ApplyDiff(rooms, MapRoomDiff(c)), known, InsertAt(ids, Position(to, r), r))
<1> DEFINE q == Position(to, r)
           x == Summarize(r)
<1>0. /\ rooms \in Seq(known) /\ ids \in Seq(Rooms) /\ Len(ids) = Len(rooms)
      /\ Len(rooms) \in Nat /\ <<r>> \in Seq(Rooms) /\ SummarizeAll(<<r>>) = <<x>>
      /\ x \in known /\ x.id = r /\ known \in SUBSET Summaries
  BY IdsHave, SummarizeOne DEF Has, KnownNow
<1>1. /\ q \in 1 .. Len(rooms) + 1
      /\ \/ c = Diff("insert", q - 1, <<r>>)
         \/ q = 1 /\ c = Diff("pushFront", 0, <<r>>)
         \/ q = Len(rooms) + 1 /\ c = Diff("pushBack", 0, <<r>>)
  BY <1>0 DEF Enters
<1>2. q \in 1 .. Len(ids) + 1
  OBVIOUS
<1> HIDE DEF q, x
<1>3. Has(InsertAt(rooms, q, x), known, InsertAt(ids, q, r))
  BY <1>0, <1>2, HasInsert
<1>5. <<x>> \o rooms = InsertAt(rooms, 1, x) /\ rooms \o <<x>> = InsertAt(rooms, Len(rooms) + 1, x)
  BY <1>0, EndsAre
<1>6. CASE c = Diff("insert", q - 1, <<r>>)
  <2>1. "insert" \in Ops /\ q - 1 \in Int /\ (q - 1) + 1 = q /\ <<x>>[1] = x
    BY <1>1, <1>0 DEF Ops
  <2>2. MapRoomDiff(c) = Diff("insert", q - 1, <<x>>) /\ MapRoomDiff(c) \in RoomDiffs
    BY <1>0, <1>6, <2>1, MapRoomDiffIs
  <2>3. ApplyDiff(rooms, MapRoomDiff(c)) = InsertAt(rooms, q, x)
    BY <2>1, <2>2 DEF ApplyDiff, Diff
  <2> QED BY <2>2, <2>3, <1>3 DEF q
<1>7. CASE q = 1 /\ c = Diff("pushFront", 0, <<r>>)
  <2>1. "pushFront" \in Ops /\ 0 \in Int
    BY DEF Ops
  <2>2. MapRoomDiff(c) = Diff("pushFront", 0, <<x>>) /\ MapRoomDiff(c) \in RoomDiffs
    BY <1>0, <1>7, <2>1, MapRoomDiffIs
  <2>3. ApplyDiff(rooms, MapRoomDiff(c)) = <<x>> \o rooms
    BY <2>2 DEF ApplyDiff, Diff
  <2> QED BY <2>2, <2>3, <1>3, <1>5, <1>7 DEF q
<1>8. CASE q = Len(rooms) + 1 /\ c = Diff("pushBack", 0, <<r>>)
  <2>1. "pushBack" \in Ops /\ 0 \in Int
    BY DEF Ops
  <2>2. MapRoomDiff(c) = Diff("pushBack", 0, <<x>>) /\ MapRoomDiff(c) \in RoomDiffs
    BY <1>0, <1>8, <2>1, MapRoomDiffIs
  <2>3. ApplyDiff(rooms, MapRoomDiff(c)) = rooms \o <<x>>
    BY <2>2 DEF ApplyDiff, Diff
  <2> QED BY <2>2, <2>3, <1>3, <1>5, <1>8 DEF q
<1> QED BY <1>1, <1>6, <1>7, <1>8

\* At the end of a window: the next room comes, the last one goes.
LEMMA PushBackDoes ==
  ASSUME NEW known, KnownNow(known), NEW rooms, NEW ids, Has(rooms, known, ids), NEW z \in Rooms
  PROVE  /\ MapRoomDiff(Diff("pushBack", 0, <<z>>)) \in RoomDiffs
         /\ Has(ApplyDiff(rooms, MapRoomDiff(Diff("pushBack", 0, <<z>>))), known, ids \o <<z>>)
<1> DEFINE d == MapRoomDiff(Diff("pushBack", 0, <<z>>))
<1>1. "pushBack" \in Ops /\ 0 \in Int /\ <<z>> \in Seq(Rooms) /\ known \in SUBSET Summaries
  BY DEF Ops, KnownNow
<1>2. d = Diff("pushBack", 0, SummarizeAll(<<z>>)) /\ d \in RoomDiffs
  BY <1>1, MapRoomDiffIs
<1> HIDE DEF d
<1>3. ApplyDiff(rooms, d) = rooms \o SummarizeAll(<<z>>)
  BY <1>2 DEF ApplyDiff, Diff
<1>4. Has(SummarizeAll(<<z>>), known, <<z>>)
  BY <1>1, SummarizeAllHas
<1> QED BY <1>1, <1>2, <1>3, <1>4, HasConcat DEF d

LEMMA PopBackDoes ==
  ASSUME NEW known, KnownNow(known), NEW rooms, NEW ids, Has(rooms, known, ids), ids # <<>>
  PROVE  /\ MapRoomDiff(Diff("popBack", 0, <<>>)) \in RoomDiffs
         /\ Has(ApplyDiff(rooms, MapRoomDiff(Diff("popBack", 0, <<>>))), known,
                RemoveAt(ids, Len(ids)))
<1> DEFINE d == MapRoomDiff(Diff("popBack", 0, <<>>))
<1>0. /\ rooms \in Seq(known) /\ ids \in Seq(Rooms) /\ Len(ids) = Len(rooms)
      /\ Len(ids) \in 1 .. Len(ids) /\ known \in SUBSET Summaries
  BY IdsHave DEF Has, KnownNow
<1>1. "popBack" \in Ops /\ 0 \in Int /\ <<>> \in Seq(Rooms)
  BY DEF Ops
<1>2. d = Diff("popBack", 0, SummarizeAll(<<>>)) /\ d \in RoomDiffs
  BY <1>1, MapRoomDiffIs
<1> HIDE DEF d
<1>3. ApplyDiff(rooms, d) = Front(rooms)
  BY <1>2 DEF ApplyDiff, Diff
<1>4. Front(rooms) = RemoveAt(rooms, Len(rooms))
  <2>1. rooms # <<>>
    BY <1>0
  <2> QED BY <1>0, <2>1, EndsAre
<1>5. Has(RemoveAt(rooms, Len(ids)), known, RemoveAt(ids, Len(ids)))
  BY <1>0, HasRemove
<1> QED BY <1>0, <1>2, <1>3, <1>4, <1>5 DEF d

LEMMA SetDoes ==
  ASSUME NEW known, KnownNow(known), NEW rooms, NEW ids, Has(rooms, known, ids),
         NEW r \in Rooms, NEW i \in 1 .. Len(ids), ids[i] = r
  PROVE  /\ MapRoomDiff(Diff("set", i - 1, <<r>>)) \in RoomDiffs
         /\ Has(ApplyDiff(rooms, MapRoomDiff(Diff("set", i - 1, <<r>>))), known, ids)
<1> DEFINE d == MapRoomDiff(Diff("set", i - 1, <<r>>))
           x == Summarize(r)
<1>0. /\ <<r>> \in Seq(Rooms) /\ SummarizeAll(<<r>>) = <<x>>
      /\ x \in known /\ x.id = r /\ known \in SUBSET Summaries /\ <<x>>[1] = x
  BY SummarizeOne DEF KnownNow
<1>1. "set" \in Ops /\ i - 1 \in Int /\ (i - 1) + 1 = i
  <2>1. Len(ids) \in Nat
    BY <1>0, IdsHave DEF Has
  <2> QED BY <2>1 DEF Ops
<1> HIDE DEF x
<1>2. d = Diff("set", i - 1, <<x>>) /\ d \in RoomDiffs
  BY <1>0, <1>1, MapRoomDiffIs
<1> HIDE DEF d
<1>3. ApplyDiff(rooms, d) = [rooms EXCEPT ![i] = x]
  BY <1>0, <1>1, <1>2 DEF ApplyDiff, Diff
<1>4. Has([rooms EXCEPT ![i] = x], known, ids)
  BY <1>0, HasSet
<1> QED BY <1>2, <1>3, <1>4 DEF d

-----------------------------------------------------------------------------
(* RoomList: sequences without repetition, and their first elements.         *)

LEMMA InjectiveIs ==
  ASSUME NEW s \in Seq(Rooms)
  PROVE  IsInjective(s) <=> \A a, b \in 1 .. Len(s) : s[a] = s[b] => a = b
BY DEF IsInjective

LEMMA FirstOfIs ==
  ASSUME NEW s \in Seq(Rooms), NEW n \in Nat
  PROVE  /\ FirstOf(s, n) \in Seq(Rooms)
         /\ Len(FirstOf(s, n)) = IF n < Len(s) THEN n ELSE Len(s)
         /\ \A k \in 1 .. Len(FirstOf(s, n)) : FirstOf(s, n)[k] = s[k]
<1> DEFINE f == FirstOf(s, n)
<1>1. /\ f \in Seq(Rooms)
      /\ n < Len(s) => Len(f) = n
      /\ n >= Len(s) => f = s
      /\ \A k \in 1 .. Len(f) : f[k] = s[k]
  BY FirstOfHas
<1>2. Len(s) \in Nat
  OBVIOUS
<1> HIDE DEF f
<1>3. Len(f) = IF n < Len(s) THEN n ELSE Len(s)
  BY <1>1, <1>2
<1> QED BY <1>1, <1>3 DEF f

\* The first n of a list: a room further down does not count, one that goes
\* makes place for the next.
LEMMA FirstOfRemove ==
  ASSUME NEW s \in Seq(Rooms), NEW p \in 1 .. Len(s), NEW n \in Nat
  PROVE  /\ p > n => FirstOf(RemoveAt(s, p), n) = FirstOf(s, n)
         /\ p <= n + 1 => FirstOf(RemoveAt(s, p), n) = RemoveAt(FirstOf(s, n + 1), p)
<1> DEFINE u == RemoveAt(s, p)
           f == FirstOf(s, n)
           g == FirstOf(s, n + 1)
           h == FirstOf(u, n)
<1>0. Len(s) \in Nat /\ p \in Nat
  OBVIOUS
<1>1. /\ u \in Seq(Rooms) /\ Len(u) = Len(s) - 1
      /\ \A k \in 1 .. p - 1 : u[k] = s[k]
      /\ \A k \in p .. Len(s) - 1 : u[k] = s[k + 1]
  BY RemoveAtHas
<1>2. /\ f \in Seq(Rooms) /\ Len(f) = IF n < Len(s) THEN n ELSE Len(s)
      /\ \A k \in 1 .. Len(f) : f[k] = s[k]
  BY <1>0, FirstOfIs
<1>3. /\ g \in Seq(Rooms) /\ Len(g) = IF n + 1 < Len(s) THEN n + 1 ELSE Len(s)
      /\ \A k \in 1 .. Len(g) : g[k] = s[k]
  <2>1. n + 1 \in Nat
    OBVIOUS
  <2> QED BY <1>0, <2>1, FirstOfIs
<1> HIDE DEF u, f, g
<1>4. /\ h \in Seq(Rooms) /\ Len(h) = IF n < Len(u) THEN n ELSE Len(u)
      /\ \A k \in 1 .. Len(h) : h[k] = u[k]
  BY <1>0, <1>1, FirstOfIs
<1> HIDE DEF h
<1>5. ASSUME p > n PROVE h = f
  <2>1. Len(h) = Len(f) /\ Len(f) \in Nat /\ Len(f) <= p - 1
    BY <1>0, <1>1, <1>2, <1>4, <1>5
  <2>2. \A k \in 1 .. Len(h) : h[k] = f[k]
    BY <1>0, <1>1, <1>2, <1>4, <2>1
  <2> QED BY <1>2, <1>4, <2>1, <2>2, SeqsEqual
<1>6. ASSUME p <= n + 1 PROVE h = RemoveAt(g, p)
  <2>1. p \in 1 .. Len(g)
    BY <1>0, <1>3, <1>6
  <2>2. /\ RemoveAt(g, p) \in Seq(Rooms) /\ Len(RemoveAt(g, p)) = Len(g) - 1
        /\ \A k \in 1 .. p - 1 : RemoveAt(g, p)[k] = g[k]
        /\ \A k \in p .. Len(g) - 1 : RemoveAt(g, p)[k] = g[k + 1]
    BY <1>3, <2>1, RemoveAtHas
  <2>3. Len(h) = Len(g) - 1 /\ Len(g) \in Nat /\ Len(g) <= Len(s) /\ Len(u) = Len(s) - 1
    BY <1>0, <1>1, <1>3, <1>4, <1>6
  <2>4. \A k \in 1 .. Len(h) : h[k] = RemoveAt(g, p)[k]
    <3> SUFFICES ASSUME NEW k \in 1 .. Len(h) PROVE h[k] = RemoveAt(g, p)[k]
      OBVIOUS
    <3>1. h[k] = u[k]
      BY <1>4
    <3>2. CASE k < p
      <4>1. k \in 1 .. p - 1 /\ k \in 1 .. Len(g)
        BY <3>2, <2>3, <1>0
      <4> QED BY <4>1, <3>1, <2>2, <1>1, <1>3
    <3>3. CASE k >= p
      <4>1. k \in p .. Len(g) - 1 /\ k \in p .. Len(s) - 1 /\ k + 1 \in 1 .. Len(g)
        BY <3>3, <2>3, <1>0
      <4> QED BY <4>1, <3>1, <2>2, <1>1, <1>3
    <3> QED BY <3>2, <3>3, <1>0, <2>3
  <2> QED BY <1>4, <2>2, <2>3, <2>4, SeqsEqual
<1> QED BY <1>5, <1>6 DEF f, g, h, u

LEMMA FirstOfInsert ==
  ASSUME NEW s \in Seq(Rooms), NEW r \in Rooms, NEW q \in 1 .. Len(s) + 1, NEW n \in Nat
  PROVE  /\ q > n => FirstOf(InsertAt(s, q, r), n) = FirstOf(s, n)
         /\ q <= n => FirstOf(InsertAt(s, q, r), n) = InsertAt(FirstOf(s, n - 1), q, r)
<1> DEFINE u == InsertAt(s, q, r)
           f == FirstOf(s, n)
           g == FirstOf(s, n - 1)
           h == FirstOf(u, n)
<1>0. Len(s) \in Nat /\ q \in Nat
  OBVIOUS
<1>1. /\ u \in Seq(Rooms) /\ Len(u) = Len(s) + 1 /\ u[q] = r
      /\ \A k \in 1 .. q - 1 : u[k] = s[k]
      /\ \A k \in q .. Len(s) : u[k + 1] = s[k]
  BY InsertAtHas
<1>2. /\ f \in Seq(Rooms) /\ Len(f) = IF n < Len(s) THEN n ELSE Len(s)
      /\ \A k \in 1 .. Len(f) : f[k] = s[k]
  BY <1>0, FirstOfIs
<1>3. ASSUME q <= n
      PROVE /\ g \in Seq(Rooms) /\ Len(g) = IF n - 1 < Len(s) THEN n - 1 ELSE Len(s)
            /\ \A k \in 1 .. Len(g) : g[k] = s[k]
  <2>1. n - 1 \in Nat
    BY <1>3
  <2> QED BY <1>0, <2>1, FirstOfIs
<1> HIDE DEF u, f, g
<1>4. /\ h \in Seq(Rooms) /\ Len(h) = IF n < Len(u) THEN n ELSE Len(u)
      /\ \A k \in 1 .. Len(h) : h[k] = u[k]
  BY <1>0, <1>1, FirstOfIs
<1> HIDE DEF h
<1>5. ASSUME q > n PROVE h = f
  <2>1. Len(h) = Len(f) /\ Len(f) \in Nat /\ Len(f) <= q - 1
    BY <1>0, <1>1, <1>2, <1>4, <1>5
  <2>2. \A k \in 1 .. Len(h) : h[k] = f[k]
    BY <1>0, <1>1, <1>2, <1>4, <2>1
  <2> QED BY <1>2, <1>4, <2>1, <2>2, SeqsEqual
<1>6. ASSUME q <= n PROVE h = InsertAt(g, q, r)
  <2>0. /\ g \in Seq(Rooms) /\ Len(g) = IF n - 1 < Len(s) THEN n - 1 ELSE Len(s)
        /\ \A k \in 1 .. Len(g) : g[k] = s[k]
    BY <1>3, <1>6
  <2>1. q \in 1 .. Len(g) + 1
    BY <1>0, <2>0, <1>6
  <2>2. /\ InsertAt(g, q, r) \in Seq(Rooms) /\ Len(InsertAt(g, q, r)) = Len(g) + 1
        /\ InsertAt(g, q, r)[q] = r
        /\ \A k \in 1 .. q - 1 : InsertAt(g, q, r)[k] = g[k]
        /\ \A k \in q .. Len(g) : InsertAt(g, q, r)[k + 1] = g[k]
    <3>1. g \in Seq(Rooms)
      BY <2>0
    <3>2. InsertAt(g, q, r) \in Seq(Rooms) /\ Len(InsertAt(g, q, r)) = Len(g) + 1
      BY <3>1, <2>1, InsertAtHas
    <3>3. InsertAt(g, q, r)[q] = r
      BY <3>1, <2>1, InsertAtHas
    <3>4. \A k \in 1 .. q - 1 : InsertAt(g, q, r)[k] = g[k]
      BY <3>1, <2>1, InsertAtHas
    <3>5. \A k \in q .. Len(g) : InsertAt(g, q, r)[k + 1] = g[k]
      BY <3>1, <2>1, InsertAtHas
    <3> QED BY <3>2, <3>3, <3>4, <3>5
  <2>3. Len(h) = Len(g) + 1 /\ Len(g) \in Nat /\ Len(g) <= Len(s)
    BY <1>0, <1>1, <2>0, <1>4, <1>6
  <2>4. \A k \in 1 .. Len(h) : h[k] = InsertAt(g, q, r)[k]
    <3> SUFFICES ASSUME NEW k \in 1 .. Len(h) PROVE h[k] = InsertAt(g, q, r)[k]
      OBVIOUS
    <3>1. h[k] = u[k]
      BY <1>4
    <3>2. CASE k < q
      <4>1. k \in 1 .. q - 1 /\ k \in 1 .. Len(g)
        BY <3>2, <2>1, <2>3, <1>0
      <4> QED BY <4>1, <3>1, <2>0, <2>2, <1>1
    <3>3. CASE k = q
      BY <3>3, <3>1, <2>2, <1>1
    <3>4. CASE k > q
      <4>1. k - 1 \in q .. Len(g) /\ k - 1 \in q .. Len(s) /\ k - 1 \in 1 .. Len(g) /\ (k - 1) + 1 = k
        BY <3>4, <2>3, <1>0
      <4>2. u[(k - 1) + 1] = s[k - 1] /\ InsertAt(g, q, r)[(k - 1) + 1] = g[k - 1]
        BY <4>1, <2>2, <1>1
      <4> QED BY <4>1, <4>2, <3>1, <2>0
    <3> QED BY <3>2, <3>3, <3>4, <1>0, <2>3
  <2> QED BY <1>4, <2>2, <2>3, <2>4, SeqsEqual
<1> QED BY <1>5, <1>6 DEF f, g, h, u

\* One less of a list that is long enough is the list without its last.
LEMMA FirstOfLess ==
  ASSUME NEW s \in Seq(Rooms), NEW n \in 1 .. Len(s)
  PROVE  FirstOf(s, n - 1) = RemoveAt(FirstOf(s, n), n) /\ Len(FirstOf(s, n)) = n
<1> DEFINE f == FirstOf(s, n)
           g == FirstOf(s, n - 1)
<1>0. Len(s) \in Nat /\ n \in Nat /\ n - 1 \in Nat
  OBVIOUS
<1>1. /\ f \in Seq(Rooms) /\ Len(f) = IF n < Len(s) THEN n ELSE Len(s)
      /\ \A k \in 1 .. Len(f) : f[k] = s[k]
  BY <1>0, FirstOfIs
<1>2. /\ g \in Seq(Rooms) /\ Len(g) = IF n - 1 < Len(s) THEN n - 1 ELSE Len(s)
      /\ \A k \in 1 .. Len(g) : g[k] = s[k]
  BY <1>0, FirstOfIs
<1> HIDE DEF f, g
<1>a. Len(f) = n /\ Len(g) = n - 1
  BY <1>0, <1>1, <1>2
<1>3. /\ RemoveAt(f, n) \in Seq(Rooms) /\ Len(RemoveAt(f, n)) = n - 1
      /\ \A k \in 1 .. n - 1 : RemoveAt(f, n)[k] = f[k]
  <2>1. n \in 1 .. Len(f)
    BY <1>a
  <2> QED BY <1>1, <1>a, <2>1, RemoveAtHas
<1>4. \A k \in 1 .. n - 1 : g[k] = RemoveAt(f, n)[k]
  BY <1>0, <1>1, <1>2, <1>3, <1>a
<1> QED BY <1>a, <1>1, <1>2, <1>3, <1>4, SeqsEqual DEF f, g

\* One more of a list, without one of the first: these and the next.
LEMMA FirstOfNext ==
  ASSUME NEW s \in Seq(Rooms), NEW n \in Nat, n < Len(s), NEW p \in 1 .. n
  PROVE  RemoveAt(FirstOf(s, n + 1), p) = RemoveAt(FirstOf(s, n), p) \o <<s[n + 1]>>
<1> DEFINE f == FirstOf(s, n)
           g == FirstOf(s, n + 1)
           x == s[n + 1]
<1>0. Len(s) \in Nat /\ n + 1 \in Nat /\ x \in Rooms /\ n + 1 <= Len(s)
  OBVIOUS
<1>1. f \in Seq(Rooms) /\ Len(f) = n /\ \A k \in 1 .. Len(f) : f[k] = s[k]
  <2>1. /\ f \in Seq(Rooms) /\ Len(f) = IF n < Len(s) THEN n ELSE Len(s)
        /\ \A k \in 1 .. Len(f) : f[k] = s[k]
    BY <1>0, FirstOfIs
  <2> HIDE DEF f
  <2>2. Len(f) = n
    BY <1>0, <2>1
  <2> QED BY <2>1, <2>2
<1>2. g \in Seq(Rooms) /\ Len(g) = n + 1 /\ \A k \in 1 .. n + 1 : g[k] = s[k]
  <2>1. /\ g \in Seq(Rooms) /\ Len(g) = IF n + 1 < Len(s) THEN n + 1 ELSE Len(s)
        /\ \A k \in 1 .. Len(g) : g[k] = s[k]
    BY <1>0, FirstOfIs
  <2> HIDE DEF g
  <2>2. Len(g) = n + 1
    BY <1>0, <2>1
  <2> QED BY <2>1, <2>2
<1>3. g[n + 1] = x
  BY <1>2
<1> HIDE DEF f, g, x
<1>4. /\ RemoveAt(f, p) \in Seq(Rooms) /\ Len(RemoveAt(f, p)) = n - 1
      /\ \A k \in 1 .. p - 1 : RemoveAt(f, p)[k] = f[k]
      /\ \A k \in p .. n - 1 : RemoveAt(f, p)[k] = f[k + 1]
  <2>1. p \in 1 .. Len(f)
    BY <1>1
  <2> QED BY <1>1, <2>1, RemoveAtHas
<1>5. /\ RemoveAt(g, p) \in Seq(Rooms) /\ Len(RemoveAt(g, p)) = n
      /\ \A k \in 1 .. p - 1 : RemoveAt(g, p)[k] = g[k]
      /\ \A k \in p .. n : RemoveAt(g, p)[k] = g[k + 1]
  <2>1. p \in 1 .. Len(g) /\ Len(g) - 1 = n
    BY <1>2
  <2> QED BY <1>2, <2>1, RemoveAtHas
<1> DEFINE a == RemoveAt(f, p) \o <<x>>
<1>6. /\ a \in Seq(Rooms) /\ Len(a) = n /\ \A k \in 1 .. n - 1 : a[k] = RemoveAt(f, p)[k]
      /\ a[n] = x
  <2> DEFINE b == RemoveAt(f, p)
             c == <<x>>
  <2>1. c \in Seq(Rooms) /\ Len(c) = 1 /\ c[1] = x /\ (n - 1) + 1 = n /\ 1 \in 1 .. 1
    BY <1>0
  <2>2. b \in Seq(Rooms) /\ Len(b) = n - 1
    BY <1>4
  <2> HIDE DEF b, c
  <2>3. /\ b \o c \in Seq(Rooms) /\ Len(b \o c) = Len(b) + Len(c)
        /\ \A k \in 1 .. Len(b) : (b \o c)[k] = b[k]
        /\ \A k \in 1 .. Len(c) : (b \o c)[Len(b) + k] = c[k]
    <3>1. b \in Seq(Rooms) /\ c \in Seq(Rooms)
      BY <2>1, <2>2
    <3> QED BY <3>1, ConcatIs
  <2>4. (b \o c)[n] = x
    BY <2>1, <2>2, <2>3
  <2> QED BY <2>1, <2>2, <2>3, <2>4 DEF b, c
<1> HIDE DEF a
<1>7. \A k \in 1 .. n : RemoveAt(g, p)[k] = a[k]
  <2> SUFFICES ASSUME NEW k \in 1 .. n PROVE RemoveAt(g, p)[k] = a[k]
    OBVIOUS
  <2>1. CASE k = n
    <3>1. k \in p .. n
      BY <2>1
    <3> QED BY <3>1, <2>1, <1>3, <1>5, <1>6
  <2>2. CASE k < p
    <3>1. k \in 1 .. p - 1 /\ k \in 1 .. n - 1 /\ k \in 1 .. n + 1 /\ k \in 1 .. Len(f)
      BY <2>2, <1>1
    <3> QED BY <3>1, <1>1, <1>2, <1>4, <1>5, <1>6
  <2>3. CASE k >= p /\ k < n
    <3>1. /\ k \in p .. n /\ k \in p .. n - 1 /\ k \in 1 .. n - 1 /\ k + 1 \in 1 .. n + 1
          /\ k + 1 \in 1 .. Len(f)
      BY <2>3, <1>1
    <3>2. RemoveAt(g, p)[k] = s[k + 1]
      BY <3>1, <1>2, <1>5
    <3>3. a[k] = s[k + 1]
      BY <3>1, <1>1, <1>4, <1>6
    <3> QED BY <3>2, <3>3
  <2> QED BY <2>1, <2>2, <2>3
<1> QED BY <1>5, <1>6, <1>7, SeqsEqual DEF a, f, g, x

LEMMA InjectiveFirst ==
  ASSUME NEW s \in Seq(Rooms), IsInjective(s), NEW n \in Nat
  PROVE  IsInjective(FirstOf(s, n))
<1> DEFINE f == FirstOf(s, n)
<1>1. f \in Seq(Rooms) /\ Len(f) <= Len(s) /\ \A k \in 1 .. Len(f) : f[k] = s[k]
  BY FirstOfIs
<1>2. Len(s) \in Nat /\ \A a, b \in 1 .. Len(s) : s[a] = s[b] => a = b
  BY InjectiveIs
<1> HIDE DEF f
<1>3. \A a, b \in 1 .. Len(f) : f[a] = f[b] => a = b
  <2>1. Len(f) \in Nat
    BY <1>1
  <2> QED BY <1>1, <1>2, <2>1
<1> QED BY <1>1, <1>3, InjectiveIs DEF f

\* A room of a list without doubles has one place.
LEMMA PositionIs ==
  ASSUME NEW s \in Seq(Rooms), IsInjective(s), NEW i \in 1 .. Len(s)
  PROVE  Position(s, s[i]) = i /\ Contains(s, s[i])
<1>1. DOMAIN s = 1 .. Len(s)
  OBVIOUS
<1>2. \A a, b \in 1 .. Len(s) : s[a] = s[b] => a = b
  BY InjectiveIs
<1>3. \A j \in 1 .. Len(s) : s[j] = s[i] => j = i
  BY <1>2
<1> QED BY <1>1, <1>3 DEF Position, Contains

LEMMA ContainsAt ==
  ASSUME NEW s \in Seq(Rooms), NEW r, Contains(s, r)
  PROVE  Position(s, r) \in 1 .. Len(s) /\ s[Position(s, r)] = r
<1>1. DOMAIN s = 1 .. Len(s)
  OBVIOUS
<1>2. PICK i \in DOMAIN s : s[i] = r
  BY <1>1 DEF Contains
<1> QED BY <1>1, <1>2 DEF Position

-----------------------------------------------------------------------------
(* RoomList: the window before and after the change of one room.             *)

LEMMA InjectiveRemove ==
  ASSUME NEW s \in Seq(Rooms), IsInjective(s), NEW p \in 1 .. Len(s)
  PROVE  IsInjective(RemoveAt(s, p)) /\ ~Contains(RemoveAt(s, p), s[p])
<1> DEFINE u == RemoveAt(s, p)
<1>0. Len(s) \in Nat /\ \A a, b \in 1 .. Len(s) : s[a] = s[b] => a = b
  BY InjectiveIs
<1>1. /\ u \in Seq(Rooms) /\ Len(u) = Len(s) - 1
      /\ \A k \in 1 .. p - 1 : u[k] = s[k]
      /\ \A k \in p .. Len(s) - 1 : u[k] = s[k + 1]
  BY RemoveAtHas
<1> HIDE DEF u
<1>2. \A k \in 1 .. Len(u) : \E j \in 1 .. Len(s) : u[k] = s[j] /\ j # p /\ j = IF k < p THEN k ELSE k + 1
  <2> TAKE k \in 1 .. Len(u)
  <2>1. CASE k < p
    <3>1. k \in 1 .. p - 1 /\ k \in 1 .. Len(s)
      BY <2>1, <1>0, <1>1
    <3> QED BY <3>1, <1>1
  <2>2. CASE k >= p
    <3>1. k \in p .. Len(s) - 1 /\ k + 1 \in 1 .. Len(s) /\ k + 1 # p /\ ~(k < p)
      BY <2>2, <1>0, <1>1
    <3> QED BY <3>1, <1>1
  <2> QED BY <2>1, <2>2, <1>0, <1>1
<1>3. \A a, b \in 1 .. Len(u) : u[a] = u[b] => a = b
  <2> SUFFICES ASSUME NEW a \in 1 .. Len(u), NEW b \in 1 .. Len(u), u[a] = u[b] PROVE a = b
    OBVIOUS
  <2>1. PICK i \in 1 .. Len(s) : u[a] = s[i] /\ i = IF a < p THEN a ELSE a + 1
    BY <1>2
  <2>2. PICK j \in 1 .. Len(s) : u[b] = s[j] /\ j = IF b < p THEN b ELSE b + 1
    BY <1>2
  <2>3. i = j
    BY <2>1, <2>2, <1>0
  <2> QED BY <2>1, <2>2, <2>3, <1>0, <1>1
<1>4. ~\E k \in 1 .. Len(u) : u[k] = s[p]
  BY <1>0, <1>2
<1> QED BY <1>1, <1>3, <1>4, InjectiveIs DEF u, Contains

LEMMA InjectiveInsert ==
  ASSUME NEW s \in Seq(Rooms), IsInjective(s), NEW r \in Rooms, ~Contains(s, r),
         NEW q \in 1 .. Len(s) + 1
  PROVE  IsInjective(InsertAt(s, q, r))
<1> DEFINE u == InsertAt(s, q, r)
<1>0. /\ Len(s) \in Nat /\ \A a, b \in 1 .. Len(s) : s[a] = s[b] => a = b
      /\ \A a \in 1 .. Len(s) : s[a] # r
  BY InjectiveIs DEF Contains
<1>1. /\ u \in Seq(Rooms) /\ Len(u) = Len(s) + 1 /\ u[q] = r
      /\ \A k \in 1 .. q - 1 : u[k] = s[k]
      /\ \A k \in q .. Len(s) : u[k + 1] = s[k]
  BY InsertAtHas
<1> HIDE DEF u
<1>2. \A k \in 1 .. Len(u) : k # q =>
         \E j \in 1 .. Len(s) : u[k] = s[j] /\ j = IF k < q THEN k ELSE k - 1
  <2> SUFFICES ASSUME NEW k \in 1 .. Len(u), k # q
               PROVE  \E j \in 1 .. Len(s) : u[k] = s[j] /\ j = IF k < q THEN k ELSE k - 1
    OBVIOUS
  <2>1. CASE k < q
    <3>1. k \in 1 .. q - 1 /\ k \in 1 .. Len(s)
      BY <2>1, <1>0, <1>1
    <3> QED BY <3>1, <1>1
  <2>2. CASE k > q
    <3>1. k - 1 \in q .. Len(s) /\ k - 1 \in 1 .. Len(s) /\ (k - 1) + 1 = k /\ ~(k < q)
      BY <2>2, <1>0, <1>1
    <3>2. u[(k - 1) + 1] = s[k - 1]
      BY <3>1, <1>1
    <3> QED BY <3>1, <3>2
  <2> QED BY <2>1, <2>2, <1>0, <1>1
<1>3. \A a, b \in 1 .. Len(u) : u[a] = u[b] => a = b
  <2> SUFFICES ASSUME NEW a \in 1 .. Len(u), NEW b \in 1 .. Len(u), u[a] = u[b] PROVE a = b
    OBVIOUS
  <2>1. CASE a = q
    BY <2>1, <1>0, <1>1, <1>2
  <2>2. CASE b = q
    BY <2>2, <1>0, <1>1, <1>2
  <2>3. CASE a # q /\ b # q
    <3>1. PICK i \in 1 .. Len(s) : u[a] = s[i] /\ i = IF a < q THEN a ELSE a - 1
      BY <1>2, <2>3
    <3>2. PICK j \in 1 .. Len(s) : u[b] = s[j] /\ j = IF b < q THEN b ELSE b - 1
      BY <1>2, <2>3
    <3>3. i = j
      BY <3>1, <3>2, <1>0
    <3> QED BY <3>1, <3>2, <3>3, <1>0, <1>1, <2>3
  <2> QED BY <2>1, <2>2, <2>3
<1> QED BY <1>1, <1>3, InjectiveIs DEF u

LEMMA NotInFirst ==
  ASSUME NEW s \in Seq(Rooms), NEW n \in Nat, NEW r, ~Contains(s, r)
  PROVE  ~Contains(FirstOf(s, n), r)
<1> DEFINE f == FirstOf(s, n)
<1>1. f \in Seq(Rooms) /\ Len(f) <= Len(s) /\ \A k \in 1 .. Len(f) : f[k] = s[k]
  BY FirstOfHas
<1> HIDE DEF f
<1>2. \A k \in 1 .. Len(f) : k \in 1 .. Len(s)
  BY <1>1
<1> QED BY <1>1, <1>2 DEF f, Contains

\* A room put back where it was.
LEMMA InsertBack ==
  ASSUME NEW s \in Seq(Rooms), NEW p \in 1 .. Len(s)
  PROVE  InsertAt(RemoveAt(s, p), p, s[p]) = s
<1> DEFINE u == RemoveAt(s, p)
           x == s[p]
           t == InsertAt(u, p, x)
<1>0. Len(s) \in Nat /\ p \in Nat /\ x \in Rooms
  OBVIOUS
<1>1. /\ u \in Seq(Rooms) /\ Len(u) = Len(s) - 1
      /\ \A k \in 1 .. p - 1 : u[k] = s[k]
      /\ \A k \in p .. Len(s) - 1 : u[k] = s[k + 1]
  BY RemoveAtHas
<1>a. x = s[p]
  OBVIOUS
<1> HIDE DEF u, x
<1>2. p \in 1 .. Len(u) + 1
  BY <1>0, <1>1
<1>3. /\ t \in Seq(Rooms) /\ Len(t) = Len(u) + 1 /\ t[p] = x
      /\ \A k \in 1 .. p - 1 : t[k] = u[k]
      /\ \A k \in p .. Len(u) : t[k + 1] = u[k]
  <2>0. u \in Seq(Rooms) /\ x \in Rooms
    BY <1>0, <1>1
  <2>1. t \in Seq(Rooms) /\ Len(t) = Len(u) + 1
    BY <2>0, <1>2, InsertAtHas
  <2>2. t[p] = x
    BY <2>0, <1>2, InsertAtHas
  <2>3. \A k \in 1 .. p - 1 : t[k] = u[k]
    BY <2>0, <1>2, InsertAtHas
  <2>4. \A k \in p .. Len(u) : t[k + 1] = u[k]
    BY <2>0, <1>2, InsertAtHas
  <2> QED BY <2>1, <2>2, <2>3, <2>4
<1> HIDE DEF t
<1>4. \A k \in 1 .. Len(s) : t[k] = s[k]
  <2> SUFFICES ASSUME NEW k \in 1 .. Len(s) PROVE t[k] = s[k]
    OBVIOUS
  <2>1. CASE k < p
    <3>1. k \in 1 .. p - 1
      BY <2>1, <1>0
    <3> QED BY <3>1, <1>1, <1>3
  <2>2. CASE k = p
    BY <2>2, <1>3, <1>a
  <2>3. CASE k > p
    <3>1. k - 1 \in p .. Len(s) - 1 /\ k - 1 \in p .. Len(u) /\ (k - 1) + 1 = k
      BY <2>3, <1>0, <1>1
    <3>2. t[(k - 1) + 1] = u[k - 1] /\ u[k - 1] = s[(k - 1) + 1]
      BY <3>1, <1>1, <1>3
    <3> QED BY <3>1, <3>2
  <2> QED BY <2>1, <2>2, <2>3, <1>0
<1>5. Len(t) = Len(s)
  BY <1>0, <1>1, <1>3
<1> QED BY <1>3, <1>4, <1>5, SeqsEqual DEF t, u, x

LEMMA WithoutIs ==
  ASSUME NEW s \in Seq(Rooms), IsInjective(s), NEW r \in Rooms
  PROVE  /\ Without(s, r) \in Seq(Rooms) /\ IsInjective(Without(s, r)) /\ ~Contains(Without(s, r), r)
         /\ Contains(s, r) => /\ Position(s, r) \in 1 .. Len(s) /\ s[Position(s, r)] = r
                              /\ Without(s, r) = RemoveAt(s, Position(s, r))
         /\ ~Contains(s, r) => Without(s, r) = s
<1>1. CASE Contains(s, r)
  <2> DEFINE p == Position(s, r)
  <2>1. p \in 1 .. Len(s) /\ s[p] = r
    BY <1>1, ContainsAt
  <2>2. Without(s, r) = RemoveAt(s, p)
    BY <1>1 DEF Without
  <2> HIDE DEF p
  <2>3. RemoveAt(s, p) \in Seq(Rooms) /\ IsInjective(RemoveAt(s, p)) /\ ~Contains(RemoveAt(s, p), r)
    BY <2>1, RemoveAtHas, InjectiveRemove
  <2> QED BY <1>1, <2>1, <2>2, <2>3 DEF p
<1>2. CASE ~Contains(s, r)
  BY <1>2 DEF Without
<1> QED BY <1>1, <1>2

\* What becomes of the visible rooms when one room of the list goes or gets a place.
Windows(from, to, r) ==
    \/ ~Contains(from, r) /\ ~Contains(to, r) /\ to = from
    \/ \E p, q \in 1 .. Len(from) :
          from[p] = r /\ to = InsertAt(RemoveAt(from, p), q, r)
    \/ ~Contains(to, r) /\ \E p \in 1 .. Len(from) : from[p] = r /\ to = RemoveAt(from, p)
    \/ ~Contains(to, r) /\ \E p \in 1 .. Len(from), z \in Rooms :
                              from[p] = r /\ to = RemoveAt(from, p) \o <<z>>
    \/ ~Contains(from, r) /\ \E q \in 1 .. Len(from) + 1 : to = InsertAt(from, q, r)
    \/ ~Contains(from, r) /\ \E q \in 1 .. Len(from) :
                                to = InsertAt(RemoveAt(from, Len(from)), q, r)

LEMMA WindowGone ==
  ASSUME NEW s \in Seq(Rooms), IsInjective(s), NEW r \in Rooms, NEW n \in Nat
  PROVE  Windows(FirstOf(s, n), FirstOf(Without(s, r), n), r)
<1> DEFINE from == FirstOf(s, n)
           to == FirstOf(Without(s, r), n)
           p == Position(s, r)
<1>1. ~Contains(to, r)
  BY WithoutIs, NotInFirst
<1>2. CASE ~Contains(s, r)
  <2>1. ~Contains(from, r) /\ to = from
    BY <1>2, WithoutIs, NotInFirst
  <2> QED BY <1>1, <2>1 DEF Windows
<1>3. CASE Contains(s, r)
  <2>1. p \in 1 .. Len(s) /\ s[p] = r /\ Without(s, r) = RemoveAt(s, p)
    BY <1>3, WithoutIs
  <2>a. to = FirstOf(RemoveAt(s, p), n) /\ Len(s) \in Nat
    BY <2>1
  <2>2. /\ from \in Seq(Rooms) /\ Len(from) = IF n < Len(s) THEN n ELSE Len(s)
        /\ \A k \in 1 .. Len(from) : from[k] = s[k]
        /\ n >= Len(s) => from = s
    BY FirstOfIs, FirstOfHas
  <2> HIDE DEF p, from, to
  <2>3. CASE p > n
    <3>1. to = from
      BY <2>1, <2>3, <2>a, FirstOfRemove DEF from
    <3> QED BY <1>1, <3>1 DEF Windows, from, to
  <2>4. CASE p <= n
    <3>1. p \in 1 .. Len(from) /\ p <= n + 1
      BY <2>1, <2>2, <2>4, <2>a
    <3>2. from[p] = r
      BY <3>1, <2>1, <2>2
    <3>3. to = RemoveAt(FirstOf(s, n + 1), p)
      BY <3>1, <2>1, <2>a, FirstOfRemove
    <3>4. CASE n < Len(s)
      <4>1. p \in 1 .. n
        BY <2>1, <2>4
      <4>2. to = RemoveAt(from, p) \o <<s[n + 1]>>
        BY <4>1, <3>3, <3>4, FirstOfNext DEF from
      <4>3. s[n + 1] \in Rooms
        BY <3>4, <2>a
      <4> QED BY <1>1, <3>1, <3>2, <4>2, <4>3 DEF Windows, from, to
    <3>5. CASE n >= Len(s)
      <4>1. n + 1 \in Nat /\ n + 1 >= Len(s)
        BY <3>5, <2>a
      <4>2. FirstOf(s, n + 1) = s
        BY <4>1, FirstOfHas
      <4>3. to = RemoveAt(from, p)
        BY <4>2, <3>3, <3>5, <2>2
      <4> QED BY <1>1, <3>1, <3>2, <4>3 DEF Windows, from, to
    <3> QED BY <3>4, <3>5, <2>a
  <2> QED BY <2>1, <2>3, <2>4, <2>a DEF p
<1> QED BY <1>2, <1>3

LEMMA WindowPlaced ==
  ASSUME NEW s \in Seq(Rooms), IsInjective(s), NEW r \in Rooms, NEW n \in Nat,
         NEW q \in 1 .. Len(Without(s, r)) + 1
  PROVE  Windows(FirstOf(s, n), FirstOf(InsertAt(Without(s, r), q, r), n), r)
<1> DEFINE u == Without(s, r)
           from == FirstOf(s, n)
           to == FirstOf(InsertAt(u, q, r), n)
           p == Position(s, r)
<1>0. /\ u \in Seq(Rooms) /\ ~Contains(u, r) /\ Len(u) \in Nat /\ Len(s) \in Nat /\ q \in Nat
      /\ ~Contains(s, r) => u = s
      /\ Contains(s, r) => p \in 1 .. Len(s) /\ s[p] = r /\ u = RemoveAt(s, p)
  <2>1. u \in Seq(Rooms) /\ ~Contains(u, r) /\ (~Contains(s, r) => u = s)
    BY WithoutIs
  <2>2. Contains(s, r) => p \in 1 .. Len(s) /\ s[p] = r /\ u = RemoveAt(s, p)
    BY WithoutIs
  <2> HIDE DEF u
  <2> QED BY <2>1, <2>2 DEF u
<1>a. q \in 1 .. Len(u) + 1
  OBVIOUS
<1>b. Windows(from, FirstOf(u, n), r)
  BY WindowGone
<1> HIDE DEF u
<1>1. CASE q > n
  <2>1. to = FirstOf(u, n)
    BY <1>0, <1>a, <1>1, FirstOfInsert
  <2> QED BY <2>1, <1>b DEF u
<1>2. CASE q <= n
  <2>0. n \in Nat \ {0} /\ n - 1 \in Nat
    BY <1>2, <1>0, <1>a
  <2>1. to = InsertAt(FirstOf(u, n - 1), q, r)
    BY <1>0, <1>a, <1>2, FirstOfInsert
  <2>2. /\ from \in Seq(Rooms) /\ Len(from) = IF n < Len(s) THEN n ELSE Len(s)
        /\ \A k \in 1 .. Len(from) : from[k] = s[k]
        /\ n >= Len(s) => from = s
    BY FirstOfIs, FirstOfHas
  <2> HIDE DEF from, to, p
  <2>3. ASSUME n <= Len(s), FirstOf(u, n - 1) = FirstOf(s, n - 1), ~Contains(from, r)
        PROVE  Windows(from, to, r)
    <3>1. n \in 1 .. Len(s)
      BY <2>3, <2>0, <1>0
    <3>2. FirstOf(s, n - 1) = RemoveAt(from, n) /\ Len(from) = n
      BY <3>1, FirstOfLess DEF from
    <3>3. to = InsertAt(RemoveAt(from, Len(from)), q, r)
      BY <2>1, <2>3, <3>2
    <3>4. q \in 1 .. Len(from)
      BY <3>2, <1>2, <1>a, <1>0
    <3> QED BY <2>3, <3>3, <3>4 DEF Windows
  <2>4. CASE ~Contains(s, r)
    <3>1. ~Contains(from, r) /\ u = s
      BY <2>4, <1>0, NotInFirst DEF from
    <3>2. CASE n <= Len(s)
      BY <2>3, <3>1, <3>2 DEF from, to, u
    <3>3. CASE n > Len(s)
      <4>1. FirstOf(s, n - 1) = s
        BY <3>3, <2>0, <1>0, FirstOfHas
      <4>2. from = s
        BY <2>2, <3>3, <1>0
      <4>3. to = InsertAt(from, q, r)
        BY <4>1, <4>2, <2>1, <3>1
      <4>4. q \in 1 .. Len(from) + 1
        BY <4>2, <1>a, <3>1
      <4> QED BY <3>1, <4>3, <4>4 DEF Windows, from, to, u
    <3> QED BY <3>2, <3>3, <1>0
  <2>5. CASE Contains(s, r)
    <3>1. p \in 1 .. Len(s) /\ s[p] = r /\ u = RemoveAt(s, p)
      BY <2>5, <1>0
    <3>2. CASE p > n
      <4>1. n <= Len(s) /\ p > n - 1
        BY <3>1, <3>2, <1>0
      <4>2. FirstOf(u, n - 1) = FirstOf(s, n - 1)
        BY <4>1, <3>1, <2>0, FirstOfRemove
      <4>3. FirstOf(u, n) = from
        BY <3>1, <3>2, FirstOfRemove DEF from
      <4>4. ~Contains(from, r)
        BY <4>3, <1>0, NotInFirst
      <4> QED BY <4>1, <4>2, <4>4, <2>3 DEF from, to, u
    <3>3. CASE p <= n
      <4>1. p <= (n - 1) + 1 /\ (n - 1) + 1 = n
        BY <3>3, <2>0
      <4>2. FirstOf(u, n - 1) = RemoveAt(from, p)
        BY <4>1, <3>1, <2>0, FirstOfRemove DEF from
      <4>3. p \in 1 .. Len(from)
        BY <3>1, <3>3, <2>2, <1>0
      <4>4. from[p] = r
        BY <4>3, <2>2, <3>1
      <4>5. Len(u) = Len(s) - 1
        BY <3>1, RemoveAtHas
      <4>6. q \in 1 .. Len(from)
        BY <4>5, <1>a, <1>2, <1>0, <2>2
      <4> QED BY <4>2, <4>3, <4>4, <4>6, <2>1 DEF Windows, from, to, u
    <3> QED BY <3>2, <3>3, <3>1, <1>0 DEF u
  <2> QED BY <2>4, <2>5 DEF from, to
<1> QED BY <1>1, <1>2, <1>0

-----------------------------------------------------------------------------
(* RoomList: what a batch brings a list to.                                  *)

Batch(diffs) == [i \in DOMAIN diffs |-> MapRoomDiff(diffs[i])]

LEMMA BatchOne ==
  ASSUME NEW d
  PROVE  Batch(<<d>>) = <<MapRoomDiff(d)>>
<1>1. DOMAIN <<d>> = 1 .. 1 /\ <<d>>[1] = d
  OBVIOUS
<1>2. Batch(<<d>>) = [i \in 1 .. 1 |-> MapRoomDiff(d)]
  BY <1>1 DEF Batch
<1>3. <<MapRoomDiff(d)>> = [i \in 1 .. 1 |-> MapRoomDiff(d)]
  OBVIOUS
<1> QED BY <1>2, <1>3

LEMMA BatchTwo ==
  ASSUME NEW d, NEW e
  PROVE  Batch(<<d, e>>) = <<MapRoomDiff(d), MapRoomDiff(e)>>
<1>1. DOMAIN <<d, e>> = {1, 2} /\ <<d, e>>[1] = d /\ <<d, e>>[2] = e
  OBVIOUS
<1>2. Batch(<<d, e>>) = [i \in {1, 2} |-> MapRoomDiff(<<d, e>>[i])]
  BY <1>1 DEF Batch
<1> DEFINE t == <<MapRoomDiff(d), MapRoomDiff(e)>>
<1>3. t = [i \in {1, 2} |-> t[i]] /\ t[1] = MapRoomDiff(d) /\ t[2] = MapRoomDiff(e)
  OBVIOUS
<1> HIDE DEF t
<1>4. Batch(<<d, e>>) = [i \in {1, 2} |-> t[i]]
  BY <1>1, <1>2, <1>3
<1> QED BY <1>3, <1>4 DEF t

\* What a batch does to a list that is at from: it is well formed and brings the list to to.
Brought(batch, rooms, known, to) ==
    batch \in Seq(RoomDiffs) /\ Has(ApplyDiffs(rooms, batch), known, to)

LEMMA BroughtByOne ==
  ASSUME NEW d, NEW rooms, NEW known, NEW to, MapRoomDiff(d) \in RoomDiffs,
         Has(ApplyDiff(rooms, MapRoomDiff(d)), known, to)
  PROVE  Brought(Batch(<<d>>), rooms, known, to)
<1>1. Batch(<<d>>) = <<MapRoomDiff(d)>>
  BY BatchOne
<1>2. ApplyDiffs(rooms, <<MapRoomDiff(d)>>) = ApplyDiff(rooms, MapRoomDiff(d))
  BY ApplyOne
<1>3. <<MapRoomDiff(d)>> \in Seq(RoomDiffs)
  OBVIOUS
<1> QED BY <1>1, <1>2, <1>3 DEF Brought

LEMMA BroughtByTwo ==
  ASSUME NEW d, NEW e, NEW rooms, NEW known, NEW to,
         MapRoomDiff(d) \in RoomDiffs, MapRoomDiff(e) \in RoomDiffs,
         Has(ApplyDiff(ApplyDiff(rooms, MapRoomDiff(d)), MapRoomDiff(e)), known, to)
  PROVE  Brought(Batch(<<d, e>>), rooms, known, to)
<1>1. Batch(<<d, e>>) = <<MapRoomDiff(d), MapRoomDiff(e)>>
  BY BatchTwo
<1>2. ApplyDiffs(rooms, <<MapRoomDiff(d), MapRoomDiff(e)>>) =
         ApplyDiff(ApplyDiff(rooms, MapRoomDiff(d)), MapRoomDiff(e))
  BY ApplyTwo
<1>3. <<MapRoomDiff(d), MapRoomDiff(e)>> \in Seq(RoomDiffs)
  OBVIOUS
<1> QED BY <1>1, <1>2, <1>3 DEF Brought

LEMMA PlaceIs ==
  ASSUME NEW s \in Seq(Rooms), IsInjective(s), NEW i \in 1 .. Len(s), NEW r, s[i] = r
  PROVE  Position(s, r) = i /\ Contains(s, r)
BY PositionIs

LEMMA SdkDiffsBring ==
  ASSUME NEW known, KnownNow(known), NEW rooms, NEW from, Has(rooms, known, from),
         IsInjective(from), NEW to \in Seq(Rooms), IsInjective(to), NEW r \in Rooms,
         Windows(from, to, r), NEW diffs \in SdkDiffs(from, to, r)
  PROVE  IF diffs = <<>> THEN to = from ELSE Brought(Batch(diffs), rooms, known, to)
<1>0. from \in Seq(Rooms) /\ Len(from) \in Nat /\ Len(to) \in Nat /\ known \in SUBSET Summaries
  BY IdsHave DEF Has, KnownNow
<1> DEFINE was == Contains(from, r)
           is == Contains(to, r)
           gone(p) == RemoveAt(from, p)
<1>1. CASE ~was /\ ~is /\ to = from
  BY <1>1 DEF SdkDiffs
<1>2. CASE \E p, q \in 1 .. Len(from) : from[p] = r /\ to = InsertAt(RemoveAt(from, p), q, r)
  <2>1. PICK p \in 1 .. Len(from), q \in 1 .. Len(from) :
           from[p] = r /\ to = InsertAt(gone(p), q, r)
    BY <1>2
  <2>2. gone(p) \in Seq(Rooms) /\ Len(gone(p)) = Len(from) - 1
    BY <1>0, RemoveAtHas
  <2> HIDE DEF gone
  <2>3. q \in 1 .. Len(gone(p)) + 1
    BY <2>2, <1>0
  <2>4. to[q] = r
    BY <2>1, <2>2, <2>3, InsertAtHas
  <2>5. Len(to) = Len(gone(p)) + 1
    BY <2>1, <2>2, <2>3, InsertAtHas
  <2>6. Position(from, r) = p /\ was
    BY <2>1, <1>0, PlaceIs
  <2>7. Position(to, r) = q /\ is
    <3>1. q \in 1 .. Len(to)
      BY <2>3, <2>5
    <3> QED BY <3>1, <2>4, PlaceIs
  <2>8. CASE p = q
    <3>1. diffs = <<Diff("set", q - 1, <<r>>)>>
      <4>1. Position(from, r) = Position(to, r)
        BY <2>6, <2>7, <2>8
      <4>2. diffs \in {<<Diff("set", Position(to, r) - 1, <<r>>)>>}
        BY <2>6, <2>7, <4>1 DEF SdkDiffs
      <4> QED BY <4>2, <2>7
    <3>2. to = from
      BY <2>1, <2>8, <1>0, InsertBack DEF gone
    <3>3. /\ MapRoomDiff(Diff("set", q - 1, <<r>>)) \in RoomDiffs
          /\ Has(ApplyDiff(rooms, MapRoomDiff(Diff("set", q - 1, <<r>>))), known, from)
      <4>1. from[q] = r
        BY <2>1, <2>8
      <4> QED BY <4>1, SetDoes
    <3>4. Brought(Batch(diffs), rooms, known, to)
      BY <3>1, <3>2, <3>3, BroughtByOne
    <3>5. diffs # <<>>
      BY <3>1
    <3> QED BY <3>4, <3>5
  <2>9. CASE p # q
    <3>1. PICK g \in Leaves(from, r), c \in Enters(to, r) : diffs = <<g, c>>
      BY <2>6, <2>7, <2>9 DEF SdkDiffs
    <3> DEFINE mid == ApplyDiff(rooms, MapRoomDiff(g))
    <3>2. MapRoomDiff(g) \in RoomDiffs /\ Has(mid, known, gone(p))
      BY <2>6, LeavesDo DEF gone
    <3> HIDE DEF mid
    <3>3. /\ MapRoomDiff(c) \in RoomDiffs
          /\ Has(ApplyDiff(mid, MapRoomDiff(c)), known, InsertAt(gone(p), q, r))
      BY <2>3, <2>5, <2>7, <3>2, EntersDo
    <3>4. Brought(Batch(diffs), rooms, known, to)
      BY <3>1, <3>2, <3>3, <2>1, BroughtByTwo DEF mid
    <3>5. diffs # <<>>
      BY <3>1
    <3> QED BY <3>4, <3>5
  <2> QED BY <2>8, <2>9
<1>3. CASE ~is /\ \E p \in 1 .. Len(from) : from[p] = r /\ to = RemoveAt(from, p)
  <2>1. PICK p \in 1 .. Len(from) : from[p] = r /\ to = gone(p)
    BY <1>3
  <2>2. gone(p) \in Seq(Rooms) /\ Len(gone(p)) = Len(from) - 1
    BY <1>0, RemoveAtHas
  <2> HIDE DEF gone
  <2>3. Position(from, r) = p /\ was
    BY <2>1, <1>0, PlaceIs
  <2>4. Len(to) < Len(from)
    BY <2>1, <2>2, <1>0
  <2>5. PICK g \in Leaves(from, r) : diffs = <<g>>
    BY <1>3, <2>3, <2>4 DEF SdkDiffs
  <2>6. MapRoomDiff(g) \in RoomDiffs /\ Has(ApplyDiff(rooms, MapRoomDiff(g)), known, to)
    BY <2>1, <2>3, LeavesDo DEF gone
  <2>7. Brought(Batch(diffs), rooms, known, to)
    BY <2>5, <2>6, BroughtByOne
  <2>8. diffs # <<>>
    BY <2>5
  <2> QED BY <2>7, <2>8
<1>4. CASE ~is /\ \E p \in 1 .. Len(from), z \in Rooms :
                     from[p] = r /\ to = RemoveAt(from, p) \o <<z>>
  <2>1. PICK p \in 1 .. Len(from), z \in Rooms : from[p] = r /\ to = gone(p) \o <<z>>
    BY <1>4
  <2>2. gone(p) \in Seq(Rooms) /\ Len(gone(p)) = Len(from) - 1
    BY <1>0, RemoveAtHas
  <2> HIDE DEF gone
  <2>3. Position(from, r) = p /\ was
    BY <2>1, <1>0, PlaceIs
  <2>4. Len(to) = Len(from) /\ Last(to) = z
    <3>1. Len(to) = Len(gone(p)) + 1 /\ to[Len(gone(p)) + 1] = z
      <4>1. <<z>> \in Seq(Rooms) /\ Len(<<z>>) = 1 /\ <<z>>[1] = z /\ 1 \in 1 .. 1
        OBVIOUS
      <4> QED BY <4>1, <2>1, <2>2, ConcatIs
    <3> QED BY <3>1, <2>2, <1>0 DEF Last
  <2>5. PICK g \in Leaves(from, r) : diffs = <<g, Diff("pushBack", 0, <<z>>)>>
    <3>1. ~(Len(to) < Len(from))
      BY <2>4, <1>0
    <3>2. SdkDiffs(from, to, r) =
             {<<g, Diff("pushBack", 0, <<Last(to)>>)>> : g \in Leaves(from, r)}
      BY <1>4, <2>3, <2>4, <3>1 DEF SdkDiffs
    <3> QED BY <2>4, <3>2
  <2> DEFINE mid == ApplyDiff(rooms, MapRoomDiff(g))
             c == Diff("pushBack", 0, <<z>>)
  <2>6. MapRoomDiff(g) \in RoomDiffs /\ Has(mid, known, gone(p))
    BY <2>3, LeavesDo DEF gone
  <2> HIDE DEF mid
  <2>7. MapRoomDiff(c) \in RoomDiffs /\ Has(ApplyDiff(mid, MapRoomDiff(c)), known, to)
    BY <2>1, <2>6, PushBackDoes
  <2> HIDE DEF c
  <2>8. Brought(Batch(diffs), rooms, known, to)
    BY <2>5, <2>6, <2>7, BroughtByTwo DEF mid, c
  <2>9. diffs # <<>>
    BY <2>5
  <2> QED BY <2>8, <2>9
<1>5. CASE ~was /\ \E q \in 1 .. Len(from) + 1 : to = InsertAt(from, q, r)
  <2>1. PICK q \in 1 .. Len(from) + 1 : to = InsertAt(from, q, r)
    BY <1>5
  <2>2. to[q] = r
    BY <2>1, <1>0, InsertAtHas
  <2>3. Len(to) = Len(from) + 1
    BY <2>1, <1>0, InsertAtHas
  <2>4. Position(to, r) = q /\ is
    <3>1. q \in 1 .. Len(to)
      BY <2>3
    <3> QED BY <3>1, <2>2, PlaceIs
  <2>5. PICK c \in Enters(to, r) : diffs = <<c>>
    <3>1. Len(to) > Len(from)
      BY <2>3, <1>0
    <3> QED BY <1>5, <2>4, <3>1 DEF SdkDiffs
  <2>6. MapRoomDiff(c) \in RoomDiffs /\ Has(ApplyDiff(rooms, MapRoomDiff(c)), known, to)
    BY <2>1, <2>3, <2>4, EntersDo
  <2>7. Brought(Batch(diffs), rooms, known, to)
    BY <2>5, <2>6, BroughtByOne
  <2>8. diffs # <<>>
    BY <2>5
  <2> QED BY <2>7, <2>8
<1>6. CASE ~was /\ \E q \in 1 .. Len(from) : to = InsertAt(RemoveAt(from, Len(from)), q, r)
  <2>1. PICK q \in 1 .. Len(from) : to = InsertAt(gone(Len(from)), q, r)
    BY <1>6
  <2>a. Len(from) \in 1 .. Len(from) /\ from # <<>>
    BY <1>0
  <2>2. gone(Len(from)) \in Seq(Rooms) /\ Len(gone(Len(from))) = Len(from) - 1
    BY <1>0, <2>a, RemoveAtHas
  <2> DEFINE mids == gone(Len(from))
  <2>b. mids \in Seq(Rooms) /\ Len(mids) = Len(from) - 1 /\ to = InsertAt(mids, q, r)
    BY <2>1, <2>2
  <2> HIDE DEF gone, mids
  <2>3. q \in 1 .. Len(mids) + 1
    BY <2>b, <1>0
  <2>4. to[q] = r
    BY <2>b, <2>3, InsertAtHas
  <2>5. Len(to) = Len(mids) + 1
    BY <2>b, <2>3, InsertAtHas
  <2>6. Position(to, r) = q /\ is
    <3>1. q \in 1 .. Len(to)
      BY <2>3, <2>5
    <3> QED BY <3>1, <2>4, PlaceIs
  <2> DEFINE g == Diff("popBack", 0, <<>>)
             mid == ApplyDiff(rooms, MapRoomDiff(g))
  <2>7. PICK c \in Enters(to, r) : diffs = <<g, c>>
    <3>1. Len(to) = Len(from)
      BY <2>b, <2>5, <1>0
    <3> QED BY <1>6, <2>6, <3>1, <1>0 DEF SdkDiffs
  <2>8. MapRoomDiff(g) \in RoomDiffs /\ Has(mid, known, mids)
    BY <2>a, PopBackDoes DEF gone, mids
  <2> HIDE DEF g, mid
  <2>9. MapRoomDiff(c) \in RoomDiffs /\ Has(ApplyDiff(mid, MapRoomDiff(c)), known, to)
    BY <2>b, <2>3, <2>5, <2>6, <2>8, EntersDo
  <2>10. Brought(Batch(diffs), rooms, known, to)
    BY <2>7, <2>8, <2>9, BroughtByTwo DEF mid
  <2>11. diffs # <<>>
    BY <2>7
  <2> QED BY <2>10, <2>11
<1> QED BY <1>1, <1>2, <1>3, <1>4, <1>5, <1>6 DEF Windows

-----------------------------------------------------------------------------
(* RoomList: the rooms of a filter, in the order of activity.                *)

\* The rooms, each once.
RecentIs == recent \in Seq(Rooms) /\ IsInjective(recent) /\ \A r \in Rooms : Contains(recent, r)

Chooses(c, n, filter) ==
    c = [k \in 0 .. n |-> IF k = 0 THEN <<>>
                          ELSE IF FilterFor(filter, recent[k]) THEN Append(c[k - 1], recent[k])
                          ELSE c[k - 1]]

LEMMA ChoosesExists ==
  ASSUME NEW filter, NEW n \in Nat
  PROVE  \E c : Chooses(c, n, filter)
<1> DEFINE S == {m \in Nat : ~\E c : Chooses(c, m, filter)}
<1>1. SUFFICES ASSUME S # {} PROVE FALSE
  OBVIOUS
<1>2. PICK m \in S : \A k \in S : m <= k
  <2>1. S \in SUBSET Nat
    OBVIOUS
  <2> HIDE DEF S
  <2> QED BY <1>1, <2>1, LeastNumber
<1>3. m # 0
  <2>1. Chooses([k \in 0 .. 0 |-> <<>>], 0, filter)
    BY DEF Chooses
  <2> QED BY <2>1, <1>2
<1>4. m \in Nat /\ m - 1 \in Nat /\ m - 1 \notin S
  BY <1>2, <1>3
<1>5. PICK f : Chooses(f, m - 1, filter)
  BY <1>4
<1> DEFINE step(h, k) == IF k = 0 THEN <<>>
                         ELSE IF FilterFor(filter, recent[k]) THEN Append(h[k - 1], recent[k])
                         ELSE h[k - 1]
           g == [k \in 0 .. m |-> IF k = m THEN step(f, m) ELSE f[k]]
<1>a. \A k \in 0 .. m - 1 : f[k] = step(f, k)
  <2>1. f = [k \in 0 .. m - 1 |-> step(f, k)]
    BY <1>5 DEF Chooses
  <2> HIDE DEF step
  <2> QED BY <2>1
<1>6. \A k \in 0 .. m : g[k] = step(g, k)
  <2> SUFFICES ASSUME NEW k \in 0 .. m PROVE g[k] = step(g, k)
    OBVIOUS
  <2>0. step(g, k) = step(f, k)
    <3>1. k = 0 \/ g[k - 1] = f[k - 1]
      <4>1. CASE k # 0
        <5>1. k - 1 \in 0 .. m /\ k - 1 # m
          BY <4>1, <1>4
        <5> HIDE DEF step
        <5> QED BY <5>1
      <4> QED BY <4>1
    <3> HIDE DEF g
    <3> QED BY <3>1
  <2>1. g[k] = IF k = m THEN step(f, m) ELSE f[k]
    <3> HIDE DEF step
    <3> QED OBVIOUS
  <2> HIDE DEF g, step
  <2>2. CASE k = m
    BY <2>0, <2>1, <2>2
  <2>3. CASE k # m
    <3>1. k \in 0 .. m - 1
      BY <2>3, <1>4
    <3> QED BY <2>0, <2>1, <2>3, <3>1, <1>a
  <2> QED BY <2>2, <2>3
<1>7. g = [k \in 0 .. m |-> g[k]]
  <2> HIDE DEF step
  <2> QED OBVIOUS
<1> HIDE DEF g
<1>8. g = [k \in 0 .. m |-> step(g, k)]
  <2> HIDE DEF step
  <2> QED BY <1>6, <1>7
<1>9. Chooses(g, m, filter)
  BY <1>8 DEF Chooses
<1> QED BY <1>2, <1>9

\* The rooms of a filter among the first k, in their order.
Chosen(s, k, filter) ==
    /\ s \in Seq(Rooms)
    /\ \A i \in 1 .. Len(s) : Position(recent, s[i]) \in 1 .. k /\ FilterFor(filter, s[i])
    /\ \A i, j \in 1 .. Len(s) : i < j => Before(s[i], s[j])
    /\ \A m \in 1 .. k : FilterFor(filter, recent[m]) => Contains(s, recent[m])

LEMMA AppendIs ==
  ASSUME NEW s \in Seq(Rooms), NEW x \in Rooms
  PROVE  /\ Append(s, x) \in Seq(Rooms) /\ Len(Append(s, x)) = Len(s) + 1
         /\ Append(s, x)[Len(s) + 1] = x
         /\ \A i \in 1 .. Len(s) : Append(s, x)[i] = s[i]
OBVIOUS

LEMMA ChosenNext ==
  ASSUME RecentIs, NEW filter, NEW k \in 1 .. Len(recent), NEW s, Chosen(s, k - 1, filter)
  PROVE  Chosen(IF FilterFor(filter, recent[k]) THEN Append(s, recent[k]) ELSE s, k, filter)
<1> DEFINE x == recent[k]
<1>0. /\ recent \in Seq(Rooms) /\ x \in Rooms /\ Position(recent, x) = k
      /\ Len(recent) \in Nat /\ k \in Nat
  BY PositionIs DEF RecentIs
<1>1. /\ s \in Seq(Rooms) /\ Len(s) \in Nat
      /\ \A i \in 1 .. Len(s) : Position(recent, s[i]) \in 1 .. k - 1 /\ FilterFor(filter, s[i])
      /\ \A i, j \in 1 .. Len(s) : i < j => Before(s[i], s[j])
      /\ \A m \in 1 .. k - 1 : FilterFor(filter, recent[m]) => Contains(s, recent[m])
  BY DEF Chosen
<1>2. CASE ~FilterFor(filter, x)
  <2>1. \A i \in 1 .. Len(s) : Position(recent, s[i]) \in 1 .. k /\ FilterFor(filter, s[i])
    BY <1>0, <1>1
  <2>2. ASSUME NEW m \in 1 .. k, FilterFor(filter, recent[m]) PROVE Contains(s, recent[m])
    <3>1. m \in 1 .. k - 1
      BY <1>0, <1>2, <2>2
    <3> QED BY <3>1, <2>2, <1>1
  <2> QED BY <1>1, <1>2, <2>1, <2>2 DEF Chosen
<1>3. CASE FilterFor(filter, x)
  <2> DEFINE t == Append(s, x)
  <2>1. /\ t \in Seq(Rooms) /\ Len(t) = Len(s) + 1 /\ t[Len(s) + 1] = x
        /\ \A i \in 1 .. Len(s) : t[i] = s[i]
    BY <1>0, <1>1, AppendIs
  <2> HIDE DEF t, x
  <2>2. ASSUME NEW i \in 1 .. Len(t)
        PROVE  Position(recent, t[i]) \in 1 .. k /\ FilterFor(filter, t[i])
    <3>1. CASE i = Len(s) + 1
      BY <3>1, <2>1, <1>0, <1>3
    <3>2. CASE i # Len(s) + 1
      <4>1. i \in 1 .. Len(s)
        BY <3>2, <2>1, <1>1
      <4> QED BY <4>1, <2>1, <1>0, <1>1
    <3> QED BY <3>1, <3>2
  <2>3. ASSUME NEW i \in 1 .. Len(t), NEW j \in 1 .. Len(t), i < j PROVE Before(t[i], t[j])
    <3>0. i \in 1 .. Len(s) /\ (j = Len(s) + 1 \/ j \in 1 .. Len(s))
      <4>1. Len(t) = Len(s) + 1 /\ Len(s) \in Nat
        BY <2>1, <1>1
      <4> QED BY <4>1, <2>3
    <3>1. CASE j = Len(s) + 1
      <4>1. Position(recent, t[i]) \in 1 .. k - 1 /\ Position(recent, t[j]) = k
        BY <3>0, <3>1, <2>1, <1>0, <1>1
      <4> QED BY <4>1, <1>0 DEF Before
    <3>2. CASE j \in 1 .. Len(s)
      BY <3>0, <3>2, <2>1, <2>3, <1>1
    <3> QED BY <3>0, <3>1, <3>2
  <2>4. ASSUME NEW m \in 1 .. k, FilterFor(filter, recent[m]) PROVE Contains(t, recent[m])
    <3>1. CASE m = k
      <4>1. Len(s) + 1 \in 1 .. Len(t)
        BY <2>1, <1>1
      <4> QED BY <4>1, <3>1, <2>1 DEF Contains, x
    <3>2. CASE m # k
      <4>1. m \in 1 .. k - 1
        BY <3>2, <1>0
      <4>2. PICK i \in 1 .. Len(s) : s[i] = recent[m]
        BY <4>1, <2>4, <1>1 DEF Contains
      <4>3. i \in 1 .. Len(t) /\ t[i] = recent[m]
        BY <4>2, <2>1, <1>1
      <4> QED BY <4>3 DEF Contains
    <3> QED BY <3>1, <3>2
  <2>5. Chosen(t, k, filter)
    BY <2>1, <2>2, <2>3, <2>4 DEF Chosen
  <2> QED BY <2>5, <1>3 DEF t, x
<1> QED BY <1>2, <1>3

LEMMA MatchingChosen ==
  ASSUME RecentIs, NEW filter
  PROVE  Chosen(Matching(filter), Len(recent), filter)
<1> DEFINE n == Len(recent)
           c == CHOOSE c : Chooses(c, n, filter)
<1>0. n \in Nat
  BY DEF RecentIs
<1>1. Chooses(c, n, filter)
  BY <1>0, ChoosesExists
<1>2. Matching(filter) = c[n]
  BY DEF Matching, Chooses
<1> HIDE DEF c
<1> DEFINE step(k) == IF FilterFor(filter, recent[k]) THEN Append(c[k - 1], recent[k]) ELSE c[k - 1]
<1>3. c = [k \in 0 .. n |-> IF k = 0 THEN <<>> ELSE step(k)]
  BY <1>1 DEF Chooses
<1> HIDE DEF n
<1>4. c[0] = <<>> /\ \A k \in 1 .. n : c[k] = step(k)
  <2> HIDE DEF step
  <2>1. 0 \in 0 .. n /\ \A k \in 1 .. n : k \in 0 .. n /\ k # 0
    BY <1>0
  <2> QED BY <1>3, <2>1
<1> DEFINE S == {k \in 0 .. n : ~Chosen(c[k], k, filter)}
<1>5. S = {}
  <2> SUFFICES ASSUME S # {} PROVE FALSE
    OBVIOUS
  <2>2. PICK k \in S : \A j \in S : k <= j
    <3>1. S \in SUBSET Nat
      BY <1>0
    <3> HIDE DEF S
    <3> QED BY <3>1, LeastNumber
  <2>3. CASE k = 0
    <3>1. Chosen(<<>>, 0, filter)
      BY DEF Chosen
    <3> QED BY <3>1, <2>2, <2>3, <1>4
  <2>4. CASE k # 0
    <3>1. k \in 1 .. n /\ k - 1 \in 0 .. n /\ k - 1 \notin S
      BY <2>2, <2>4, <1>0
    <3>2. Chosen(c[k - 1], k - 1, filter)
      BY <3>1
    <3>3. Chosen(step(k), k, filter)
      BY <3>1, <3>2, ChosenNext DEF n
    <3> HIDE DEF step
    <3> QED BY <3>1, <3>3, <2>2, <1>4
  <2> QED BY <2>3, <2>4
<1>6. Chosen(c[n], n, filter)
  <2>1. n \in 0 .. n
    BY <1>0
  <2> QED BY <2>1, <1>5
<1> QED BY <1>2, <1>6 DEF n

\* The entries of a filter: every room of it, once, in the order of recent.
LEMMA MatchingIs ==
  ASSUME RecentIs, NEW filter
  PROVE  /\ Matching(filter) \in Seq(Rooms) /\ IsInjective(Matching(filter))
         /\ \A r \in Rooms : Contains(Matching(filter), r) <=> FilterFor(filter, r)
         /\ \A i, j \in 1 .. Len(Matching(filter)) :
               i < j => Before(Matching(filter)[i], Matching(filter)[j])
<1> DEFINE s == Matching(filter)
<1>1. /\ s \in Seq(Rooms) /\ Len(s) \in Nat
      /\ \A i \in 1 .. Len(s) : Position(recent, s[i]) \in 1 .. Len(recent) /\ FilterFor(filter, s[i])
      /\ \A i, j \in 1 .. Len(s) : i < j => Before(s[i], s[j])
      /\ \A m \in 1 .. Len(recent) : FilterFor(filter, recent[m]) => Contains(s, recent[m])
  BY MatchingChosen DEF Chosen
<1> HIDE DEF s
<1>2. \A i, j \in 1 .. Len(s) : s[i] = s[j] => i = j
  <2> SUFFICES ASSUME NEW i \in 1 .. Len(s), NEW j \in 1 .. Len(s), s[i] = s[j] PROVE i = j
    OBVIOUS
  <2>1. Position(recent, s[i]) \in Int /\ ~Before(s[i], s[j]) /\ ~Before(s[j], s[i])
    BY <1>1 DEF Before
  <2> QED BY <2>1, <1>1
<1>3. ASSUME NEW r \in Rooms PROVE Contains(s, r) <=> FilterFor(filter, r)
  <2>1. ASSUME Contains(s, r) PROVE FilterFor(filter, r)
    BY <2>1, <1>1 DEF Contains
  <2>2. ASSUME FilterFor(filter, r) PROVE Contains(s, r)
    <3>1. PICK m \in 1 .. Len(recent) : recent[m] = r
      BY DEF RecentIs, Contains
    <3> QED BY <3>1, <2>2, <1>1
  <2> QED BY <2>1, <2>2
<1>4. IsInjective(s)
  BY <1>1, <1>2, InjectiveIs
<1> QED BY <1>1, <1>3, <1>4 DEF s

-----------------------------------------------------------------------------
(* RoomList: the invariant of the list, and what keeps it.                   *)

ListTasks == {"none", "spawned", "running", "aborted", "ended"}
ListCommands == RoomFilters \cup {"loadMore", "refilter"}

Watches ==
    [task : ListTasks, registered : BOOLEAN, filter : RoomFilters, limit : Nat,
     visible : Seq(Rooms), changed : BOOLEAN, left : BOOLEAN, commands : Seq(ListCommands)]
Entries == [sorted : Seq(Rooms), dirty : SUBSET Rooms, reset : BOOLEAN]

RoomTypes ==
    /\ room \in [Rooms -> [membership : Memberships, rule : Modes, cached : Modes]]
    /\ RecentIs
    /\ owed \in [left : SUBSET Rooms, rules : BOOLEAN]
    /\ entries \in Entries
    /\ watch \in Watches
    /\ sink \in Seq(Seq(RoomDiffs))
    /\ list = [rooms |-> list.rooms, filter |-> list.filter, open |-> list.open]
    /\ list.filter \in RoomFilters /\ list.open \in BOOLEAN
    /\ raced \in [modes : SUBSET Rooms, filter : BOOLEAN]

\* Before the task runs it has no entries and shows none.
NotStarted == watch.task \in {"none", "spawned"} => entries.sorted = <<>> /\ watch.visible = <<>>

\* The visible rooms are the first of the entries, which have no room twice.
Window ==
    /\ IsInjective(entries.sorted)
    /\ watch.visible = FirstOf(entries.sorted, Len(watch.visible))
    /\ Len(watch.visible) <= watch.limit

StoppedOnceDisposed == RoomCall("stop", NoRoom, "") \in listCalls => ~list.open

\* A cached mode that is not the rule's is a known race, or a sync is to come.
ModesCached ==
    \A r \in Rooms : room[r].cached # room[r].rule => r \in raced.modes \/ owed.rules

\* What may be known of a room: its rule's mode, unless that was raced for or
\* news of the rules is still to come.
RightModes ==
    {x \in Summaries :
        x.mode = room[x.id].rule \/ x.id \in raced.modes \/ owed.rules \/ watch.changed}
Known == IF Running THEN RightModes ELSE Summaries

\* The batches under way bring an open list to the visible rooms, with right modes.
ShownRight == list.open => Has(Arrived(list.rooms, sink), Known, watch.visible)

RoomsInv ==
    /\ RoomTypes /\ NotStarted /\ Window /\ StoppedOnceDisposed /\ ModesCached /\ ShownRight

-----------------------------------------------------------------------------
LEMMA KnownAreRooms ==
  ASSUME RoomTypes, ModesCached
  PROVE  KnownNow(RightModes) /\ RightModes \in SUBSET Summaries /\ Known \in SUBSET Summaries
<1>1. RightModes \in SUBSET Summaries
  BY DEF RightModes
<1>2. ASSUME NEW r \in Rooms PROVE Summarize(r) \in RightModes
  <2>1. room[r] \in [membership : Memberships, rule : Modes, cached : Modes]
    BY DEF RoomTypes, Watches, Entries
  <2>2. Summarize(r) \in Summaries /\ Summarize(r).id = r /\ Summarize(r).mode = room[r].cached
    BY <2>1 DEF Summarize, Summaries
  <2> QED BY <2>2 DEF RightModes, ModesCached
<1> QED BY <1>1, <1>2 DEF KnownNow, Known

LEMMA HasMore ==
  ASSUME NEW known, NEW more, known \subseteq more, NEW rooms, NEW ids, Has(rooms, known, ids)
  PROVE  Has(rooms, more, ids)
<1>1. rooms \in Seq(more)
  <2>1. rooms \in Seq(known)
    BY DEF Has
  <2>2. \A k \in 1 .. Len(rooms) : rooms[k] \in more
    BY <2>1
  <2> QED BY <2>1, <2>2
<1> QED BY <1>1 DEF Has

\* Where nothing new is sent and nothing known is given up.
LEMMA QuietList ==
  ASSUME RoomTypes, ShownRight, list'.open => list.open, list'.rooms = list.rooms, sink' = sink,
         watch'.visible = watch.visible, Known \subseteq Known'
  PROVE  ShownRight'
<1> SUFFICES ASSUME list'.open PROVE Has(Arrived(list.rooms, sink), Known', watch.visible)
  BY DEF ShownRight
<1>1. Has(Arrived(list.rooms, sink), Known, watch.visible)
  BY DEF ShownRight
<1> QED BY <1>1, HasMore

LEMMA SameKnown ==
  ASSUME RoomTypes, watch'.task = "running" => watch.task = "running",
         \A r \in Rooms : room'[r].rule = room[r].rule, raced.modes \subseteq raced'.modes,
         owed.rules => owed'.rules, watch.changed => watch'.changed
  PROVE  Known \subseteq Known'
BY DEF Known, RightModes, Running, Summaries

\* What a batch brings an open list to.
LEMMA SendHas ==
  ASSUME RoomTypes, NEW batch, Send(batch), NEW to, list' = list, watch'.visible = to,
         Brought(batch, Arrived(list.rooms, sink), Known', to)
  PROVE  ShownRight' /\ sink' \in Seq(Seq(RoomDiffs))
<1>1. sink \in Seq(Seq(RoomDiffs)) /\ batch \in Seq(RoomDiffs)
  BY DEF RoomTypes, Watches, Entries, Brought
<1>2. CASE list.open
  <2>1. sink' = Append(sink, batch)
    BY <1>2 DEF Send
  <2>2. Arrived(list.rooms, sink') = ApplyDiffs(Arrived(list.rooms, sink), batch)
    BY <1>1, <2>1, ArrivedAppend
  <2>3. sink' \in Seq(Seq(RoomDiffs))
    BY <1>1, <2>1
  <2> QED BY <2>2, <2>3 DEF Brought, ShownRight
<1>3. CASE ~list.open
  BY <1>1, <1>3 DEF Send, ShownRight
<1> QED BY <1>2, <1>3

LEMMA WindowKept ==
  ASSUME RoomTypes, NotStarted, Window, entries'.sorted = entries.sorted,
         watch'.visible = watch.visible,
         watch'.limit \in Nat, watch.limit <= watch'.limit,
         watch'.task \in {"none", "spawned"} => watch.task \in {"none", "spawned"}
  PROVE  NotStarted' /\ Window'
<1>1. watch.limit \in Nat /\ Len(watch.visible) \in Nat
  BY DEF RoomTypes, Watches, Entries
<1>2. Len(watch.visible) <= watch'.limit
  BY <1>1 DEF Window
<1> QED BY <1>2 DEF NotStarted, Window

LEMMA StillKnown ==
  ASSUME RoomTypes, ModesCached, watch'.task = "running" => watch.task = "running",
         \A r \in Rooms : room'[r].rule = room[r].rule /\ room'[r].cached = room[r].cached,
         raced'.modes = raced.modes, owed'.rules = owed.rules, watch.changed => watch'.changed
  PROVE  Known \subseteq Known' /\ ModesCached'
<1>1. Known \subseteq Known'
  BY SameKnown
<1>2. ModesCached'
  BY DEF ModesCached
<1> QED BY <1>1, <1>2

\* Steps that leave what the list shows alone, and give up nothing it knows.
LEMMA QuietStep ==
  ASSUME RoomsInv, RoomTypes', entries'.sorted = entries.sorted, watch'.visible = watch.visible,
         watch.limit <= watch'.limit,
         watch'.task \in {"none", "spawned"} => watch.task \in {"none", "spawned"},
         list'.open => list.open, list'.rooms = list.rooms, sink' = sink,
         StoppedOnceDisposed', Known \subseteq Known', ModesCached'
  PROVE  RoomsInv'
<1>1. RoomTypes /\ ShownRight
  BY DEF RoomsInv
<1>2. watch'.limit \in Nat
  BY DEF RoomTypes, Watches, Entries
<1>3. ShownRight'
  BY <1>1, QuietList
<1>4. NotStarted' /\ Window'
  BY <1>2, WindowKept DEF RoomsInv
<1> QED BY <1>3, <1>4 DEF RoomsInv

\* Those of the task and of calls: the rooms stay what they are.
LEMMA CallStep ==
  ASSUME RoomsInv, watch' \in Watches, entries' \in Entries, raced' \in [modes : SUBSET Rooms,
         filter : BOOLEAN],
         entries'.sorted = entries.sorted, watch'.visible = watch.visible,
         watch.limit <= watch'.limit,
         watch'.task \in {"none", "spawned"} => watch.task \in {"none", "spawned"},
         watch'.task = "running" => watch.task = "running",
         list' = list, sink' = sink, listCalls' \subseteq listCalls,
         room' = room, recent' = recent, owed' = owed, raced'.modes = raced.modes,
         watch.changed => watch'.changed
  PROVE  RoomsInv'
<1>1. RoomTypes /\ ModesCached /\ StoppedOnceDisposed
  BY DEF RoomsInv
<1>2. RoomTypes'
  BY <1>1 DEF RoomTypes, Watches, Entries, RecentIs
<1>3. Known \subseteq Known' /\ ModesCached'
  BY <1>1, StillKnown
<1>4. StoppedOnceDisposed'
  BY <1>1 DEF StoppedOnceDisposed
<1> QED BY <1>2, <1>3, <1>4, QuietStep

LEMMA OrdersAre ==
  ASSUME NEW s \in Orders
  PROVE  s \in Seq(Rooms) /\ IsInjective(s) /\ \A r \in Rooms : Contains(s, r)
<1> DEFINE n == Cardinality(Rooms)
<1>0. n \in Nat /\ IsFiniteSet(Rooms)
  BY RoomListAssumption, FS_CardinalityType
<1>1. s \in [1 .. n -> Rooms] /\ IsInjective(s)
  BY DEF Orders
<1>2. Cardinality(1 .. n) = n /\ IsFiniteSet(1 .. n)
  <2>1. 1 \in Int /\ n \in Int
    BY <1>0
  <2> QED BY <1>0, <2>1, FS_Interval
<1>3. s \in Injection(1 .. n, Rooms)
  BY <1>1 DEF Injection
<1>4. s \in Surjection(1 .. n, Rooms)
  BY <1>0, <1>2, <1>3, FS_Injection
<1>5. s \in Seq(Rooms) /\ Len(s) = n
  BY <1>0, <1>1
<1>6. \A r \in Rooms : \E i \in 1 .. n : s[i] = r
  BY <1>4 DEF Surjection
<1> QED BY <1>1, <1>5, <1>6 DEF Contains

LEMMA RoomsInitInv == RoomsInit => RoomsInv
<1> SUFFICES ASSUME RoomsInit PROVE RoomsInv
  OBVIOUS
<1>1. RecentIs
  BY OrdersAre DEF RoomsInit, RecentIs
<1>2. RoomTypes
  <2>1. PageSize \in Nat /\ <<>> \in Seq(Rooms) /\ <<>> \in Seq(ListCommands) /\ <<>> \in Seq(Seq(RoomDiffs))
    BY RoomListAssumption
  <2>2. "none" \in ListTasks /\ "all" \in RoomFilters /\ "all" \in Modes
    BY DEF ListTasks, RoomFilters, Modes
  <2>3. room \in [Rooms -> [membership : Memberships, rule : Modes, cached : Modes]]
    BY <2>2 DEF RoomsInit
  <2> QED BY <1>1, <2>1, <2>2, <2>3 DEF RoomsInit, RoomTypes, Watches, Entries
<1>3. NotStarted
  BY DEF RoomsInit, NotStarted
<1>4. Window
  <2>1. entries.sorted = <<>> /\ watch.visible = <<>> /\ watch.limit = PageSize
    BY DEF RoomsInit
  <2>2. IsInjective(<<>>)
    BY DEF IsInjective
  <2>3. FirstOf(<<>>, 0) = <<>>
    <3>1. <<>> \in Seq(Rooms) /\ 0 \in Nat /\ 0 >= Len(<<>>)
      OBVIOUS
    <3> QED BY <3>1, FirstOfHas
  <2>4. Len(<<>>) = 0 /\ 0 <= PageSize
    BY RoomListAssumption
  <2> QED BY <2>1, <2>2, <2>3, <2>4 DEF Window
<1>5. StoppedOnceDisposed
  BY DEF RoomsInit, StoppedOnceDisposed, RoomCall
<1>6. ModesCached
  BY DEF RoomsInit, ModesCached
<1>7. ShownRight
  <2>1. list.rooms = <<>> /\ sink = <<>> /\ watch.visible = <<>>
    BY DEF RoomsInit
  <2>2. Arrived(<<>>, <<>>) = <<>>
    BY ArrivedNone
  <2>3. Ids(<<>>) = <<>>
    BY DEF Ids
  <2>4. <<>> \in Seq(Known)
    OBVIOUS
  <2> QED BY <2>1, <2>2, <2>3, <2>4 DEF ShownRight, Has
<1> QED BY <1>2, <1>3, <1>4, <1>5, <1>6, <1>7 DEF RoomsInv

-----------------------------------------------------------------------------
(* RoomList: the passes of the task.                                         *)

LEMMA WatchFields ==
  ASSUME RoomTypes
  PROVE  /\ watch = [task |-> watch.task, registered |-> watch.registered, filter |-> watch.filter,
                     limit |-> watch.limit, visible |-> watch.visible, changed |-> watch.changed,
                     left |-> watch.left, commands |-> watch.commands]
         /\ watch.task \in ListTasks /\ watch.registered \in BOOLEAN /\ watch.filter \in RoomFilters
         /\ watch.limit \in Nat /\ watch.visible \in Seq(Rooms) /\ watch.changed \in BOOLEAN
         /\ watch.left \in BOOLEAN /\ watch.commands \in Seq(ListCommands)
BY DEF RoomTypes, Watches

LEMMA TargetIs ==
  ASSUME RoomTypes, NEW sorted \in Seq(Rooms), IsInjective(sorted)
  PROVE  /\ Target(sorted) \in Seq(Rooms) /\ IsInjective(Target(sorted))
         /\ Target(sorted) = FirstOf(sorted, Len(Target(sorted)))
         /\ Len(Target(sorted)) <= watch.limit
<1> DEFINE t == Target(sorted)
           n == Len(t)
           u == FirstOf(sorted, n)
<1>1. watch.limit \in Nat
  BY WatchFields
<1>2. t = FirstOf(sorted, watch.limit)
  BY DEF Target
<1>3. t \in Seq(Rooms) /\ n <= watch.limit /\ n <= Len(sorted) /\ \A k \in 1 .. n : t[k] = sorted[k]
  <2> DEFINE f == FirstOf(sorted, watch.limit)
  <2>1. /\ f \in Seq(Rooms) /\ Len(f) <= watch.limit /\ Len(f) <= Len(sorted)
        /\ \A k \in 1 .. Len(f) : f[k] = sorted[k]
    BY <1>1, FirstOfHas
  <2>2. t = f
    BY <1>2
  <2> HIDE DEF f, t
  <2> QED BY <2>1, <2>2
<1>4. IsInjective(t)
  BY <1>1, <1>2, InjectiveFirst
<1> HIDE DEF t
<1>5. n \in Nat /\ Len(sorted) \in Nat
  BY <1>3
<1>6. /\ u \in Seq(Rooms) /\ Len(u) = IF n < Len(sorted) THEN n ELSE Len(sorted)
      /\ \A k \in 1 .. Len(u) : u[k] = sorted[k]
  BY <1>5, FirstOfIs
<1> HIDE DEF u
<1>7. Len(u) = n
  BY <1>3, <1>5, <1>6
<1>8. t = u
  <2> HIDE DEF n
  <2>1. \A k \in 1 .. n : t[k] = u[k]
    BY <1>3, <1>6, <1>7
  <2>2. Len(t) = Len(u)
    BY <1>7 DEF n
  <2> QED BY <2>1, <2>2, <1>3, <1>6, <1>7, SeqsEqual DEF n
<1> QED BY <1>3, <1>4, <1>8 DEF t, u

LEMMA TaskStartsKeeps == ASSUME RoomsInv, TaskStarts PROVE RoomsInv'
<1>0. RoomTypes /\ NotStarted /\ Window /\ StoppedOnceDisposed /\ ModesCached /\ ShownRight
  BY DEF RoomsInv
<1>1. RoomTypes'
  <2>1. "running" \in ListTasks /\ "ended" \in ListTasks
    BY DEF ListTasks
  <2>2. entries' \in Entries
    BY <1>0 DEF TaskStarts, RoomTypes, Entries
  <2>3. watch' \in Watches
    BY <1>0, <2>1 DEF TaskStarts, RoomTypes, Watches
  <2> QED BY <1>0, <2>2, <2>3 DEF TaskStarts, RoomTypes, RecentIs
<1>2. /\ watch.task = "spawned" /\ watch.visible = <<>> /\ entries.sorted = <<>>
      /\ watch'.visible = <<>> /\ entries'.sorted = <<>> /\ watch'.limit = watch.limit
      /\ watch'.task \in {"running", "ended"} /\ list' = list /\ sink' = sink
  BY <1>0, WatchFields DEF TaskStarts, NotStarted, RoomTypes, Entries
<1>3. NotStarted' /\ Window'
  BY <1>0, <1>2 DEF NotStarted, Window
<1>4. StoppedOnceDisposed' /\ ModesCached'
  BY <1>0 DEF TaskStarts, StoppedOnceDisposed, ModesCached
<1>5. ShownRight'
  <2> SUFFICES ASSUME list.open PROVE Has(Arrived(list.rooms, sink), Known', <<>>)
    BY <1>2 DEF ShownRight
  <2>1. Has(Arrived(list.rooms, sink), Known, <<>>)
    BY <1>0, <1>2 DEF ShownRight
  <2>2. Known \in SUBSET Summaries
    BY <1>0, KnownAreRooms
  <2>3. Arrived(list.rooms, sink) \in Seq(Known) /\ Len(Arrived(list.rooms, sink)) = 0
    <3>1. Arrived(list.rooms, sink) \in Seq(Known)
      BY <2>1 DEF Has
    <3>2. Len(Ids(Arrived(list.rooms, sink))) = Len(Arrived(list.rooms, sink))
      BY <2>2, <3>1, IdsHave
    <3>3. Len(Ids(Arrived(list.rooms, sink))) = 0
      BY <2>1 DEF Has
    <3> QED BY <3>1, <3>2, <3>3
  <2>4. Arrived(list.rooms, sink) \in Seq(Known')
    BY <2>3
  <2> QED BY <2>1, <2>4 DEF Has
<1> QED BY <1>1, <1>3, <1>4, <1>5 DEF RoomsInv

\* The batch of a reset leaves the list with just what it names.
LEMMA ResetBrings ==
  ASSUME NEW known, KnownNow(known), NEW ids \in Seq(Rooms), NEW rooms
  PROVE  Brought(Batch(<<Diff("reset", 0, ids)>>), rooms, known, ids)
<1> DEFINE d == MapRoomDiff(Diff("reset", 0, ids))
<1>1. "reset" \in Ops /\ 0 \in Int
  BY DEF Ops
<1>2. d = Diff("reset", 0, SummarizeAll(ids)) /\ d \in RoomDiffs
  BY <1>1, MapRoomDiffIs
<1> HIDE DEF d
<1>3. ApplyDiff(rooms, d) = SummarizeAll(ids)
  BY <1>2 DEF ApplyDiff, Diff
<1>4. Has(SummarizeAll(ids), known, ids)
  BY SummarizeAllHas
<1> QED BY <1>2, <1>3, <1>4, BroughtByOne DEF d

LEMMA AppendBrings ==
  ASSUME NEW known, KnownNow(known), NEW ids \in Seq(Rooms), NEW rooms, NEW from,
         Has(rooms, known, from)
  PROVE  Brought(Batch(<<Diff("append", 0, ids)>>), rooms, known, from \o ids)
<1> DEFINE d == MapRoomDiff(Diff("append", 0, ids))
<1>1. "append" \in Ops /\ 0 \in Int /\ known \in SUBSET Summaries
  BY DEF Ops, KnownNow
<1>2. d = Diff("append", 0, SummarizeAll(ids)) /\ d \in RoomDiffs
  BY <1>1, MapRoomDiffIs
<1> HIDE DEF d
<1>3. ApplyDiff(rooms, d) = rooms \o SummarizeAll(ids)
  BY <1>2 DEF ApplyDiff, Diff
<1>4. Has(SummarizeAll(ids), known, ids)
  BY SummarizeAllHas
<1>5. Has(rooms \o SummarizeAll(ids), known, from \o ids)
  BY <1>1, <1>4, HasConcat
<1> QED BY <1>2, <1>3, <1>5, BroughtByOne DEF d

\* A pass of the task over the entries: what stays as it is.
Polls == UNCHANGED <<room, recent, owed, listCalls, list, raced, roomChanges>> /\ Running

LEMMA PollKnown ==
  ASSUME RoomsInv, Polls, watch'.task = watch.task, watch'.changed = watch.changed
  PROVE  Known' = RightModes /\ KnownNow(RightModes) /\ Known = RightModes
         /\ StoppedOnceDisposed' /\ ModesCached'
<1>1. Known = RightModes /\ Known' = RightModes'
  BY DEF Known, Running, Polls
<1>2. RightModes' = RightModes
  BY DEF RightModes, Polls
<1> QED BY <1>1, <1>2, KnownAreRooms DEF RoomsInv, Polls, StoppedOnceDisposed, ModesCached

LEMMA PollKeeps ==
  ASSUME RoomsInv, Polls, NEW sorted \in Seq(Rooms), IsInjective(sorted),
         NEW dirty \in SUBSET Rooms, NEW reset \in BOOLEAN,
         entries' = [sorted |-> sorted, dirty |-> dirty, reset |-> reset],
         watch' = [watch EXCEPT !.visible = Target(sorted)],
         sink' \in Seq(Seq(RoomDiffs)), ShownRight'
  PROVE  RoomsInv'
<1>0. RoomTypes /\ NotStarted /\ Window
  BY DEF RoomsInv
<1>1. /\ Target(sorted) \in Seq(Rooms) /\ Target(sorted) = FirstOf(sorted, Len(Target(sorted)))
      /\ Len(Target(sorted)) <= watch.limit
  BY <1>0, TargetIs
<1> DEFINE t == Target(sorted)
<1> HIDE DEF t
<1>2. /\ watch' = [watch EXCEPT !.visible = t] /\ t \in Seq(Rooms)
      /\ t = FirstOf(sorted, Len(t)) /\ Len(t) <= watch.limit
  BY <1>1 DEF t
<1>3. watch' \in Watches
  BY <1>0, <1>2 DEF RoomTypes, Watches
<1>4. /\ watch'.visible = t /\ watch'.limit = watch.limit /\ watch'.task = watch.task
      /\ watch'.changed = watch.changed
  BY <1>0, <1>2, WatchFields
<1>5. RoomTypes'
  BY <1>0, <1>3 DEF RoomTypes, Entries, Polls, RecentIs
<1>6. NotStarted' /\ Window'
  BY <1>2, <1>4 DEF NotStarted, Window, Polls, Running
<1>7. StoppedOnceDisposed' /\ ModesCached'
  BY <1>4, PollKnown
<1> QED BY <1>5, <1>6, <1>7 DEF RoomsInv

LEMMA PollResetKeeps == ASSUME RoomsInv, PollReset PROVE RoomsInv'
<1> DEFINE sorted == Matching(watch.filter)
           t == Target(sorted)
<1>0. RoomTypes /\ RecentIs /\ Polls
  BY DEF RoomsInv, RoomTypes, PollReset, Polls
<1>1. sorted \in Seq(Rooms) /\ IsInjective(sorted)
  BY <1>0, MatchingIs
<1>2. /\ entries' = [sorted |-> sorted, dirty |-> {}, reset |-> FALSE]
      /\ watch' = [watch EXCEPT !.visible = t]
      /\ Send(Batch(<<Diff("reset", 0, t)>>))
  BY DEF PollReset, Emit, Batch
<1> HIDE DEF sorted
<1>3. t \in Seq(Rooms)
  BY <1>0, <1>1, TargetIs
<1>a. watch' = [watch EXCEPT !.visible = Target(sorted)] /\ {} \in SUBSET Rooms /\ FALSE \in BOOLEAN
  BY <1>2
<1> HIDE DEF t
<1>4. watch'.task = watch.task /\ watch'.changed = watch.changed /\ watch'.visible = t
  BY <1>0, <1>2, WatchFields
<1>5. Brought(Batch(<<Diff("reset", 0, t)>>), Arrived(list.rooms, sink), Known', t)
  BY <1>0, <1>3, <1>4, PollKnown, ResetBrings
<1>6. ShownRight' /\ sink' \in Seq(Seq(RoomDiffs))
  BY <1>0, <1>2, <1>4, <1>5, SendHas DEF Polls
<1> QED BY <1>0, <1>1, <1>2, <1>6, <1>a, PollKeeps

LEMMA PollGrownKeeps == ASSUME RoomsInv, PollGrown PROVE RoomsInv'
<1> DEFINE s == entries.sorted
           t == Target(s)
           v == watch.visible
           more == SubSeq(t, Len(v) + 1, Len(t))
<1>0. RoomTypes /\ Polls /\ Window /\ ShownRight
  BY DEF RoomsInv, PollGrown, Polls
<1>1. /\ s \in Seq(Rooms) /\ IsInjective(s) /\ v \in Seq(Rooms)
      /\ v = FirstOf(s, Len(v)) /\ Len(v) <= watch.limit /\ watch.limit \in Nat /\ Len(v) \in Nat
  BY <1>0, WatchFields DEF Window, RoomTypes, Entries
<1>2. /\ entries' = entries
      /\ watch' = [watch EXCEPT !.visible = t]
      /\ Send(Batch(<<Diff("append", 0, more)>>))
  BY DEF PollGrown, Emit, Batch
<1>b. entries' = [sorted |-> s, dirty |-> entries.dirty, reset |-> entries.reset]
      /\ entries.dirty \in SUBSET Rooms /\ entries.reset \in BOOLEAN
  BY <1>0, <1>2 DEF RoomTypes, Entries
<1> HIDE DEF s, v
<1>3. /\ t \in Seq(Rooms) /\ Len(t) = IF watch.limit < Len(s) THEN watch.limit ELSE Len(s)
      /\ \A k \in 1 .. Len(t) : t[k] = s[k]
  BY <1>1, FirstOfIs DEF Target
<1>a. watch' = [watch EXCEPT !.visible = Target(s)]
  BY <1>2
<1> HIDE DEF t
<1>4. v \o more = t /\ more \in Seq(Rooms)
  <2> DEFINE f == FirstOf(s, Len(v))
  <2>1. f \in Seq(Rooms) /\ Len(f) <= Len(s) /\ \A k \in 1 .. Len(f) : f[k] = s[k]
    BY <1>1, FirstOfHas
  <2>2. Len(v) <= Len(s) /\ \A k \in 1 .. Len(v) : v[k] = s[k]
    BY <2>1, <1>1
  <2>3. Len(v) <= Len(t) /\ Len(t) \in Nat /\ Len(s) \in Nat
    BY <2>2, <1>1, <1>3
  <2>4. /\ more \in Seq(Rooms) /\ Len(more) = Len(t) - Len(v)
        /\ \A k \in 1 .. Len(more) : more[k] = t[Len(v) + k]
    BY <2>3, <1>1, <1>3
  <2> HIDE DEF more
  <2>5. /\ v \o more \in Seq(Rooms) /\ Len(v \o more) = Len(v) + Len(more)
        /\ \A k \in 1 .. Len(v) : (v \o more)[k] = v[k]
        /\ \A k \in 1 .. Len(more) : (v \o more)[Len(v) + k] = more[k]
    <3>1. v \in Seq(Rooms) /\ more \in Seq(Rooms)
      BY <2>4, <1>1
    <3> QED BY <3>1, ConcatIs
  <2>6. Len(v \o more) = Len(t)
    BY <2>3, <2>4, <2>5, <1>1
  <2>7. \A k \in 1 .. Len(t) : (v \o more)[k] = t[k]
    <3> SUFFICES ASSUME NEW k \in 1 .. Len(t) PROVE (v \o more)[k] = t[k]
      OBVIOUS
    <3>1. CASE k <= Len(v)
      <4>1. k \in 1 .. Len(v)
        BY <3>1, <1>1
      <4> QED BY <4>1, <2>2, <2>5, <1>3
    <3>2. CASE k > Len(v)
      <4>1. k - Len(v) \in 1 .. Len(more) /\ Len(v) + (k - Len(v)) = k
        BY <3>2, <2>3, <2>4, <1>1
      <4>2. (v \o more)[Len(v) + (k - Len(v))] = t[Len(v) + (k - Len(v))]
        BY <4>1, <2>4, <2>5
      <4> QED BY <4>1, <4>2
    <3>3. k <= Len(v) \/ k > Len(v)
      <4>1. k \in Nat /\ Len(v) \in Nat
        BY <1>1, <2>3
      <4> QED BY <4>1
    <3> QED BY <3>1, <3>2, <3>3
  <2> QED BY <2>4, <2>5, <2>6, <2>7, <1>3, SeqsEqual
<1> HIDE DEF more
<1>5. watch'.task = watch.task /\ watch'.changed = watch.changed /\ watch'.visible = t
  BY <1>0, <1>2, WatchFields
<1>6. Known' = RightModes /\ KnownNow(RightModes) /\ Known = RightModes
  BY <1>0, <1>5, PollKnown
<1>7. CASE list.open
  <2>1. Has(Arrived(list.rooms, sink), RightModes, v)
    BY <1>0, <1>6, <1>7 DEF ShownRight, v
  <2>2. Brought(Batch(<<Diff("append", 0, more)>>), Arrived(list.rooms, sink), Known', t)
    BY <2>1, <1>4, <1>6, AppendBrings
  <2>3. ShownRight' /\ sink' \in Seq(Seq(RoomDiffs))
    BY <2>2, <1>0, <1>2, <1>5, SendHas DEF Polls
  <2> QED BY <2>3, <1>0, <1>1, <1>a, <1>b, PollKeeps
<1>8. CASE ~list.open
  <2>1. ShownRight' /\ sink' \in Seq(Seq(RoomDiffs))
    BY <1>0, <1>2, <1>8 DEF Send, ShownRight, Polls, RoomTypes
  <2> QED BY <2>1, <1>0, <1>1, <1>a, <1>b, PollKeeps
<1> QED BY <1>7, <1>8

\* A room is placed before the first one that is less recent.
LEMMA PlacedIs ==
  ASSUME NEW s \in Seq(Rooms), IsInjective(s), NEW r \in Rooms
  PROVE  \E at \in 1 .. Len(Without(s, r)) + 1 :
            /\ Placed(s, r) = InsertAt(Without(s, r), at, r)
            /\ \A j \in 1 .. Len(Without(s, r)) : Before(r, Without(s, r)[j]) => at <= j
            /\ at <= Len(Without(s, r)) => Before(r, Without(s, r)[at])
<1> DEFINE others == Without(s, r)
           later == {i \in DOMAIN others : Before(r, others[i])}
           first == CHOOSE i \in later : \A j \in later : i <= j
           at == IF later = {} THEN Len(others) + 1 ELSE first
<1>1. others \in Seq(Rooms)
  BY WithoutIs
<1>2. Placed(s, r) = InsertAt(others, at, r)
  BY DEF Placed
<1> HIDE DEF others
<1>3. DOMAIN others = 1 .. Len(others) /\ Len(others) \in Nat
  BY <1>1
<1>4. CASE later = {}
  <2>1. at = Len(others) + 1
    BY <1>4
  <2>2. \A j \in 1 .. Len(others) : ~Before(r, others[j])
    BY <1>3, <1>4
  <2>3. at \in 1 .. Len(others) + 1 /\ ~(at <= Len(others))
    BY <2>1, <1>3
  <2> HIDE DEF at
  <2> QED BY <1>2, <2>2, <2>3 DEF others
<1>5. CASE later # {}
  <2>1. later \in SUBSET Nat
    BY <1>3
  <2>2. first \in later /\ \A j \in later : first <= j
    <3> HIDE DEF later
    <3>1. \E i \in later : \A j \in later : i <= j
      BY <1>5, <2>1, LeastNumber
    <3> QED BY <3>1
  <2>3. at = first
    BY <1>5
  <2> HIDE DEF first, at
  <2>4. at \in 1 .. Len(others) /\ Before(r, others[at])
    BY <2>2, <2>3, <1>3
  <2>5. \A j \in 1 .. Len(others) : Before(r, others[j]) => at <= j
    BY <2>2, <2>3, <1>3
  <2>6. at \in 1 .. Len(others) + 1
    BY <2>4, <1>3
  <2> QED BY <1>2, <2>4, <2>5, <2>6 DEF others
<1> QED BY <1>4, <1>5

LEMMA UpdatedIs ==
  ASSUME NEW s \in Seq(Rooms), IsInjective(s), NEW r \in Rooms, NEW n \in Nat,
         NEW u, u = Placed(s, r) \/ u = Without(s, r)
  PROVE  u \in Seq(Rooms) /\ IsInjective(u) /\ Windows(FirstOf(s, n), FirstOf(u, n), r)
<1>1. Without(s, r) \in Seq(Rooms) /\ IsInjective(Without(s, r)) /\ ~Contains(Without(s, r), r)
  BY WithoutIs
<1>2. CASE u = Without(s, r)
  BY <1>1, <1>2, WindowGone
<1>3. CASE u = Placed(s, r)
  <2>1. PICK at \in 1 .. Len(Without(s, r)) + 1 : u = InsertAt(Without(s, r), at, r)
    BY <1>3, PlacedIs
  <2>2. u \in Seq(Rooms) /\ IsInjective(u)
    BY <1>1, <2>1, InsertAtHas, InjectiveInsert
  <2>3. Windows(FirstOf(s, n), FirstOf(u, n), r)
    BY <2>1, WindowPlaced
  <2> QED BY <2>2, <2>3
<1> QED BY <1>2, <1>3

LEMMA PollUpdateKeeps == ASSUME RoomsInv, NEW r \in Rooms, PollUpdate(r) PROVE RoomsInv'
<1> DEFINE s == entries.sorted
           u == IF FilterFor(watch.filter, r) THEN Placed(s, r) ELSE Without(s, r)
           t == Target(u)
           v == watch.visible
<1>0. RoomTypes /\ Polls /\ Window /\ ShownRight
  BY DEF RoomsInv, PollUpdate, Polls
<1>1. /\ s \in Seq(Rooms) /\ IsInjective(s) /\ v \in Seq(Rooms) /\ watch.limit \in Nat
      /\ entries.dirty \in SUBSET Rooms /\ entries.reset \in BOOLEAN
  BY <1>0, WatchFields DEF Window, RoomTypes, Entries
<1>2. /\ entries' = [entries EXCEPT !.sorted = u, !.dirty = @ \ {r}]
      /\ watch' = [watch EXCEPT !.visible = t]
      /\ \E diffs \in SdkDiffs(v, t, r) :
            IF diffs = <<>> THEN UNCHANGED sink ELSE Send(Batch(diffs))
  BY DEF PollUpdate, Emit, Batch
<1>a. v = FirstOf(s, watch.limit)
  BY DEF PollUpdate, Grown, Target
<1>b. u = Placed(s, r) \/ u = Without(s, r)
  OBVIOUS
<1>c. watch' = [watch EXCEPT !.visible = Target(u)]
  BY <1>2
<1>d. t = FirstOf(u, watch.limit)
  BY DEF Target
<1>e. entries' = [sorted |-> u, dirty |-> entries.dirty \ {r}, reset |-> entries.reset]
      /\ entries.dirty \ {r} \in SUBSET Rooms
  BY <1>0, <1>1, <1>2 DEF RoomTypes, Entries
<1> HIDE DEF u, s, v
<1>3. u \in Seq(Rooms) /\ IsInjective(u) /\ Windows(v, t, r)
  BY <1>1, <1>a, <1>b, <1>d, UpdatedIs
<1>4. t \in Seq(Rooms) /\ IsInjective(t)
  BY <1>0, <1>3, TargetIs
<1>5. IsInjective(v)
  BY <1>1, <1>a, InjectiveFirst
<1> HIDE DEF t
<1>6. watch'.task = watch.task /\ watch'.changed = watch.changed /\ watch'.visible = t
  BY <1>0, <1>2, WatchFields
<1>7. Known' = RightModes /\ KnownNow(RightModes) /\ Known = RightModes
  BY <1>0, <1>6, PollKnown
<1>8. PICK diffs \in SdkDiffs(v, t, r) :
         IF diffs = <<>> THEN UNCHANGED sink ELSE Send(Batch(diffs))
  BY <1>2
<1>9. CASE list.open
  <2>1. Has(Arrived(list.rooms, sink), RightModes, v)
    BY <1>0, <1>7, <1>9 DEF ShownRight, v
  <2>2. IF diffs = <<>> THEN t = v ELSE Brought(Batch(diffs), Arrived(list.rooms, sink), RightModes, t)
    BY <2>1, <1>3, <1>4, <1>5, <1>7, SdkDiffsBring
  <2>3. CASE diffs = <<>>
    <3>1. sink' = sink /\ t = v
      BY <1>8, <2>2, <2>3
    <3>2. ShownRight' /\ sink' \in Seq(Seq(RoomDiffs))
      BY <3>1, <2>1, <1>0, <1>6, <1>7 DEF ShownRight, Polls, RoomTypes
    <3> QED BY <3>2, <1>0, <1>1, <1>3, <1>c, <1>e, PollKeeps
  <2>4. CASE diffs # <<>>
    <3>1. Send(Batch(diffs)) /\ Brought(Batch(diffs), Arrived(list.rooms, sink), Known', t)
      BY <1>7, <1>8, <2>2, <2>4
    <3>2. ShownRight' /\ sink' \in Seq(Seq(RoomDiffs))
      BY <3>1, <1>0, <1>6, SendHas DEF Polls
    <3> QED BY <3>2, <1>0, <1>1, <1>3, <1>c, <1>e, PollKeeps
  <2> QED BY <2>3, <2>4
<1>10. CASE ~list.open
  <2>1. ShownRight' /\ sink' \in Seq(Seq(RoomDiffs))
    BY <1>0, <1>8, <1>10 DEF Send, ShownRight, Polls, RoomTypes
  <2> QED BY <2>1, <1>0, <1>1, <1>3, <1>c, <1>e, PollKeeps
<1> QED BY <1>9, <1>10

RoomRecords == [Rooms -> [membership : Memberships, rule : Modes, cached : Modes]]

LEMMA RefreshedIs ==
  ASSUME RoomTypes
  PROVE  /\ Refreshed \in RoomRecords
         /\ \A r \in Rooms :
               /\ Refreshed[r].rule = room[r].rule /\ Refreshed[r].membership = room[r].membership
               /\ Refreshed[r].cached = IF Contains(watch.visible, r)
                                        THEN room[r].rule ELSE room[r].cached
<1>1. \A q \in Rooms : room[q] \in [membership : Memberships, rule : Modes, cached : Modes]
  BY DEF RoomTypes
<1>2. \A q \in Rooms : [room[q] EXCEPT !.cached = room[q].rule]
                          \in [membership : Memberships, rule : Modes, cached : Modes]
  BY <1>1
<1>3. \A q \in Rooms : Refreshed[q] = IF Contains(watch.visible, q)
                                      THEN [room[q] EXCEPT !.cached = room[q].rule] ELSE room[q]
  BY DEF Refreshed
<1>4. Refreshed \in RoomRecords
  BY <1>1, <1>2 DEF Refreshed, RoomRecords
<1> QED BY <1>1, <1>3, <1>4

LEMMA RefreshModesKeeps == ASSUME RoomsInv, RefreshModes PROVE RoomsInv'
<1> DEFINE v == watch.visible
           f == Refreshed
           sent == [i \in DOMAIN v |-> [id |-> v[i], mode |-> f[v[i]].cached]]
           d == Diff("reset", 0, sent)
<1>0. RoomTypes /\ NotStarted /\ Window /\ StoppedOnceDisposed /\ ModesCached /\ ShownRight
  BY DEF RoomsInv
<1>1. /\ v \in Seq(Rooms) /\ DOMAIN v = 1 .. Len(v) /\ Len(v) \in Nat
      /\ \A i \in 1 .. Len(v) : v[i] \in Rooms /\ Contains(v, v[i]) /\ v[i] \in Range(v)
  <2>1. v \in Seq(Rooms)
    BY <1>0, WatchFields
  <2> HIDE DEF v
  <2> QED BY <2>1 DEF Contains, Range
<1>2. /\ room' = f /\ watch' = [watch EXCEPT !.changed = FALSE] /\ Send(<<d>>)
      /\ raced' = [raced EXCEPT !.modes = @ \ Range(v)]
      /\ UNCHANGED <<recent, owed, entries, listCalls, list, roomChanges>> /\ Running
  BY DEF RefreshModes
<1>3. /\ f \in RoomRecords
      /\ \A r \in Rooms : /\ f[r].rule = room[r].rule
                          /\ f[r].cached = IF Contains(v, r) THEN room[r].rule ELSE room[r].cached
  BY <1>0, RefreshedIs
<1> HIDE DEF f
<1>4. /\ watch'.visible = v /\ watch'.task = watch.task /\ watch'.limit = watch.limit
      /\ watch'.changed = FALSE /\ raced'.modes = raced.modes \ Range(v)
  BY <1>0, <1>2, WatchFields DEF RoomTypes
<1>5. \A i \in 1 .. Len(v) : sent[i] = [id |-> v[i], mode |-> room[v[i]].rule]
  BY <1>1, <1>3
<1>6. /\ Known' = RightModes' /\ Known' \in SUBSET Summaries
      /\ \A i \in 1 .. Len(v) : sent[i] \in Known'
  <2>1. Known' = RightModes'
    BY <1>2, <1>4 DEF Known, Running
  <2>2. \A i \in 1 .. Len(v) : room[v[i]].rule \in Modes
    BY <1>0, <1>1 DEF RoomTypes
  <2>3. \A i \in 1 .. Len(v) : sent[i] \in Summaries /\ sent[i].id = v[i]
                               /\ sent[i].mode = room'[sent[i].id].rule
    BY <1>1, <1>2, <1>3, <1>5, <2>2 DEF Summaries
  <2> HIDE DEF sent
  <2> QED BY <2>1, <2>3 DEF RightModes
<1>7. DOMAIN sent = 1 .. Len(v)
  BY <1>1
<1>8. \A i \in 1 .. Len(v) : sent[i].id = v[i]
  BY <1>5
<1> HIDE DEF v
<1>9. Has(sent, Known', v)
  <2>1. sent = [i \in 1 .. Len(v) |-> sent[i]]
    BY <1>7
  <2> HIDE DEF sent
  <2>2. sent \in Seq(Known') /\ Len(sent) = Len(v)
    BY <2>1, <1>1, <1>6
  <2>3. Ids(sent) = [i \in 1 .. Len(v) |-> v[i]]
    BY <1>7, <1>8 DEF Ids
  <2>4. v = [i \in 1 .. Len(v) |-> v[i]]
    BY <1>1
  <2> QED BY <2>2, <2>3, <2>4 DEF Has
<1>10. d \in RoomDiffs
  <2>1. sent \in Seq(Summaries)
    BY <1>6, <1>9 DEF Has
  <2> HIDE DEF sent
  <2> QED BY <2>1 DEF RoomDiffs, Diff, Ops
<1>11. ApplyDiffs(Arrived(list.rooms, sink), <<d>>) = sent
  <2>1. ApplyDiff(Arrived(list.rooms, sink), d) = sent
    <3> HIDE DEF sent
    <3> QED BY DEF ApplyDiff, Diff
  <2> QED BY <2>1, ApplyOne
<1> HIDE DEF d, sent
<1>12. Brought(<<d>>, Arrived(list.rooms, sink), Known', v)
  BY <1>9, <1>10, <1>11 DEF Brought
<1>13. ShownRight' /\ sink' \in Seq(Seq(RoomDiffs))
  BY <1>0, <1>2, <1>4, <1>12, SendHas
<1>14. NotStarted' /\ Window'
  <2>1. watch.limit \in Nat
    BY <1>0, WatchFields
  <2> QED BY <2>1, <1>0, <1>2, <1>4, WindowKept DEF v
<1>15. StoppedOnceDisposed'
  BY <1>0, <1>2 DEF StoppedOnceDisposed
<1>16. ModesCached'
  <2> SUFFICES ASSUME NEW r \in Rooms, f[r].cached # f[r].rule, ~owed.rules
               PROVE  r \in raced.modes \ Range(v)
    BY <1>2, <1>4 DEF ModesCached
  <2>1. ~Contains(v, r) /\ room[r].cached # room[r].rule
    BY <1>3
  <2>2. r \in raced.modes
    BY <2>1, <1>0 DEF ModesCached
  <2>3. r \notin Range(v)
    BY <2>1, <1>1 DEF Range, Contains
  <2> QED BY <2>2, <2>3
<1>17. RoomTypes'
  <2>1. watch' \in Watches
    BY <1>0, <1>2 DEF RoomTypes, Watches
  <2>2. raced' \in [modes : SUBSET Rooms, filter : BOOLEAN]
    BY <1>0, <1>2 DEF RoomTypes
  <2> QED BY <1>0, <1>2, <1>3, <1>13, <2>1, <2>2 DEF RoomTypes, RecentIs, RoomRecords
<1> QED BY <1>13, <1>14, <1>15, <1>16, <1>17 DEF RoomsInv

LEMMA EntriesFields ==
  ASSUME RoomTypes
  PROVE  /\ entries = [sorted |-> entries.sorted, dirty |-> entries.dirty, reset |-> entries.reset]
         /\ entries.sorted \in Seq(Rooms) /\ entries.dirty \in SUBSET Rooms
         /\ entries.reset \in BOOLEAN
BY DEF RoomTypes, Entries

LEMMA RacedFields ==
  ASSUME RoomTypes
  PROVE  /\ raced = [modes |-> raced.modes, filter |-> raced.filter]
         /\ raced.modes \in SUBSET Rooms /\ raced.filter \in BOOLEAN
BY DEF RoomTypes

LEMMA RoomUpdateKeeps == ASSUME RoomsInv, RoomUpdate PROVE RoomsInv'
<1>0. RoomTypes
  BY DEF RoomsInv
<1>1. /\ watch' = [watch EXCEPT !.left = FALSE] /\ entries' = [entries EXCEPT !.reset = TRUE]
      /\ UNCHANGED <<room, recent, owed, listCalls, sink, list, raced, roomChanges>>
  BY DEF RoomUpdate, Filtering
<1>2. watch' \in Watches /\ entries' \in Entries
  BY <1>0, <1>1 DEF RoomTypes, Watches, Entries
<1>3. /\ watch'.visible = watch.visible /\ watch'.limit = watch.limit /\ watch'.task = watch.task
      /\ watch'.changed = watch.changed /\ watch.limit <= watch'.limit
  BY <1>0, <1>1, WatchFields
<1>4. entries'.sorted = entries.sorted
  BY <1>0, <1>1, EntriesFields
<1>5. raced' \in [modes : SUBSET Rooms, filter : BOOLEAN]
  BY <1>0, <1>1 DEF RoomTypes
<1> QED BY <1>1, <1>2, <1>3, <1>4, <1>5, CallStep

\* A command the task takes: none of them changes what the list shows.
LEMMA TakenKeeps ==
  ASSUME RoomsInv, NEW filter \in RoomFilters, NEW limit \in Nat,
         NEW waiting \in Seq(ListCommands),
         NEW reset \in BOOLEAN, watch.limit <= limit,
         watch' = [watch EXCEPT !.filter = filter, !.limit = limit, !.commands = waiting],
         entries' = [entries EXCEPT !.reset = reset],
         UNCHANGED <<room, recent, owed, listCalls, sink, list, raced, roomChanges>>
  PROVE  RoomsInv'
<1>0. RoomTypes
  BY DEF RoomsInv
<1>1. watch' \in Watches /\ entries' \in Entries
  BY <1>0 DEF RoomTypes, Watches, Entries
<1>2. /\ watch'.visible = watch.visible /\ watch'.limit = limit /\ watch'.task = watch.task
      /\ watch'.changed = watch.changed /\ watch.limit <= watch'.limit
  BY <1>0, WatchFields
<1>3. entries'.sorted = entries.sorted
  BY <1>0, EntriesFields
<1>4. raced' \in [modes : SUBSET Rooms, filter : BOOLEAN]
  BY <1>0 DEF RoomTypes
<1> QED BY <1>1, <1>2, <1>3, <1>4, CallStep

LEMMA CommandKeeps == ASSUME RoomsInv, Command PROVE RoomsInv'
<1> DEFINE command == Head(watch.commands)
           waiting == Tail(watch.commands)
<1>0. RoomTypes /\ PageSize \in Nat
  BY RoomListAssumption DEF RoomsInv
<1>1. command \in ListCommands /\ waiting \in Seq(ListCommands)
  <2>1. watch.commands \in Seq(ListCommands) /\ watch.commands # <<>>
    BY <1>0, WatchFields DEF Command
  <2> QED BY <2>1
<1>2. watch.filter \in RoomFilters /\ watch.limit \in Nat
  BY <1>0, WatchFields DEF RoomTypes, Watches
<1>3. UNCHANGED <<room, recent, owed, listCalls, sink, list, raced, roomChanges>>
  BY DEF Command
<1>4. CASE command = "loadMore"
  <2>1. /\ watch' = [watch EXCEPT !.filter = watch.filter, !.limit = watch.limit + PageSize,
                                  !.commands = waiting]
        /\ entries' = [entries EXCEPT !.reset = entries.reset]
    BY <1>0, <1>4, WatchFields, EntriesFields DEF Command
  <2>2. watch.limit + PageSize \in Nat /\ watch.limit <= watch.limit + PageSize
    BY <1>0, <1>2
  <2>3. entries.reset \in BOOLEAN
    BY <1>0, EntriesFields
  <2> QED BY <1>1, <1>2, <1>3, <2>1, <2>2, <2>3, TakenKeeps
<1>5. CASE command = "refilter"
  <2>1. /\ watch' = [watch EXCEPT !.filter = watch.filter, !.limit = watch.limit,
                                  !.commands = waiting]
        /\ entries' = [entries EXCEPT !.reset = TRUE]
    BY <1>0, <1>5, WatchFields DEF Command, Filtering
  <2>2. watch.limit <= watch.limit
    BY <1>2
  <2> QED BY <1>1, <1>2, <1>3, <2>1, <2>2, TakenKeeps
<1>6. CASE command \in RoomFilters
  <2>1. command # "loadMore" /\ command # "refilter"
    BY <1>6 DEF RoomFilters
  <2>2. /\ watch' = [watch EXCEPT !.filter = command, !.limit = watch.limit,
                                  !.commands = waiting]
        /\ entries' = [entries EXCEPT !.reset = TRUE]
    BY <1>0, <2>1, WatchFields DEF Command, Filtering
  <2>3. watch.limit <= watch.limit
    BY <1>2
  <2> QED BY <1>1, <1>2, <1>3, <1>6, <2>2, <2>3, TakenKeeps
<1> QED BY <1>1, <1>4, <1>5, <1>6 DEF ListCommands

\* Steps that only change the watch: where it is, not what it shows.
LEMMA WatchStep ==
  ASSUME RoomsInv, NEW place \in ListTasks, NEW registered \in BOOLEAN,
         NEW commands \in Seq(ListCommands),
         watch' = [watch EXCEPT !.task = place, !.registered = registered, !.commands = commands],
         place \in {"none", "spawned"} => watch.task \in {"none", "spawned"},
         place = "running" => watch.task = "running",
         UNCHANGED <<room, recent, owed, entries, list, sink>>, listCalls' \subseteq listCalls,
         raced'.modes = raced.modes, raced' \in [modes : SUBSET Rooms, filter : BOOLEAN]
  PROVE  RoomsInv'
<1>0. RoomTypes
  BY DEF RoomsInv
<1>2. watch' \in Watches /\ entries' \in Entries
  BY <1>0 DEF RoomTypes, Watches, Entries
<1>3. /\ watch'.visible = watch.visible /\ watch'.limit = watch.limit /\ watch'.task = place
      /\ watch'.changed = watch.changed /\ watch.limit <= watch'.limit
  BY <1>0, WatchFields
<1> QED BY <1>0, <1>2, <1>3, CallStep

LEMMA SameWatch ==
  ASSUME RoomTypes
  PROVE  /\ watch = [watch EXCEPT !.task = watch.task, !.registered = watch.registered,
                                  !.commands = watch.commands]
         /\ \A t : [watch EXCEPT !.task = t] =
               [watch EXCEPT !.task = t, !.registered = watch.registered,
                             !.commands = watch.commands]
         /\ \A b : [watch EXCEPT !.registered = b] =
               [watch EXCEPT !.task = watch.task, !.registered = b,
                             !.commands = watch.commands]
         /\ [watch EXCEPT !.registered = FALSE, !.task = "aborted"] =
               [watch EXCEPT !.task = "aborted", !.registered = FALSE,
                             !.commands = watch.commands]
         /\ \A c : [watch EXCEPT !.commands = Append(@, c)] =
               [watch EXCEPT !.task = watch.task, !.registered = watch.registered,
                             !.commands = Append(watch.commands, c)]
BY WatchFields

LEMMA SinkClosedKeeps == ASSUME RoomsInv, SinkClosed PROVE RoomsInv'
<1>0. RoomTypes
  BY DEF RoomsInv
<1>1. /\ watch' = [watch EXCEPT !.task = "ended", !.registered = watch.registered,
                                !.commands = watch.commands]
  BY <1>0, SameWatch DEF SinkClosed
<1>2. "ended" \in ListTasks /\ watch.registered \in BOOLEAN /\ watch.commands \in Seq(ListCommands)
      /\ raced \in [modes : SUBSET Rooms, filter : BOOLEAN]
  BY <1>0, WatchFields DEF ListTasks, RoomTypes
<1>3. UNCHANGED <<room, recent, owed, entries, list, sink, listCalls, raced>>
  BY DEF SinkClosed
<1> QED BY <1>1, <1>2, <1>3, WatchStep

LEMMA ListSpawnsKeeps == ASSUME RoomsInv, ListSpawns PROVE RoomsInv'
<1>0. RoomTypes
  BY DEF RoomsInv
<1>1. /\ watch' = [watch EXCEPT !.task = "spawned", !.registered = watch.registered,
                                !.commands = watch.commands]
      /\ watch.task = "none"
  BY <1>0, SameWatch DEF ListSpawns
<1>2. "spawned" \in ListTasks /\ watch.registered \in BOOLEAN /\ watch.commands \in Seq(ListCommands)
      /\ raced \in [modes : SUBSET Rooms, filter : BOOLEAN]
  BY <1>0, WatchFields DEF ListTasks, RoomTypes
<1>3. UNCHANGED <<room, recent, owed, entries, list, sink, listCalls, raced>>
  BY DEF ListSpawns
<1> QED BY <1>1, <1>2, <1>3, WatchStep

LEMMA ListRegistersKeeps == ASSUME RoomsInv, ListRegisters PROVE RoomsInv'
<1>0. RoomTypes
  BY DEF RoomsInv
<1>1. /\ watch' = [watch EXCEPT !.task = watch.task, !.registered = TRUE,
                                !.commands = watch.commands]
  BY <1>0, SameWatch DEF ListRegisters
<1>2. watch.task \in ListTasks /\ watch.commands \in Seq(ListCommands)
      /\ raced \in [modes : SUBSET Rooms, filter : BOOLEAN]
  BY <1>0, WatchFields DEF RoomTypes
<1>3. UNCHANGED <<room, recent, owed, entries, list, sink, raced>> /\ listCalls' \subseteq listCalls
  BY DEF ListRegisters, Takes
<1> QED BY <1>1, <1>2, <1>3, WatchStep

LEMMA AbortedIs ==
  ASSUME RoomTypes
  PROVE  \E place \in ListTasks, registered \in BOOLEAN, commands \in Seq(ListCommands) :
            /\ AbortedList = [watch EXCEPT !.task = place, !.registered = registered,
                                           !.commands = commands]
            /\ place \in {"none", "spawned"} => watch.task \in {"none", "spawned"}
            /\ place = "running" => watch.task = "running"
<1>1. watch.task \in ListTasks /\ watch.registered \in BOOLEAN /\ watch.commands \in Seq(ListCommands)
      /\ "aborted" \in ListTasks
  BY WatchFields DEF ListTasks
<1>2. CASE watch.registered
  <2>1. AbortedList = [watch EXCEPT !.task = "aborted", !.registered = FALSE,
                                    !.commands = watch.commands]
    BY <1>2, SameWatch DEF AbortedList
  <2> QED BY <1>1, <2>1
<1>3. CASE ~watch.registered
  <2>1. AbortedList = [watch EXCEPT !.task = watch.task, !.registered = watch.registered,
                                    !.commands = watch.commands]
    BY <1>3, SameWatch DEF AbortedList
  <2> QED BY <1>1, <2>1
<1> QED BY <1>2, <1>3

LEMMA StopRoomListsKeeps == ASSUME RoomsInv, StopRoomLists PROVE RoomsInv'
<1>0. RoomTypes
  BY DEF RoomsInv
<1>1. PICK place \in ListTasks, registered \in BOOLEAN, commands \in Seq(ListCommands) :
         /\ watch' = [watch EXCEPT !.task = place, !.registered = registered,
                                   !.commands = commands]
         /\ place \in {"none", "spawned"} => watch.task \in {"none", "spawned"}
         /\ place = "running" => watch.task = "running"
  BY <1>0, AbortedIs DEF StopRoomLists
<1>2. raced \in [modes : SUBSET Rooms, filter : BOOLEAN]
  BY <1>0 DEF RoomTypes
<1>3. UNCHANGED <<room, recent, owed, entries, list, sink, listCalls, raced>>
  BY DEF StopRoomLists
<1> QED BY <1>1, <1>2, <1>3, WatchStep

\* The list has been disposed of: what it showed no longer matters.
LEMMA StopRoomListKeeps == ASSUME RoomsInv, StopRoomList PROVE RoomsInv'
<1>0. RoomTypes /\ NotStarted /\ Window /\ StoppedOnceDisposed /\ ModesCached
  BY DEF RoomsInv
<1>1. /\ sink' = <<>> /\ watch' = AbortedList /\ ~list.open /\ listCalls' \subseteq listCalls
      /\ UNCHANGED <<room, recent, owed, entries, list, raced>>
  BY <1>0 DEF StopRoomList, Takes, StoppedOnceDisposed
<1>2. PICK place \in ListTasks, registered \in BOOLEAN, commands \in Seq(ListCommands) :
         /\ watch' = [watch EXCEPT !.task = place, !.registered = registered,
                                   !.commands = commands]
         /\ place \in {"none", "spawned"} => watch.task \in {"none", "spawned"}
  BY <1>0, <1>1, AbortedIs
<1>3. watch' \in Watches
  BY <1>0, <1>2 DEF RoomTypes, Watches
<1>4. /\ watch'.visible = watch.visible /\ watch'.limit = watch.limit /\ watch'.task = place
      /\ watch.limit <= watch'.limit /\ watch'.limit \in Nat
  BY <1>0, <1>2, WatchFields
<1>5. NotStarted' /\ Window'
  BY <1>0, <1>1, <1>2, <1>4, WindowKept
<1>6. RoomTypes'
  <2>1. <<>> \in Seq(Seq(RoomDiffs))
    OBVIOUS
  <2> QED BY <1>0, <1>1, <1>3, <2>1 DEF RoomTypes, RecentIs
<1>7. StoppedOnceDisposed' /\ ModesCached' /\ ShownRight'
  BY <1>0, <1>1 DEF StoppedOnceDisposed, ModesCached, ShownRight
<1> QED BY <1>5, <1>6, <1>7 DEF RoomsInv

LEMMA ToldKeeps ==
  ASSUME RoomsInv, NEW command \in ListCommands, watch' = Told(command),
         UNCHANGED <<room, recent, owed, entries, sink, list>>, listCalls' \subseteq listCalls,
         raced'.modes = raced.modes, raced' \in [modes : SUBSET Rooms, filter : BOOLEAN]
  PROVE  RoomsInv'
<1>0. RoomTypes
  BY DEF RoomsInv
<1>1. watch.task \in ListTasks /\ watch.registered \in BOOLEAN /\ watch.commands \in Seq(ListCommands)
  BY <1>0, WatchFields
<1>2. Append(watch.commands, command) \in Seq(ListCommands)
  BY <1>1
<1>3. CASE Listening
  <2>1. watch' = [watch EXCEPT !.task = watch.task, !.registered = watch.registered,
                               !.commands = Append(watch.commands, command)]
    BY <1>0, <1>3, SameWatch DEF Told
  <2> QED BY <1>1, <1>2, <2>1, WatchStep
<1>4. CASE ~Listening
  <2>1. watch' = [watch EXCEPT !.task = watch.task, !.registered = watch.registered,
                               !.commands = watch.commands]
    BY <1>0, <1>4, SameWatch DEF Told
  <2> QED BY <1>1, <2>1, WatchStep
<1> QED BY <1>3, <1>4

LEMMA CommandsKeep ==
  ASSUME RoomsInv,
         \/ MoreSent
         \/ \E f \in RoomFilters : FilterSent(f)
         \/ \E r \in Rooms : Refilter(r)
  PROVE  RoomsInv'
<1>0. RoomTypes /\ raced \in [modes : SUBSET Rooms, filter : BOOLEAN]
  BY DEF RoomsInv, RoomTypes
<1>1. CASE MoreSent
  <2>1. "loadMore" \in ListCommands
    BY DEF ListCommands
  <2> QED BY <1>0, <1>1, <2>1, ToldKeeps DEF MoreSent, Takes
<1>2. CASE \E r \in Rooms : Refilter(r)
  <2>1. "refilter" \in ListCommands
    BY DEF ListCommands
  <2> QED BY <1>0, <1>2, <2>1, ToldKeeps DEF Refilter, Takes
<1>3. ASSUME NEW f \in RoomFilters, FilterSent(f) PROVE RoomsInv'
  <2>1. f \in ListCommands
    BY DEF ListCommands
  <2>2. raced' = [raced EXCEPT !.filter = @ \/ ~Listening]
    BY <1>3 DEF FilterSent
  <2>3. raced' = [modes |-> raced.modes, filter |-> raced.filter \/ ~Listening]
    BY <1>0, <2>2, RacedFields
  <2>4. raced'.modes = raced.modes /\ raced' \in [modes : SUBSET Rooms, filter : BOOLEAN]
    BY <1>0, <2>3, RacedFields
  <2> QED BY <1>3, <2>1, <2>4, ToldKeeps DEF FilterSent, Takes
<1> QED BY <1>1, <1>2, <1>3

-----------------------------------------------------------------------------
(* RoomList: what users do.                                                  *)

\* What a user or a sync changes of the rooms: the list shows what it showed.
LEMMA RoomStep ==
  ASSUME RoomsInv, room' \in RoomRecords, RecentIs', owed' \in [left : SUBSET Rooms,
         rules : BOOLEAN],
         entries' \in Entries, entries'.sorted = entries.sorted,
         watch' \in Watches, watch'.visible = watch.visible, watch'.limit = watch.limit,
         watch'.task = watch.task,
         raced' \in [modes : SUBSET Rooms, filter : BOOLEAN],
         list' = [rooms |-> list.rooms, filter |-> list'.filter, open |-> list'.open],
         list'.filter \in RoomFilters, list'.open \in BOOLEAN, list'.open => list.open, sink' = sink,
         StoppedOnceDisposed', Known \subseteq Known', ModesCached'
  PROVE  RoomsInv'
<1>0. RoomTypes /\ watch.limit \in Nat
  BY WatchFields DEF RoomsInv
<1>1. list' = [rooms |-> list'.rooms, filter |-> list'.filter, open |-> list'.open]
      /\ list'.rooms = list.rooms
  OBVIOUS
<1>2. RoomTypes'
  BY <1>0, <1>1 DEF RoomTypes, RoomRecords
<1>3. watch.limit <= watch'.limit
  BY <1>0
<1> QED BY <1>1, <1>2, <1>3, QuietStep

\* Another call at work is no call to stop.
LEMMA OtherCalls ==
  ASSUME RoomsInv, list' = list, NEW call, call # RoomCall("stop", NoRoom, ""),
         listCalls' \subseteq listCalls \cup {call}
  PROVE  StoppedOnceDisposed'
BY DEF RoomsInv, StoppedOnceDisposed

LEMMA ListFields ==
  ASSUME RoomTypes
  PROVE  /\ list = [rooms |-> list.rooms, filter |-> list.filter, open |-> list.open]
         /\ list.filter \in RoomFilters /\ list.open \in BOOLEAN
         /\ room \in RoomRecords /\ RecentIs /\ owed \in [left : SUBSET Rooms, rules : BOOLEAN]
         /\ entries \in Entries /\ watch \in Watches
         /\ raced \in [modes : SUBSET Rooms, filter : BOOLEAN]
         /\ sink \in Seq(Seq(RoomDiffs))
BY DEF RoomTypes, RoomRecords

LEMMA OwedFields ==
  ASSUME RoomTypes
  PROVE  /\ owed = [left |-> owed.left, rules |-> owed.rules]
         /\ owed.left \in SUBSET Rooms /\ owed.rules \in BOOLEAN
BY DEF RoomTypes

LEMMA RecentKept == ASSUME RecentIs, recent' = recent PROVE RecentIs'
BY DEF RecentIs

LEMMA ModeCachedKeeps ==
  ASSUME RoomsInv, NEW r \in Rooms, NEW m \in Modes, ModeCached(r, m) PROVE RoomsInv'
<1>0. RoomTypes /\ ModesCached
  BY DEF RoomsInv
<1>1. /\ room' = [room EXCEPT ![r].cached = m]
      /\ raced' = [raced EXCEPT !.modes = IF room[r].rule # m THEN @ \cup {r} ELSE @]
      /\ listCalls' \subseteq listCalls
      /\ UNCHANGED <<recent, owed, entries, watch, sink, list>>
  BY DEF ModeCached, Takes
<1>2. room \in RoomRecords
  BY <1>0, ListFields
<1>3. /\ room' \in RoomRecords /\ \A q \in Rooms : room'[q].rule = room[q].rule
      /\ room'[r].cached = m /\ \A q \in Rooms \ {r} : room'[q].cached = room[q].cached
  BY <1>1, <1>2 DEF RoomRecords
<1>4. raced' = [modes |-> IF room[r].rule # m THEN raced.modes \cup {r} ELSE raced.modes,
                filter |-> raced.filter]
  BY <1>0, <1>1, RacedFields
<1>5. /\ raced' \in [modes : SUBSET Rooms, filter : BOOLEAN] /\ raced.modes \subseteq raced'.modes
      /\ room[r].rule # m => r \in raced'.modes
  BY <1>0, <1>4, RacedFields
<1>6. Known \subseteq Known'
  BY <1>0, <1>1, <1>3, <1>5, SameKnown
<1>7. ModesCached'
  BY <1>0, <1>1, <1>3, <1>5 DEF ModesCached
<1>8. StoppedOnceDisposed'
  BY <1>1 DEF RoomsInv, StoppedOnceDisposed
<1> QED BY <1>0, <1>1, <1>3, <1>5, <1>6, <1>7, <1>8, ListFields, RecentKept, RoomStep

LEMMA SetFilterKeeps ==
  ASSUME RoomsInv, NEW f \in RoomFilters, SetFilter(f) PROVE RoomsInv'
<1>0. RoomTypes /\ ModesCached
  BY DEF RoomsInv
<1>1. /\ list.open /\ list' = [list EXCEPT !.filter = f]
      /\ raced' = [raced EXCEPT !.filter = FilterCalls # {}]
      /\ listCalls' = listCalls \cup {RoomCall("filter", NoRoom, f)}
      /\ UNCHANGED <<room, recent, owed, entries, watch, sink>>
  BY DEF SetFilter, Calls
<1>2. list' = [rooms |-> list.rooms, filter |-> f, open |-> list.open]
  BY <1>0, <1>1, ListFields
<1>3. raced' = [modes |-> raced.modes, filter |-> FilterCalls # {}]
  BY <1>0, <1>1, RacedFields
<1>4. raced' \in [modes : SUBSET Rooms, filter : BOOLEAN] /\ raced'.modes = raced.modes
  BY <1>0, <1>3, RacedFields
<1>5. Known \subseteq Known' /\ ModesCached'
  BY <1>0, <1>1, <1>4, StillKnown
<1>6. StoppedOnceDisposed'
  <2>1. RoomCall("stop", NoRoom, "") # RoomCall("filter", NoRoom, f)
    BY DEF RoomCall
  <2> QED BY <1>1, <1>2, <2>1 DEF RoomsInv, StoppedOnceDisposed
<1> QED BY <1>0, <1>1, <1>2, <1>4, <1>5, <1>6, ListFields, RecentKept, RoomStep

LEMMA LoadMoreKeeps == ASSUME RoomsInv, LoadMore PROVE RoomsInv'
<1>0. RoomTypes /\ ModesCached
  BY DEF RoomsInv
<1>1. /\ listCalls' = listCalls \cup {RoomCall("more", NoRoom, "")}
      /\ UNCHANGED <<room, recent, owed, entries, watch, sink, list, raced>>
  BY DEF LoadMore, Calls
<1>2. Known \subseteq Known' /\ ModesCached'
  BY <1>0, <1>1, StillKnown
<1>3. StoppedOnceDisposed'
  <2>1. RoomCall("stop", NoRoom, "") # RoomCall("more", NoRoom, "")
    BY DEF RoomCall
  <2> QED BY <1>1, <2>1, OtherCalls
<1> QED BY <1>0, <1>1, <1>2, <1>3, ListFields, RecentKept, RoomStep

LEMMA DisposeListKeeps == ASSUME RoomsInv, DisposeList PROVE RoomsInv'
<1>0. RoomTypes /\ ModesCached
  BY DEF RoomsInv
<1>1. /\ list' = [list EXCEPT !.open = FALSE]
      /\ UNCHANGED <<room, recent, owed, entries, watch, sink, raced>>
  BY DEF DisposeList
<1>2. list' = [rooms |-> list.rooms, filter |-> list.filter, open |-> FALSE]
  BY <1>0, <1>1, ListFields
<1>3. Known \subseteq Known' /\ ModesCached'
  BY <1>0, <1>1, StillKnown
<1>4. StoppedOnceDisposed'
  BY <1>2 DEF StoppedOnceDisposed
<1> QED BY <1>0, <1>1, <1>2, <1>3, <1>4, ListFields, RecentKept, RoomStep

\* A batch that arrives is one under way no more.
LEMMA DeliverKeeps == ASSUME RoomsInv, Deliver PROVE RoomsInv'
<1>0. RoomTypes /\ ModesCached /\ ShownRight /\ sink \in Seq(Seq(RoomDiffs)) /\ sink # <<>> /\ list.open
  BY ListFields DEF RoomsInv, Deliver
<1>1. /\ list' = [list EXCEPT !.rooms = ApplyDiffs(@, Head(sink))] /\ sink' = Tail(sink)
      /\ UNCHANGED <<room, recent, owed, entries, watch, listCalls, raced>>
  BY DEF Deliver
<1> DEFINE rooms == ApplyDiffs(list.rooms, Head(sink))
<1>2. list' = [rooms |-> rooms, filter |-> list.filter, open |-> list.open]
  BY <1>0, <1>1, ListFields
<1>3. Arrived(rooms, Tail(sink)) = Arrived(list.rooms, sink)
  BY <1>0, ArrivedHead
<1>4. sink' \in Seq(Seq(RoomDiffs))
  BY <1>0, <1>1
<1> HIDE DEF rooms
<1>5. Known \subseteq Known' /\ ModesCached'
  BY <1>0, <1>1, StillKnown
<1>6. ShownRight'
  <2>1. Has(Arrived(list.rooms, sink), Known', watch.visible)
    BY <1>0, <1>5, HasMore DEF ShownRight
  <2>2. Arrived(list'.rooms, sink') = Arrived(list.rooms, sink)
    BY <1>1, <1>2, <1>3
  <2> QED BY <1>1, <2>1, <2>2 DEF ShownRight
<1>7. RoomTypes'
  <2>1. list' = [rooms |-> list'.rooms, filter |-> list'.filter, open |-> list'.open]
        /\ list'.filter = list.filter /\ list'.open = list.open
    BY <1>2
  <2> QED BY <1>0, <1>1, <1>4, <2>1, RecentKept DEF RoomTypes
<1>8. NotStarted' /\ Window' /\ StoppedOnceDisposed'
  BY <1>1, <1>2 DEF RoomsInv, NotStarted, Window, StoppedOnceDisposed
<1> QED BY <1>5, <1>6, <1>7, <1>8 DEF RoomsInv

-----------------------------------------------------------------------------
(* RoomList: what syncs bring.                                               *)

LEMMA LeaveRoomKeeps == ASSUME RoomsInv, NEW r \in Rooms, LeaveRoom(r) PROVE RoomsInv'
<1>0. RoomTypes /\ ModesCached
  BY DEF RoomsInv
<1>1. /\ room' = [room EXCEPT ![r].membership = "left"] /\ owed' = [owed EXCEPT !.left = @ \cup {r}]
      /\ listCalls' = listCalls \cup {RoomCall("leave", r, "")}
      /\ UNCHANGED <<recent, entries, watch, sink, list, raced>>
  BY DEF LeaveRoom, Calls
<1>2. /\ room' \in RoomRecords
      /\ \A q \in Rooms : room'[q].rule = room[q].rule /\ room'[q].cached = room[q].cached
  <2>1. room \in RoomRecords /\ "left" \in Memberships
    BY <1>0, ListFields DEF Memberships
  <2> QED BY <1>1, <2>1 DEF RoomRecords
<1>3. owed' = [left |-> owed.left \cup {r}, rules |-> owed.rules]
  BY <1>0, <1>1, OwedFields
<1>4. owed' \in [left : SUBSET Rooms, rules : BOOLEAN] /\ owed'.rules = owed.rules
  BY <1>0, <1>3, OwedFields
<1>5. Known \subseteq Known' /\ ModesCached'
  BY <1>0, <1>1, <1>2, <1>4, StillKnown
<1>6. StoppedOnceDisposed'
  <2>1. RoomCall("stop", NoRoom, "") # RoomCall("leave", r, "")
    BY DEF RoomCall
  <2> QED BY <1>1, <2>1, OtherCalls
<1> QED BY <1>0, <1>1, <1>2, <1>4, <1>5, <1>6, ListFields, RecentKept, RoomStep

\* A rule that changes: news of the rules is to come, and until then any mode
\* may be known.
LEMMA RuleSet ==
  ASSUME RoomsInv, NEW r \in Rooms, NEW m \in Modes, NEW call, call # RoomCall("stop", NoRoom,
         ""),
         room' = [room EXCEPT ![r].rule = m], owed' = [owed EXCEPT !.rules = TRUE],
         listCalls' \subseteq listCalls \cup {call},
         UNCHANGED <<recent, entries, watch, sink, list, raced>>
  PROVE  RoomsInv'
<1>0. RoomTypes /\ ModesCached
  BY DEF RoomsInv
<1>2. room' \in RoomRecords
  <2>1. room \in RoomRecords
    BY <1>0, ListFields
  <2> QED BY <2>1 DEF RoomRecords
<1>3. owed' = [left |-> owed.left, rules |-> TRUE]
  BY <1>0, OwedFields
<1>4. owed' \in [left : SUBSET Rooms, rules : BOOLEAN] /\ owed'.rules
  BY <1>0, <1>3, OwedFields
<1>5. Known' = Summaries
  BY <1>4 DEF Known, RightModes
<1>6. Known \subseteq Known' /\ ModesCached'
  BY <1>0, <1>4, <1>5, KnownAreRooms DEF ModesCached
<1>7. StoppedOnceDisposed'
  BY OtherCalls
<1> QED BY <1>0, <1>2, <1>4, <1>6, <1>7, ListFields, RecentKept, RoomStep

LEMMA SetModeKeeps ==
  ASSUME RoomsInv, NEW r \in Rooms, NEW m \in Modes, SetMode(r, m) PROVE RoomsInv'
<1>1. RoomCall("stop", NoRoom, "") # RoomCall("mode", r, m)
  BY DEF RoomCall
<1>2. listCalls' = listCalls \cup {RoomCall("mode", r, m)}
  BY DEF SetMode, Calls
<1> QED BY <1>1, <1>2, RuleSet DEF SetMode

LEMMA SyncRuleKeeps ==
  ASSUME RoomsInv, NEW r \in Rooms, NEW m \in Modes, SyncRule(r, m) PROVE RoomsInv'
<1>1. RoomCall("stop", NoRoom, "") # RoomCall("mode", r, m)
  BY DEF RoomCall
<1>2. listCalls' \subseteq listCalls \cup {RoomCall("mode", r, m)}
  BY DEF SyncRule
<1> QED BY <1>1, <1>2, RuleSet DEF SyncRule

LEMMA DirtyKeeps ==
  ASSUME RoomTypes, NEW r \in Rooms, Dirty(r)
  PROVE  /\ entries' \in Entries /\ entries'.sorted = entries.sorted
         /\ entries'.reset = entries.reset /\ entries.dirty \subseteq entries'.dirty
         /\ Running => r \in entries'.dirty
<1>1. entries' = [sorted |-> entries.sorted, reset |-> entries.reset,
                  dirty |-> IF Running THEN entries.dirty \cup {r} ELSE entries.dirty]
  BY EntriesFields DEF Dirty
<1> QED BY <1>1, EntriesFields DEF Entries

\* The other rooms stay.
LEMMA WithoutHas ==
  ASSUME NEW s \in Seq(Rooms), IsInjective(s), NEW r \in Rooms, NEW q, q # r
  PROVE  Contains(Without(s, r), q) <=> Contains(s, q)
<1>1. CASE ~Contains(s, r)
  BY <1>1, WithoutIs
<1>2. CASE Contains(s, r)
  <2> DEFINE p == Position(s, r)
             u == Without(s, r)
  <2>1. p \in 1 .. Len(s) /\ s[p] = r /\ u = RemoveAt(s, p) /\ u \in Seq(Rooms)
    BY <1>2, WithoutIs
  <2> HIDE DEF p, u
  <2>2. /\ Len(RemoveAt(s, p)) = Len(s) - 1
        /\ \A k \in 1 .. p - 1 : RemoveAt(s, p)[k] = s[k]
        /\ \A k \in p .. Len(s) - 1 : RemoveAt(s, p)[k] = s[k + 1]
    BY <2>1, RemoveAtHas
  <2>3. /\ Len(u) = Len(s) - 1 /\ Len(s) \in Nat
        /\ \A k \in 1 .. p - 1 : u[k] = s[k]
        /\ \A k \in p .. Len(s) - 1 : u[k] = s[k + 1]
        /\ DOMAIN u = 1 .. Len(s) - 1 /\ DOMAIN s = 1 .. Len(s)
    BY <2>1, <2>2
  <2>4. ASSUME NEW i \in 1 .. Len(s), s[i] = q PROVE \E k \in 1 .. Len(s) - 1 : u[k] = q
    <3>1. i # p
      BY <2>1, <2>4
    <3>2. CASE i < p
      <4>1. i \in 1 .. p - 1 /\ i \in 1 .. Len(s) - 1
        BY <2>1, <2>3, <3>2
      <4> QED BY <2>3, <2>4, <4>1
    <3>3. CASE i > p
      <4>1. i - 1 \in p .. Len(s) - 1 /\ i - 1 \in 1 .. Len(s) - 1 /\ (i - 1) + 1 = i
        BY <2>1, <2>3, <3>3
      <4>2. u[i - 1] = s[(i - 1) + 1]
        BY <2>3, <4>1
      <4> QED BY <2>4, <4>1, <4>2
    <3> QED BY <2>1, <2>3, <3>1, <3>2, <3>3
  <2>5. ASSUME NEW k \in 1 .. Len(s) - 1 PROVE \E i \in 1 .. Len(s) : s[i] = u[k]
    <3>1. CASE k < p
      <4>1. k \in 1 .. p - 1 /\ k \in 1 .. Len(s)
        BY <2>1, <2>3, <3>1
      <4> QED BY <2>3, <4>1
    <3>2. CASE k >= p
      <4>1. k \in p .. Len(s) - 1 /\ k + 1 \in 1 .. Len(s)
        BY <2>1, <2>3, <3>2
      <4> QED BY <2>3, <4>1
    <3> QED BY <2>1, <2>3, <3>1, <3>2
  <2> QED BY <2>3, <2>4, <2>5 DEF Contains, u
<1> QED BY <1>1, <1>2

LEMMA SyncActivityKeeps == ASSUME RoomsInv, NEW r \in Rooms, SyncActivity(r) PROVE RoomsInv'
<1>0. RoomTypes /\ ModesCached /\ RecentIs /\ recent \in Seq(Rooms) /\ IsInjective(recent)
  BY DEF RoomsInv, RoomTypes, RecentIs
<1>1. /\ Dirty(r) /\ recent' = <<r>> \o Without(recent, r)
      /\ UNCHANGED <<room, owed, watch, listCalls, sink, list, raced>>
  BY DEF SyncActivity
<1> DEFINE u == Without(recent, r)
<1>2. u \in Seq(Rooms) /\ IsInjective(u) /\ ~Contains(u, r)
  BY <1>0, WithoutIs
<1>3. \A q \in Rooms : q # r => Contains(u, q)
  BY <1>0, WithoutHas DEF RecentIs
<1> HIDE DEF u
<1>4. recent' = InsertAt(u, 1, r) /\ 1 \in 1 .. Len(u) + 1
  BY <1>1, <1>2, EndsAre DEF u
<1>5. /\ InsertAt(u, 1, r) \in Seq(Rooms) /\ Len(InsertAt(u, 1, r)) = Len(u) + 1
      /\ InsertAt(u, 1, r)[1] = r
      /\ \A k \in 1 .. Len(u) : InsertAt(u, 1, r)[k + 1] = u[k]
  <2>1. InsertAt(u, 1, r) \in Seq(Rooms)
    BY <1>2, <1>4, InsertAtHas
  <2>4. Len(InsertAt(u, 1, r)) = Len(u) + 1
    BY <1>2, <1>4, InsertAtHas
  <2>2. InsertAt(u, 1, r)[1] = r
    BY <1>2, <1>4, InsertAtHas
  <2>3. \A k \in 1 .. Len(u) : InsertAt(u, 1, r)[k + 1] = u[k]
    BY <1>2, <1>4, InsertAtHas
  <2> QED BY <2>1, <2>2, <2>3, <2>4
<1>6. IsInjective(recent')
  BY <1>2, <1>4, InjectiveInsert
<1>7. ASSUME NEW q \in Rooms PROVE Contains(recent', q)
  <2>0. DOMAIN recent' = 1 .. Len(u) + 1 /\ Len(u) \in Nat /\ DOMAIN u = 1 .. Len(u)
    BY <1>2, <1>4, <1>5
  <2>1. CASE q = r
    BY <2>0, <2>1, <1>4, <1>5 DEF Contains
  <2>2. CASE q # r
    <3>1. PICK k \in 1 .. Len(u) : u[k] = q
      BY <2>0, <2>2, <1>3 DEF Contains
    <3>2. k + 1 \in 1 .. Len(u) + 1 /\ recent'[k + 1] = q
      BY <2>0, <3>1, <1>4, <1>5
    <3> QED BY <2>0, <3>2 DEF Contains
  <2> QED BY <2>1, <2>2
<1>8. RecentIs'
  BY <1>4, <1>5, <1>6, <1>7 DEF RecentIs
<1>9. Known \subseteq Known' /\ ModesCached'
  BY <1>0, <1>1, StillKnown
<1>10. StoppedOnceDisposed'
  BY <1>1 DEF RoomsInv, StoppedOnceDisposed
<1>11. entries' \in Entries /\ entries'.sorted = entries.sorted
  BY <1>0, <1>1, DirtyKeeps
<1> QED BY <1>0, <1>1, <1>8, <1>9, <1>10, <1>11, ListFields, RoomStep

LEMMA HearsKeeps ==
  ASSUME RoomTypes, NEW flag \in {"left", "changed"}, Hears(flag)
  PROVE  /\ watch' \in Watches /\ watch'.visible = watch.visible /\ watch'.limit = watch.limit
         /\ watch'.task = watch.task /\ watch'.filter = watch.filter
         /\ watch'.commands = watch.commands
         /\ watch.changed => watch'.changed
         /\ flag = "changed" /\ Running => watch'.changed
<1>1. CASE flag = "left"
  <2>1. watch' = [watch EXCEPT !.left = watch.left \/ Running]
    BY <1>1, WatchFields DEF Hears
  <2> QED BY <1>1, <2>1, WatchFields DEF Watches, Running
<1>2. CASE flag = "changed"
  <2>1. watch' = [watch EXCEPT !.changed = watch.changed \/ Running]
    BY <1>2, WatchFields DEF Hears
  <2> QED BY <1>2, <2>1, WatchFields DEF Watches, Running
<1> QED BY <1>1, <1>2

LEMMA SyncMembershipKeeps ==
  ASSUME RoomsInv, NEW r \in Rooms, NEW m \in Memberships, SyncMembership(r, m) PROVE RoomsInv'
<1>0. RoomTypes /\ ModesCached
  BY DEF RoomsInv
<1>1. /\ room' = [room EXCEPT ![r].membership = m]
      /\ UNCHANGED <<recent, owed, listCalls, sink, list, raced>>
      /\ \/ Hears("left") /\ UNCHANGED entries
         \/ Dirty(r) /\ UNCHANGED watch
  BY DEF SyncMembership
<1>2. /\ room' \in RoomRecords
      /\ \A q \in Rooms : room'[q].rule = room[q].rule /\ room'[q].cached = room[q].cached
  <2>1. room \in RoomRecords
    BY <1>0, ListFields
  <2> QED BY <1>1, <2>1 DEF RoomRecords
<1>3. /\ watch' \in Watches /\ watch'.visible = watch.visible /\ watch'.limit = watch.limit
      /\ watch'.task = watch.task /\ (watch.changed => watch'.changed)
  BY <1>0, <1>1, HearsKeeps, ListFields
<1>4. entries' \in Entries /\ entries'.sorted = entries.sorted
  BY <1>0, <1>1, DirtyKeeps, ListFields
<1>5. Known \subseteq Known' /\ ModesCached'
  BY <1>0, <1>1, <1>2, <1>3, StillKnown
<1>6. StoppedOnceDisposed'
  BY <1>1 DEF RoomsInv, StoppedOnceDisposed
<1> QED BY <1>0, <1>1, <1>2, <1>3, <1>4, <1>5, <1>6, ListFields, RecentKept, RoomStep

LEMMA SyncLeftKeeps == ASSUME RoomsInv, NEW r \in Rooms, SyncLeft(r) PROVE RoomsInv'
<1>0. RoomTypes /\ ModesCached
  BY DEF RoomsInv
<1>1. /\ owed' = [owed EXCEPT !.left = @ \ {r}] /\ Hears("left")
      /\ UNCHANGED <<room, recent, entries, listCalls, sink, list, raced>>
  BY DEF SyncLeft
<1>2. owed' = [left |-> owed.left \ {r}, rules |-> owed.rules]
  BY <1>0, <1>1, OwedFields
<1>3. owed' \in [left : SUBSET Rooms, rules : BOOLEAN] /\ owed'.rules = owed.rules
  BY <1>0, <1>2, OwedFields
<1>4. /\ watch' \in Watches /\ watch'.visible = watch.visible /\ watch'.limit = watch.limit
      /\ watch'.task = watch.task /\ (watch.changed => watch'.changed)
  BY <1>0, <1>1, HearsKeeps
<1>5. Known \subseteq Known' /\ ModesCached'
  BY <1>0, <1>1, <1>3, <1>4, StillKnown
<1>6. StoppedOnceDisposed'
  BY <1>1 DEF RoomsInv, StoppedOnceDisposed
<1> QED BY <1>0, <1>1, <1>3, <1>4, <1>5, <1>6, ListFields, RecentKept, RoomStep

\* The rules come back: a running task is told, and what the SDK has not
\* refreshed is what was raced for.
LEMMA SyncRulesKeeps == ASSUME RoomsInv, SyncRules PROVE RoomsInv'
<1>0. RoomTypes /\ ModesCached
  BY DEF RoomsInv
<1>1. PICK refreshed \in {{}, Rooms} :
         room' = [r \in Rooms |-> IF r \in refreshed
                                  THEN [room[r] EXCEPT !.cached = room[r].rule] ELSE room[r]]
  BY DEF SyncRules
<1>2. /\ owed' = [owed EXCEPT !.rules = FALSE] /\ Hears("changed")
      /\ raced' = [raced EXCEPT !.modes = {r \in Rooms : room'[r].cached # room[r].rule}]
      /\ UNCHANGED <<recent, entries, listCalls, sink, list>>
  BY DEF SyncRules
<1>3. \A r \in Rooms : room[r] \in [membership : Memberships, rule : Modes, cached : Modes]
  BY <1>0, ListFields DEF RoomRecords
<1>4. room' \in RoomRecords /\ \A r \in Rooms : room'[r].rule = room[r].rule
  BY <1>1, <1>3 DEF RoomRecords
<1>5. owed' = [left |-> owed.left, rules |-> FALSE]
  BY <1>0, <1>2, OwedFields
<1>6. owed' \in [left : SUBSET Rooms, rules : BOOLEAN] /\ owed'.rules = FALSE
  BY <1>0, <1>5, OwedFields
<1>7. raced' = [modes |-> {r \in Rooms : room'[r].cached # room[r].rule}, filter |-> raced.filter]
  BY <1>0, <1>2, RacedFields
<1>8. raced' \in [modes : SUBSET Rooms, filter : BOOLEAN]
      /\ raced'.modes = {r \in Rooms : room'[r].cached # room[r].rule}
  BY <1>0, <1>7, RacedFields
<1>9. /\ watch' \in Watches /\ watch'.visible = watch.visible /\ watch'.limit = watch.limit
      /\ watch'.task = watch.task /\ (Running => watch'.changed)
  BY <1>0, <1>2, HearsKeeps
<1>10. ModesCached'
  BY <1>4, <1>8 DEF ModesCached
<1>11. Known' = Summaries
  BY <1>9 DEF Known, RightModes, Running
<1>12. Known \subseteq Known'
  BY <1>0, <1>11, KnownAreRooms
<1>13. StoppedOnceDisposed'
  BY <1>2 DEF RoomsInv, StoppedOnceDisposed
<1> QED BY <1>0, <1>2, <1>4, <1>6, <1>8, <1>9, <1>10, <1>12, <1>13, ListFields, RecentKept, RoomStep

LEMMA StutterKeeps == ASSUME RoomsInv, UNCHANGED roomsVars PROVE RoomsInv'
<1>1. UNCHANGED <<room, recent, owed, entries, watch, listCalls, sink, list, raced>>
  BY DEF roomsVars
<1>2. RoomTypes /\ ModesCached
  BY DEF RoomsInv
<1>3. Known \subseteq Known' /\ ModesCached'
  BY <1>1, <1>2, StillKnown
<1>4. StoppedOnceDisposed'
  BY <1>1 DEF RoomsInv, StoppedOnceDisposed
<1> QED BY <1>1, <1>2, <1>3, <1>4, ListFields, RecentKept, RoomStep

-----------------------------------------------------------------------------
(* RoomList: the list mirrors the task, with the modes of the rules.         *)

\* Every step of the room list keeps its invariant.
LEMMA RoomsNextKeeps == ASSUME RoomsInv, [RoomsNext]_roomsVars PROVE RoomsInv'
<1>1. CASE TaskSteps
  <2>1. CASE TaskStarts
    BY <2>1, TaskStartsKeeps
  <2>2. CASE PollReset
    BY <2>2, PollResetKeeps
  <2>3. CASE PollGrown
    BY <2>3, PollGrownKeeps
  <2>4. CASE RefreshModes
    BY <2>4, RefreshModesKeeps
  <2>5. CASE RoomUpdate
    BY <2>5, RoomUpdateKeeps
  <2>6. CASE Command
    BY <2>6, CommandKeeps
  <2>7. CASE SinkClosed
    BY <2>7, SinkClosedKeeps
  <2>8. ASSUME NEW r \in Rooms, PollUpdate(r) PROVE RoomsInv'
    BY <2>8, PollUpdateKeeps
  <2> QED BY <1>1, <2>1, <2>2, <2>3, <2>4, <2>5, <2>6, <2>7, <2>8 DEF TaskSteps
<1>2. CASE CallSteps
  <2>1. CASE ListSpawns
    BY <2>1, ListSpawnsKeeps
  <2>2. CASE ListRegisters
    BY <2>2, ListRegistersKeeps
  <2>3. CASE StopRoomList
    BY <2>3, StopRoomListKeeps
  <2>4. CASE StopRoomLists
    BY <2>4, StopRoomListsKeeps
  <2>5. CASE MoreSent \/ (\E f \in RoomFilters : FilterSent(f)) \/ (\E r \in Rooms : Refilter(r))
    BY <2>5, CommandsKeep
  <2>6. ASSUME NEW r \in Rooms, NEW m \in Modes, ModeCached(r, m) PROVE RoomsInv'
    BY <2>6, ModeCachedKeeps
  <2> QED BY <1>2, <2>1, <2>2, <2>3, <2>4, <2>5, <2>6 DEF CallSteps
<1>3. CASE UserSteps
  <2>1. CASE LoadMore
    BY <2>1, LoadMoreKeeps
  <2>2. CASE DisposeList
    BY <2>2, DisposeListKeeps
  <2>3. CASE Deliver
    BY <2>3, DeliverKeeps
  <2>4. ASSUME NEW f \in RoomFilters, SetFilter(f) PROVE RoomsInv'
    BY <2>4, SetFilterKeeps
  <2>5. ASSUME NEW r \in Rooms, LeaveRoom(r) PROVE RoomsInv'
    BY <2>5, LeaveRoomKeeps
  <2>6. ASSUME NEW r \in Rooms, NEW m \in Modes, SetMode(r, m) PROVE RoomsInv'
    BY <2>6, SetModeKeeps
  <2> QED BY <1>3, <2>1, <2>2, <2>3, <2>4, <2>5, <2>6 DEF UserSteps
<1>4. CASE SyncSteps
  <2>1. CASE SyncRules
    BY <2>1, SyncRulesKeeps
  <2>2. ASSUME NEW r \in Rooms, SyncActivity(r) PROVE RoomsInv'
    BY <2>2, SyncActivityKeeps
  <2>3. ASSUME NEW r \in Rooms, SyncLeft(r) PROVE RoomsInv'
    BY <2>3, SyncLeftKeeps
  <2>4. ASSUME NEW r \in Rooms, NEW m \in Memberships, SyncMembership(r, m) PROVE RoomsInv'
    BY <2>4, SyncMembershipKeeps
  <2>5. ASSUME NEW r \in Rooms, NEW m \in Modes, SyncRule(r, m) PROVE RoomsInv'
    BY <2>5, SyncRuleKeeps
  <2> QED BY <1>4, <2>1, <2>2, <2>3, <2>4, <2>5 DEF SyncSteps
<1>5. CASE UNCHANGED roomsVars
  BY <1>5, StutterKeeps
<1> QED BY <1>1, <1>2, <1>3, <1>4, <1>5 DEF RoomsNext

\* The room list is at all times in a state its invariant describes: the task
\* mirrors a prefix of the SDK's entries, no room twice, and the batches under
\* way bring an open list there (rooms.rs line 159).
THEOREM RoomsInductive == RoomsSpec => []RoomsInv
<1>1. RoomsInit => RoomsInv
  BY RoomsInitInv
<1>2. RoomsInv /\ [RoomsNext]_roomsVars => RoomsInv'
  BY RoomsNextKeeps
<1> QED BY <1>1, <1>2, PTL DEF RoomsSpec

\* An open list becomes, once the batches under way are applied, the rooms the
\* native task mirrors, in their order, for any number of rooms, any page size
\* and any order the calls arrive in (room_list_controller.dart line 34,
\* rooms.rs line 159).
THEOREM ListMirrorsTask == RoomsSpec => []ListAgrees
<1>1. RoomsInv => ListAgrees
  BY DEF RoomsInv, ShownRight, Has, ListAgrees
<1> QED BY <1>1, RoomsInductive, PTL

\* A list at rest shows the modes of the push rules, but for the rooms whose
\* mode was cached or refreshed out of order (rooms.rs line 121).
THEOREM SettledModesShown == RoomsSpec => []ModesShown
<1>1. ASSUME RoomsInv PROVE ModesShown
  <2> SUFFICES ASSUME RoomsSettled, NEW i \in DOMAIN list.rooms
               PROVE  \/ list.rooms[i].id \in raced.modes
                      \/ list.rooms[i].mode = room[list.rooms[i].id].rule
    BY DEF ModesShown
  <2>1. /\ Running /\ list.open /\ sink = <<>> /\ ~watch.changed
        /\ owed = [left |-> {}, rules |-> FALSE]
    BY DEF RoomsSettled
  <2>2. ~owed.rules
    BY <2>1
  <2>3. list.rooms \in Seq(RightModes)
    <3>1. Arrived(list.rooms, sink) = list.rooms
      BY <2>1, ArrivedNone
    <3>2. Arrived(list.rooms, sink) \in Seq(Known)
      BY <1>1, <2>1 DEF RoomsInv, ShownRight, Has
    <3> QED BY <2>1, <3>1, <3>2 DEF Known
  <2>4. list.rooms[i] \in RightModes
    BY <2>3
  <2> QED BY <2>1, <2>2, <2>4 DEF RightModes
<1> QED BY <1>1, RoomsInductive, PTL

-----------------------------------------------------------------------------
(* RoomList: the order of the entries.                                       *)

\* Entries in the order of activity, but for rooms of which news waits.
InOrder(s, dirty) ==
    \A i, j \in 1 .. Len(s) : i < j => Before(s[i], s[j]) \/ s[j] \in dirty

LEMMA RanksAre ==
  ASSUME RecentIs, NEW r \in Rooms
  PROVE  Position(recent, r) \in 1 .. Len(recent) /\ recent[Position(recent, r)] = r
BY ContainsAt DEF RecentIs

LEMMA BeforeIs ==
  ASSUME RecentIs, NEW p \in Rooms, NEW q \in Rooms
  PROVE  /\ ~(Before(p, q) /\ Before(q, p))
         /\ p # q => Before(p, q) \/ Before(q, p)
         /\ \A x \in Rooms : Before(p, q) /\ Before(q, x) => Before(p, x)
<1>1. /\ Position(recent, p) \in Nat /\ Position(recent, q) \in Nat
      /\ Position(recent, p) = Position(recent, q) => p = q
  BY RanksAre
<1>2. \A x \in Rooms : Position(recent, x) \in Nat
  BY RanksAre
<1> QED BY <1>1, <1>2 DEF Before

\* Two sequences of the same rooms, each in the order of activity, are one.
LEMMA SameOrder ==
  ASSUME RecentIs, NEW s \in Seq(Rooms), NEW t \in Seq(Rooms), InOrder(s, {}), InOrder(t, {}),
         \A r \in Rooms : Contains(s, r) <=> Contains(t, r)
  PROVE  s = t
<1> DEFINE Same(k) == k \in 1 .. Len(s) /\ k \in 1 .. Len(t) /\ s[k] = t[k]
           D == {k \in Nat : (k \in 1 .. Len(s) \/ k \in 1 .. Len(t)) /\ ~Same(k)}
<1>0. /\ Len(s) \in Nat /\ Len(t) \in Nat
      /\ \A k \in 1 .. Len(s) : s[k] \in Rooms
      /\ \A k \in 1 .. Len(t) : t[k] \in Rooms
      /\ DOMAIN s = 1 .. Len(s) /\ DOMAIN t = 1 .. Len(t)
  OBVIOUS
<1>1. SUFFICES ASSUME D # {} PROVE FALSE
  <2>1. CASE D = {}
    <3>1. \A k \in 1 .. Len(s) : Same(k)
      BY <1>0, <2>1
    <3>2. \A k \in 1 .. Len(t) : Same(k)
      BY <1>0, <2>1
    <3>a. \A k \in 1 .. Len(s) : k \in 1 .. Len(t) /\ s[k] = t[k]
      BY <3>1
    <3>b. \A k \in 1 .. Len(t) : k \in 1 .. Len(s)
      BY <3>2
    <3> DEFINE m == Len(s)
               n == Len(t)
    <3>c. m \in Nat /\ n \in Nat /\ (\A k \in 1 .. m : k \in 1 .. n) /\ (\A k \in 1 .. n : k \in 1 .. m)
      BY <1>0, <3>a, <3>b
    <3> HIDE DEF m, n
    <3>d. m <= n
      <4>1. m = 0 \/ m \in 1 .. m
        BY <3>c
      <4> QED BY <3>c, <4>1
    <3>e. n <= m
      <4>1. n = 0 \/ n \in 1 .. n
        BY <3>c
      <4> QED BY <3>c, <4>1
    <3>f. m = n
      BY <3>c, <3>d, <3>e
    <3>3. Len(s) = Len(t)
      BY <3>f DEF m, n
    <3>4. \A k \in 1 .. Len(s) : s[k] = t[k]
      BY <3>a
    <3> QED BY <3>3, <3>4, SeqsEqual
  <2> QED BY <2>1
<1>2. PICK k \in D : \A m \in D : k <= m
  <2>1. D \in SUBSET Nat
    OBVIOUS
  <2> HIDE DEF D
  <2> QED BY <1>1, <2>1, LeastNumber
<1>3. k \in Nat /\ (k \in 1 .. Len(s) \/ k \in 1 .. Len(t)) /\ ~Same(k)
  OBVIOUS
<1>4. \A m \in Nat : m < k /\ (m \in 1 .. Len(s) \/ m \in 1 .. Len(t)) => Same(m)
  BY <1>2, <1>3
<1> HIDE DEF D
<1>5. ASSUME NEW m \in 1 .. Len(s), m < k PROVE m \in 1 .. Len(t) /\ s[m] = t[m]
  BY <1>0, <1>4, <1>5
<1>6. ASSUME NEW m \in 1 .. Len(t), m < k PROVE m \in 1 .. Len(s) /\ s[m] = t[m]
  BY <1>0, <1>4, <1>6
<1>7. ASSUME k \in 1 .. Len(s) PROVE \E j \in 1 .. Len(t) : t[j] = s[k] /\ j >= k
  <2>1. PICK j \in 1 .. Len(t) : t[j] = s[k]
    BY <1>0, <1>7 DEF Contains
  <2>2. ~(j < k)
    <3>1. SUFFICES ASSUME j < k PROVE FALSE
      OBVIOUS
    <3>2. j \in 1 .. Len(s) /\ s[j] = s[k]
      BY <1>6, <2>1, <3>1
    <3>3. Before(s[j], s[k])
      BY <1>7, <3>1, <3>2 DEF InOrder
    <3> QED BY <1>0, <1>7, <3>2, <3>3, BeforeIs
  <2> QED BY <1>3, <2>1, <2>2
<1>8. ASSUME k \in 1 .. Len(t) PROVE \E j \in 1 .. Len(s) : s[j] = t[k] /\ j >= k
  <2>1. PICK j \in 1 .. Len(s) : s[j] = t[k]
    BY <1>0, <1>8 DEF Contains
  <2>2. ~(j < k)
    <3>1. SUFFICES ASSUME j < k PROVE FALSE
      OBVIOUS
    <3>2. j \in 1 .. Len(t) /\ t[j] = t[k]
      BY <1>5, <2>1, <3>1
    <3>3. Before(t[j], t[k])
      BY <1>8, <3>1, <3>2 DEF InOrder
    <3> QED BY <1>0, <1>8, <3>2, <3>3, BeforeIs
  <2> QED BY <1>3, <2>1, <2>2
<1>9. k \in 1 .. Len(s) /\ k \in 1 .. Len(t)
  BY <1>0, <1>3, <1>7, <1>8
<1>10. PICK j \in 1 .. Len(t) : t[j] = s[k] /\ j >= k
  BY <1>7, <1>9
<1>11. PICK i \in 1 .. Len(s) : s[i] = t[k] /\ i >= k
  BY <1>8, <1>9
<1>12. j > k /\ i > k
  BY <1>3, <1>9, <1>10, <1>11
<1>13. Before(t[k], s[k])
  BY <1>9, <1>10, <1>12 DEF InOrder
<1>14. Before(s[k], t[k])
  BY <1>9, <1>11, <1>12 DEF InOrder
<1> QED BY <1>0, <1>9, <1>13, <1>14, BeforeIs

LEMMA OrderWithout ==
  ASSUME NEW s \in Seq(Rooms), IsInjective(s), NEW r \in Rooms, NEW dirty, InOrder(s, dirty)
  PROVE  InOrder(Without(s, r), dirty \ {r})
<1> DEFINE u == Without(s, r)
<1>1. u \in Seq(Rooms) /\ ~Contains(u, r)
  BY WithoutIs
<1>2. \A i \in 1 .. Len(u) : u[i] # r
  <2> HIDE DEF u
  <2> QED BY <1>1 DEF Contains
<1>3. InOrder(u, dirty)
  <2>1. CASE ~Contains(s, r)
    BY <2>1, WithoutIs
  <2>2. CASE Contains(s, r)
    <3> DEFINE p == Position(s, r)
    <3>1. p \in 1 .. Len(s) /\ u = RemoveAt(s, p)
      BY <2>2, WithoutIs
    <3> HIDE DEF p, u
    <3>2. Len(u) = Len(s) - 1 /\ Len(s) \in Nat
      BY <3>1, RemoveAtHas
    <3>3. \A i \in 1 .. p - 1 : u[i] = s[i]
      BY <3>1, RemoveAtHas
    <3>4. \A i \in p .. Len(s) - 1 : u[i] = s[i + 1]
      BY <3>1, RemoveAtHas
    <3> SUFFICES ASSUME NEW i \in 1 .. Len(u), NEW j \in 1 .. Len(u), i < j
                 PROVE  Before(u[i], u[j]) \/ u[j] \in dirty
      BY DEF InOrder
    <3>5. CASE j < p
      <4>1. i \in 1 .. p - 1 /\ j \in 1 .. p - 1 /\ i \in 1 .. Len(s) /\ j \in 1 .. Len(s)
        BY <3>1, <3>2, <3>5
      <4> QED BY <3>3, <4>1 DEF InOrder
    <3>6. CASE i < p /\ j >= p
      <4>1. /\ i \in 1 .. p - 1 /\ j \in p .. Len(s) - 1 /\ i \in 1 .. Len(s)
            /\ j + 1 \in 1 .. Len(s) /\ i < j + 1
        BY <3>1, <3>2, <3>6
      <4> QED BY <3>3, <3>4, <4>1 DEF InOrder
    <3>7. CASE i >= p
      <4>1. /\ i \in p .. Len(s) - 1 /\ j \in p .. Len(s) - 1 /\ i + 1 \in 1 .. Len(s)
            /\ j + 1 \in 1 .. Len(s) /\ i + 1 < j + 1
        BY <3>1, <3>2, <3>7
      <4> QED BY <3>4, <4>1 DEF InOrder
    <3> QED BY <3>1, <3>5, <3>6, <3>7
  <2> QED BY <2>1, <2>2
<1> QED BY <1>2, <1>3 DEF InOrder

\* A room placed before the first less recent one is in order with all of them.
LEMMA OrderPlaced ==
  ASSUME RecentIs, NEW s \in Seq(Rooms), IsInjective(s), NEW r \in Rooms, NEW dirty,
         InOrder(s, dirty)
  PROVE  InOrder(Placed(s, r), dirty \ {r})
<1> DEFINE u == Without(s, r)
           d == dirty \ {r}
<1>1. u \in Seq(Rooms) /\ ~Contains(u, r) /\ InOrder(u, d)
  BY WithoutIs, OrderWithout
<1>2. PICK at \in 1 .. Len(u) + 1 :
         /\ Placed(s, r) = InsertAt(u, at, r)
         /\ \A j \in 1 .. Len(u) : Before(r, u[j]) => at <= j
         /\ at <= Len(u) => Before(r, u[at])
  BY PlacedIs
<1> HIDE DEF u, d
<1> DEFINE w == InsertAt(u, at, r)
<1>3. \A i \in 1 .. Len(u) : u[i] \in Rooms /\ u[i] # r
  BY <1>1 DEF Contains
<1>4. Len(u) \in Nat /\ at \in Nat
  BY <1>1
<1>5. Len(w) = Len(u) + 1
  BY <1>1, InsertAtHas
<1>6. w[at] = r
  BY <1>1, InsertAtHas
<1>7. \A i \in 1 .. at - 1 : w[i] = u[i]
  BY <1>1, InsertAtHas
<1>8. \A i \in at .. Len(u) : w[i + 1] = u[i]
  BY <1>1, InsertAtHas
<1>9. \A i \in 1 .. Len(u) : i < at => Before(u[i], r)
  BY <1>2, <1>3, <1>4, BeforeIs
<1>10. \A i \in at .. Len(u) : Before(r, u[i]) \/ u[i] \in d
  <2> TAKE i \in at .. Len(u)
  <2>1. at \in 1 .. Len(u) /\ i \in 1 .. Len(u) /\ Before(r, u[at])
    BY <1>2, <1>4
  <2>2. CASE i = at
    BY <2>1, <2>2
  <2>3. CASE i # at
    <3>1. at < i
      BY <1>4, <2>3
    <3>2. Before(u[at], u[i]) \/ u[i] \in d
      BY <1>1, <2>1, <3>1 DEF InOrder
    <3>3. u[at] \in Rooms /\ u[i] \in Rooms
      BY <1>3, <2>1
    <3> QED BY <2>1, <3>2, <3>3, BeforeIs
  <2> QED BY <2>2, <2>3
<1> HIDE DEF w
<1>11. InOrder(w, d)
  <2> SUFFICES ASSUME NEW i \in 1 .. Len(w), NEW j \in 1 .. Len(w), i < j
               PROVE  Before(w[i], w[j]) \/ w[j] \in d
    BY DEF InOrder
  <2>1. CASE j < at
    <3>1. i \in 1 .. at - 1 /\ j \in 1 .. at - 1 /\ i \in 1 .. Len(u) /\ j \in 1 .. Len(u)
      BY <1>4, <1>5, <2>1
    <3> QED BY <1>1, <1>7, <3>1 DEF InOrder
  <2>2. CASE j = at
    <3>1. i \in 1 .. at - 1 /\ i \in 1 .. Len(u) /\ i < at
      BY <1>4, <1>5, <2>2
    <3> QED BY <1>6, <1>7, <1>9, <2>2, <3>1
  <2>3. CASE i < at /\ j > at
    <3>1. /\ i \in 1 .. at - 1 /\ i \in 1 .. Len(u) /\ j - 1 \in at .. Len(u)
          /\ j - 1 \in 1 .. Len(u) /\ (j - 1) + 1 = j /\ i < j - 1
      BY <1>4, <1>5, <2>3
    <3>2. w[j] = u[j - 1] /\ w[i] = u[i]
      BY <1>7, <1>8, <3>1
    <3> QED BY <1>1, <3>1, <3>2 DEF InOrder
  <2>4. CASE i = at
    <3>1. j - 1 \in at .. Len(u) /\ (j - 1) + 1 = j
      BY <1>4, <1>5, <2>4
    <3>2. w[j] = u[j - 1]
      BY <1>8, <3>1
    <3> QED BY <1>6, <1>10, <2>4, <3>1, <3>2
  <2>5. CASE i > at
    <3>1. /\ i - 1 \in at .. Len(u) /\ i - 1 \in 1 .. Len(u) /\ j - 1 \in at .. Len(u)
          /\ j - 1 \in 1 .. Len(u) /\ (j - 1) + 1 = j /\ (i - 1) + 1 = i /\ i - 1 < j - 1
      BY <1>4, <1>5, <2>5
    <3>2. w[j] = u[j - 1] /\ w[i] = u[i - 1]
      BY <1>8, <3>1
    <3> QED BY <1>1, <3>1, <3>2 DEF InOrder
  <2> QED BY <1>4, <1>5, <2>1, <2>2, <2>3, <2>4, <2>5
<1> QED BY <1>2, <1>11 DEF w, d

-----------------------------------------------------------------------------
(* RoomList: the entries are the rooms of the filter.                        *)

LEMMA InsertHas ==
  ASSUME NEW s \in Seq(Rooms), NEW r \in Rooms, NEW at \in 1 .. Len(s) + 1, NEW q
  PROVE  Contains(InsertAt(s, at, r), q) <=> q = r \/ Contains(s, q)
<1> DEFINE w == InsertAt(s, at, r)
<1>1. w \in Seq(Rooms)
  BY InsertAtHas
<1>2. Len(w) = Len(s) + 1
  BY InsertAtHas
<1>3. w[at] = r
  BY InsertAtHas
<1>4. \A i \in 1 .. at - 1 : w[i] = s[i]
  BY InsertAtHas
<1>5. \A i \in at .. Len(s) : w[i + 1] = s[i]
  BY InsertAtHas
<1> HIDE DEF w
<1>6. Len(s) \in Nat /\ at \in Nat /\ DOMAIN s = 1 .. Len(s) /\ DOMAIN w = 1 .. Len(s) + 1
  BY <1>1, <1>2
<1>7. ASSUME NEW i \in 1 .. Len(s) + 1 PROVE w[i] = r \/ \E k \in 1 .. Len(s) : s[k] = w[i]
  <2>1. CASE i < at
    <3>1. i \in 1 .. at - 1 /\ i \in 1 .. Len(s)
      BY <1>6, <2>1
    <3> QED BY <1>4, <3>1
  <2>2. CASE i = at
    BY <1>3, <2>2
  <2>3. CASE i > at
    <3>1. i - 1 \in at .. Len(s) /\ i - 1 \in 1 .. Len(s) /\ (i - 1) + 1 = i
      BY <1>6, <2>3
    <3>2. w[(i - 1) + 1] = s[i - 1]
      BY <1>5, <3>1
    <3> QED BY <3>1, <3>2
  <2> QED BY <1>6, <2>1, <2>2, <2>3
<1>8. ASSUME NEW k \in 1 .. Len(s) PROVE \E i \in 1 .. Len(s) + 1 : w[i] = s[k]
  <2>1. CASE k < at
    <3>1. k \in 1 .. at - 1 /\ k \in 1 .. Len(s) + 1
      BY <1>6, <2>1
    <3> QED BY <1>4, <3>1
  <2>2. CASE k >= at
    <3>1. k \in at .. Len(s) /\ k + 1 \in 1 .. Len(s) + 1
      BY <1>6, <2>2
    <3> QED BY <1>5, <3>1
  <2> QED BY <1>6, <2>1, <2>2
<1>9. at \in 1 .. Len(s) + 1
  OBVIOUS
<1> QED BY <1>3, <1>6, <1>7, <1>8, <1>9 DEF Contains, w

LEMMA PlacedHas ==
  ASSUME NEW s \in Seq(Rooms), IsInjective(s), NEW r \in Rooms, NEW q
  PROVE  Contains(Placed(s, r), q) <=> q = r \/ Contains(s, q)
<1>1. Without(s, r) \in Seq(Rooms) /\ ~Contains(Without(s, r), r)
  BY WithoutIs
<1>2. PICK at \in 1 .. Len(Without(s, r)) + 1 : Placed(s, r) = InsertAt(Without(s, r), at, r)
  BY PlacedIs
<1>3. Contains(Placed(s, r), q) <=> q = r \/ Contains(Without(s, r), q)
  BY <1>1, <1>2, InsertHas
<1>4. q # r => (Contains(Without(s, r), q) <=> Contains(s, q))
  BY WithoutHas
<1> QED BY <1>3, <1>4

\* The SDK sorts its entries by activity.
OrderKept == Running /\ ~entries.reset => InOrder(entries.sorted, entries.dirty)

\* A room the user or another device has left, while that is not yet seen to.
LeftBehind(r) == ~NotLeft(r) /\ (watch.left \/ r \in owed.left)

\* The entries are the rooms of the filter, but for those left behind or of
\* which news waits.
Filtered ==
    Running /\ ~entries.reset =>
        \A r \in Rooms \ entries.dirty :
           IF Contains(entries.sorted, r) THEN FilterFor(watch.filter, r) \/ LeftBehind(r)
           ELSE ~FilterFor(watch.filter, r)

\* The filter the page shows is in force or on its way, unless it was raced for.
FilterWaits ==
    \E i \in 1 .. Len(watch.commands) :
       /\ watch.commands[i] = list.filter
       /\ \A j \in 1 .. Len(watch.commands) : j > i => watch.commands[j] \notin RoomFilters
FilterTaken ==
    /\ watch.filter = list.filter
    /\ \A j \in 1 .. Len(watch.commands) : watch.commands[j] \notin RoomFilters
FilterTold ==
    ~raced.filter =>
        /\ FilterCalls \subseteq {RoomCall("filter", NoRoom, list.filter)}
        /\ FilterCalls = {} => FilterTaken \/ FilterWaits

EntriesInv == OrderKept /\ Filtered

-----------------------------------------------------------------------------
\* Steps that leave the entries and what decides on them alone, or reset them.
LEMMA EntriesStep ==
  ASSUME RoomsInv, EntriesInv, recent' = recent,
         Running' /\ ~entries'.reset =>
            /\ Running /\ ~entries.reset
            /\ entries'.sorted = entries.sorted /\ entries.dirty \subseteq entries'.dirty
            /\ watch'.filter = watch.filter
            /\ \A r \in Rooms \ entries'.dirty :
                  \/ LeftBehind(r)'
                  \/ room'[r].membership = room[r].membership /\ ~LeftBehind(r)
  PROVE  EntriesInv'
<1> SUFFICES ASSUME Running', ~entries'.reset
             PROVE  /\ InOrder(entries.sorted, entries.dirty)'
                    /\ \A r \in Rooms \ entries'.dirty :
                          IF Contains(entries'.sorted, r)
                          THEN FilterFor(watch.filter, r)' \/ LeftBehind(r)'
                          ELSE ~FilterFor(watch.filter, r)'
  BY DEF EntriesInv, OrderKept, Filtered
<1>1. InOrder(entries.sorted, entries.dirty)
  BY DEF EntriesInv, OrderKept
<1>2. InOrder(entries.sorted, entries.dirty)'
  BY <1>1 DEF InOrder, Before
<1>3. ASSUME NEW r \in Rooms \ entries'.dirty
      PROVE  IF Contains(entries'.sorted, r) THEN FilterFor(watch.filter, r)' \/ LeftBehind(r)'
             ELSE ~FilterFor(watch.filter, r)'
  <2>1. IF Contains(entries.sorted, r) THEN FilterFor(watch.filter, r) \/ LeftBehind(r)
        ELSE ~FilterFor(watch.filter, r)
    BY <1>3 DEF EntriesInv, Filtered
  <2>2. CASE LeftBehind(r)'
    BY <2>2 DEF LeftBehind, FilterFor
  <2>3. CASE room'[r].membership = room[r].membership /\ ~LeftBehind(r)
    BY <2>1, <2>3 DEF FilterFor, NotLeft
  <2> QED BY <1>3, <2>2, <2>3
<1> QED BY <1>2, <1>3

\* Steps that change none of it, or reset the entries, or end the task.
LEMMA EntriesSame ==
  ASSUME RoomsInv, EntriesInv, recent' = recent,
         Running' /\ ~entries'.reset =>
            /\ Running /\ entries' = entries /\ watch'.filter = watch.filter
            /\ watch'.left = watch.left /\ owed'.left = owed.left
            /\ \A r \in Rooms : room'[r].membership = room[r].membership
  PROVE  EntriesInv'
<1> SUFFICES ASSUME Running', ~entries'.reset
             PROVE  /\ Running /\ ~entries.reset
                    /\ entries'.sorted = entries.sorted /\ entries.dirty \subseteq entries'.dirty
                    /\ watch'.filter = watch.filter
                    /\ \A r \in Rooms \ entries'.dirty :
                          \/ LeftBehind(r)'
                          \/ room'[r].membership = room[r].membership /\ ~LeftBehind(r)
  BY EntriesStep
<1>1. \A r \in Rooms : LeftBehind(r)' <=> LeftBehind(r)
  BY DEF LeftBehind, NotLeft
<1> QED BY <1>1

LEMMA TaskEntries ==
  ASSUME RoomsInv, EntriesInv,
         TaskStarts \/ PollGrown \/ RefreshModes \/ RoomUpdate \/ Command \/ SinkClosed
  PROVE  EntriesInv'
<1>0. RoomTypes /\ recent' = recent
  BY DEF RoomsInv, TaskStarts, PollGrown, RefreshModes, RoomUpdate, Command, SinkClosed
<1>1. CASE TaskStarts
  <2>1. entries'.reset \/ ~Running'
    BY <1>0, <1>1, WatchFields, EntriesFields DEF TaskStarts, Running
  <2> QED BY <1>0, <2>1, EntriesSame
<1>2. CASE PollGrown
  <2>1. /\ watch'.filter = watch.filter /\ watch'.left = watch.left /\ Running
        /\ UNCHANGED <<room, owed, entries>>
    BY <1>0, <1>2, WatchFields DEF PollGrown
  <2> QED BY <1>0, <2>1, EntriesSame
<1>3. CASE RefreshModes
  <2>1. /\ watch'.filter = watch.filter /\ watch'.left = watch.left /\ Running
        /\ UNCHANGED <<owed, entries>> /\ room' = Refreshed
    BY <1>0, <1>3, WatchFields DEF RefreshModes
  <2>2. \A r \in Rooms : room'[r].membership = room[r].membership
    BY <1>0, <2>1, RefreshedIs
  <2> QED BY <1>0, <2>1, <2>2, EntriesSame
<1>4. CASE RoomUpdate
  <2>1. entries'.reset
    BY <1>0, <1>4, EntriesFields DEF RoomUpdate, Filtering
  <2> QED BY <1>0, <2>1, EntriesSame
<1>5. CASE Command
  <2>1. CASE Head(watch.commands) = "loadMore"
    <3>1. /\ watch'.filter = watch.filter /\ watch'.left = watch.left /\ Running
          /\ UNCHANGED <<room, owed, entries>>
      BY <1>0, <1>5, <2>1, WatchFields DEF Command
    <3> QED BY <1>0, <3>1, EntriesSame
  <2>2. CASE Head(watch.commands) # "loadMore"
    <3>1. entries'.reset
      BY <1>0, <1>5, <2>2, EntriesFields DEF Command, Filtering
    <3> QED BY <1>0, <3>1, EntriesSame
  <2> QED BY <2>1, <2>2
<1>6. CASE SinkClosed
  <2>1. ~Running'
    BY <1>0, <1>6, WatchFields DEF SinkClosed, Running
  <2> QED BY <1>0, <2>1, EntriesSame
<1> QED BY <1>1, <1>2, <1>3, <1>4, <1>5, <1>6

LEMMA ToldEntries ==
  ASSUME RoomsInv, EntriesInv, NEW command, watch' = Told(command),
         UNCHANGED <<room, recent, owed, entries>>
  PROVE  EntriesInv'
<1>1. /\ watch'.filter = watch.filter /\ watch'.left = watch.left /\ watch'.task = watch.task
  BY WatchFields DEF RoomsInv, Told
<1> QED BY <1>1, EntriesSame DEF Running

LEMMA CallEntries == ASSUME RoomsInv, EntriesInv, CallSteps PROVE EntriesInv'
<1>0. RoomTypes
  BY DEF RoomsInv
<1>1. CASE ListSpawns
  <2>1. ~Running' /\ recent' = recent
    BY <1>0, <1>1, WatchFields DEF ListSpawns, Running
  <2> QED BY <2>1, EntriesSame
<1>2. CASE ListRegisters
  <2>1. /\ watch'.filter = watch.filter /\ watch'.left = watch.left /\ watch'.task = watch.task
        /\ UNCHANGED <<room, recent, owed, entries>>
    BY <1>0, <1>2, WatchFields DEF ListRegisters
  <2> QED BY <2>1, EntriesSame DEF Running
<1>3. CASE StopRoomList \/ StopRoomLists
  <2>1. watch' = AbortedList /\ UNCHANGED <<room, recent, owed, entries>>
    BY <1>3 DEF StopRoomList, StopRoomLists
  <2>2. CASE watch.registered
    <3>1. ~Running'
      BY <1>0, <2>1, <2>2, WatchFields DEF AbortedList, Running
    <3> QED BY <2>1, <3>1, EntriesSame
  <2>3. CASE ~watch.registered
    <3>1. watch' = watch
      BY <2>1, <2>3 DEF AbortedList
    <3> QED BY <2>1, <3>1, EntriesSame DEF Running
  <2> QED BY <2>2, <2>3
<1>4. CASE MoreSent
  BY <1>4, ToldEntries DEF MoreSent
<1>5. ASSUME NEW f \in RoomFilters, FilterSent(f) PROVE EntriesInv'
  BY <1>5, ToldEntries DEF FilterSent
<1>6. ASSUME NEW r \in Rooms, Refilter(r) PROVE EntriesInv'
  BY <1>6, ToldEntries DEF Refilter
<1>7. ASSUME NEW r \in Rooms, NEW m \in Modes, ModeCached(r, m) PROVE EntriesInv'
  <2>1. room' = [room EXCEPT ![r].cached = m] /\ UNCHANGED <<recent, owed, entries, watch>>
    BY <1>7 DEF ModeCached
  <2>2. \A q \in Rooms : room'[q].membership = room[q].membership
    BY <1>0, <2>1, ListFields DEF RoomRecords
  <2> QED BY <2>1, <2>2, EntriesSame DEF Running
<1> QED BY <1>1, <1>2, <1>3, <1>4, <1>5, <1>6, <1>7 DEF CallSteps

\* A rule or a mode is no membership.
LEMMA UserEntries ==
  ASSUME RoomsInv, EntriesInv,
         \/ LoadMore \/ DisposeList \/ Deliver \/ UNCHANGED roomsVars
         \/ \E f \in RoomFilters : SetFilter(f)
         \/ \E r \in Rooms, m \in Modes : SetMode(r, m) \/ SyncRule(r, m)
  PROVE  EntriesInv'
<1>1. CASE \/ LoadMore \/ DisposeList \/ Deliver \/ UNCHANGED roomsVars
           \/ \E f \in RoomFilters : SetFilter(f)
  <2>1. UNCHANGED <<room, recent, owed, entries, watch>>
    BY <1>1 DEF LoadMore, DisposeList, Deliver, SetFilter, roomsVars
  <2> QED BY <2>1, EntriesSame DEF Running
<1>2. ASSUME NEW r \in Rooms, NEW m \in Modes, SetMode(r, m) \/ SyncRule(r, m) PROVE EntriesInv'
  <2>1. /\ room' = [room EXCEPT ![r].rule = m] /\ owed' = [owed EXCEPT !.rules = TRUE]
        /\ UNCHANGED <<recent, entries, watch>>
    BY <1>2 DEF SetMode, SyncRule
  <2>2. \A q \in Rooms : room'[q].membership = room[q].membership
    BY <2>1, ListFields DEF RoomRecords, RoomsInv
  <2>3. owed'.left = owed.left
    BY <2>1, OwedFields DEF RoomsInv
  <2> QED BY <2>1, <2>2, <2>3, EntriesSame DEF Running
<1> QED BY <1>1, <1>2

LEMMA SyncRulesEntries == ASSUME RoomsInv, EntriesInv, SyncRules PROVE EntriesInv'
<1>0. RoomTypes
  BY DEF RoomsInv
<1>1. PICK refreshed \in {{}, Rooms} :
         room' = [r \in Rooms |-> IF r \in refreshed
                                  THEN [room[r] EXCEPT !.cached = room[r].rule] ELSE room[r]]
  BY DEF SyncRules
<1>2. /\ owed' = [owed EXCEPT !.rules = FALSE] /\ Hears("changed") /\ UNCHANGED <<recent, entries>>
  BY DEF SyncRules
<1>3. \A r \in Rooms : room[r] \in [membership : Memberships, rule : Modes, cached : Modes]
  BY <1>0, ListFields DEF RoomRecords
<1>4. \A r \in Rooms : room'[r].membership = room[r].membership
  BY <1>1, <1>3
<1>5. owed'.left = owed.left
  BY <1>0, <1>2, OwedFields
<1>6. watch'.filter = watch.filter /\ watch'.task = watch.task /\ watch'.left = watch.left
  BY <1>0, <1>2, WatchFields DEF Hears
<1> QED BY <1>2, <1>4, <1>5, <1>6, EntriesSame DEF Running

\* A room left here is behind until the sync has told the task.
LEMMA LeaveRoomEntries ==
  ASSUME RoomsInv, EntriesInv, NEW r \in Rooms, LeaveRoom(r) PROVE EntriesInv'
<1>0. RoomTypes
  BY DEF RoomsInv
<1>1. /\ room' = [room EXCEPT ![r].membership = "left"] /\ owed' = [owed EXCEPT !.left = @ \cup {r}]
      /\ UNCHANGED <<recent, entries, watch>>
  BY DEF LeaveRoom
<1>2. /\ room'[r].membership = "left"
      /\ \A q \in Rooms \ {r} : room'[q].membership = room[q].membership
  BY <1>0, <1>1, ListFields DEF RoomRecords
<1>3. owed'.left = owed.left \cup {r}
  BY <1>0, <1>1, OwedFields
<1>4. LeftBehind(r)'
  BY <1>2, <1>3 DEF LeftBehind, NotLeft
<1>5. \A q \in Rooms \ {r} : LeftBehind(q)' \/ ~LeftBehind(q)
  BY <1>1, <1>2, <1>3 DEF LeftBehind, NotLeft
<1>6. \A q \in Rooms : LeftBehind(q)' \/ (room'[q].membership = room[q].membership /\ ~LeftBehind(q))
  BY <1>2, <1>4, <1>5
<1> QED BY <1>1, <1>6, EntriesStep DEF Running

LEMMA SyncMembershipEntries ==
  ASSUME RoomsInv, EntriesInv, NEW r \in Rooms, NEW m \in Memberships, SyncMembership(r, m)
  PROVE  EntriesInv'
<1>0. RoomTypes
  BY DEF RoomsInv
<1>1. room' = [room EXCEPT ![r].membership = m] /\ UNCHANGED <<recent, owed>>
  BY DEF SyncMembership
<1>2. /\ room'[r].membership = m
      /\ \A q \in Rooms \ {r} : room'[q].membership = room[q].membership
  BY <1>0, <1>1, ListFields DEF RoomRecords
<1>3. CASE m = "left"
  <2>1. Hears("left") /\ UNCHANGED entries
    BY <1>3 DEF SyncMembership
  <2>2. /\ watch'.filter = watch.filter /\ watch'.task = watch.task
        /\ watch'.left <=> watch.left \/ Running
    BY <1>0, <2>1, WatchFields DEF Hears
  <2>3. ASSUME Running
        PROVE  LeftBehind(r)' /\ \A q \in Rooms \ {r} : LeftBehind(q)' \/ ~LeftBehind(q)
    BY <1>1, <1>2, <1>3, <2>2, <2>3 DEF LeftBehind, NotLeft
  <2> QED BY <1>1, <1>2, <2>1, <2>2, <2>3, EntriesStep DEF Running
<1>4. CASE m # "left"
  <2>1. Dirty(r) /\ UNCHANGED watch
    BY <1>4 DEF SyncMembership
  <2>2. /\ entries'.sorted = entries.sorted /\ entries'.reset = entries.reset
        /\ entries.dirty \subseteq entries'.dirty /\ (Running => r \in entries'.dirty)
    BY <1>0, <2>1, DirtyKeeps
  <2>3. \A q \in Rooms \ {r} : LeftBehind(q)' \/ ~LeftBehind(q)
    BY <1>1, <1>2, <2>1 DEF LeftBehind, NotLeft
  <2> QED BY <1>1, <1>2, <2>1, <2>2, <2>3, EntriesStep DEF Running
<1> QED BY <1>3, <1>4

LEMMA SyncLeftEntries == ASSUME RoomsInv, EntriesInv, NEW r \in Rooms, SyncLeft(r) PROVE EntriesInv'
<1>0. RoomTypes
  BY DEF RoomsInv
<1>1. /\ owed' = [owed EXCEPT !.left = @ \ {r}] /\ Hears("left") /\ UNCHANGED <<room, recent, entries>>
  BY DEF SyncLeft
<1>2. /\ watch'.filter = watch.filter /\ watch'.task = watch.task
      /\ watch'.left <=> watch.left \/ Running
  BY <1>0, <1>1, WatchFields DEF Hears
<1>3. ASSUME Running PROVE \A q \in Rooms : LeftBehind(q)' \/ ~LeftBehind(q)
  BY <1>1, <1>2, <1>3 DEF LeftBehind, NotLeft
<1> QED BY <1>1, <1>2, <1>3, EntriesStep DEF Running

LEMMA PollResetEntries == ASSUME RoomsInv, EntriesInv, PollReset PROVE EntriesInv'
<1> DEFINE sorted == Matching(watch.filter)
<1>0. RoomTypes /\ RecentIs
  BY DEF RoomsInv, RoomTypes
<1>1. /\ entries' = [sorted |-> sorted, dirty |-> {}, reset |-> FALSE]
      /\ watch' = [watch EXCEPT !.visible = Target(sorted)] /\ UNCHANGED <<room, recent>>
  BY DEF PollReset
<1>2. \A i, j \in 1 .. Len(sorted) : i < j => Before(sorted[i], sorted[j])
  BY <1>0, MatchingIs
<1>3. \A r \in Rooms : Contains(sorted, r) <=> FilterFor(watch.filter, r)
  BY <1>0, MatchingIs
<1> HIDE DEF sorted
<1>4. watch'.filter = watch.filter
  BY <1>0, <1>1, WatchFields
<1>5. entries'.sorted = sorted /\ entries'.dirty = {}
  BY <1>1
<1>6. OrderKept'
  BY <1>1, <1>2, <1>5 DEF OrderKept, InOrder, Before
<1>7. \A r \in Rooms : FilterFor(watch.filter, r)' <=> FilterFor(watch.filter, r)
  BY <1>1, <1>4 DEF FilterFor, NotLeft
<1>8. Filtered'
  BY <1>3, <1>5, <1>7 DEF Filtered
<1> QED BY <1>6, <1>8 DEF EntriesInv

\* The room of which news waited is in its place, or gone.
LEMMA PollUpdateEntries ==
  ASSUME RoomsInv, EntriesInv, NEW r \in Rooms, PollUpdate(r) PROVE EntriesInv'
<1> DEFINE s == entries.sorted
           u == IF FilterFor(watch.filter, r) THEN Placed(s, r) ELSE Without(s, r)
           d == entries.dirty \ {r}
<1>0. RoomTypes /\ RecentIs /\ s \in Seq(Rooms) /\ IsInjective(s)
  BY EntriesFields DEF RoomsInv, RoomTypes, Window
<1>1. /\ entries' = [entries EXCEPT !.sorted = u, !.dirty = @ \ {r}]
      /\ watch' = [watch EXCEPT !.visible = Target(u)] /\ UNCHANGED <<room, recent, owed>>
      /\ Running /\ ~entries.reset
  BY DEF PollUpdate
<1>2. InOrder(s, entries.dirty)
  BY <1>1 DEF EntriesInv, OrderKept
<1>3. InOrder(u, d)
  BY <1>0, <1>2, OrderPlaced, OrderWithout
<1>4. Contains(u, r) <=> FilterFor(watch.filter, r)
  BY <1>0, PlacedHas, WithoutIs
<1>5. \A q \in Rooms : q # r => (Contains(u, q) <=> Contains(s, q))
  BY <1>0, PlacedHas, WithoutHas
<1> HIDE DEF u, s
<1>6. entries'.sorted = u /\ entries'.dirty = d
  BY <1>0, <1>1, EntriesFields
<1>7. watch'.filter = watch.filter /\ watch'.left = watch.left
  BY <1>0, <1>1, WatchFields
<1> HIDE DEF d
<1>8. OrderKept'
  BY <1>1, <1>3, <1>6 DEF OrderKept, InOrder, Before
<1>9. \A q \in Rooms : /\ FilterFor(watch.filter, q)' <=> FilterFor(watch.filter, q)
                       /\ LeftBehind(q)' <=> LeftBehind(q)
  BY <1>1, <1>7 DEF FilterFor, NotLeft, LeftBehind
<1>10. ASSUME NEW q \in Rooms \ d
       PROVE  IF Contains(u, q) THEN FilterFor(watch.filter, q) \/ LeftBehind(q)
              ELSE ~FilterFor(watch.filter, q)
  <2>1. CASE q = r
    BY <1>4, <2>1
  <2>2. CASE q # r
    <3>1. q \in Rooms \ entries.dirty
      BY <2>2 DEF d
    <3> QED BY <1>1, <1>5, <2>2, <3>1 DEF EntriesInv, Filtered, s
  <2> QED BY <2>1, <2>2
<1>11. Filtered'
  BY <1>6, <1>9, <1>10 DEF Filtered
<1> QED BY <1>8, <1>11 DEF EntriesInv

\* The room with new activity comes first, and all other rooms stay in order.
LEMMA ActivityFirst ==
  ASSUME RoomTypes, RecentIs', NEW r \in Rooms, recent' = <<r>> \o Without(recent, r)
  PROVE  /\ \A q \in Rooms : q # r => Before(r, q)'
         /\ \A p, q \in Rooms : p # r /\ q # r /\ Before(p, q) => Before(p, q)'
<1> DEFINE u == Without(recent, r)
           rank(q) == Position(recent, q)
<1>0. RecentIs /\ recent \in Seq(Rooms) /\ IsInjective(recent) /\ Contains(recent, r) /\ Len(recent) \in Nat
  BY DEF RoomTypes, RecentIs
<1>1. rank(r) \in 1 .. Len(recent) /\ recent[rank(r)] = r /\ u = RemoveAt(recent, rank(r)) /\ u \in Seq(Rooms)
  BY <1>0, WithoutIs
<1>2. \A q \in Rooms : rank(q) \in 1 .. Len(recent) /\ recent[rank(q)] = q
  BY <1>0, RanksAre
<1>3. Len(u) = Len(recent) - 1
  BY <1>0, <1>1, RemoveAtHas
<1>4. \A k \in 1 .. rank(r) - 1 : u[k] = recent[k]
  BY <1>0, <1>1, RemoveAtHas
<1>5. \A k \in rank(r) .. Len(recent) - 1 : u[k] = recent[k + 1]
  BY <1>0, <1>1, RemoveAtHas
<1> HIDE DEF u, rank
<1>6. recent' = InsertAt(u, 1, r) /\ 1 \in 1 .. Len(u) + 1
  BY <1>1, EndsAre DEF u
<1>7. recent'[1] = r
  BY <1>1, <1>6, InsertAtHas
<1>8. \A k \in 1 .. Len(u) : recent'[k + 1] = u[k]
  <2>1. \A k \in 1 .. Len(u) : InsertAt(u, 1, r)[k + 1] = u[k]
    BY <1>1, <1>6, InsertAtHas
  <2> QED BY <1>6, <2>1
<1>9. Len(recent') = Len(recent)
  <2>1. Len(InsertAt(u, 1, r)) = Len(u) + 1
    BY <1>1, <1>6, InsertAtHas
  <2> QED BY <1>0, <1>3, <1>6, <2>1
<1> DEFINE new(q) == IF q = r THEN 1 ELSE IF rank(q) < rank(r) THEN rank(q) + 1 ELSE rank(q)
<1>10. ASSUME NEW q \in Rooms PROVE new(q) \in 1 .. Len(recent) /\ recent'[new(q)] = q
  <2> DEFINE a == rank(q)
             b == rank(r)
             n == Len(recent)
             m == Len(u)
  <2>0. a \in 1 .. n /\ b \in 1 .. n /\ n \in Nat /\ m = n - 1
    BY <1>0, <1>2, <1>3
  <2> HIDE DEF a, b, n, m
  <2>1. CASE q = r
    BY <1>1, <1>7, <2>1
  <2>2. CASE q # r /\ rank(q) < rank(r)
    <3>a. a < b
      BY <2>2 DEF a, b
    <3>b. a \in 1 .. b - 1 /\ a \in 1 .. m /\ a + 1 \in 1 .. n
      BY <2>0, <3>a
    <3>1. rank(q) \in 1 .. rank(r) - 1 /\ rank(q) \in 1 .. Len(u) /\ rank(q) + 1 \in 1 .. Len(recent)
      BY <3>b DEF a, b, n, m
    <3>2. recent'[rank(q) + 1] = q
      BY <1>2, <1>4, <1>8, <3>1
    <3> QED BY <2>2, <3>1, <3>2
  <2>3. CASE q # r /\ ~(rank(q) < rank(r))
    <3>1. rank(q) # rank(r)
      BY <1>2, <2>3
    <3>2. /\ rank(q) - 1 \in rank(r) .. Len(recent) - 1 /\ rank(q) - 1 \in 1 .. Len(u)
          /\ (rank(q) - 1) + 1 = rank(q) /\ rank(q) \in 1 .. Len(recent)
      <4>1. ~(a < b) /\ a # b
        BY <2>3, <3>1 DEF a, b
      <4>2. a - 1 \in b .. n - 1 /\ a - 1 \in 1 .. m /\ (a - 1) + 1 = a
        BY <2>0, <4>1
      <4> QED BY <2>0, <4>2 DEF a, b, n, m
    <3>3. u[rank(q) - 1] = q
      <4>1. u[rank(q) - 1] = recent[(rank(q) - 1) + 1]
        BY <1>5, <3>2
      <4> QED BY <1>2, <3>2, <4>1
    <3>4. recent'[(rank(q) - 1) + 1] = u[rank(q) - 1]
      BY <1>8, <3>2
    <3>5. recent'[rank(q)] = q
      BY <3>2, <3>3, <3>4
    <3> QED BY <2>3, <3>2, <3>5
  <2> QED BY <2>1, <2>2, <2>3
<1> HIDE DEF new
<1>11. ASSUME NEW q \in Rooms PROVE Position(recent', q) = new(q)
  <2> DEFINE t == recent'
  <2>1. t \in Seq(Rooms) /\ IsInjective(t) /\ Len(t) = Len(recent)
    BY <1>9 DEF RecentIs
  <2>2. new(q) \in 1 .. Len(t) /\ t[new(q)] = q
    BY <1>10, <2>1
  <2> HIDE DEF t
  <2>3. Position(t, t[new(q)]) = new(q)
    BY <2>1, <2>2, PositionIs
  <2> QED BY <2>2, <2>3 DEF t
<1>12. ASSUME NEW q \in Rooms, q # r PROVE 1 < new(q)
  <2>1. rank(q) \in Nat /\ rank(r) \in Nat /\ rank(q) >= 1 /\ rank(q) # rank(r) /\ rank(r) >= 1
    BY <1>2, <1>12
  <2> QED BY <2>1, <1>12 DEF new
<1>13. ASSUME NEW p \in Rooms, NEW q \in Rooms, p # r, q # r, rank(p) < rank(q)
       PROVE  new(p) < new(q)
  <2>1. rank(p) \in Nat /\ rank(q) \in Nat /\ rank(r) \in Nat /\ rank(q) # rank(r) /\ rank(p) # rank(r)
    BY <1>2, <1>13
  <2> QED BY <2>1, <1>13 DEF new
<1>14. new(r) = 1
  BY DEF new
<1>15. \A q \in Rooms : q # r => Before(r, q)'
  BY <1>11, <1>12, <1>14 DEF Before
<1>16. \A p, q \in Rooms : p # r /\ q # r /\ Before(p, q) => Before(p, q)'
  BY <1>11, <1>13 DEF Before, rank
<1> QED BY <1>15, <1>16

LEMMA SyncActivityEntries ==
  ASSUME RoomsInv, RoomsInv', EntriesInv, NEW r \in Rooms, SyncActivity(r) PROVE EntriesInv'
<1> DEFINE s == entries.sorted
<1>0. RoomTypes /\ RecentIs' /\ s \in Seq(Rooms) /\ IsInjective(s)
  BY EntriesFields DEF RoomsInv, RoomTypes, Window
<1>1. /\ Dirty(r) /\ recent' = <<r>> \o Without(recent, r) /\ UNCHANGED <<room, owed, watch>>
  BY DEF SyncActivity
<1>2. /\ entries'.sorted = s /\ entries'.reset = entries.reset
      /\ entries.dirty \subseteq entries'.dirty /\ (Running => r \in entries'.dirty)
  BY <1>0, <1>1, DirtyKeeps
<1>3. ASSUME Running, ~entries.reset, NEW i \in 1 .. Len(s), NEW j \in 1 .. Len(s), i < j
      PROVE  Before(s[i], s[j])' \/ s[j] \in entries'.dirty
  <2>1. Before(s[i], s[j]) \/ s[j] \in entries.dirty
    BY <1>3 DEF EntriesInv, OrderKept, InOrder
  <2>2. s[i] \in Rooms /\ s[j] \in Rooms /\ (s[i] = s[j] => i = j)
    BY <1>0, InjectiveIs
  <2>3. CASE s[j] = r
    BY <1>2, <1>3, <2>3
  <2>4. CASE s[j] # r /\ s[i] = r
    BY <1>0, <1>1, <1>2, <2>2, <2>4, ActivityFirst
  <2>5. CASE s[j] # r /\ s[i] # r
    BY <1>0, <1>1, <1>2, <2>1, <2>2, <2>5, ActivityFirst
  <2> QED BY <2>3, <2>4, <2>5
<1>4. OrderKept'
  <2> QED BY <1>1, <1>2, <1>3 DEF OrderKept, InOrder, Running
<1>5. \A q \in Rooms : /\ FilterFor(watch.filter, q)' <=> FilterFor(watch.filter, q)
                       /\ LeftBehind(q)' <=> LeftBehind(q)
  BY <1>1 DEF FilterFor, NotLeft, LeftBehind
<1>6. Filtered'
  BY <1>1, <1>2, <1>5 DEF EntriesInv, Filtered, Running
<1> QED BY <1>4, <1>6 DEF EntriesInv

LEMMA EntriesNextKeeps ==
  ASSUME RoomsInv, RoomsInv', EntriesInv, [RoomsNext]_roomsVars PROVE EntriesInv'
<1>1. CASE TaskSteps
  <2>1. CASE PollReset
    BY <2>1, PollResetEntries
  <2>2. ASSUME NEW r \in Rooms, PollUpdate(r) PROVE EntriesInv'
    BY <2>2, PollUpdateEntries
  <2>3. CASE TaskStarts \/ PollGrown \/ RefreshModes \/ RoomUpdate \/ Command \/ SinkClosed
    BY <2>3, TaskEntries
  <2> QED BY <1>1, <2>1, <2>2, <2>3 DEF TaskSteps
<1>2. CASE CallSteps
  BY <1>2, CallEntries
<1>3. CASE UserSteps
  <2>1. ASSUME NEW r \in Rooms, LeaveRoom(r) PROVE EntriesInv'
    BY <2>1, LeaveRoomEntries
  <2> QED BY <1>3, <2>1, UserEntries DEF UserSteps
<1>4. CASE SyncSteps
  <2>1. CASE SyncRules
    BY <2>1, SyncRulesEntries
  <2>2. ASSUME NEW r \in Rooms, SyncActivity(r) PROVE EntriesInv'
    BY <2>2, SyncActivityEntries
  <2>3. ASSUME NEW r \in Rooms, SyncLeft(r) PROVE EntriesInv'
    BY <2>3, SyncLeftEntries
  <2>4. ASSUME NEW r \in Rooms, NEW m \in Memberships, SyncMembership(r, m) PROVE EntriesInv'
    BY <2>4, SyncMembershipEntries
  <2>5. ASSUME NEW r \in Rooms, NEW m \in Modes, SyncRule(r, m) PROVE EntriesInv'
    BY <2>5, UserEntries
  <2> QED BY <1>4, <2>1, <2>2, <2>3, <2>4, <2>5 DEF SyncSteps
<1>5. CASE UNCHANGED roomsVars
  BY <1>5, UserEntries
<1> QED BY <1>1, <1>2, <1>3, <1>4, <1>5 DEF RoomsNext

-----------------------------------------------------------------------------
(* RoomList: the filter on its way to the task.                              *)

LEMMA FilterSame ==
  ASSUME FilterTold, FilterCalls' = FilterCalls, watch'.filter = watch.filter,
         watch'.commands = watch.commands, list'.filter = list.filter,
         raced.filter => raced'.filter
  PROVE  FilterTold'
<1>1. (FilterTaken <=> FilterTaken') /\ (FilterWaits <=> FilterWaits')
  BY DEF FilterTaken, FilterWaits
<1> QED BY <1>1 DEF FilterTold

\* A call that comes or goes and is no choice of a filter.
LEMMA FilterCallsSame ==
  ASSUME NEW call, call.kind # "filter",
         \/ listCalls' = listCalls
         \/ listCalls' = listCalls \ {call}
         \/ listCalls' = listCalls \cup {call}
  PROVE  FilterCalls' = FilterCalls
BY DEF FilterCalls

LEMMA KindsAre ==
  ASSUME NEW id, NEW v
  PROVE  /\ RoomCall("watch", id, v).kind # "filter" /\ RoomCall("stop", id, v).kind # "filter"
         /\ RoomCall("more", id, v).kind # "filter" /\ RoomCall("leave", id, v).kind # "filter"
         /\ RoomCall("mode", id, v).kind # "filter" /\ RoomCall("filter", id, v).kind = "filter"
BY DEF RoomCall

LEMMA TaskFilter ==
  ASSUME RoomsInv, FilterTold,
         \/ TaskStarts \/ PollReset \/ PollGrown \/ RefreshModes \/ RoomUpdate \/ SinkClosed
         \/ ListSpawns \/ StopRoomLists \/ Deliver \/ SyncRules \/ UNCHANGED roomsVars
         \/ \E r \in Rooms :
              \/ PollUpdate(r) \/ SyncActivity(r) \/ SyncLeft(r)
              \/ \E m \in Memberships : SyncMembership(r, m)
              \/ \E m \in Modes : SyncRule(r, m)
  PROVE  FilterTold'
<1>0. RoomTypes
  BY DEF RoomsInv
<1>1. FilterCalls' = FilterCalls
  BY DEF TaskStarts, PollReset, PollGrown, RefreshModes, RoomUpdate, SinkClosed, ListSpawns,
         StopRoomLists, Deliver, SyncRules, roomsVars, PollUpdate, SyncActivity, SyncLeft,
         SyncMembership, SyncRule, FilterCalls
<1>3. watch'.filter = watch.filter /\ watch'.commands = watch.commands
  <2>1. CASE TaskStarts \/ SinkClosed \/ ListSpawns
    BY <1>0, <2>1, WatchFields DEF TaskStarts, SinkClosed, ListSpawns
  <2>2. CASE PollReset \/ PollGrown \/ \E r \in Rooms : PollUpdate(r)
    <3>1. PICK v : watch' = [watch EXCEPT !.visible = v]
      BY <2>2 DEF PollReset, PollGrown, PollUpdate
    <3> QED BY <1>0, <3>1, WatchFields
  <2>3. CASE RefreshModes \/ SyncRules
    BY <1>0, <2>3, WatchFields DEF RefreshModes, SyncRules, Hears
  <2>4. CASE RoomUpdate \/ \E r \in Rooms : SyncLeft(r) \/ \E m \in Memberships : SyncMembership(r, m)
    BY <1>0, <2>4, WatchFields DEF RoomUpdate, SyncLeft, SyncMembership, Hears
  <2>5. CASE StopRoomLists
    BY <1>0, <2>5, WatchFields DEF StopRoomLists, AbortedList
  <2>6. CASE Deliver \/ UNCHANGED roomsVars \/ \E r \in Rooms : SyncActivity(r) \/ \E m \in Modes : SyncRule(r, m)
    BY <2>6 DEF Deliver, roomsVars, SyncActivity, SyncRule
  <2> QED BY <2>1, <2>2, <2>3, <2>4, <2>5, <2>6
<1>4. list'.filter = list.filter
  <2>1. CASE Deliver
    BY <1>0, <2>1, ListFields DEF Deliver
  <2>2. CASE ~Deliver
    BY <2>2
       DEF TaskStarts, PollReset, PollGrown, RefreshModes, RoomUpdate, SinkClosed, ListSpawns,
         StopRoomLists, SyncRules, roomsVars, PollUpdate, SyncActivity, SyncLeft,
         SyncMembership, SyncRule
  <2> QED BY <2>1, <2>2
<1>5. raced'.filter = raced.filter
  <2>1. CASE RefreshModes \/ SyncRules
    BY <1>0, <2>1, RacedFields DEF RefreshModes, SyncRules
  <2>2. CASE ~(RefreshModes \/ SyncRules)
    BY <2>2 DEF TaskStarts, PollReset, PollGrown, RoomUpdate, SinkClosed, ListSpawns,
         StopRoomLists, Deliver, roomsVars, PollUpdate, SyncActivity, SyncLeft,
         SyncMembership, SyncRule
  <2> QED BY <2>1, <2>2
<1> QED BY <1>1, <1>3, <1>4, <1>5, FilterSame

LEMMA OtherCallFilter ==
  ASSUME RoomsInv, FilterTold,
         \/ ListRegisters \/ StopRoomList \/ LoadMore \/ DisposeList
         \/ \E r \in Rooms : LeaveRoom(r) \/ \E m \in Modes : ModeCached(r, m) \/ SetMode(r, m)
  PROVE  FilterTold'
<1>0. RoomTypes
  BY DEF RoomsInv
<1>1. FilterCalls' = FilterCalls
  <2>1. CASE ListRegisters
    BY <2>1, KindsAre, FilterCallsSame DEF ListRegisters, Takes
  <2>2. CASE StopRoomList
    BY <2>2, KindsAre, FilterCallsSame DEF StopRoomList, Takes
  <2>3. CASE LoadMore
    BY <2>3, KindsAre, FilterCallsSame DEF LoadMore, Calls
  <2>4. CASE DisposeList
    BY <2>4, KindsAre, FilterCallsSame DEF DisposeList, Calls
  <2>5. ASSUME NEW r \in Rooms, LeaveRoom(r) PROVE FilterCalls' = FilterCalls
    BY <2>5, KindsAre, FilterCallsSame DEF LeaveRoom, Calls
  <2>6. ASSUME NEW r \in Rooms, NEW m \in Modes, ModeCached(r, m)
        PROVE  FilterCalls' = FilterCalls
    BY <2>6, KindsAre, FilterCallsSame DEF ModeCached, Takes
  <2>7. ASSUME NEW r \in Rooms, NEW m \in Modes, SetMode(r, m) PROVE FilterCalls' = FilterCalls
    BY <2>7, KindsAre, FilterCallsSame DEF SetMode, Calls
  <2> QED BY <2>1, <2>2, <2>3, <2>4, <2>5, <2>6, <2>7
<1>2. watch'.filter = watch.filter /\ watch'.commands = watch.commands
  <2>1. CASE ListRegisters
    BY <1>0, <2>1, WatchFields DEF ListRegisters
  <2>2. CASE StopRoomList
    BY <1>0, <2>2, WatchFields DEF StopRoomList, AbortedList
  <2>3. CASE ~ListRegisters /\ ~StopRoomList
    BY <2>3 DEF LoadMore, DisposeList, LeaveRoom, ModeCached, SetMode
  <2> QED BY <2>1, <2>2, <2>3
<1>3. list'.filter = list.filter
  <2>1. CASE DisposeList
    BY <1>0, <2>1, ListFields DEF DisposeList
  <2>2. CASE ~DisposeList
    BY <2>2 DEF ListRegisters, StopRoomList, LoadMore, LeaveRoom, ModeCached, SetMode
  <2> QED BY <2>1, <2>2
<1>4. raced'.filter = raced.filter
  <2>1. ASSUME NEW r \in Rooms, NEW m \in Modes, ModeCached(r, m)
        PROVE  raced'.filter = raced.filter
    BY <1>0, <2>1, RacedFields DEF ModeCached
  <2>2. CASE ~\E r \in Rooms, m \in Modes : ModeCached(r, m)
    BY <2>2 DEF ListRegisters, StopRoomList, LoadMore, DisposeList, LeaveRoom, SetMode
  <2> QED BY <2>1, <2>2
<1> QED BY <1>1, <1>2, <1>3, <1>4, FilterSame

LEMMA CommandsAre ==
  ASSUME NEW c \in Seq(ListCommands), NEW x \in ListCommands
  PROVE  /\ Append(c, x) \in Seq(ListCommands) /\ Len(Append(c, x)) = Len(c) + 1
         /\ Append(c, x)[Len(c) + 1] = x /\ \A i \in 1 .. Len(c) : Append(c, x)[i] = c[i]
         /\ c # <<>> => /\ Len(Tail(c)) = Len(c) - 1 /\ Head(c) = c[1] /\ Len(c) >= 1
                        /\ \A i \in 1 .. Len(c) - 1 : Tail(c)[i] = c[i + 1]
OBVIOUS

LEMMA ToldFilter ==
  ASSUME RoomsInv, FilterTold,
         MoreSent \/ \E r \in Rooms : Refilter(r)
  PROVE  FilterTold'
<1>0. RoomTypes
  BY DEF RoomsInv
<1>1. PICK x \in {"loadMore", "refilter"} : watch' = Told(x)
  BY DEF MoreSent, Refilter
<1>2. UNCHANGED <<list, raced>> /\ FilterCalls' = FilterCalls
  <2>1. CASE MoreSent
    BY <2>1, KindsAre, FilterCallsSame DEF MoreSent, Takes
  <2>2. ASSUME NEW r \in Rooms, Refilter(r)
        PROVE  UNCHANGED <<list, raced>> /\ FilterCalls' = FilterCalls
    BY <2>2, KindsAre, FilterCallsSame DEF Refilter, Takes
  <2> QED BY <2>1, <2>2
<1>3. CASE ~Listening
  BY <1>1, <1>2, <1>3, FilterSame DEF Told
<1>4. CASE Listening
  <2> DEFINE c == watch.commands
             d == Append(c, x)
  <2>1. watch'.filter = watch.filter /\ watch'.commands = d
    BY <1>0, <1>1, <1>4, WatchFields DEF Told
  <2>2. c \in Seq(ListCommands) /\ x \in ListCommands /\ x \notin RoomFilters /\ Len(c) \in Nat
    BY <1>0, WatchFields DEF ListCommands, RoomFilters
  <2>3. Len(d) = Len(c) + 1 /\ d[Len(c) + 1] = x /\ \A i \in 1 .. Len(c) : d[i] = c[i]
    BY <2>2, CommandsAre
  <2> HIDE DEF d, c
  <2>4. \A j \in 1 .. Len(d) : j \in 1 .. Len(c) \/ j = Len(c) + 1
    BY <2>2, <2>3
  <2>5. ASSUME FilterTaken PROVE FilterTaken'
    <3>1. \A j \in 1 .. Len(c) : c[j] \notin RoomFilters
      BY <2>5 DEF FilterTaken, c
    <3>2. \A j \in 1 .. Len(d) : d[j] \notin RoomFilters
      BY <2>2, <2>3, <2>4, <3>1
    <3> QED BY <1>2, <2>1, <2>5, <3>2 DEF FilterTaken
  <2>6. ASSUME FilterWaits PROVE FilterWaits'
    <3>1. PICK i \in 1 .. Len(c) : /\ c[i] = list.filter
                                   /\ \A j \in 1 .. Len(c) : j > i => c[j] \notin RoomFilters
      BY <2>6 DEF FilterWaits, c
    <3>2. i \in 1 .. Len(d) /\ d[i] = list.filter
      BY <2>2, <2>3, <3>1
    <3>3. \A j \in 1 .. Len(d) : j > i => d[j] \notin RoomFilters
      BY <2>2, <2>3, <2>4, <3>1
    <3> QED BY <1>2, <2>1, <3>2, <3>3 DEF FilterWaits
  <2> QED BY <1>2, <2>5, <2>6 DEF FilterTold
<1> QED BY <1>3, <1>4

\* The choice that reaches the task is the page's, unless another overtook it.
LEMMA FilterSentFilter ==
  ASSUME RoomsInv, FilterTold, NEW f \in RoomFilters, FilterSent(f) PROVE FilterTold'
<1>0. RoomTypes
  BY DEF RoomsInv
<1> DEFINE call == RoomCall("filter", NoRoom, f)
<1>1. /\ call \in listCalls /\ listCalls' = listCalls \ {call} /\ watch' = Told(f) /\ list' = list
      /\ raced' = [raced EXCEPT !.filter = @ \/ ~Listening]
  BY DEF FilterSent, Takes
<1>2. raced'.filter <=> raced.filter \/ ~Listening
  BY <1>0, <1>1, RacedFields
<1> SUFFICES ASSUME ~raced.filter, Listening PROVE FilterTold'
  BY <1>2 DEF FilterTold
<1>3. call \in FilterCalls
  BY <1>1, KindsAre DEF FilterCalls
<1>4. call = RoomCall("filter", NoRoom, list.filter)
  BY <1>3 DEF FilterTold
<1>5. f = list.filter
  BY <1>4 DEF RoomCall
<1>6. FilterCalls' = {}
  <2> SUFFICES ASSUME NEW c \in listCalls', c.kind = "filter" PROVE FALSE
    BY DEF FilterCalls
  <2>1. c \in FilterCalls /\ c # call
    BY <1>1 DEF FilterCalls
  <2> QED BY <1>4, <2>1 DEF FilterTold
<1> DEFINE c == watch.commands
           d == Append(c, f)
<1>7. watch'.commands = d
  BY <1>0, <1>1, WatchFields DEF Told
<1>8. c \in Seq(ListCommands) /\ f \in ListCommands /\ Len(c) \in Nat
  BY <1>0, WatchFields DEF ListCommands
<1>9. Len(d) = Len(c) + 1 /\ d[Len(c) + 1] = f
  BY <1>8, CommandsAre
<1> HIDE DEF d, c
<1>10. FilterWaits'
  <2>1. Len(d) \in 1 .. Len(d) /\ d[Len(d)] = list'.filter
    BY <1>1, <1>5, <1>8, <1>9
  <2>2. \A j \in 1 .. Len(d) : ~(j > Len(d))
    BY <1>8, <1>9
  <2> QED BY <1>7, <2>1, <2>2 DEF FilterWaits
<1> QED BY <1>6, <1>10 DEF FilterTold

LEMMA SetFilterFilter ==
  ASSUME RoomsInv, FilterTold, NEW f \in RoomFilters, SetFilter(f) PROVE FilterTold'
<1>0. RoomTypes
  BY DEF RoomsInv
<1> DEFINE call == RoomCall("filter", NoRoom, f)
<1>1. /\ listCalls' = listCalls \cup {call} /\ list' = [list EXCEPT !.filter = f]
      /\ raced' = [raced EXCEPT !.filter = FilterCalls # {}]
  BY DEF SetFilter, Calls
<1>2. list'.filter = f /\ (raced'.filter <=> FilterCalls # {})
  BY <1>0, <1>1, ListFields, RacedFields
<1>3. call.kind = "filter"
  BY KindsAre
<1>4. FilterCalls' = FilterCalls \cup {call}
  BY <1>1, <1>3 DEF FilterCalls
<1> QED BY <1>2, <1>4 DEF FilterTold

\* The task takes the next command: the choice comes into force, or one place nearer.
LEMMA CommandFilter == ASSUME RoomsInv, FilterTold, Command PROVE FilterTold'
<1>0. RoomTypes
  BY DEF RoomsInv
<1> DEFINE c == watch.commands
           d == Tail(c)
<1>1. c \in Seq(ListCommands) /\ c # <<>> /\ Len(c) \in Nat /\ "loadMore" \in ListCommands
  BY <1>0, WatchFields DEF Command, ListCommands
<1>2. /\ Len(d) = Len(c) - 1 /\ Head(c) = c[1] /\ Len(c) >= 1
      /\ \A i \in 1 .. Len(c) - 1 : d[i] = c[i + 1]
  BY <1>1, CommandsAre
<1>3. UNCHANGED <<list, raced, listCalls>> /\ FilterCalls' = FilterCalls
  BY DEF Command, FilterCalls
<1>4. /\ watch'.commands = d
      /\ c[1] \in RoomFilters => watch'.filter = c[1]
      /\ c[1] \notin RoomFilters => watch'.filter = watch.filter
  <2>1. c[1] \in ListCommands
    BY <1>1, <1>2
  <2>2. watch'.commands = d
    BY <1>0, WatchFields DEF Command
  <2>3. c[1] \in RoomFilters => watch'.filter = c[1]
    BY <1>0, <1>2, WatchFields DEF Command, RoomFilters
  <2>4. c[1] \notin RoomFilters => watch'.filter = watch.filter
    BY <1>0, <1>2, <2>1, WatchFields DEF Command, ListCommands
  <2> QED BY <2>2, <2>3, <2>4
<1> HIDE DEF d, c
<1>5. \A j \in 1 .. Len(d) : j + 1 \in 1 .. Len(c) /\ d[j] = c[j + 1]
  BY <1>1, <1>2
<1>6. 1 \in 1 .. Len(c)
  BY <1>1, <1>2
<1>7. ASSUME FilterTaken PROVE FilterTaken'
  <2>1. \A j \in 1 .. Len(c) : c[j] \notin RoomFilters
    BY <1>7 DEF FilterTaken, c
  <2>2. \A j \in 1 .. Len(d) : d[j] \notin RoomFilters
    BY <1>5, <2>1
  <2> QED BY <1>3, <1>4, <1>6, <1>7, <2>1, <2>2 DEF FilterTaken
<1>8. ASSUME FilterWaits PROVE FilterTaken' \/ FilterWaits'
  <2>1. PICK i \in 1 .. Len(c) : /\ c[i] = list.filter
                                 /\ \A j \in 1 .. Len(c) : j > i => c[j] \notin RoomFilters
    BY <1>8 DEF FilterWaits, c
  <2>2. CASE i = 1
    <3>1. watch'.filter = list'.filter
      BY <1>0, <1>3, <1>4, <2>1, <2>2, ListFields
    <3>2. \A j \in 1 .. Len(d) : d[j] \notin RoomFilters
      <4>1. \A j \in 1 .. Len(d) : j + 1 > 1
        OBVIOUS
      <4> QED BY <1>5, <2>1, <2>2, <4>1
    <3> QED BY <1>4, <3>1, <3>2 DEF FilterTaken
  <2>3. CASE i # 1
    <3>1. i - 1 \in 1 .. Len(d) /\ (i - 1) + 1 = i
      BY <1>1, <1>2, <2>3
    <3>2. d[i - 1] = list'.filter
      <4>1. d[i - 1] = c[(i - 1) + 1]
        BY <1>5, <3>1
      <4> QED BY <1>3, <2>1, <3>1, <4>1
    <3>3. ASSUME NEW j \in 1 .. Len(d), j > i - 1 PROVE d[j] \notin RoomFilters
      <4>1. j + 1 > i
        BY <3>3
      <4> QED BY <1>5, <2>1, <4>1
    <3> QED BY <1>4, <3>1, <3>2, <3>3 DEF FilterWaits
  <2> QED BY <2>2, <2>3
<1> QED BY <1>3, <1>7, <1>8 DEF FilterTold

LEMMA FilterNextKeeps == ASSUME RoomsInv, FilterTold, [RoomsNext]_roomsVars PROVE FilterTold'
<1>1. CASE TaskSteps
  BY <1>1, TaskFilter, CommandFilter DEF TaskSteps
<1>2. CASE CallSteps
  <2>1. ASSUME NEW f \in RoomFilters, FilterSent(f) PROVE FilterTold'
    BY <2>1, FilterSentFilter
  <2> QED BY <1>2, <2>1, TaskFilter, OtherCallFilter, ToldFilter DEF CallSteps
<1>3. CASE UserSteps
  <2>1. ASSUME NEW f \in RoomFilters, SetFilter(f) PROVE FilterTold'
    BY <2>1, SetFilterFilter
  <2> QED BY <1>3, <2>1, TaskFilter, OtherCallFilter DEF UserSteps
<1>4. CASE SyncSteps
  BY <1>4, TaskFilter DEF SyncSteps
<1>5. CASE UNCHANGED roomsVars
  BY <1>5, TaskFilter
<1> QED BY <1>1, <1>2, <1>3, <1>4, <1>5 DEF RoomsNext

LEMMA RoomsInitEntries == RoomsInit => EntriesInv /\ FilterTold
<1> SUFFICES ASSUME RoomsInit PROVE EntriesInv /\ FilterTold
  OBVIOUS
<1>1. ~Running /\ watch.filter = "all" /\ watch.commands = <<>> /\ list.filter = "all"
  BY DEF RoomsInit, Running
<1>2. FilterCalls = {}
  BY KindsAre DEF RoomsInit, FilterCalls
<1>3. FilterTaken
  BY <1>1 DEF FilterTaken
<1> QED BY <1>1, <1>2, <1>3 DEF EntriesInv, OrderKept, Filtered, FilterTold

\* The entries are those of the filter in their order, and the page's filter is
\* in force or on its way.
THEOREM EntriesInductive == RoomsSpec => [](EntriesInv /\ FilterTold)
<1>1. RoomsInit => EntriesInv /\ FilterTold
  BY RoomsInitEntries
<1>2. RoomsInv /\ RoomsInv' /\ EntriesInv /\ FilterTold /\ [RoomsNext]_roomsVars
         => EntriesInv' /\ FilterTold'
  BY EntriesNextKeeps, FilterNextKeeps
<1> QED BY <1>1, <1>2, RoomsInductive, PTL DEF RoomsSpec

\* A list at rest shows the most recent rooms of the filter its page shows
\* (rooms.rs lines 134 and 257), unless two choices of a filter overlapped or
\* one was made before the watch was there.
THEOREM SettledShown == RoomsSpec => []SettledListShown
<1>1. ASSUME RoomsInv, EntriesInv, FilterTold PROVE SettledListShown
  <2> SUFFICES ASSUME RoomsSettled, ~raced.filter
               PROVE  Ids(list.rooms) = FirstOf(Matching(list.filter), watch.limit)
    BY DEF SettledListShown
  <2>1. /\ Running /\ list.open /\ listCalls = {} /\ sink = <<>> /\ watch.commands = <<>>
        /\ ~watch.left /\ owed.left = {} /\ ~entries.reset /\ entries.dirty = {} /\ ~Grown
    BY DEF RoomsSettled
  <2>2. watch.filter = list.filter
    BY <1>1, <2>1 DEF FilterTold, FilterCalls, FilterTaken, FilterWaits
  <2>3. RecentIs /\ entries.sorted \in Seq(Rooms)
    BY <1>1, EntriesFields DEF RoomsInv, RoomTypes
  <2>4. InOrder(entries.sorted, {})
    BY <1>1, <2>1 DEF EntriesInv, OrderKept
  <2>5. \A r \in Rooms : Contains(entries.sorted, r) <=> FilterFor(watch.filter, r)
    BY <1>1, <2>1 DEF EntriesInv, Filtered, LeftBehind
  <2> DEFINE m == Matching(watch.filter)
  <2>6. /\ m \in Seq(Rooms) /\ \A r \in Rooms : Contains(m, r) <=> FilterFor(watch.filter, r)
    BY <2>3, MatchingIs
  <2>7. \A i, j \in 1 .. Len(m) : i < j => Before(m[i], m[j])
    BY <2>3, MatchingIs
  <2> HIDE DEF m
  <2>8. entries.sorted = m
    BY <2>3, <2>4, <2>5, <2>6, <2>7, SameOrder DEF InOrder
  <2>9. watch.visible = FirstOf(entries.sorted, watch.limit)
    BY <2>1 DEF Grown, Target
  <2>10. Arrived(list.rooms, sink) = list.rooms
    BY <2>1, ArrivedNone
  <2>11. Ids(list.rooms) = watch.visible
    BY <1>1, <2>1, <2>10 DEF RoomsInv, ShownRight, Has
  <2> QED BY <2>2, <2>8, <2>9, <2>11 DEF m
<1> QED BY <1>1, RoomsInductive, EntriesInductive, PTL
=============================================================================
