----------------------------- MODULE ChatTokens -----------------------------
(* The tokens of a chat session and the two processes that use them: the app   *)
(* and the iOS notification extension, which opens the app's encrypted stores. *)
(* A session is issued by NGO.Tools (one access token, renewed through the API *)
(* and handed to update_access_token) or comes from an OAuth login (an access  *)
(* and a refresh token that the homeserver rotates at every refresh).          *)
(*                                                                              *)
(* External, as session.rs uses it: the SDK's refresh. Under a lock that the   *)
(* processes share it compares the hash of the tokens it knows with the one in *)
(* the crypto store; if they differ it reloads the tokens with the session     *)
(* callback instead of asking the server. A token and its hash are the number  *)
(* the server has given it. One action is what happens between two awaits.     *)
EXTENDS Integers, FiniteSets

CONSTANTS
    MaxTokens,      \* bound: tokens the server gives out
    MaxStarts,      \* bound: starts of the two processes
    MaxMisses       \* bound: requests without an answer, failing stores and kills

ASSUME TokensAssumption == MaxTokens \in Nat \ {0} /\ MaxStarts \in Nat /\ MaxMisses \in Nat

VARIABLES
    kind,           \* how the user signs in: "issued" or "oauth"
    grant,          \* server: [newest, good, refresh, reused]
    stored,         \* SESSION_KEY in the state store; 0 if there is none
    hash,           \* SESSION_HASH_KEY in the crypto store; 0 if there is none
    refreshLock,    \* the holder of the SDK's refresh lock
    process,        \* [at, token, known, update, request] of each process
    signed,         \* Lifecycle.session of the app
    change,         \* the session change the app's task has not received
    missed,         \* history: [rotation, announcement, overtaken, rejected]
    starts, misses

tokensVars == <<kind, grant, stored, hash, refreshLock, process, signed, change,
                missed, starts, misses>>

Processes == {"app", "nse"}
Free == "free"
Down == [at |-> "down", token |-> 0, known |-> 0, update |-> 0, request |-> 0]

TokensInit ==
    /\ kind \in {"issued", "oauth"}
    /\ grant = [newest |-> 0, good |-> {}, refresh |-> 0, reused |-> FALSE]
    /\ stored = 0 /\ hash = 0 /\ refreshLock = Free
    /\ process = [p \in Processes |-> Down]
    /\ signed = "signedOut" /\ change = "none"
    /\ missed = [rotation |-> FALSE, announcement |-> FALSE, overtaken |-> FALSE,
                 rejected |-> FALSE]
    /\ starts = 0 /\ misses = 0

-----------------------------------------------------------------------------
(* Pieces of the actions.                                                       *)

At(p, at) == process[p].at = at
Becomes(p, changed) == process' = [process EXCEPT ![p] = changed]
Goes(p, at) == Becomes(p, [process[p] EXCEPT !.at = at])

Misses == misses < MaxMisses /\ misses' = misses + 1

\* The server gives out a token; that of an OAuth session can refresh it once.
Grants(good) ==
    /\ grant.newest < MaxTokens
    /\ grant' = [grant EXCEPT !.newest = @ + 1, !.good = good,
                 !.refresh = IF kind = "oauth" THEN grant.newest + 1 ELSE 0]

\* Mutant of ClassifyRefresh: whatever fails ends the session.
ClassifyAnyFailure(failure) == "sessionExpired"

\* What a failed refresh means for the session.
ClassifyRefresh(failure) ==
    CASE failure = "refreshTokenRequired" -> "sessionExpired"
      [] failure = "invalidGrant"         -> "sessionExpired"
      [] failure = "request"              -> "network"
      [] OTHER                            -> "internal"

\* Lifecycle::run reports the error of a call of the app.
Report(error) == IF error = "sessionExpired" /\ signed = "active" THEN "expired" ELSE signed

SetActive(p) == signed' = IF p = "app" THEN "active" ELSE signed
Broadcasts(p, what) == change' = IF p = "app" THEN what ELSE change

-----------------------------------------------------------------------------
(* Opening the stores and restoring a session.                                  *)

\* ChatClient::create, or resolve() in the extension.
Start(p) ==
    /\ At(p, "down") /\ starts < MaxStarts /\ starts' = starts + 1
    /\ Goes(p, "opened")
    /\ IF p = "app" THEN signed' = "signedOut" /\ change' = "none" ELSE UNCHANGED <<signed, change>>
    /\ UNCHANGED <<kind, grant, stored, hash, refreshLock, missed, misses>>

\* read_stored_session; without one the extension gives up.
ReadStored(p) ==
    /\ At(p, "opened") /\ stored # 0
    /\ Becomes(p, [process[p] EXCEPT !.at = "restoring", !.token = stored, !.known = stored])
    /\ UNCHANGED <<kind, grant, stored, hash, refreshLock, signed, change,
                   missed, starts, misses>>

NothingStored ==
    /\ At("nse", "opened") /\ stored = 0
    /\ Becomes("nse", Down)
    /\ UNCHANGED <<kind, grant, stored, hash, refreshLock, signed, change,
                   missed, starts, misses>>

Mismatch(p) == hash \notin {0, process[p].known}

\* The reload callback; it fails if the session has been forgotten.
Reload(p) == [process[p] EXCEPT !.at = "up", !.token = stored, !.known = stored, !.update = 0]

\* restore_session_with: takes the lock and compares.
RestoreLocks(p) ==
    /\ At(p, "restoring") /\ refreshLock = Free
    /\ CASE Mismatch(p) /\ stored # 0 ->
              /\ Becomes(p, Reload(p)) /\ hash' = stored /\ SetActive(p)
              /\ UNCHANGED refreshLock
         [] Mismatch(p) /\ stored = 0 ->
              Becomes(p, Down) /\ UNCHANGED <<hash, refreshLock, signed>>
         [] OTHER ->
              Goes(p, "restored") /\ refreshLock' = p /\ UNCHANGED <<hash,
                                                                     signed>>
    /\ UNCHANGED <<kind, grant, stored, change, missed, starts, misses>>

\* It writes the hash of the tokens it was given, and releases the lock.
RestoreSaves(p) ==
    /\ At(p, "restored")
    /\ hash' = process[p].known
    /\ missed' = [missed EXCEPT !.announcement = @ \/ Mismatch(p)]
    /\ refreshLock' = Free
    /\ Goes(p, "up") /\ SetActive(p)
    /\ UNCHANGED <<kind, grant, stored, change, starts, misses>>

\* sign_in_with_token: stores the issued session, then restores it.
SignInWithToken ==
    /\ At("app", "opened") /\ stored = 0 /\ kind = "issued"
    /\ Grants({grant.newest + 1})
    /\ stored' = grant'.newest
    /\ UNCHANGED <<kind, hash, refreshLock, process, signed, change, missed,
                   starts, misses>>

\* finish_login: the SDK has the tokens and saves their hash ...
FinishLogin ==
    /\ At("app", "opened") /\ stored = 0 /\ kind = "oauth" /\ refreshLock = Free
    /\ Grants({grant.newest + 1})
    /\ hash' = grant'.newest
    /\ Becomes("app", [Down EXCEPT !.at = "loggedIn", !.token = grant'.newest, !.known = grant'.newest])
    /\ UNCHANGED <<kind, stored, refreshLock, signed, change, missed, starts,
                   misses>>

\* ... and persist_session follows.
LoginPersists ==
    /\ At("app", "loggedIn")
    /\ stored' = process["app"].token
    /\ Goes("app", "up") /\ SetActive("app")
    /\ UNCHANGED <<kind, grant, hash, refreshLock, change, missed, starts,
                   misses>>

-----------------------------------------------------------------------------
(* update_access_token.                                                         *)

\* The API has renewed the session; the old token may stay good for a while.
Renewed ==
    /\ At("app", "up") /\ kind = "issued"
    /\ \E kept \in {{}, grant.good} : Grants(kept \cup {grant.newest + 1})
    /\ Becomes("app", [process["app"] EXCEPT !.at = "renewed", !.update = grant'.newest])
    /\ UNCHANGED <<kind, stored, hash, refreshLock, signed, change, missed,
                   starts, misses>>

StoreAccessToken ==
    /\ At("app", "renewed")
    /\ stored' = process["app"].update
    /\ Goes("app", "stored")
    /\ UNCHANGED <<kind, grant, hash, refreshLock, signed, change, missed,
                   starts, misses>>

\* Mutant of AnnounceSessionTokens: the other clients are not told.
AnnounceNothing ==
    /\ At("app", "stored")
    /\ Goes("app", "refresh")
    /\ UNCHANGED <<kind, grant, stored, hash, refreshLock, signed, change,
                   missed, starts, misses>>

\* Through a store of its own and without the refresh lock.
AnnounceSessionTokens ==
    /\ At("app", "stored")
    /\ hash' = process["app"].update
    /\ Goes("app", "refresh")
    /\ UNCHANGED <<kind, grant, stored, refreshLock, signed, change, missed,
                   starts, misses>>

\* A store cannot be opened, read or written: the update ends there, with what
\* it has done so far, and the client goes on with the token it had.
UpdateStopped ==
    /\ process["app"].at \in {"renewed", "stored", "refresh"} /\ kind = "issued" /\ Misses
    /\ Becomes("app", [process["app"] EXCEPT !.at = "up", !.update = 0])
    /\ UNCHANGED <<kind, grant, stored, hash, refreshLock, signed, change, missed, starts>>

-----------------------------------------------------------------------------
(* refresh_access_token, for the update or for a rejected request.             *)

\* The call fails; a rejected request of the app is also broadcast.
FailsWith(p, failure) ==
    signed' = IF p = "app" THEN Report(ClassifyRefresh(failure)) ELSE signed

Tells(p, failure) ==
    IF ClassifyRefresh(failure) = "sessionExpired" THEN Broadcasts(p, "unknownToken")
                                                   ELSE UNCHANGED change

Locks(p) == At(p, "refresh") /\ refreshLock = Free

\* The update finds what it has announced and reloads it ...
UpdateReloads ==
    /\ Locks("app") /\ kind = "issued" /\ Mismatch("app") /\ stored # 0
    /\ Becomes("app", Reload("app")) /\ hash' = stored
    /\ Broadcasts("app", "tokensRefreshed")
    /\ signed' = IF stored = process["app"].update THEN "active" ELSE signed
    /\ UNCHANGED <<kind, grant, stored, refreshLock, missed, starts, misses>>

\* ... or does not, and there is no token to refresh with.
UpdateFails ==
    /\ Locks("app") /\ kind = "issued" /\ ~Mismatch("app")
    /\ Becomes("app", [process["app"] EXCEPT !.at = "up", !.update = 0])
    /\ FailsWith("app", "refreshTokenRequired")
    /\ UNCHANGED <<kind, grant, stored, hash, refreshLock, change, missed,
                   starts, misses>>

\* A request with an issued token is refused, perhaps while that is renewed: the
\* SDK reloads the tokens if they have changed.
IssuedRejected(p) ==
    /\ kind = "issued" /\ refreshLock = Free
    /\ process[p].at \in {"up", "renewed", "stored", "refresh"}
    /\ process[p].request \notin grant.good \cup {0}
    /\ missed' = [missed EXCEPT !.rejected = @ \/ p = "app",
                  !.overtaken = @ \/ (Mismatch(p) /\ ~At(p, "up"))]
    /\ IF Mismatch(p) /\ stored # 0
       THEN /\ Becomes(p, [process[p] EXCEPT !.token = stored, !.known = stored, !.request = 0])
            /\ hash' = stored
            /\ Broadcasts(p, "tokensRefreshed") /\ UNCHANGED signed
       ELSE LET failure == IF Mismatch(p) THEN "sessionCallback" ELSE "refreshTokenRequired" IN
            /\ Becomes(p, [process[p] EXCEPT !.request = 0])
            /\ FailsWith(p, failure) /\ Tells(p, failure) /\ UNCHANGED hash
    /\ UNCHANGED <<kind, grant, stored, refreshLock, starts, misses>>

\* An access token of an OAuth session is refused, which does not end it.
Rejected(p) ==
    /\ kind = "oauth" /\ At(p, "up") /\ process[p].request \notin grant.good \cup {0}
    /\ Goes(p, "refresh")
    /\ UNCHANGED <<kind, grant, stored, hash, refreshLock, signed, change, missed, starts, misses>>

RefreshFails(p, failure) ==
    /\ Becomes(p, [process[p] EXCEPT !.at = "up", !.request = 0])
    /\ FailsWith(p, failure) /\ Tells(p, failure)

RefreshReloads(p) ==
    /\ Locks(p) /\ kind = "oauth" /\ Mismatch(p)
    /\ IF stored # 0
       THEN /\ Becomes(p, [Reload(p) EXCEPT !.request = 0]) /\ hash' = stored
            /\ Broadcasts(p, "tokensRefreshed") /\ UNCHANGED signed
       ELSE RefreshFails(p, "sessionCallback") /\ UNCHANGED hash
    /\ UNCHANGED <<kind, grant, stored, refreshLock, missed, starts, misses>>

RefreshAsks(p) ==
    /\ Locks(p) /\ kind = "oauth" /\ ~Mismatch(p)
    /\ refreshLock' = p
    /\ Goes(p, "asking")
    /\ UNCHANGED <<kind, grant, stored, hash, signed, change, missed, starts,
                   misses>>

\* The answer is the next token, or it is lost.
RefreshAnswered(p) ==
    /\ At(p, "asking") /\ process[p].token = grant.refresh
    /\ Grants({grant.newest + 1})
    /\ \/ /\ Becomes(p, [process[p] EXCEPT !.at = "answered", !.token = grant'.newest])
          /\ UNCHANGED <<refreshLock, signed, change, missed, misses>>
       \/ /\ Misses /\ missed' = [missed EXCEPT !.rotation = TRUE]
          /\ refreshLock' = Free
          /\ RefreshFails(p, "request")
    /\ UNCHANGED <<kind, stored, hash, starts>>

RefreshUnanswered(p) ==
    /\ At(p, "asking") /\ Misses
    /\ refreshLock' = Free
    /\ RefreshFails(p, "request")
    /\ UNCHANGED <<kind, grant, stored, hash, missed, starts>>

\* A refresh token that is used again ends the session for everyone.
RefreshRefused(p) ==
    /\ At(p, "asking") /\ process[p].token # grant.refresh
    /\ grant' = [grant EXCEPT !.good = {}, !.refresh = 0, !.reused = @ \/ grant.refresh # 0]
    /\ missed' = [missed EXCEPT !.rejected = @ \/ p = "app"]
    /\ refreshLock' = Free
    /\ RefreshFails(p, "invalidGrant")
    /\ UNCHANGED <<kind, stored, hash, starts, misses>>

\* Mutant of PersistSession: the rotated tokens are not stored.
PersistNothing(p) ==
    /\ At(p, "answered")
    /\ Goes(p, "persisted")
    /\ UNCHANGED <<kind, grant, stored, hash, refreshLock, signed, change,
                   missed, starts, misses>>

\* The save callback: persist_session ...
PersistSession(p) ==
    /\ At(p, "answered")
    /\ stored' = process[p].token
    /\ Goes(p, "persisted")
    /\ UNCHANGED <<kind, grant, hash, refreshLock, signed, change, missed,
                   starts, misses>>

\* It fails: the SDK logs that, and goes on with tokens nobody else can reload.
PersistFails(p) ==
    /\ At(p, "answered") /\ Misses
    /\ missed' = [missed EXCEPT !.rotation = TRUE]
    /\ Goes(p, "persisted")
    /\ UNCHANGED <<kind, grant, stored, hash, refreshLock, signed, change, starts>>

\* ... before the hash, under the same lock.
RefreshSaves(p) ==
    /\ At(p, "persisted")
    /\ hash' = process[p].token
    /\ refreshLock' = Free
    /\ Becomes(p, [process[p] EXCEPT !.at = "up", !.known = process[p].token, !.request = 0])
    /\ Broadcasts(p, "tokensRefreshed")
    /\ UNCHANGED <<kind, grant, stored, signed, missed, starts, misses>>

-----------------------------------------------------------------------------
(* Requests, session changes, and the end of a session.                        *)

Request(p) ==
    /\ At(p, "up") /\ process[p].request = 0
    /\ Becomes(p, [process[p] EXCEPT !.request = @ + process[p].token])
    /\ UNCHANGED <<kind, grant, stored, hash, refreshLock, signed, change,
                   missed, starts, misses>>

Accepted(p) ==
    /\ process[p].request \in grant.good
    /\ Becomes(p, [process[p] EXCEPT !.request = 0])
    /\ UNCHANGED <<kind, grant, stored, hash, refreshLock, signed, change,
                   missed, starts, misses>>

\* watch_session_changes
SessionChanged ==
    /\ change # "none" /\ change' = "none"
    /\ signed' = IF change = "unknownToken" THEN "expired" ELSE signed
    /\ UNCHANGED <<kind, grant, stored, hash, refreshLock, process, missed,
                   starts, misses>>

\* Access tokens expire; the session is revoked.
Expire ==
    /\ grant.good # {}
    /\ grant' = [grant EXCEPT !.good = {}]
    /\ UNCHANGED <<kind, stored, hash, refreshLock, process, signed, change,
                   missed, starts, misses>>

Revoke ==
    /\ grant.refresh # 0
    /\ grant' = [grant EXCEPT !.good = {}, !.refresh = 0]
    /\ UNCHANGED <<kind, stored, hash, refreshLock, process, signed, change,
                   missed, starts, misses>>

\* logout: ends an OAuth session (NGO.Tools ends issued ones) ...
Logout ==
    /\ At("app", "up")
    /\ grant' = [grant EXCEPT !.good = {}, !.refresh = 0]
    /\ Goes("app", "leaving")
    /\ UNCHANGED <<kind, stored, hash, refreshLock, signed, change, missed,
                   starts, misses>>

\* ... then forget_session; the client is disposed of.
ForgetSession ==
    /\ At("app", "leaving")
    /\ stored' = 0
    /\ signed' = "signedOut" /\ change' = "none"
    /\ Becomes("app", Down)
    /\ UNCHANGED <<kind, grant, hash, refreshLock, missed, starts, misses>>

\* The extension has shown its notification.
NotificationShown ==
    /\ At("nse", "up")
    /\ Becomes("nse", Down)
    /\ UNCHANGED <<kind, grant, stored, hash, refreshLock, signed, change,
                   missed, starts, misses>>

\* A killed process loses the lock, and a token that is not saved yet.
Kill(p) ==
    /\ ~At(p, "down") /\ Misses
    /\ Becomes(p, Down)
    /\ refreshLock' = IF refreshLock = p THEN Free ELSE refreshLock
    /\ missed' = [missed EXCEPT !.rotation = @ \/ process[p].at \in {"answered", "persisted"}]
    /\ UNCHANGED <<kind, grant, stored, hash, signed, change, starts>>

Restoring(p) == Start(p) \/ ReadStored(p) \/ RestoreLocks(p) \/ RestoreSaves(p)
Refreshing(p) ==
    \/ Rejected(p) \/ RefreshReloads(p) \/ RefreshAsks(p)
    \/ RefreshAnswered(p) \/ RefreshUnanswered(p) \/ RefreshRefused(p)
    \/ PersistSession(p) \/ PersistFails(p) \/ RefreshSaves(p)
Requesting(p) == Request(p) \/ Accepted(p) \/ IssuedRejected(p)

TokensNext ==
    \/ \E p \in Processes : Restoring(p) \/ Refreshing(p) \/ Requesting(p) \/ Kill(p)
    \/ NothingStored \/ NotificationShown
    \/ SignInWithToken \/ FinishLogin \/ LoginPersists
    \/ Renewed \/ StoreAccessToken \/ AnnounceSessionTokens \/ UpdateStopped
    \/ UpdateReloads \/ UpdateFails
    \/ SessionChanged \/ Logout \/ ForgetSession
    \/ Expire \/ Revoke

TokensSpec == TokensInit /\ [][TokensNext]_tokensVars

-----------------------------------------------------------------------------
(* Properties.                                                                  *)

Places == {"down", "opened", "restoring", "restored", "loggedIn", "up", "renewed",
           "stored", "refresh", "asking", "answered", "persisted", "leaving"}
ProcessRecord == [at : Places, token : Nat, known : Nat, update : Nat, request : Nat]

\* Every variable keeps its type.
TokensTypeOK ==
    /\ kind \in {"issued", "oauth"}
    /\ grant \in [newest : Nat, good : SUBSET Nat, refresh : Nat, reused : BOOLEAN]
    /\ stored \in Nat /\ hash \in Nat
    /\ refreshLock \in Processes \cup {Free}
    /\ process \in [Processes -> ProcessRecord]
    /\ signed \in {"signedOut", "active", "expired"}
    /\ change \in {"none", "unknownToken", "tokensRefreshed"}
    /\ missed \in [rotation : BOOLEAN, announcement : BOOLEAN, overtaken : BOOLEAN,
                    rejected : BOOLEAN]
    /\ starts \in Nat /\ misses \in Nat

\* A refresh token is presented once, whichever process refreshes (session.rs
\* line 122): the stored one is always the newest by the time the lock is free.
\* Unless a rotated token was lost with its answer, its process or its storing.
RefreshOnce == grant.reused => missed.rotation

\* The session of the app ends only after the server has refused its issued or
\* its refresh token, never because an access token has run out, for lack of a
\* network (error.rs line 116) or for a renewal (client.rs line 244); unless
\* the extension wrote the old hash over the announced one.
EndedOnlyIfRejected == signed = "expired" => missed.rejected \/ missed.announcement

\* When update_access_token ends, the client uses the renewed token and its
\* session is active (client.rs line 245), though the extension may restore the
\* session at any moment; unless it ends because a store failed (lines 241 to
\* 244), the extension wrote the old hash over the announced one, or a refused
\* request reloaded the tokens first.
UpdateTakesOver ==
    [][process["app"].update # 0 /\ process'["app"].update = 0 /\ process'["app"].at = "up" =>
          \/ process'["app"].token = process["app"].update /\ signed' = "active"
          \/ misses' > misses
          \/ missed'.announcement \/ missed'.overtaken]_tokensVars

\* Refuted: an announced token is always taken over.
AnnouncementHeard == ~missed.announcement

\* Refuted: a request that is refused meanwhile does not make a renewal fail.
RenewalUndisturbed == signed = "expired" => ~missed.overtaken

\* Refuted: the session that has ended is that of the newest token; a request
\* with the former token may be refused after the renewal.
ExpiredIsCurrent == signed = "expired" /\ At("app", "up") => process["app"].token \notin grant.good

\* Refuted: after logout nothing is stored; the extension may persist what it
\* has refreshed.
LogoutForgets == signed = "signedOut" /\ At("app", "down") /\ At("nse", "down") /\ starts > 0 =>
    stored = 0
=============================================================================
