----------------------------- MODULE OAuthTokens -----------------------------
(***************************************************************************)
(* The OAuth 2.1 server for MCP clients: endpoints/oauth/ and the token    *)
(* store services/oauth_token_store.py, which keeps sessions, codes and    *)
(* tokens in the cache.                                                    *)
(*                                                                         *)
(* Four kinds of request run concurrently: consents (a login that ends in  *)
(* a code), exchanges of a code for a token pair, refreshes of a pair, and *)
(* revocations.  Between two cache calls of one request any other request  *)
(* may run.  Codes and tokens are fresh random strings, so the code minted *)
(* by a consent, and the pair minted by an exchange or a refresh, are      *)
(* named after the request.                                                *)
(*                                                                         *)
(* Left out: the payloads, whose checks pass or fail nondeterministically, *)
(* and the user_tokens list, which is written and never read.              *)
(***************************************************************************)
EXTENDS Naturals

CONSTANTS Sessions, Consents, Exchanges, Refreshes, Revocations,
          Nothing,        \* the argument of a request that has not begun
          Backend,        \* of the cache: "memory", "disk" or "redis"
          MaxFaults,      \* bound: cache calls that fail
          MaxCrashes      \* bound: restarts of the process

Pairs    == Exchanges \cup Refreshes
Requests == Consents \cup Pairs \cup Revocations

ASSUME KindsAssumption == /\ Consents \cap Pairs = {}
                          /\ Exchanges \cap Refreshes = {}
                          /\ Revocations \cap (Consents \cup Pairs) = {}
ASSUME OAuthBoundsAssumption == /\ Backend \in {"memory", "disk", "redis"}
                                /\ MaxFaults \in Nat
                                /\ MaxCrashes \in Nat

VARIABLES session, code, access, refresh,   \* keys of the cache, by kind
          pc,         \* where a request is: the cache call it makes next
          arg,        \* the session, code or pair it was sent with
          answer,     \* what it was answered
          taken,      \* history: exchanges that were handed a code's payload
          cut,        \* history: pairs a delete or lookup of which failed, or
                      \* whose revocation a restart cut short
          faults, crashes

cacheVars == <<session, code, access, refresh>>
vars == <<cacheVars, pc, arg, answer, taken, cut, faults, crashes>>

(* A key was never written, is readable, was deleted, or is gone because   *)
(* its time-to-live ended, it was the least recently used one, or the      *)
(* process restarted.                                                      *)
Cell == {"none", "live", "deleted", "expired"}

Init == /\ session = [s \in Sessions |-> "none"]
        /\ code    = [q \in Consents |-> "none"]
        /\ access  = [p \in Pairs |-> "none"]
        /\ refresh = [p \in Pairs |-> "none"]
        /\ pc      = [r \in Requests |-> "idle"]
        /\ arg     = [r \in Requests |-> Nothing]
        /\ answer  = [r \in Requests |-> "none"]
        /\ taken   = [q \in Consents |-> {}]
        /\ cut     = {}
        /\ faults  = 0
        /\ crashes = 0

-----------------------------------------------------------------------------
(* The cache. *)

Set(store, k)    == [store EXCEPT ![k] = "live"]
Delete(store, k) == IF store[k] = "live" THEN [store EXCEPT ![k] = "deleted"] ELSE store

(* What a set or a get_and_delete that reports failure may have done: with *)
(* Redis the reply may have been lost after the write.                     *)
Unstored(store, k) == IF Backend = "redis" THEN {store, Set(store, k)} ELSE {store}
Untaken(store, k)  == IF Backend = "redis" THEN {store, Delete(store, k)} ELSE {store}

(* A set is refused (value too large, disk full), or a call fails: the     *)
(* back ends catch the error and return None or False.  A file that cannot *)
(* be read counts as an absent key and stays; a delete on disk drops the   *)
(* key from the index whatever the file system says.                       *)
Refused     == faults < MaxFaults /\ faults' = faults + 1
ReadFails   == Backend \in {"disk", "redis"} /\ Refused
DeleteFails == Backend = "redis" /\ Refused

Expire == /\ \/ \E s \in Sessions : /\ session[s] = "live"
                                    /\ session' = [session EXCEPT ![s] = "expired"]
                                    /\ UNCHANGED <<code, access, refresh>>
             \/ \E q \in Consents : /\ code[q] = "live"
                                    /\ code' = [code EXCEPT ![q] = "expired"]
                                    /\ UNCHANGED <<session, access, refresh>>
             \/ \E p \in Pairs : /\ access[p] = "live"
                                 /\ access' = [access EXCEPT ![p] = "expired"]
                                 /\ UNCHANGED <<session, code, refresh>>
             \/ \E p \in Pairs : /\ refresh[p] = "live"
                                 /\ refresh' = [refresh EXCEPT ![p] = "expired"]
                                 /\ UNCHANGED <<session, code, access>>
          /\ UNCHANGED <<pc, arg, answer, taken, cut, faults, crashes>>

(* A revocation has deleted the refresh token and is about to delete the   *)
(* access token.                                                           *)
BeingDropped(p) == \E v \in Revocations : pc[v] = "dropToken" /\ arg[v] = p

Wipe(store) == [k \in DOMAIN store |-> IF store[k] = "live" THEN "expired" ELSE store[k]]

(* A restart drops the requests under way, and the keys unless they are in *)
(* Redis: the disk back end has its index in memory.                       *)
Crash == /\ crashes < MaxCrashes
         /\ crashes' = crashes + 1
         /\ pc' = [r \in Requests |-> IF pc[r] = "idle" THEN "idle" ELSE "done"]
         /\ answer' = [r \in Requests |-> IF pc[r] \in {"idle", "done"} THEN answer[r] ELSE "lost"]
         /\ IF Backend = "redis"
              THEN /\ UNCHANGED cacheVars
                   /\ cut' = cut \cup {p \in Pairs : BeingDropped(p)}
              ELSE /\ session' = Wipe(session) /\ code' = Wipe(code)
                   /\ access' = Wipe(access) /\ refresh' = Wipe(refresh)
                   /\ UNCHANGED cut
         /\ UNCHANGED <<arg, taken, faults>>

-----------------------------------------------------------------------------
(* How a request goes on. *)

At(r, step) == pc[r] = step
Goto(r, step) == pc' = [pc EXCEPT ![r] = step] /\ UNCHANGED answer
Answer(r, a) == pc' = [pc EXCEPT ![r] = "done"] /\ answer' = [answer EXCEPT ![r] = a]
Sent(r, x) == pc[r] = "idle" /\ arg' = [arg EXCEPT ![r] = x]

-----------------------------------------------------------------------------
(* authorize and process_consent *)

(* The result of the set is ignored. *)
Authorize(s) == /\ session[s] = "none"
                /\ \/ session' = Set(session, s) /\ UNCHANGED faults
                   \/ session' = [session EXCEPT ![s] = "expired"] /\ Refused
                /\ UNCHANGED <<code, access, refresh, pc, arg, answer, taken, cut, crashes>>

(* The session is read, not consumed: two submits of one login may both    *)
(* get past this.                                                          *)
ReadSession(q, s) == /\ session[s] # "none"
                     /\ Sent(q, s)
                     /\ \/ session[s] = "live" /\ Goto(q, "signIn") /\ UNCHANGED faults
                        \/ session[s] # "live" /\ Answer(q, "refused") /\ UNCHANGED faults
                        \/ ReadFails /\ Answer(q, "refused")
                     /\ UNCHANGED <<cacheVars, taken, cut, crashes>>

(* Supabase answers, or the password is wrong, or anything raises. *)
SignIn(q) == /\ At(q, "signIn")
             /\ Goto(q, "storeCode") \/ Answer(q, "refused")
             /\ UNCHANGED <<cacheVars, arg, taken, cut, faults, crashes>>

(* store_auth_code ignores the result of the set too. *)
StoreCode(q) == /\ At(q, "storeCode")
                /\ \/ code' = Set(code, q) /\ UNCHANGED faults
                   \/ code' \in Unstored(code, q) /\ Refused
                /\ Goto(q, "dropSession")
                /\ UNCHANGED <<session, access, refresh, arg, taken, cut, crashes>>

(* Faulty variant: the session is marked and kept. *)
DropSessionMarks(q) == /\ At(q, "dropSession")
                       /\ session' = [session EXCEPT ![arg[q]] = "used"]
                       /\ Answer(q, "ok")
                       /\ UNCHANGED <<code, access, refresh, arg, taken, cut, faults, crashes>>

DropSession(q) == /\ At(q, "dropSession")
                  /\ \/ session' = Delete(session, arg[q]) /\ UNCHANGED faults
                     \/ DeleteFails /\ UNCHANGED session
                  /\ Answer(q, "ok")
                  /\ UNCHANGED <<code, access, refresh, arg, taken, cut, crashes>>

-----------------------------------------------------------------------------
(* token_endpoint, grant_type authorization_code *)

Known(x) == answer[x] = "ok"

(* The payload of a live code is read and deleted in one call; its checks  *)
(* (PKCE, client, redirect_uri, resource) follow before the next await.    *)
(* Before it the request itself, or its client, may be found invalid.      *)
Take(x, c) == /\ code[c] = "live"
              /\ code' = Delete(code, c)
              /\ taken' = [taken EXCEPT ![c] = @ \cup {x}]

(* Faulty variants: the code is read without being deleted; the code is    *)
(* deleted only when the checks pass.                                      *)
ConsumeReads(x, c) ==
  /\ Known(c) /\ Sent(x, c)
  /\ \/ Answer(x, "refused") /\ UNCHANGED <<code, taken, faults>>
     \/ /\ code[c] = "live" /\ UNCHANGED <<code, faults>>
        /\ taken' = [taken EXCEPT ![c] = @ \cup {x}]
        /\ Goto(x, "storeAccess") \/ Answer(x, "rejected")
     \/ code[c] # "live" /\ Answer(x, "invalid_grant") /\ UNCHANGED <<code, taken, faults>>
     \/ ReadFails /\ Answer(x, "invalid_grant") /\ code' \in Untaken(code, c) /\ UNCHANGED taken
  /\ UNCHANGED <<session, access, refresh, cut, crashes>>

ConsumeWhenValid(x, c) ==
  /\ Known(c) /\ Sent(x, c)
  /\ \/ Answer(x, "refused") /\ UNCHANGED <<code, taken, faults>>
     \/ Take(x, c) /\ Goto(x, "storeAccess") /\ UNCHANGED faults
     \/ /\ code[c] = "live" /\ Answer(x, "rejected") /\ UNCHANGED <<code, faults>>
        /\ taken' = [taken EXCEPT ![c] = @ \cup {x}]
     \/ code[c] # "live" /\ Answer(x, "invalid_grant") /\ UNCHANGED <<code, taken, faults>>
     \/ ReadFails /\ Answer(x, "invalid_grant") /\ code' \in Untaken(code, c) /\ UNCHANGED taken
  /\ UNCHANGED <<session, access, refresh, cut, crashes>>

Consume(x, c) ==
  /\ Known(c) /\ Sent(x, c)
  /\ \/ Answer(x, "refused") /\ UNCHANGED <<code, taken, faults>>
     \/ Take(x, c) /\ UNCHANGED faults /\ (Goto(x, "storeAccess") \/ Answer(x, "rejected"))
     \/ code[c] # "live" /\ Answer(x, "invalid_grant") /\ UNCHANGED <<code, taken, faults>>
     \/ ReadFails /\ Answer(x, "invalid_grant") /\ code' \in Untaken(code, c) /\ UNCHANGED taken
  /\ UNCHANGED <<session, access, refresh, cut, crashes>>

-----------------------------------------------------------------------------
(* token_endpoint, grant_type refresh_token *)

(* The refresh token is read, not consumed: two refreshes with the same    *)
(* token may both go on.                                                   *)
ReadRefresh(f, p) ==
  /\ Known(p) /\ Sent(f, p)
  /\ \/ refresh[p] = "live" /\ UNCHANGED faults /\ (Goto(f, "storeAccess") \/ Answer(f, "refused"))
     \/ refresh[p] # "live" /\ Answer(f, "invalid_grant") /\ UNCHANGED faults
     \/ ReadFails /\ Answer(f, "invalid_grant")
  /\ UNCHANGED <<cacheVars, taken, cut, crashes>>

-----------------------------------------------------------------------------
(* store_oauth_tokens: three sets, undone when one reports failure. *)

StoreAccess(r) == /\ At(r, "storeAccess")
                  /\ \/ access' = Set(access, r) /\ Goto(r, "storeRefresh") /\ UNCHANGED faults
                     \/ access' \in Unstored(access, r) /\ Refused /\ Answer(r, "unavailable")
                  /\ UNCHANGED <<session, code, refresh, arg, taken, cut, crashes>>

(* Faulty variants: the result of the second set is ignored; the access    *)
(* token is left behind when the set fails.                                *)
StoreRefreshIgnores(r) == /\ At(r, "storeRefresh")
                          /\ \/ refresh' = Set(refresh, r) /\ UNCHANGED faults
                             \/ refresh' \in Unstored(refresh, r) /\ Refused
                          /\ Goto(r, "storeList")
                          /\ UNCHANGED <<session, code, access, arg, taken, cut, crashes>>

StoreRefreshNoUndo(r) == /\ At(r, "storeRefresh")
                         /\ \/ refresh' = Set(refresh, r) /\ Goto(r, "storeList") /\ UNCHANGED faults
                            \/ refresh' \in Unstored(refresh, r) /\ Refused /\ Answer(r, "unavailable")
                         /\ UNCHANGED <<session, code, access, arg, taken, cut, crashes>>

StoreRefresh(r) == /\ At(r, "storeRefresh")
                   /\ \/ refresh' = Set(refresh, r) /\ Goto(r, "storeList") /\ UNCHANGED faults
                      \/ refresh' \in Unstored(refresh, r) /\ Refused /\ Goto(r, "undoAccess")
                   /\ UNCHANGED <<session, code, access, arg, taken, cut, crashes>>

(* The user_tokens list.  After it an exchange is answered; a refresh goes *)
(* on to revoke the pair it was sent with.                                 *)
StoreList(r) == /\ At(r, "storeList")
                /\ \/ /\ r \in Exchanges /\ Answer(r, "ok") /\ UNCHANGED faults
                   \/ /\ r \in Refreshes /\ Goto(r, "lookUpRefresh") /\ UNCHANGED faults
                   \/ Refused /\ Goto(r, "undoPair")
                /\ UNCHANGED <<cacheVars, arg, taken, cut, crashes>>

UndoAccess(r) == /\ pc[r] \in {"undoAccess", "undoPair"}
                 /\ \/ access' = Delete(access, r) /\ UNCHANGED <<cut, faults>>
                    \/ DeleteFails /\ UNCHANGED access /\ cut' = cut \cup {r}
                 /\ IF At(r, "undoPair") THEN Goto(r, "undoRefresh") ELSE Answer(r, "unavailable")
                 /\ UNCHANGED <<session, code, refresh, arg, taken, crashes>>

UndoRefresh(r) == /\ At(r, "undoRefresh")
                  /\ \/ refresh' = Delete(refresh, r) /\ UNCHANGED <<cut, faults>>
                     \/ DeleteFails /\ UNCHANGED refresh /\ cut' = cut \cup {r}
                  /\ Answer(r, "unavailable")
                  /\ UNCHANGED <<session, code, access, arg, taken, crashes>>

-----------------------------------------------------------------------------
(* revoke_token: the first read decides whether there is anything to do.   *)
(* A token of another client is refused.                                   *)

Revoke(v, p, store, step) ==
  /\ Known(p) /\ Sent(v, p)
  /\ \/ store[p] = "live" /\ UNCHANGED faults /\ (Goto(v, step) \/ Answer(v, "refused"))
     \/ store[p] # "live" /\ Answer(v, "ok") /\ UNCHANGED faults
     \/ ReadFails /\ Answer(v, "ok")
  /\ UNCHANGED <<cacheVars, taken, cut, crashes>>

RevokeByRefresh(v, p) == Revoke(v, p, refresh, "lookUpRefresh")
RevokeByAccess(v, p)  == Revoke(v, p, access, "lookUpAccess")

(* revoke_refresh_token: the access token first, then the refresh token;   *)
(* failures are logged only.                                               *)
LookUpRefresh(r) == /\ At(r, "lookUpRefresh")
                    /\ \/ refresh[arg[r]] = "live" /\ Goto(r, "dropAccess") /\ UNCHANGED <<cut, faults>>
                       \/ refresh[arg[r]] # "live" /\ Goto(r, "dropRefresh") /\ UNCHANGED <<cut, faults>>
                       \/ ReadFails /\ Goto(r, "dropRefresh") /\ cut' = cut \cup {arg[r]}
                    /\ UNCHANGED <<cacheVars, arg, taken, crashes>>

(* Faulty variant: the refresh token goes first, then the access token. *)
DropAccessSwapped(r) == /\ At(r, "dropAccess")
                        /\ refresh' = Delete(refresh, arg[r]) /\ UNCHANGED faults
                        /\ Goto(r, "dropToken")
                        /\ UNCHANGED <<session, code, access, arg, taken, cut, crashes>>

DropAccess(r) == /\ At(r, "dropAccess")
                 /\ \/ access' = Delete(access, arg[r]) /\ UNCHANGED <<cut, faults>>
                    \/ DeleteFails /\ UNCHANGED access /\ cut' = cut \cup {arg[r]}
                 /\ Goto(r, "dropRefresh")
                 /\ UNCHANGED <<session, code, refresh, arg, taken, crashes>>

DropRefresh(r) == /\ At(r, "dropRefresh")
                  /\ \/ refresh' = Delete(refresh, arg[r]) /\ UNCHANGED <<cut, faults>>
                     \/ DeleteFails /\ UNCHANGED refresh /\ cut' = cut \cup {arg[r]}
                  /\ Answer(r, "ok")
                  /\ UNCHANGED <<session, code, access, arg, taken, crashes>>

(* revoke_token_pair with an access token: its refresh token first. *)
LookUpAccess(v) == /\ At(v, "lookUpAccess")
                   /\ \/ access[arg[v]] = "live" /\ Goto(v, "dropPartner") /\ UNCHANGED <<cut, faults>>
                      \/ access[arg[v]] # "live" /\ Goto(v, "dropToken") /\ UNCHANGED <<cut, faults>>
                      \/ ReadFails /\ Goto(v, "dropToken") /\ cut' = cut \cup {arg[v]}
                   /\ UNCHANGED <<cacheVars, arg, taken, crashes>>

(* Faulty variant: only the partner is deleted. *)
DropPartnerOnly(v) == /\ At(v, "dropPartner")
                      /\ refresh' = Delete(refresh, arg[v]) /\ UNCHANGED faults
                      /\ Answer(v, "ok")
                      /\ UNCHANGED <<session, code, access, arg, taken, cut, crashes>>

DropPartner(v) == /\ At(v, "dropPartner")
                  /\ \/ refresh' = Delete(refresh, arg[v]) /\ UNCHANGED <<cut, faults>>
                     \/ DeleteFails /\ UNCHANGED refresh /\ cut' = cut \cup {arg[v]}
                  /\ Goto(v, "dropToken")
                  /\ UNCHANGED <<session, code, access, arg, taken, crashes>>

DropToken(v) == /\ At(v, "dropToken")
                /\ \/ access' = Delete(access, arg[v]) /\ UNCHANGED <<cut, faults>>
                   \/ DeleteFails /\ UNCHANGED access /\ cut' = cut \cup {arg[v]}
                /\ Answer(v, "ok")
                /\ UNCHANGED <<session, code, refresh, arg, taken, crashes>>

-----------------------------------------------------------------------------
ConsentStep(q)  == SignIn(q) \/ StoreCode(q) \/ DropSession(q)
StorageStep(r)  == \/ StoreAccess(r) \/ StoreRefresh(r) \/ StoreList(r)
                   \/ UndoAccess(r) \/ UndoRefresh(r)
RotationStep(r) == LookUpRefresh(r) \/ DropAccess(r) \/ DropRefresh(r)
PairStep(v)     == LookUpAccess(v) \/ DropPartner(v) \/ DropToken(v)
Continue(r)     == ConsentStep(r) \/ StorageStep(r) \/ RotationStep(r) \/ PairStep(r)

Start == \/ \E s \in Sessions : Authorize(s) \/ \E q \in Consents : ReadSession(q, s)
         \/ \E x \in Exchanges, c \in Consents : Consume(x, c)
         \/ \E p \in Pairs : \/ \E f \in Refreshes : ReadRefresh(f, p)
                             \/ \E v \in Revocations : RevokeByRefresh(v, p) \/ RevokeByAccess(v, p)

Next == Start \/ (\E r \in Requests : Continue(r)) \/ Expire \/ Crash

(* The event loop resumes every request whose cache call has returned.     *)
Spec == Init /\ [][Next]_vars /\ \A r \in Requests : WF_vars(Continue(r))

-----------------------------------------------------------------------------
Steps == {"idle", "signIn", "storeCode", "dropSession", "storeAccess", "storeRefresh",
          "storeList", "undoAccess", "undoPair", "undoRefresh", "lookUpRefresh",
          "dropAccess", "dropRefresh", "lookUpAccess", "dropPartner", "dropToken", "done"}
Answers == {"none", "ok", "refused", "rejected", "invalid_grant", "unavailable", "lost"}

(* Type invariant of the token store and its requests                      *)
(* (services/oauth_token_store.py, endpoints/oauth/token.py).              *)
TypeOK == /\ session \in [Sessions -> Cell]
          /\ code    \in [Consents -> Cell]
          /\ access  \in [Pairs -> Cell]
          /\ refresh \in [Pairs -> Cell]
          /\ pc      \in [Requests -> Steps]
          /\ arg     \in [Requests -> Sessions \cup Consents \cup Pairs \cup {Nothing}]
          /\ answer  \in [Requests -> Answers]
          /\ taken   \in [Consents -> SUBSET Exchanges]
          /\ cut     \subseteq Pairs
          /\ faults  \in 0 .. MaxFaults
          /\ crashes \in 0 .. MaxCrashes

(* Two exchanges never both get tokens for one code, however they          *)
(* interleave, whatever cache calls fail (get_auth_code, token.py:119).    *)
CodesIssueOnce ==
  \A x, y \in Exchanges :
    Known(x) /\ Known(y) /\ arg[x] = arg[y] => x = y

(* A code that was presented once with a wrong verifier, client or         *)
(* redirect_uri is spent: nobody gets tokens for it, before or after       *)
(* (token.py:140-196, after the consuming read).                           *)
RejectedCodesAreSpent ==
  \A x, y \in Exchanges :
    answer[x] = "rejected" /\ Known(y) => arg[x] # arg[y]

(* A client is never handed half a pair: both tokens of an answer had been *)
(* stored (store_oauth_tokens).                                            *)
PairsAreWhole ==
  \A r \in Pairs : Known(r) => access[r] # "none" /\ refresh[r] # "none"

(* With a cache in memory or on disk, a request answered 503 leaves no     *)
(* usable token behind (store_oauth_tokens, the deletes before each raise).*)
UnavailableLeavesNothing ==
  \A r \in Pairs : answer[r] = "unavailable" => access[r] # "live" /\ refresh[r] # "live"

(* Once a refresh is answered the old refresh token is dead, and the old   *)
(* access token too, unless the refresh token ran out before it could be   *)
(* looked up or a revocation is about to delete the access token           *)
(* (revoke_refresh_token, called by two refreshes at once).  Only a failing*)
(* call excuses more: a file that cannot be read leaves the access token   *)
(* live until its time-to-live ends, Redis may keep either.                *)
RotationKillsOldPair ==
  \A f \in Refreshes :
    Known(f) /\ arg[f] \notin cut =>
      /\ refresh[arg[f]] # "live"
      /\ access[arg[f]] = "live" => refresh[arg[f]] = "expired" \/ BeingDropped(arg[f])

(* A pair whose refresh token was deleted loses its access token too       *)
(* (revoke_refresh_token, revoke_token_pair and the undoing deletes, in    *)
(* whatever order they meet), unless a lookup or a delete of that pair     *)
(* failed or, with Redis, the process restarted between two of its deletes.*)
PairsDieTogether ==
  \A p \in Pairs : refresh[p] = "deleted" ~> access[p] # "live" \/ p \in cut

(* The codes keep the promise of CodeGrant: an exchange in flight may      *)
(* still use the code it was handed.                                       *)
GrantOf(c) ==
  IF \E x \in Exchanges : arg[x] = c /\ Known(x) THEN "used" ELSE
  IF \E x \in Exchanges : arg[x] = c /\ answer[x] = "rejected" THEN "void" ELSE
  IF code[c] = "live" \/ \E x \in taken[c] : ~At(x, "done") THEN "open" ELSE
  IF code[c] = "none" THEN "none" ELSE "void"
Grant == INSTANCE CodeGrant WITH grant <- [c \in Consents |-> GrantOf(c)]
ImplementsCodeGrant == Grant!Spec
=============================================================================
