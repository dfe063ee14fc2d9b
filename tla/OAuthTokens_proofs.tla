-------------------------- MODULE OAuthTokens_proofs --------------------------
(***************************************************************************)
(* Proofs about OAuthTokens, for any number of sessions, consents,         *)
(* exchanges, refreshes, revocations, failing cache calls and restarts.    *)
(*                                                                         *)
(* CodesIssueOnce is not inductive by itself: that two exchanges are not   *)
(* both answered with tokens for one code rests on who was handed the      *)
(* code's payload.  CodeOK says that at most one exchange was, that it was *)
(* while the code was live and that it is not live any more, and that      *)
(* every exchange under way, or answered after the checks, is that one.    *)
(***************************************************************************)
EXTENDS OAuthTokens, TLAPS

ConsentSteps  == {"idle", "signIn", "storeCode", "dropSession", "done"}
StorageSteps  == {"storeAccess", "storeRefresh", "storeList", "undoAccess", "undoPair", "undoRefresh"}
RotationSteps == {"lookUpRefresh", "dropAccess", "dropRefresh"}
PairSteps     == {"lookUpAccess", "dropPartner", "dropToken"}

(* Each kind of request has its own steps and its own kind of argument.    *)
KindOK == /\ \A q \in Consents : /\ pc[q] \in ConsentSteps
                                 /\ pc[q] # "idle" => arg[q] \in Sessions
          /\ \A x \in Exchanges : /\ pc[x] \in StorageSteps \cup {"idle", "done"}
                                  /\ pc[x] # "idle" => arg[x] \in Consents
          /\ \A f \in Refreshes : /\ pc[f] \in StorageSteps \cup RotationSteps \cup {"idle", "done"}
                                  /\ pc[f] # "idle" => arg[f] \in Pairs
          /\ \A v \in Revocations : /\ pc[v] \in RotationSteps \cup PairSteps \cup {"idle", "done"}
                                    /\ pc[v] # "idle" => arg[v] \in Pairs
          /\ \A r \in Requests : pc[r] # "done" => answer[r] = "none"

(* The payload of a code is handed out once, and whoever goes on with it   *)
(* is who got it.                                                          *)
CodeOK == /\ \A c \in Consents : \A x, y \in taken[c] : x = y
          /\ \A c \in Consents : code[c] \in {"none", "live"} => taken[c] = {}
          /\ \A c \in Consents : pc[c] \in {"idle", "signIn", "storeCode"} => code[c] = "none"
          /\ \A x \in Exchanges :
               pc[x] \in StorageSteps \/ answer[x] \in {"ok", "rejected", "unavailable"}
                 => x \in taken[arg[x]]

(* What a pair's request has stored so far. *)
PairOK == \A r \in Pairs :
            /\ pc[r] \in (StorageSteps \ {"storeAccess"}) \cup RotationSteps \/ Known(r)
                 => access[r] # "none"
            /\ pc[r] \in {"storeList", "undoPair", "undoRefresh"} \cup RotationSteps \/ Known(r)
                 => refresh[r] # "none"

IInv == TypeOK /\ KindOK /\ CodeOK /\ PairOK

USE KindsAssumption, OAuthBoundsAssumption

LEMMA InitInvariant == Init => IInv
BY DEF Init, IInv, TypeOK, KindOK, CodeOK, PairOK, Cell, Steps, Answers, Requests, Pairs, Known,
       ConsentSteps, StorageSteps, RotationSteps, PairSteps

LEMMA StepInvariant == IInv /\ [Next]_vars => IInv'
<1> SUFFICES ASSUME TypeOK, KindOK, CodeOK, PairOK, [Next]_vars PROVE IInv'
  BY DEF IInv
<1> USE DEF TypeOK, KindOK, Known, Requests, Pairs, ConsentSteps, StorageSteps,
            RotationSteps, PairSteps, At, Goto, Answer, Sent, Set, Delete, Unstored,
            Untaken, Refused, ReadFails, DeleteFails, cacheVars
<1>1. ASSUME NEW s \in Sessions, Authorize(s) PROVE IInv'
  <2>1. TypeOK'
    BY <1>1 DEF Cell, Steps, Answers, Authorize
  <2>2. KindOK'
    BY <1>1 DEF Authorize
  <2>3. CodeOK'
    BY <1>1 DEF CodeOK, Authorize
  <2>4. PairOK'
    BY <1>1 DEF PairOK, Authorize
  <2> QED
    BY <2>1, <2>2, <2>3, <2>4 DEF IInv
<1>2. ASSUME NEW s \in Sessions, NEW q \in Consents, ReadSession(q, s) PROVE IInv'
  <2>1. TypeOK'
    BY <1>2 DEF Cell, Steps, Answers, ReadSession
  <2>2. KindOK'
    BY <1>2 DEF ReadSession
  <2>3. CodeOK'
    BY <1>2 DEF CodeOK, ReadSession
  <2>4. PairOK'
    BY <1>2 DEF PairOK, ReadSession
  <2> QED
    BY <2>1, <2>2, <2>3, <2>4 DEF IInv
<1>3. ASSUME NEW x \in Exchanges, NEW c \in Consents, Consume(x, c) PROVE IInv'
  <2>1. TypeOK'
    BY <1>3 DEF Cell, Steps, Answers, Consume, Take
  <2>2. KindOK'
    BY <1>3 DEF Consume, Take
  <2>3. CodeOK'
    BY <1>3 DEF CodeOK, Consume, Take
  <2>4. PairOK'
    BY <1>3 DEF PairOK, Consume, Take
  <2> QED
    BY <2>1, <2>2, <2>3, <2>4 DEF IInv
<1>4. ASSUME NEW f \in Refreshes, NEW p \in Pairs, ReadRefresh(f, p) PROVE IInv'
  <2>1. TypeOK'
    BY <1>4 DEF Cell, Steps, Answers, ReadRefresh
  <2>2. KindOK'
    BY <1>4 DEF ReadRefresh
  <2>3. CodeOK'
    BY <1>4 DEF CodeOK, ReadRefresh
  <2>4. PairOK'
    BY <1>4 DEF PairOK, ReadRefresh
  <2> QED
    BY <2>1, <2>2, <2>3, <2>4 DEF IInv
<1>5. ASSUME NEW v \in Revocations, NEW p \in Pairs, RevokeByRefresh(v, p) \/ RevokeByAccess(v, p) PROVE IInv'
  <2>1. TypeOK'
    BY <1>5 DEF Cell, Steps, Answers, RevokeByRefresh, RevokeByAccess, Revoke
  <2>2. KindOK'
    BY <1>5 DEF RevokeByRefresh, RevokeByAccess, Revoke
  <2>3. CodeOK'
    BY <1>5 DEF CodeOK, RevokeByRefresh, RevokeByAccess, Revoke
  <2>4. PairOK'
    BY <1>5 DEF PairOK, RevokeByRefresh, RevokeByAccess, Revoke
  <2> QED
    BY <2>1, <2>2, <2>3, <2>4 DEF IInv
<1>6. ASSUME NEW r \in Requests, SignIn(r) PROVE IInv'
  <2>1. TypeOK'
    BY <1>6 DEF Cell, Steps, Answers, SignIn
  <2>2. KindOK'
    BY <1>6 DEF SignIn
  <2>3. CodeOK'
    BY <1>6 DEF CodeOK, SignIn
  <2>4. PairOK'
    BY <1>6 DEF PairOK, SignIn
  <2> QED
    BY <2>1, <2>2, <2>3, <2>4 DEF IInv
<1>7. ASSUME NEW r \in Requests, StoreCode(r) PROVE IInv'
  <2>1. TypeOK'
    BY <1>7 DEF Cell, Steps, Answers, StoreCode
  <2>2. KindOK'
    BY <1>7 DEF StoreCode
  <2>3. CodeOK'
    BY <1>7 DEF CodeOK, StoreCode
  <2>4. PairOK'
    BY <1>7 DEF PairOK, StoreCode
  <2> QED
    BY <2>1, <2>2, <2>3, <2>4 DEF IInv
<1>8. ASSUME NEW r \in Requests, DropSession(r) PROVE IInv'
  <2>1. TypeOK'
    BY <1>8 DEF Cell, Steps, Answers, DropSession
  <2>2. KindOK'
    BY <1>8 DEF DropSession
  <2>3. CodeOK'
    BY <1>8 DEF CodeOK, DropSession
  <2>4. PairOK'
    BY <1>8 DEF PairOK, DropSession
  <2> QED
    BY <2>1, <2>2, <2>3, <2>4 DEF IInv
<1>9. ASSUME NEW r \in Requests, StoreAccess(r) PROVE IInv'
  <2>1. TypeOK'
    BY <1>9 DEF Cell, Steps, Answers, StoreAccess
  <2>2. KindOK'
    BY <1>9 DEF StoreAccess
  <2>3. CodeOK'
    BY <1>9 DEF CodeOK, StoreAccess
  <2>4. PairOK'
    BY <1>9 DEF PairOK, StoreAccess
  <2> QED
    BY <2>1, <2>2, <2>3, <2>4 DEF IInv
<1>10. ASSUME NEW r \in Requests, StoreRefresh(r) PROVE IInv'
  <2>1. TypeOK'
    BY <1>10 DEF Cell, Steps, Answers, StoreRefresh
  <2>2. KindOK'
    BY <1>10 DEF StoreRefresh
  <2>3. CodeOK'
    BY <1>10 DEF CodeOK, StoreRefresh
  <2>4. PairOK'
    BY <1>10 DEF PairOK, StoreRefresh
  <2> QED
    BY <2>1, <2>2, <2>3, <2>4 DEF IInv
<1>11. ASSUME NEW r \in Requests, StoreList(r) PROVE IInv'
  <2>1. TypeOK'
    BY <1>11 DEF Cell, Steps, Answers, StoreList
  <2>2. KindOK'
    BY <1>11 DEF StoreList
  <2>3. CodeOK'
    BY <1>11 DEF CodeOK, StoreList
  <2>4. PairOK'
    BY <1>11 DEF PairOK, StoreList
  <2> QED
    BY <2>1, <2>2, <2>3, <2>4 DEF IInv
<1>12. ASSUME NEW r \in Requests, UndoAccess(r) PROVE IInv'
  <2>1. TypeOK'
    BY <1>12 DEF Cell, Steps, Answers, UndoAccess
  <2>2. KindOK'
    BY <1>12 DEF UndoAccess
  <2>3. CodeOK'
    BY <1>12 DEF CodeOK, UndoAccess
  <2>4. PairOK'
    BY <1>12 DEF PairOK, UndoAccess
  <2> QED
    BY <2>1, <2>2, <2>3, <2>4 DEF IInv
<1>13. ASSUME NEW r \in Requests, UndoRefresh(r) PROVE IInv'
  <2>1. TypeOK'
    BY <1>13 DEF Cell, Steps, Answers, UndoRefresh
  <2>2. KindOK'
    BY <1>13 DEF UndoRefresh
  <2>3. CodeOK'
    BY <1>13 DEF CodeOK, UndoRefresh
  <2>4. PairOK'
    BY <1>13 DEF PairOK, UndoRefresh
  <2> QED
    BY <2>1, <2>2, <2>3, <2>4 DEF IInv
<1>14. ASSUME NEW r \in Requests, LookUpRefresh(r) PROVE IInv'
  <2>1. TypeOK'
    BY <1>14 DEF Cell, Steps, Answers, LookUpRefresh
  <2>2. KindOK'
    BY <1>14 DEF LookUpRefresh
  <2>3. CodeOK'
    BY <1>14 DEF CodeOK, LookUpRefresh
  <2>4. PairOK'
    BY <1>14 DEF PairOK, LookUpRefresh
  <2> QED
    BY <2>1, <2>2, <2>3, <2>4 DEF IInv
<1>15. ASSUME NEW r \in Requests, DropAccess(r) PROVE IInv'
  <2>1. TypeOK'
    BY <1>15 DEF Cell, Steps, Answers, DropAccess
  <2>2. KindOK'
    BY <1>15 DEF DropAccess
  <2>3. CodeOK'
    BY <1>15 DEF CodeOK, DropAccess
  <2>4. PairOK'
    BY <1>15 DEF PairOK, DropAccess
  <2> QED
    BY <2>1, <2>2, <2>3, <2>4 DEF IInv
<1>16. ASSUME NEW r \in Requests, DropRefresh(r) PROVE IInv'
  <2>1. TypeOK'
    BY <1>16 DEF Cell, Steps, Answers, DropRefresh
  <2>2. KindOK'
    BY <1>16 DEF DropRefresh
  <2>3. CodeOK'
    BY <1>16 DEF CodeOK, DropRefresh
  <2>4. PairOK'
    BY <1>16 DEF PairOK, DropRefresh
  <2> QED
    BY <2>1, <2>2, <2>3, <2>4 DEF IInv
<1>17. ASSUME NEW r \in Requests, LookUpAccess(r) PROVE IInv'
  <2>1. TypeOK'
    BY <1>17 DEF Cell, Steps, Answers, LookUpAccess
  <2>2. KindOK'
    BY <1>17 DEF LookUpAccess
  <2>3. CodeOK'
    BY <1>17 DEF CodeOK, LookUpAccess
  <2>4. PairOK'
    BY <1>17 DEF PairOK, LookUpAccess
  <2> QED
    BY <2>1, <2>2, <2>3, <2>4 DEF IInv
<1>18. ASSUME NEW r \in Requests, DropPartner(r) PROVE IInv'
  <2>1. TypeOK'
    BY <1>18 DEF Cell, Steps, Answers, DropPartner
  <2>2. KindOK'
    BY <1>18 DEF DropPartner
  <2>3. CodeOK'
    BY <1>18 DEF CodeOK, DropPartner
  <2>4. PairOK'
    BY <1>18 DEF PairOK, DropPartner
  <2> QED
    BY <2>1, <2>2, <2>3, <2>4 DEF IInv
<1>19. ASSUME NEW r \in Requests, DropToken(r) PROVE IInv'
  <2>1. TypeOK'
    BY <1>19 DEF Cell, Steps, Answers, DropToken
  <2>2. KindOK'
    BY <1>19 DEF DropToken
  <2>3. CodeOK'
    BY <1>19 DEF CodeOK, DropToken
  <2>4. PairOK'
    BY <1>19 DEF PairOK, DropToken
  <2> QED
    BY <2>1, <2>2, <2>3, <2>4 DEF IInv
<1>20. CASE Expire
  <2>1. TypeOK'
    BY <1>20 DEF Cell, Steps, Answers, Expire
  <2>2. KindOK'
    BY <1>20 DEF Expire
  <2>3. CodeOK'
    BY <1>20 DEF CodeOK, Expire
  <2>4. PairOK'
    BY <1>20 DEF PairOK, Expire
  <2> QED
    BY <2>1, <2>2, <2>3, <2>4 DEF IInv
<1>21. CASE Crash
  <2>1. TypeOK'
    BY <1>21 DEF Cell, Steps, Answers, Crash, Wipe
  <2>2. KindOK'
    BY <1>21 DEF Crash, Wipe
  <2>3. CodeOK'
    BY <1>21 DEF CodeOK, Crash, Wipe
  <2>4. PairOK'
    BY <1>21 DEF PairOK, Crash, Wipe
  <2> QED
    BY <2>1, <2>2, <2>3, <2>4 DEF IInv
<1>22. CASE UNCHANGED vars
  <2>1. TypeOK'
    BY <1>22 DEF Cell, Steps, Answers, vars
  <2>2. KindOK'
    BY <1>22 DEF vars
  <2>3. CodeOK'
    BY <1>22 DEF CodeOK, vars
  <2>4. PairOK'
    BY <1>22 DEF PairOK, vars
  <2> QED
    BY <2>1, <2>2, <2>3, <2>4 DEF IInv
<1> QED
  BY <1>1, <1>2, <1>3, <1>4, <1>5, <1>6, <1>7, <1>8, <1>9, <1>10, <1>11, <1>12, <1>13, <1>14, <1>15, <1>16, <1>17, <1>18, <1>19, <1>20, <1>21, <1>22
  DEF Next, Start, Continue, ConsentStep, StorageStep, RotationStep, PairStep

LEMMA InductiveInvariant == Spec => []IInv
BY InitInvariant, StepInvariant, PTL DEF Spec

(* Sessions, codes, tokens and requests stay well typed                    *)
(* (oauth_token_store.py, endpoints/oauth/token.py).                       *)
THEOREM TypeCorrect == Spec => []TypeOK
<1>1. IInv => TypeOK
  BY DEF IInv
<1> QED
  BY <1>1, InductiveInvariant, PTL

(* A code is redeemed at most once, for any number of exchanges that       *)
(* present it and whatever cache calls fail (get_auth_code).               *)
THEOREM CodesAreIssuedOnce == Spec => []CodesIssueOnce
<1>1. IInv => CodesIssueOnce
  <2> SUFFICES ASSUME IInv, NEW x \in Exchanges, NEW y \in Exchanges,
                      Known(x), Known(y), arg[x] = arg[y]
               PROVE  x = y
    BY DEF CodesIssueOnce
  <2>1. arg[x] \in Consents
    BY DEF IInv, KindOK, Known, Requests, Pairs
  <2>2. x \in taken[arg[x]] /\ y \in taken[arg[x]]
    BY DEF IInv, CodeOK, Known
  <2> QED
    BY <2>1, <2>2 DEF IInv, CodeOK
<1> QED
  BY <1>1, InductiveInvariant, PTL

(* A code that failed a check after it was read is spent: nobody has got   *)
(* or will get tokens for it (token.py:140-196).                           *)
THEOREM RejectedCodesStaySpent == Spec => []RejectedCodesAreSpent
<1>1. IInv => RejectedCodesAreSpent
  <2> SUFFICES ASSUME IInv, NEW x \in Exchanges, NEW y \in Exchanges,
                      answer[x] = "rejected", Known(y), arg[x] = arg[y]
               PROVE  FALSE
    BY DEF RejectedCodesAreSpent
  <2>1. arg[x] \in Consents
    BY DEF IInv, KindOK, Requests, Pairs
  <2>2. x \in taken[arg[x]] /\ y \in taken[arg[x]]
    BY DEF IInv, CodeOK, Known
  <2>3. x = y
    BY <2>1, <2>2 DEF IInv, CodeOK
  <2> QED
    BY <2>3 DEF Known
<1> QED
  BY <1>1, InductiveInvariant, PTL

(* Both tokens of an answer had been stored (store_oauth_tokens).          *)
THEOREM PairsAreHandedOutWhole == Spec => []PairsAreWhole
<1>1. IInv => PairsAreWhole
  BY DEF IInv, PairOK, PairsAreWhole
<1> QED
  BY <1>1, InductiveInvariant, PTL

-----------------------------------------------------------------------------
(* What a request may have left in the cache if it ended now, when refused *)
(* sets write nothing and deletes do not fail: in memory and on disk.      *)
UndoOK ==
  Backend # "redis" => \A r \in Pairs :
    /\ pc[r] \in {"idle", "storeAccess"} => access[r] = "none"
    /\ pc[r] \in {"idle", "storeAccess", "storeRefresh"} => refresh[r] = "none"
    /\ pc[r] = "undoAccess" => refresh[r] # "live"
    /\ pc[r] = "undoRefresh" => access[r] # "live"
    /\ answer[r] = "unavailable" => access[r] # "live" /\ refresh[r] # "live"


LEMMA UndoStep == IInv /\ UndoOK /\ [Next]_vars => UndoOK'
<1> SUFFICES ASSUME TypeOK, KindOK, PairOK, UndoOK, [Next]_vars PROVE UndoOK'
  BY DEF IInv
<1> USE DEF TypeOK, KindOK, Known, Requests, Pairs, ConsentSteps, StorageSteps,
            RotationSteps, PairSteps, At, Goto, Answer, Sent, Set, Delete, Unstored,
            Untaken, Refused, ReadFails, DeleteFails, cacheVars, UndoOK, Cell
<1>1. ASSUME NEW s \in Sessions, Authorize(s) PROVE UndoOK'
  BY <1>1 DEF PairOK, Authorize
<1>2. ASSUME NEW s \in Sessions, NEW q \in Consents, ReadSession(q, s) PROVE UndoOK'
  BY <1>2 DEF PairOK, ReadSession
<1>3. ASSUME NEW x \in Exchanges, NEW c \in Consents, Consume(x, c) PROVE UndoOK'
  BY <1>3 DEF PairOK, Consume, Take
<1>4. ASSUME NEW f \in Refreshes, NEW p \in Pairs, ReadRefresh(f, p) PROVE UndoOK'
  BY <1>4 DEF PairOK, ReadRefresh
<1>5. ASSUME NEW v \in Revocations, NEW p \in Pairs, RevokeByRefresh(v, p) \/ RevokeByAccess(v, p) PROVE UndoOK'
  BY <1>5 DEF PairOK, RevokeByRefresh, RevokeByAccess, Revoke
<1>6. ASSUME NEW r \in Requests, SignIn(r) PROVE UndoOK'
  BY <1>6 DEF PairOK, SignIn
<1>7. ASSUME NEW r \in Requests, StoreCode(r) PROVE UndoOK'
  BY <1>7 DEF PairOK, StoreCode
<1>8. ASSUME NEW r \in Requests, DropSession(r) PROVE UndoOK'
  BY <1>8 DEF PairOK, DropSession
<1>9. ASSUME NEW r \in Requests, StoreAccess(r) PROVE UndoOK'
  BY <1>9 DEF PairOK, StoreAccess
<1>10. ASSUME NEW r \in Requests, StoreRefresh(r) PROVE UndoOK'
  BY <1>10 DEF PairOK, StoreRefresh
<1>11. ASSUME NEW r \in Requests, StoreList(r) PROVE UndoOK'
  BY <1>11 DEF PairOK, StoreList
<1>12. ASSUME NEW r \in Requests, UndoAccess(r) PROVE UndoOK'
  BY <1>12 DEF PairOK, UndoAccess
<1>13. ASSUME NEW r \in Requests, UndoRefresh(r) PROVE UndoOK'
  BY <1>13 DEF PairOK, UndoRefresh
<1>14. ASSUME NEW r \in Requests, LookUpRefresh(r) PROVE UndoOK'
  BY <1>14 DEF PairOK, LookUpRefresh
<1>15. ASSUME NEW r \in Requests, DropAccess(r) PROVE UndoOK'
  BY <1>15 DEF PairOK, DropAccess
<1>16. ASSUME NEW r \in Requests, DropRefresh(r) PROVE UndoOK'
  BY <1>16 DEF PairOK, DropRefresh
<1>17. ASSUME NEW r \in Requests, LookUpAccess(r) PROVE UndoOK'
  BY <1>17 DEF PairOK, LookUpAccess
<1>18. ASSUME NEW r \in Requests, DropPartner(r) PROVE UndoOK'
  BY <1>18 DEF PairOK, DropPartner
<1>19. ASSUME NEW r \in Requests, DropToken(r) PROVE UndoOK'
  BY <1>19 DEF PairOK, DropToken
<1>20. CASE Expire
  BY <1>20 DEF PairOK, Expire
<1>21. CASE Crash
  BY <1>21 DEF PairOK, Crash, Wipe
<1>22. CASE UNCHANGED vars
  BY <1>22 DEF PairOK, vars
<1> QED
  BY <1>1, <1>2, <1>3, <1>4, <1>5, <1>6, <1>7, <1>8, <1>9, <1>10, <1>11, <1>12, <1>13, <1>14, <1>15, <1>16, <1>17, <1>18, <1>19, <1>20, <1>21, <1>22
  DEF Next, Start, Continue, ConsentStep, StorageStep, RotationStep, PairStep

(* A request answered 503 leaves no usable token (store_oauth_tokens).     *)
THEOREM UnavailableLeavesNoToken == Spec => [](Backend # "redis" => UnavailableLeavesNothing)
<1>1. Init => UndoOK
  BY DEF Init, UndoOK, Requests, Pairs
<1>2. UndoOK => (Backend # "redis" => UnavailableLeavesNothing)
  BY DEF UndoOK, UnavailableLeavesNothing
<1> QED
  BY <1>1, <1>2, UndoStep, InductiveInvariant, PTL DEF Spec

-----------------------------------------------------------------------------
(* From here on for every back end.  An access token outlives the refresh  *)
(* token it came with only if that one ran out, for as long as a revocation*)
(* is between its two deletes, or because a call for that pair failed.     *)
PairDead(p) == access[p] = "live" => \/ refresh[p] = "expired"
                                     \/ BeingDropped(p)
                                     \/ p \in cut

(* A refresh token is deleted after its access token or by a revocation    *)
(* that deletes the access token next; a request about to delete one has   *)
(* seen to the other.                                                      *)
ArgsKnown == \A r \in Refreshes \cup Revocations : pc[r] # "idle" => Known(arg[r])
FreshKept == \A p \in Pairs :
               pc[p] \in {"idle", "storeAccess", "storeRefresh", "storeList"} \cup RotationSteps
                 => refresh[p] # "deleted"
OrphansDead == \A p \in Pairs : Known(p) /\ refresh[p] # "live" => PairDead(p)
DropsDead == \A r \in Refreshes \cup Revocations : pc[r] = "dropRefresh" => PairDead(arg[r])
UndosDead == \A r \in Pairs : pc[r] = "undoRefresh" => access[r] # "live" \/ r \in cut
RotatedDead == \A f \in Refreshes : Known(f) /\ arg[f] \notin cut => refresh[arg[f]] # "live"
RotationOK == ArgsKnown /\ FreshKept /\ OrphansDead /\ DropsDead /\ UndosDead /\ RotatedDead

(* What was cut stays cut. *)
LEMMA CutGrows == [Next]_vars => cut \subseteq cut'
BY DEF Next, vars, Start, Authorize, ReadSession, Consume, ReadRefresh, RevokeByRefresh, RevokeByAccess,
       Revoke, Continue, ConsentStep, SignIn, StoreCode, DropSession, StorageStep, StoreAccess, StoreRefresh,
       StoreList, UndoAccess, UndoRefresh, RotationStep, LookUpRefresh, DropAccess, DropRefresh, PairStep,
       LookUpAccess, DropPartner, DropToken, Expire, Crash

LEMMA RotationStepLemma == IInv /\ RotationOK /\ [Next]_vars => RotationOK'
<1> SUFFICES ASSUME TypeOK, KindOK, PairOK, RotationOK, [Next]_vars PROVE RotationOK'
  BY DEF IInv
<1> USE DEF TypeOK, KindOK, Known, Requests, Pairs, ConsentSteps, StorageSteps,
            RotationSteps, PairSteps, At, Goto, Answer, Sent, Set, Delete, Unstored,
            Untaken, Refused, ReadFails, DeleteFails, cacheVars, RotationOK, ArgsKnown, FreshKept,
            OrphansDead, DropsDead, UndosDead, RotatedDead
<1>1. ASSUME NEW s \in Sessions, Authorize(s) PROVE RotationOK'
  BY <1>1 DEF PairOK, PairDead, BeingDropped, Authorize
<1>2. ASSUME NEW s \in Sessions, NEW q \in Consents, ReadSession(q, s) PROVE RotationOK'
  BY <1>2 DEF PairOK, PairDead, BeingDropped, ReadSession
<1>3. ASSUME NEW x \in Exchanges, NEW c \in Consents, Consume(x, c) PROVE RotationOK'
  BY <1>3 DEF PairOK, PairDead, BeingDropped, Consume, Take
<1>4. ASSUME NEW f \in Refreshes, NEW p \in Pairs, ReadRefresh(f, p) PROVE RotationOK'
  BY <1>4 DEF PairOK, PairDead, BeingDropped, ReadRefresh
<1>5. ASSUME NEW v \in Revocations, NEW p \in Pairs, RevokeByRefresh(v, p) \/ RevokeByAccess(v, p) PROVE RotationOK'
  <2>1. /\ UNCHANGED <<access, refresh, cut>> /\ pc[v] = "idle" /\ Known(p)
        /\ arg' = [arg EXCEPT ![v] = p]
        /\ \A r \in Requests \ {v} : pc'[r] = pc[r] /\ answer'[r] = answer[r] /\ arg'[r] = arg[r]
        /\ pc'[v] \in {"lookUpRefresh", "lookUpAccess", "done"}
    BY <1>5 DEF RevokeByRefresh, RevokeByAccess, Revoke
  <2>2. \A q \in Pairs : Known(q)' <=> Known(q)
    BY <2>1
  <2>3. ASSUME NEW q \in Pairs, PairDead(q) PROVE PairDead(q)'
    BY <2>1, <2>3 DEF PairDead, BeingDropped
  <2>4. ArgsKnown' /\ FreshKept' /\ UndosDead'
    BY <2>1, <2>2
  <2>5. OrphansDead' /\ DropsDead'
    BY <2>1, <2>2, <2>3
  <2>6. RotatedDead'
    BY <2>1, <2>2
  <2> QED
    BY <2>4, <2>5, <2>6
<1>6. ASSUME NEW r \in Requests, SignIn(r) PROVE RotationOK'
  BY <1>6 DEF PairOK, PairDead, BeingDropped, SignIn
<1>7. ASSUME NEW r \in Requests, StoreCode(r) PROVE RotationOK'
  BY <1>7 DEF PairOK, PairDead, BeingDropped, StoreCode
<1>8. ASSUME NEW r \in Requests, DropSession(r) PROVE RotationOK'
  BY <1>8 DEF PairOK, PairDead, BeingDropped, DropSession
<1>9. ASSUME NEW r \in Requests, StoreAccess(r) PROVE RotationOK'
  BY <1>9 DEF PairOK, PairDead, BeingDropped, StoreAccess
<1>10. ASSUME NEW r \in Requests, StoreRefresh(r) PROVE RotationOK'
  BY <1>10 DEF PairOK, PairDead, BeingDropped, StoreRefresh
<1>11. ASSUME NEW r \in Requests, StoreList(r) PROVE RotationOK'
  <2> SUFFICES ArgsKnown' /\ FreshKept' /\ OrphansDead' /\ DropsDead' /\ UndosDead' /\ RotatedDead'
    BY <1>11 DEF RotationOK, StoreList
  <2>1. ArgsKnown'
    BY <1>11 DEF StoreList
  <2>2. FreshKept'
    BY <1>11 DEF StoreList
  <2>3. ASSUME NEW p \in Pairs, Known(p), PairDead(p) PROVE PairDead(p)'
    BY <1>11, <2>3 DEF PairDead, BeingDropped, StoreList
  <2>4. ASSUME NEW p \in Pairs, Known(p)', refresh'[p] # "live" PROVE PairDead(p)'
    <3>1. CASE Known(p)
      <4>1. PairDead(p)
        BY <1>11, <2>4, <3>1 DEF StoreList
      <4> QED
        BY <2>3, <3>1, <4>1
    <3>2. CASE ~Known(p)
      <4>1. p = r /\ refresh'[p] = refresh[p]
        BY <1>11, <2>4, <3>2 DEF StoreList
      <4>2. refresh[p] = "expired"
        BY <1>11, <2>4, <4>1 DEF PairOK, Cell, StoreList
      <4> QED
        BY <4>1, <4>2 DEF PairDead
    <3> QED
      BY <3>1, <3>2
  <2>5. DropsDead'
    BY <1>11, <2>3 DEF PairDead, BeingDropped, StoreList
  <2>6. RotatedDead' /\ UndosDead'
    BY <1>11 DEF StoreList
  <2> QED
    BY <2>1, <2>2, <2>4, <2>5, <2>6
<1>12. ASSUME NEW r \in Requests, UndoAccess(r) PROVE RotationOK'
  BY <1>12 DEF PairOK, PairDead, BeingDropped, UndoAccess
<1>13. ASSUME NEW r \in Requests, UndoRefresh(r) PROVE RotationOK'
  BY <1>13 DEF PairOK, PairDead, BeingDropped, UndoRefresh
<1>14. ASSUME NEW r \in Requests, LookUpRefresh(r) PROVE RotationOK'
  BY <1>14 DEF PairOK, PairDead, BeingDropped, LookUpRefresh
<1>15. ASSUME NEW r \in Requests, DropAccess(r) PROVE RotationOK'
  BY <1>15 DEF PairOK, PairDead, BeingDropped, DropAccess
<1>16. ASSUME NEW r \in Requests, DropRefresh(r) PROVE RotationOK'
  <2> SUFFICES ArgsKnown' /\ FreshKept' /\ OrphansDead' /\ DropsDead' /\ UndosDead' /\ RotatedDead'
    BY <1>16 DEF RotationOK, DropRefresh
  <2>1. ArgsKnown'
    BY <1>16 DEF DropRefresh
  <2>2. FreshKept'
    BY <1>16 DEF DropRefresh
  <2>3. ASSUME NEW p \in Pairs, Known(p), PairDead(p) PROVE PairDead(p)'
    BY <1>16, <2>3 DEF PairDead, BeingDropped, DropRefresh
  <2>4. ASSUME NEW p \in Pairs, Known(p)', refresh'[p] # "live" PROVE PairDead(p)'
    <3>1. CASE Known(p)
      <4>1. PairDead(p)
        BY <1>16, <2>4, <3>1 DEF DropRefresh
      <4> QED
        BY <2>3, <3>1, <4>1
    <3>2. CASE ~Known(p)
      <4>1. p = r /\ refresh'[p] = refresh[p]
        BY <1>16, <2>4, <3>2 DEF DropRefresh
      <4>2. refresh[p] = "expired"
        BY <1>16, <2>4, <4>1 DEF PairOK, Cell, DropRefresh
      <4> QED
        BY <4>1, <4>2 DEF PairDead
    <3> QED
      BY <3>1, <3>2
  <2>5. DropsDead'
    BY <1>16, <2>3 DEF PairDead, BeingDropped, DropRefresh
  <2>6. RotatedDead' /\ UndosDead'
    BY <1>16 DEF DropRefresh
  <2> QED
    BY <2>1, <2>2, <2>4, <2>5, <2>6
<1>17. ASSUME NEW r \in Requests, LookUpAccess(r) PROVE RotationOK'
  BY <1>17 DEF PairOK, PairDead, BeingDropped, LookUpAccess
<1>18. ASSUME NEW r \in Requests, DropPartner(r) PROVE RotationOK'
  BY <1>18 DEF PairOK, PairDead, BeingDropped, DropPartner
<1>19. ASSUME NEW r \in Requests, DropToken(r) PROVE RotationOK'
  BY <1>19 DEF PairOK, PairDead, BeingDropped, DropToken
<1>20. CASE Expire
  BY <1>20 DEF PairOK, PairDead, BeingDropped, Expire
<1>21. CASE Crash
  BY <1>21 DEF PairOK, PairDead, BeingDropped, Crash, Wipe
<1>22. CASE UNCHANGED vars
  BY <1>22 DEF PairOK, PairDead, BeingDropped, vars
<1> QED
  BY <1>1, <1>2, <1>3, <1>4, <1>5, <1>6, <1>7, <1>8, <1>9, <1>10, <1>11, <1>12, <1>13, <1>14, <1>15, <1>16, <1>17, <1>18, <1>19, <1>20, <1>21, <1>22
  DEF Next, Start, Continue, ConsentStep, StorageStep, RotationStep, PairStep

(* Once a refresh is answered the pair it was sent with is dead, however   *)
(* many refreshes and revocations of that pair run at once, unless a call  *)
(* for that pair failed (revoke_refresh_token).                            *)
THEOREM RotationKillsTheOldPair == Spec => []RotationKillsOldPair
<1>1. Init => RotationOK
  BY DEF Init, RotationOK, ArgsKnown, FreshKept, OrphansDead, DropsDead, UndosDead, RotatedDead,
         Requests, Pairs, Known, RotationSteps, PairDead
<1>2. IInv /\ RotationOK => RotationKillsOldPair
  BY DEF IInv, KindOK, RotationOK, OrphansDead, RotatedDead, ArgsKnown, RotationKillsOldPair, Known, PairDead, Requests, Pairs
<1> QED
  BY <1>1, <1>2, RotationStepLemma, InductiveInvariant, PTL DEF Spec

-----------------------------------------------------------------------------
(* What PairsDieTogether promises is reached in one step.  First, tokens   *)
(* do not come back: a token is written by one request only, while it has  *)
(* no such token yet.                                                      *)
Unwritten ==
  \A r \in Pairs : /\ pc[r] \in {"idle", "storeAccess"} => access[r] = "none"
                   /\ pc[r] \in {"idle", "storeAccess", "storeRefresh"} => refresh[r] = "none"

LEMMA UnwrittenStep == IInv /\ Unwritten /\ [Next]_vars => Unwritten'
<1> SUFFICES ASSUME TypeOK, KindOK, PairOK, Unwritten, [Next]_vars PROVE Unwritten'
  BY DEF IInv
<1> USE DEF TypeOK, KindOK, Known, Requests, Pairs, ConsentSteps, StorageSteps,
            RotationSteps, PairSteps, At, Goto, Answer, Sent, Set, Delete, Unstored,
            Untaken, Refused, ReadFails, DeleteFails, cacheVars, Unwritten, Cell
<1>1. ASSUME NEW s \in Sessions, Authorize(s) PROVE Unwritten'
  BY <1>1 DEF PairOK, Authorize
<1>2. ASSUME NEW s \in Sessions, NEW q \in Consents, ReadSession(q, s) PROVE Unwritten'
  BY <1>2 DEF PairOK, ReadSession
<1>3. ASSUME NEW x \in Exchanges, NEW c \in Consents, Consume(x, c) PROVE Unwritten'
  BY <1>3 DEF PairOK, Consume, Take
<1>4. ASSUME NEW f \in Refreshes, NEW p \in Pairs, ReadRefresh(f, p) PROVE Unwritten'
  BY <1>4 DEF PairOK, ReadRefresh
<1>5. ASSUME NEW v \in Revocations, NEW p \in Pairs, RevokeByRefresh(v, p) \/ RevokeByAccess(v, p) PROVE Unwritten'
  BY <1>5 DEF PairOK, RevokeByRefresh, RevokeByAccess, Revoke
<1>6. ASSUME NEW r \in Requests, SignIn(r) PROVE Unwritten'
  BY <1>6 DEF PairOK, SignIn
<1>7. ASSUME NEW r \in Requests, StoreCode(r) PROVE Unwritten'
  BY <1>7 DEF PairOK, StoreCode
<1>8. ASSUME NEW r \in Requests, DropSession(r) PROVE Unwritten'
  BY <1>8 DEF PairOK, DropSession
<1>9. ASSUME NEW r \in Requests, StoreAccess(r) PROVE Unwritten'
  BY <1>9 DEF PairOK, StoreAccess
<1>10. ASSUME NEW r \in Requests, StoreRefresh(r) PROVE Unwritten'
  BY <1>10 DEF PairOK, StoreRefresh
<1>11. ASSUME NEW r \in Requests, StoreList(r) PROVE Unwritten'
  BY <1>11 DEF PairOK, StoreList
<1>12. ASSUME NEW r \in Requests, UndoAccess(r) PROVE Unwritten'
  BY <1>12 DEF PairOK, UndoAccess
<1>13. ASSUME NEW r \in Requests, UndoRefresh(r) PROVE Unwritten'
  BY <1>13 DEF PairOK, UndoRefresh
<1>14. ASSUME NEW r \in Requests, LookUpRefresh(r) PROVE Unwritten'
  BY <1>14 DEF PairOK, LookUpRefresh
<1>15. ASSUME NEW r \in Requests, DropAccess(r) PROVE Unwritten'
  BY <1>15 DEF PairOK, DropAccess
<1>16. ASSUME NEW r \in Requests, DropRefresh(r) PROVE Unwritten'
  BY <1>16 DEF PairOK, DropRefresh
<1>17. ASSUME NEW r \in Requests, LookUpAccess(r) PROVE Unwritten'
  BY <1>17 DEF PairOK, LookUpAccess
<1>18. ASSUME NEW r \in Requests, DropPartner(r) PROVE Unwritten'
  BY <1>18 DEF PairOK, DropPartner
<1>19. ASSUME NEW r \in Requests, DropToken(r) PROVE Unwritten'
  BY <1>19 DEF PairOK, DropToken
<1>20. CASE Expire
  BY <1>20 DEF PairOK, Expire
<1>21. CASE Crash
  BY <1>21 DEF PairOK, Crash, Wipe
<1>22. CASE UNCHANGED vars
  BY <1>22 DEF PairOK, vars
<1> QED
  BY <1>1, <1>2, <1>3, <1>4, <1>5, <1>6, <1>7, <1>8, <1>9, <1>10, <1>11, <1>12, <1>13, <1>14, <1>15, <1>16, <1>17, <1>18, <1>19, <1>20, <1>21, <1>22
  DEF Next, Start, Continue, ConsentStep, StorageStep, RotationStep, PairStep

LEMMA UnwrittenInvariant == Spec => []Unwritten
<1>1. Init => Unwritten
  BY DEF Init, Unwritten, Requests, Pairs
<1> QED
  BY <1>1, UnwrittenStep, InductiveInvariant, PTL DEF Spec

(* Every token of these that is gone stays as it is in the next state.     *)
StaysGone(store) == \A p \in Pairs : store[p] \in {"deleted", "expired"} => store'[p] = store[p]

(* A token that was deleted or ran out is never usable again, whatever     *)
(* requests are still under way, whatever cache calls fail and whatever    *)
(* the back end (store_oauth_tokens, revoke_refresh_token,                 *)
(* revoke_token_pair).                                                     *)
THEOREM TokensStayDead == Spec => [][StaysGone(access) /\ StaysGone(refresh)]_vars
<1>a. IInv /\ Unwritten /\ [Next]_vars => [StaysGone(access) /\ StaysGone(refresh)]_vars
  <2> SUFFICES ASSUME IInv, Unwritten, Next PROVE StaysGone(access) /\ StaysGone(refresh)
    OBVIOUS
  <2> DEFINE Done == StaysGone(access) /\ StaysGone(refresh)
  <2> USE DEF IInv, TypeOK, StaysGone, At, Set, Delete, Unstored, cacheVars
  <2>1. ASSUME UNCHANGED <<access, refresh>> PROVE Done
    BY <2>1
  <2>2. ASSUME NEW r \in Requests, StoreAccess(r) PROVE Done
    <3>1. r \in Pairs /\ access[r] = "none" /\ refresh' = refresh
      BY <2>2 DEF StoreAccess, KindOK, Unwritten, Requests, Pairs, ConsentSteps,
         StorageSteps, RotationSteps, PairSteps
    <3> QED
      BY <2>2, <3>1 DEF StoreAccess
  <2>3. ASSUME NEW r \in Requests, StoreRefresh(r) PROVE Done
    <3>1. r \in Pairs /\ refresh[r] = "none" /\ access' = access
      BY <2>3 DEF StoreRefresh, KindOK, Unwritten, Requests, Pairs, ConsentSteps,
         StorageSteps, RotationSteps, PairSteps
    <3> QED
      BY <2>3, <3>1 DEF StoreRefresh
  <2>4. ASSUME NEW r \in Requests,
               UndoAccess(r) \/ UndoRefresh(r) \/ DropAccess(r) \/ DropRefresh(r) \/ DropPartner(r) \/ DropToken(r)
        PROVE Done
    BY <2>4 DEF UndoAccess, UndoRefresh, DropAccess, DropRefresh, DropPartner, DropToken
  <2>5. ASSUME Start PROVE Done
    BY <2>1, <2>5 DEF Start, Authorize, ReadSession, Consume, ReadRefresh, RevokeByRefresh, RevokeByAccess, Revoke
  <2>6. ASSUME NEW r \in Requests,
               \/ ConsentStep(r) \/ StoreList(r) \/ LookUpRefresh(r) \/ LookUpAccess(r)
        PROVE Done
    BY <2>1, <2>6 DEF ConsentStep, SignIn, StoreCode, DropSession, StoreList, LookUpRefresh, LookUpAccess
  <2>7. CASE Expire
    BY <2>7 DEF Expire
  <2>8. CASE Crash
    BY <2>8 DEF Crash, Wipe
  <2> QED
    BY <2>2, <2>3, <2>4, <2>5, <2>6, <2>7, <2>8 DEF Next, Continue, StorageStep, RotationStep, PairStep
<1> QED
  BY <1>a, UnwrittenInvariant, InductiveInvariant, PTL DEF Spec

(* Second, while half a pair is left, a revocation is at the step that     *)
(* deletes that half, or something cut it short.                           *)
Ending(p) == BeingDropped(p) \/ p \in cut
HalfOK == \A p \in Pairs : refresh[p] = "deleted" /\ access[p] = "live" => Ending(p)

LEMMA HalfStep == IInv /\ Unwritten /\ RotationOK /\ HalfOK /\ [Next]_vars => HalfOK'
<1> SUFFICES ASSUME TypeOK, KindOK, Unwritten, RotationOK, HalfOK, [Next]_vars,
                    NEW p \in Pairs, refresh'[p] = "deleted", access'[p] = "live"
             PROVE  Ending(p)'
  BY DEF IInv, HalfOK, Ending, BeingDropped
<1> USE DEF TypeOK
<1>1. access[p] = "live"
  <2>1. ASSUME NEW r \in Requests, StoreAccess(r) PROVE access[p] = "live"
    <3>1. r \in Pairs /\ refresh[r] = "none" /\ refresh' = refresh
      BY <2>1 DEF StoreAccess, At, KindOK, Unwritten, Requests, Pairs, ConsentSteps,
         StorageSteps, RotationSteps, PairSteps
    <3> QED
      BY <2>1, <3>1 DEF StoreAccess, Set, Unstored
  <2>2. ASSUME UNCHANGED access PROVE access[p] = "live"
    BY <2>2
  <2>3. ASSUME Start PROVE access[p] = "live"
    BY <2>2, <2>3 DEF Start, Authorize, ReadSession, Consume, ReadRefresh, RevokeByRefresh, RevokeByAccess,
       Revoke, cacheVars
  <2>4. ASSUME NEW r \in Requests, UndoAccess(r) \/ DropAccess(r) \/ DropToken(r) PROVE access[p] = "live"
    BY <2>4 DEF UndoAccess, DropAccess, DropToken, Delete
  <2>5. ASSUME NEW r \in Requests,
               \/ ConsentStep(r) \/ StoreRefresh(r) \/ StoreList(r) \/ UndoRefresh(r) \/ LookUpRefresh(r)
               \/ DropRefresh(r) \/ LookUpAccess(r) \/ DropPartner(r)
        PROVE access[p] = "live"
    BY <2>2, <2>5 DEF ConsentStep, SignIn, StoreCode, DropSession, StoreRefresh, StoreList, UndoRefresh,
       LookUpRefresh, DropRefresh, LookUpAccess, DropPartner, cacheVars
  <2>6. CASE Expire
    BY <2>6 DEF Expire
  <2>7. CASE Crash
    BY <2>7 DEF Crash, Wipe, cacheVars
  <2>8. CASE UNCHANGED vars
    BY <2>8 DEF vars, cacheVars
  <2> QED
    BY <2>1, <2>3, <2>4, <2>5, <2>6, <2>7, <2>8 DEF Next, Continue, StorageStep, RotationStep, PairStep
<1>2. ASSUME BeingDropped(p) PROVE Ending(p)'
  <2>1. PICK v \in Revocations : pc[v] = "dropToken" /\ arg[v] = p
    BY <1>2 DEF Ending, BeingDropped
  <2>2. v \in Requests
    BY DEF Requests
  <2>3. ASSUME NEW r \in Requests, pc[r] # "dropToken",
               \A y \in Requests \ {r} : pc'[y] = pc[y] /\ arg'[y] = arg[y]
        PROVE  Ending(p)'
    BY <2>1, <2>2, <2>3 DEF Ending, BeingDropped
  <2>4. ASSUME UNCHANGED <<pc, arg>> PROVE Ending(p)'
    BY <2>1, <2>4 DEF Ending, BeingDropped
  <2>5. ASSUME NEW s \in Sessions, Authorize(s) PROVE Ending(p)'
    BY <2>4, <2>5 DEF Authorize
  <2>6. ASSUME NEW s \in Sessions, NEW q \in Consents, ReadSession(q, s) PROVE Ending(p)'
    BY <2>3, <2>6 DEF ReadSession, Sent, Goto, Answer, Requests
  <2>7. ASSUME NEW x \in Exchanges, NEW c \in Consents, Consume(x, c) PROVE Ending(p)'
    BY <2>3, <2>7 DEF Consume, Sent, Goto, Answer, Requests, Pairs
  <2>8. ASSUME NEW f \in Refreshes, NEW q \in Pairs, ReadRefresh(f, q) PROVE Ending(p)'
    BY <2>3, <2>8 DEF ReadRefresh, Sent, Goto, Answer, Requests, Pairs
  <2>9. ASSUME NEW w \in Revocations, NEW q \in Pairs, RevokeByRefresh(w, q) \/ RevokeByAccess(w, q)
        PROVE Ending(p)'
    BY <2>3, <2>9 DEF RevokeByRefresh, RevokeByAccess, Revoke, Sent, Goto, Answer, Requests
  <2>10. ASSUME NEW r \in Requests, ConsentStep(r) \/ StorageStep(r) PROVE Ending(p)'
    BY <2>3, <2>10 DEF ConsentStep, StorageStep, SignIn, StoreCode, DropSession, StoreAccess, StoreRefresh,
       StoreList, UndoAccess, UndoRefresh, At, Goto, Answer
  <2>11. ASSUME NEW r \in Requests, RotationStep(r) \/ LookUpAccess(r) \/ DropPartner(r)
         PROVE Ending(p)'
    BY <2>3, <2>11 DEF RotationStep, LookUpRefresh, DropAccess, DropRefresh, LookUpAccess, DropPartner,
       At, Goto, Answer
  <2>12. ASSUME NEW r \in Requests, DropToken(r) PROVE Ending(p)'
    <3>1. CASE r # v
      BY <2>1, <2>2, <2>12, <3>1 DEF DropToken, Answer, Ending, BeingDropped
    <3>2. CASE r = v
      BY <2>1, <2>12, <3>2 DEF DropToken, Delete, Ending
    <3> QED
      BY <3>1, <3>2
  <2>13. CASE Expire
    BY <2>4, <2>13 DEF Expire
  <2>14. CASE Crash
    BY <1>2, <2>14 DEF Crash, Wipe, Ending
  <2>15. CASE UNCHANGED vars
    BY <2>4, <2>15 DEF vars
  <2> QED
    BY <2>5, <2>6, <2>7, <2>8, <2>9, <2>10, <2>11, <2>12, <2>13, <2>14, <2>15
    DEF Next, Start, Continue, PairStep
<1>a. ASSUME Ending(p) PROVE Ending(p)'
  BY <1>2, <1>a, CutGrows DEF Ending
<1>3. CASE refresh[p] = "deleted"
  BY <1>1, <1>a, <1>3 DEF HalfOK
<1>4. CASE refresh[p] # "deleted"
  <2>1. ASSUME NEW r \in Requests, UndoRefresh(r) PROVE Ending(p)'
    <3>1. r \in Pairs /\ (access[r] # "live" \/ r \in cut)
      BY <2>1 DEF UndoRefresh, At, RotationOK, UndosDead, KindOK, Requests, Pairs, ConsentSteps,
         StorageSteps, RotationSteps, PairSteps
    <3> QED
      BY <1>1, <1>4, <2>1, <3>1, CutGrows DEF UndoRefresh, Delete, Ending
  <2>2. ASSUME NEW r \in Requests, DropRefresh(r) PROVE Ending(p)'
    <3>1. r \in Refreshes \cup Revocations /\ arg[r] = p /\ refresh[p] = "live"
      BY <1>4, <2>2 DEF DropRefresh, Delete, At, KindOK, Requests, Pairs, ConsentSteps,
         StorageSteps, RotationSteps, PairSteps
    <3>2. PairDead(p)
      BY <2>2, <3>1 DEF DropRefresh, At, RotationOK, DropsDead
    <3> QED
      BY <1>1, <1>a, <3>1, <3>2 DEF PairDead, Ending
  <2>3. ASSUME NEW r \in Requests, DropPartner(r) PROVE Ending(p)'
    <3>1. r \in Revocations
      BY <2>3 DEF DropPartner, At, KindOK, Requests, Pairs, ConsentSteps,
         StorageSteps, RotationSteps, PairSteps
    <3>2. arg[r] = p
      BY <1>4, <2>3 DEF DropPartner, Delete
    <3> QED
      BY <2>3, <3>1, <3>2 DEF DropPartner, Goto, Ending, BeingDropped
  <2>4. ASSUME UNCHANGED refresh PROVE FALSE
    BY <1>4, <2>4
  <2>5. ASSUME Start PROVE FALSE
    BY <2>4, <2>5 DEF Start, Authorize, ReadSession, Consume, ReadRefresh, RevokeByRefresh, RevokeByAccess,
       Revoke, cacheVars
  <2>6. ASSUME NEW r \in Requests,
               \/ ConsentStep(r) \/ StoreAccess(r) \/ StoreList(r) \/ UndoAccess(r) \/ LookUpRefresh(r)
               \/ DropAccess(r) \/ LookUpAccess(r) \/ DropToken(r)
        PROVE FALSE
    BY <2>4, <2>6 DEF ConsentStep, SignIn, StoreCode, DropSession, StoreAccess, StoreList, UndoAccess,
       LookUpRefresh, DropAccess, LookUpAccess, DropToken, cacheVars
  <2>7. ASSUME NEW r \in Requests, StoreRefresh(r) PROVE FALSE
    BY <1>4, <2>7 DEF StoreRefresh, Set, Unstored
  <2>8. ASSUME Expire \/ Crash \/ UNCHANGED vars PROVE FALSE
    BY <1>4, <2>8 DEF Expire, Crash, Wipe, vars, cacheVars
  <2> QED
    BY <2>1, <2>2, <2>3, <2>5, <2>6, <2>7, <2>8 DEF Next, Continue, StorageStep, RotationStep, PairStep
<1> QED
  BY <1>3, <1>4

(* Only a revocation by access token takes the refresh token of a pair     *)
(* first.  As long as the access token then is usable that revocation is   *)
(* at the delete of it, or a lookup or a delete for that pair failed or a  *)
(* restart came between (revoke_token_pair; revoke_refresh_token and the   *)
(* undoing deletes take the access token first).                           *)
THEOREM HalfPairsAreBeingDropped ==
  Spec => [](\A p \in Pairs :
               refresh[p] = "deleted" /\ access[p] = "live" => BeingDropped(p) \/ p \in cut)
<1>1. Init => Unwritten /\ RotationOK /\ HalfOK
  BY DEF Init, Unwritten, HalfOK, RotationOK, ArgsKnown, FreshKept, OrphansDead, DropsDead,
         UndosDead, RotatedDead, Requests, Pairs, Known, RotationSteps, PairDead
<1> QED
  BY <1>1, UnwrittenStep, RotationStepLemma, HalfStep, InductiveInvariant, PTL DEF Spec, HalfOK, Ending

(* And that step finishes the pair off, or its failure is what cuts it.    *)
LEMMA DropTokenEndsThePair ==
  ASSUME IInv, NEW v \in Revocations, DropToken(v)
  PROVE  access'[arg[v]] # "live" \/ arg[v] \in cut'
<1>1. v \in Requests /\ arg[v] \in Pairs
  BY DEF IInv, KindOK, DropToken, At, Requests
<1> QED
  BY <1>1 DEF IInv, TypeOK, DropToken, Delete, DeleteFails

-----------------------------------------------------------------------------
(* The rest is the refinement of CodeGrant. Whoever was handed a code asked *)
(* for that code.                                                          *)
TakenOK == \A c \in Consents : \A x \in taken[c] : pc[x] # "idle" /\ arg[x] = c

Redeemed(c) == \E x \in Exchanges : arg[x] = c /\ Known(x)
Spoilt(c)   == \E x \in Exchanges : arg[x] = c /\ answer[x] = "rejected"
Held(c)     == \E x \in taken[c] : ~At(x, "done")

(* What a step may do to the grants, as CodeGrant takes it.                *)
Same(c)   == GrantOf(c)' = GrantOf(c)
Voids(c)  == GrantOf(c) = "open" /\ GrantOf(c)' = "void"
Opens(c)  == GrantOf(c) = "none" /\ GrantOf(c)' = "open"
Uses(c)   == GrantOf(c) = "open" /\ GrantOf(c)' = "used"
GrantStep ==
  \/ \A c \in Consents : Same(c) \/ Voids(c)
  \/ \E c \in Consents : (Opens(c) \/ Uses(c)) /\ \A d \in Consents \ {c} : Same(d)

LEMMA GrantCases ==
  ASSUME NEW c \in Consents
  PROVE  GrantOf(c) = IF Redeemed(c) THEN "used" ELSE
                      IF Spoilt(c) THEN "void" ELSE
                      IF code[c] = "live" \/ Held(c) THEN "open" ELSE
                      IF code[c] = "none" THEN "none" ELSE "void"
BY DEF GrantOf, Redeemed, Spoilt, Held

(* A code nobody was handed has no answer to show for it.                  *)
LEMMA UntakenIsUnanswered ==
  ASSUME IInv, NEW c \in Consents, taken[c] = {}
  PROVE  ~Redeemed(c) /\ ~Spoilt(c) /\ ~Held(c)
BY DEF IInv, CodeOK, Redeemed, Spoilt, Held, Known

(* An exchange under way is alone with its code, which is open.            *)
LEMMA HeldIsOpen ==
  ASSUME IInv, NEW x \in Exchanges, pc[x] \in StorageSteps
  PROVE  /\ arg[x] \in Consents
         /\ taken[arg[x]] = {x}
         /\ code[arg[x]] \notin {"none", "live"}
         /\ ~Redeemed(arg[x]) /\ ~Spoilt(arg[x])
         /\ GrantOf(arg[x]) = "open"
<1>1. arg[x] \in Consents /\ answer[x] = "none"
  BY DEF IInv, KindOK, StorageSteps, Requests, Pairs
<1>2. x \in taken[arg[x]]
  BY <1>1 DEF IInv, CodeOK
<1>3. taken[arg[x]] = {x} /\ code[arg[x]] \notin {"none", "live"}
  BY <1>1, <1>2 DEF IInv, CodeOK
<1>4. ~Redeemed(arg[x]) /\ ~Spoilt(arg[x])
  BY <1>1, <1>3 DEF IInv, CodeOK, Redeemed, Spoilt, Known
<1>5. Held(arg[x])
  BY <1>2 DEF Held, At, StorageSteps
<1> QED
  BY <1>1, <1>3, <1>4, <1>5, GrantCases

(* What a step that leaves a code and the exchanges of it alone leaves.    *)
LEMMA GrantFrame ==
  ASSUME NEW c \in Consents, code'[c] = code[c], taken'[c] = taken[c],
         \A x \in Exchanges : /\ (arg'[x] = c /\ answer'[x] = "ok") <=> (arg[x] = c /\ answer[x] = "ok")
                              /\ (arg'[x] = c /\ answer'[x] = "rejected")
                                   <=> (arg[x] = c /\ answer[x] = "rejected"),
         \A x \in taken[c] : pc'[x] = "done" <=> pc[x] = "done"
  PROVE  Same(c)
<1>1. Redeemed(c)' <=> Redeemed(c)
  BY DEF Redeemed, Known
<1>2. Spoilt(c)' <=> Spoilt(c)
  BY DEF Spoilt
<1>3. Held(c)' <=> Held(c)
  BY DEF Held, At
<1> QED
  BY <1>1, <1>2, <1>3 DEF Same, GrantOf, Redeemed, Spoilt, Held

(* An exchange that ends without tokens voids the code it holds.           *)
LEMMA GivingUpVoids ==
  ASSUME IInv, TakenOK, NEW x \in Exchanges, pc[x] \in StorageSteps,
         Answer(x, "unavailable"), UNCHANGED <<code, taken, arg>>
  PROVE  \A c \in Consents : Same(c) \/ Voids(c)
<1>1. /\ pc' = [pc EXCEPT ![x] = "done"] /\ answer' = [answer EXCEPT ![x] = "unavailable"]
      /\ code' = code /\ taken' = taken /\ arg' = arg /\ answer[x] = "none"
  BY DEF Answer, IInv, KindOK, StorageSteps, Requests, Pairs
<1>2. pc \in [Requests -> Steps] /\ answer \in [Requests -> Answers] /\ x \in Requests
      /\ Exchanges \subseteq Requests
  BY DEF IInv, TypeOK, Requests, Pairs
<1>3. ASSUME NEW c \in Consents, c # arg[x] PROVE Same(c)
  <2>1. \A y \in Exchanges : answer'[y] # answer[y] => y = x
    BY <1>1, <1>2
  <2>2. \A y \in Exchanges : answer'[x] # "ok" /\ answer'[x] # "rejected"
    BY <1>1, <1>2
  <2>3. \A y \in taken[c] : y # x /\ y \in Exchanges
    BY <1>3 DEF TakenOK, IInv, TypeOK
  <2>4. \A y \in taken[c] : pc'[y] = pc[y]
    BY <1>1, <1>2, <2>3
  <2> QED
    BY <1>1, <2>1, <2>2, <2>4, GrantFrame
<1>4. Voids(arg[x])
  <2>1. /\ arg[x] \in Consents /\ taken[arg[x]] = {x} /\ code[arg[x]] \notin {"none", "live"}
        /\ ~Redeemed(arg[x]) /\ ~Spoilt(arg[x]) /\ GrantOf(arg[x]) = "open"
    BY HeldIsOpen
  <2>2. ~\E y \in Exchanges : arg'[y] = arg[x] /\ answer'[y] \in {"ok", "rejected"}
    BY <1>1, <1>2, <2>1 DEF Redeemed, Spoilt, Known
  <2>3. \A y \in taken'[arg[x]] : pc'[y] = "done"
    BY <1>1, <1>2, <2>1
  <2>4. GrantOf(arg[x])' = "void"
    BY <1>1, <2>1, <2>2, <2>3 DEF GrantOf, Known, At
  <2> QED
    BY <2>1, <2>4 DEF Voids
<1> QED
  BY <1>3, <1>4

(* A step of a request that neither takes a code nor ends an exchange.     *)
LEMMA OthersKeepGrants ==
  ASSUME IInv, TakenOK, NEW r \in Requests, UNCHANGED <<code, taken>>,
         \A y \in Requests \ {r} : pc'[y] = pc[y] /\ arg'[y] = arg[y] /\ answer'[y] = answer[y],
         r \notin Exchanges
           \/ (/\ pc[r] = "idle" /\ answer'[r] \notin {"ok", "rejected"})
           \/ (/\ pc[r] # "done" /\ pc'[r] # "done" /\ answer'[r] = answer[r])
  PROVE  \A c \in Consents : Same(c)
<1> SUFFICES ASSUME NEW c \in Consents PROVE Same(c)
  OBVIOUS
<1>1. code' = code /\ taken' = taken /\ Exchanges \subseteq Requests
      /\ \A y \in taken[c] : y \in Exchanges /\ pc[y] # "idle"
  BY DEF Requests, Pairs, TakenOK, IInv, TypeOK
<1>2. pc[r] # "done" => answer[r] = "none"
  BY DEF IInv, KindOK
<1>3. ASSUME NEW x \in Exchanges
      PROVE  /\ (arg'[x] = c /\ answer'[x] = "ok") <=> (arg[x] = c /\ answer[x] = "ok")
             /\ (arg'[x] = c /\ answer'[x] = "rejected") <=> (arg[x] = c /\ answer[x] = "rejected")
  <2>1. CASE x # r
    BY <1>1, <2>1
  <2>2. CASE x = r
    BY <1>2, <2>2
  <2> QED
    BY <2>1, <2>2
<1>4. \A x \in taken[c] : pc'[x] = "done" <=> pc[x] = "done"
  BY <1>1
<1> QED
  BY <1>1, <1>3, <1>4, GrantFrame

LEMMA GrantsMove == IInv /\ TakenOK /\ Next => GrantStep
<1> SUFFICES ASSUME IInv, TakenOK, Next PROVE GrantStep
  OBVIOUS
<1> DEFINE Kept == \A c \in Consents : Same(c) \/ Voids(c)
<1>a. TypeOK /\ KindOK /\ CodeOK
  BY DEF IInv
<1>b. /\ \A q \in Consents : q \notin Exchanges
      /\ \A f \in Refreshes : f \notin Exchanges
      /\ \A v \in Revocations : v \notin Exchanges
      /\ Consents \subseteq Requests /\ Exchanges \subseteq Requests
      /\ Refreshes \subseteq Requests /\ Revocations \subseteq Requests
  BY DEF Pairs, Requests
<1>c. \A r \in Requests : /\ pc[r] \in StorageSteps => r \in Pairs
                          /\ pc[r] \in RotationSteps \cup PairSteps \cup (ConsentSteps \ {"idle", "done"})
                               => r \notin Exchanges
  BY <1>a DEF KindOK, Requests, Pairs, StorageSteps, RotationSteps, PairSteps, ConsentSteps
<1>d. \A r \in Requests : r \notin Exchanges /\ pc[r] \in StorageSteps => r \in Refreshes
  BY <1>c DEF Pairs
<1> USE DEF StorageSteps, RotationSteps, PairSteps, ConsentSteps
<1>1. ASSUME NEW s \in Sessions, Authorize(s) PROVE Kept
  BY <1>1, <1>a, GrantFrame DEF Authorize, TypeOK
<1>2. ASSUME NEW s \in Sessions, NEW q \in Consents, ReadSession(q, s) PROVE Kept
  <2>1. /\ UNCHANGED <<code, taken>>
        /\ \A y \in Requests \ {q} : pc'[y] = pc[y] /\ arg'[y] = arg[y] /\ answer'[y] = answer[y]
    BY <1>2, <1>a DEF ReadSession, Sent, Goto, Answer, TypeOK, cacheVars
  <2> QED
    BY <2>1, <1>b, OthersKeepGrants
<1>3. ASSUME NEW x \in Exchanges, NEW c \in Consents, Consume(x, c) PROVE Kept
  <2>1. /\ pc[x] = "idle" /\ answer[x] = "none" /\ x \in Requests
        /\ \A y \in Requests \ {x} : pc'[y] = pc[y] /\ arg'[y] = arg[y] /\ answer'[y] = answer[y]
        /\ arg' = [arg EXCEPT ![x] = c] /\ pc'[x] \in {"storeAccess", "done"}
        /\ answer'[x] \in {"none", "refused", "rejected", "invalid_grant"}
        /\ (pc'[x] = "storeAccess" => answer'[x] = "none") /\ arg'[x] = c
    BY <1>3, <1>a, <1>b DEF Consume, Sent, Goto, Answer, TypeOK, KindOK
  <2>2. CASE UNCHANGED <<code, taken>> /\ answer'[x] # "rejected"
    BY <2>1, <2>2, OthersKeepGrants
  <2>3. ASSUME NEW d \in Consents, d # c, code'[d] = code[d], taken'[d] = taken[d] PROVE Same(d)
    <3>1. \A y \in taken[d] : y \in Exchanges /\ y # x
      BY <1>a, <2>1 DEF TypeOK, TakenOK
    <3>2. \A y \in taken[d] : pc'[y] = pc[y]
      BY <1>b, <2>1, <3>1
    <3> QED
      BY <1>b, <2>1, <2>3, <3>2, GrantFrame
  <2>4. CASE code[c] = "live" /\ code' = [code EXCEPT ![c] = "deleted"]
             /\ taken' \in {taken, [taken EXCEPT ![c] = @ \cup {x}]}
             /\ (pc'[x] = "storeAccess" => taken' # taken)
    <3>1. taken[c] = {} /\ ~Redeemed(c) /\ ~Spoilt(c)
      BY <1>a, <2>4, UntakenIsUnanswered DEF CodeOK
    <3>2. GrantOf(c) = "open"
      BY <2>4, <3>1, GrantCases
    <3>3. \A d \in Consents \ {c} : code'[d] = code[d] /\ taken'[d] = taken[d]
      BY <1>a, <2>4 DEF TypeOK
    <3>4. taken'[c] \in {{}, {x}} /\ code'[c] = "deleted" /\ (pc'[x] = "storeAccess" => taken'[c] = {x})
      BY <1>a, <2>4, <3>1 DEF TypeOK
    <3>5. \A y \in Exchanges : arg'[y] = c => answer'[y] # "ok"
      BY <1>b, <2>1, <3>1 DEF Redeemed, Known
    <3>6. \A y \in Exchanges : arg'[y] = c /\ answer'[y] = "rejected" => y = x
      BY <1>b, <2>1, <3>1 DEF Spoilt
    <3>7. GrantOf(c)' \in {"open", "void"}
      <4>1. CASE pc'[x] = "storeAccess"
        <5>1. ~\E y \in Exchanges : arg'[y] = c /\ answer'[y] = "rejected"
          BY <2>1, <3>6, <4>1
        <5>2. \E y \in taken'[c] : pc'[y] # "done"
          BY <3>4, <4>1
        <5> QED
          BY <3>5, <5>1, <5>2 DEF GrantOf, Known, At
      <4>2. CASE pc'[x] = "done"
        <5>1. ~\E y \in taken'[c] : pc'[y] # "done"
          BY <3>4, <4>2
        <5> QED
          BY <3>4, <3>5, <5>1 DEF GrantOf, Known, At
      <4> QED
        BY <2>1, <4>1, <4>2
    <3> QED
      BY <2>3, <3>2, <3>3, <3>7 DEF Same, Voids
  <2>5. CASE Take(x, c) /\ (Goto(x, "storeAccess") \/ Answer(x, "rejected"))
    <3>1. /\ code[c] = "live" /\ code' = [code EXCEPT ![c] = "deleted"] /\ taken[c] = {}
          /\ taken' = [taken EXCEPT ![c] = @ \cup {x}]
      BY <1>a, <2>5 DEF Take, Delete, CodeOK
    <3>2. taken' # taken
      BY <1>a, <3>1 DEF TypeOK
    <3> QED
      BY <2>4, <3>1, <3>2
  <2>6. CASE Answer(x, "invalid_grant") /\ UNCHANGED taken /\ code' \in {code, Delete(code, c)}
    <3>1. answer'[x] = "invalid_grant" /\ pc'[x] = "done"
      BY <1>a, <2>1, <2>6 DEF Answer, TypeOK
    <3>2. CASE code' = code
      BY <2>2, <2>6, <3>1, <3>2
    <3>3. CASE code' # code
      <4>1. code[c] = "live" /\ code' = [code EXCEPT ![c] = "deleted"]
        BY <2>6, <3>3 DEF Delete
      <4> QED
        BY <2>4, <2>6, <3>1, <4>1
    <3> QED
      BY <3>2, <3>3
  <2>7. CASE Answer(x, "refused") /\ UNCHANGED <<code, taken>>
    BY <1>a, <2>1, <2>2, <2>7 DEF Answer, TypeOK
  <2> QED
    BY <1>3, <2>5, <2>6, <2>7 DEF Consume, Untaken
<1>4. ASSUME NEW f \in Refreshes, NEW p \in Pairs, ReadRefresh(f, p) PROVE Kept
  <2>1. /\ UNCHANGED <<code, taken>>
        /\ \A y \in Requests \ {f} : pc'[y] = pc[y] /\ arg'[y] = arg[y] /\ answer'[y] = answer[y]
    BY <1>4, <1>a DEF ReadRefresh, Sent, Goto, Answer, TypeOK, cacheVars
  <2> QED
    BY <2>1, <1>b, OthersKeepGrants
<1>5. ASSUME NEW v \in Revocations, NEW p \in Pairs, RevokeByRefresh(v, p) \/ RevokeByAccess(v, p) PROVE Kept
  <2>1. /\ UNCHANGED <<code, taken>>
        /\ \A y \in Requests \ {v} : pc'[y] = pc[y] /\ arg'[y] = arg[y] /\ answer'[y] = answer[y]
    BY <1>5, <1>a DEF RevokeByRefresh, RevokeByAccess, Revoke, Sent, Goto, Answer, TypeOK, cacheVars
  <2> QED
    BY <2>1, <1>b, OthersKeepGrants
<1>6. ASSUME NEW r \in Requests,
             \/ SignIn(r) \/ DropSession(r) \/ LookUpRefresh(r) \/ DropAccess(r) \/ DropRefresh(r)
             \/ LookUpAccess(r) \/ DropPartner(r) \/ DropToken(r)
      PROVE Kept
  <2>1. /\ UNCHANGED <<code, taken>> /\ r \notin Exchanges
        /\ \A y \in Requests \ {r} : pc'[y] = pc[y] /\ arg'[y] = arg[y] /\ answer'[y] = answer[y]
    BY <1>6, <1>a, <1>c DEF SignIn, DropSession, LookUpRefresh, DropAccess, DropRefresh, LookUpAccess,
         DropPartner, DropToken, At, Goto, Answer, TypeOK, cacheVars
  <2> QED
    BY <2>1, OthersKeepGrants
<1>7. ASSUME NEW q \in Requests, StoreCode(q) PROVE GrantStep
  <2>1. pc[q] = "storeCode" /\ q \in Consents /\ q \notin Exchanges
    BY <1>7, <1>a, <1>b, <1>c DEF StoreCode, At, Requests, Pairs, KindOK
  <2>2. code[q] = "none" /\ taken[q] = {}
    BY <1>a, <2>1 DEF CodeOK
  <2>3. ~Redeemed(q) /\ ~Spoilt(q) /\ ~Held(q) /\ GrantOf(q) = "none"
    BY <2>1, <2>2, UntakenIsUnanswered, GrantCases
  <2>4. /\ \A y \in Requests \ {q} : pc'[y] = pc[y] /\ arg'[y] = arg[y] /\ answer'[y] = answer[y]
        /\ taken' = taken /\ arg' = arg /\ answer' = answer
        /\ code' \in {code, [code EXCEPT ![q] = "live"]}
    BY <1>7, <1>a DEF StoreCode, Set, Unstored, Goto, TypeOK
  <2>5. \A y \in Exchanges : pc'[y] = pc[y]
    BY <1>b, <2>1, <2>4
  <2>6. ASSUME NEW d \in Consents, code'[d] = code[d] PROVE Same(d)
    <3>1. \A y \in taken[d] : pc'[y] = pc[y]
      BY <1>a, <2>5 DEF TypeOK
    <3> QED
      BY <2>4, <2>6, <3>1, GrantFrame
  <2>7. CASE code' = code
    BY <2>6, <2>7 DEF GrantStep
  <2>8. CASE code' = [code EXCEPT ![q] = "live"]
    <3>1. code'[q] = "live" /\ \A d \in Consents \ {q} : code'[d] = code[d]
      BY <1>a, <2>1, <2>8 DEF TypeOK
    <3>2. GrantOf(q)' = "open"
      BY <2>3, <2>4, <3>1 DEF GrantOf, Redeemed, Spoilt, Known
    <3> QED
      BY <2>1, <2>3, <2>6, <3>1, <3>2 DEF GrantStep, Opens
  <2> QED
    BY <2>4, <2>7, <2>8
<1>8. ASSUME NEW r \in Requests,
             StoreAccess(r) \/ StoreRefresh(r) \/ StoreList(r) \/ UndoAccess(r) \/ UndoRefresh(r)
      PROVE GrantStep
  <2>1. pc[r] \in StorageSteps /\ UNCHANGED <<code, taken, arg>>
        /\ \A y \in Requests \ {r} : pc'[y] = pc[y] /\ arg'[y] = arg[y] /\ answer'[y] = answer[y]
    BY <1>8, <1>a DEF StoreAccess, StoreRefresh, StoreList, UndoAccess, UndoRefresh, At, Goto, Answer, TypeOK, cacheVars
  <2>2. CASE r \notin Exchanges
    BY <2>1, <2>2, OthersKeepGrants DEF GrantStep
  <2>3. CASE r \in Exchanges
    <3>1. \/ pc'[r] # "done" /\ answer'[r] = answer[r]
          \/ Answer(r, "unavailable")
          \/ Answer(r, "ok")
      BY <1>8, <1>a, <2>3 DEF StoreAccess, StoreRefresh, StoreList, UndoAccess, UndoRefresh, At, Goto, Answer, TypeOK
    <3>2. CASE pc'[r] # "done" /\ answer'[r] = answer[r]
      BY <2>1, <3>2, OthersKeepGrants DEF GrantStep
    <3>3. CASE Answer(r, "unavailable")
      BY <2>1, <2>3, <3>3, GivingUpVoids DEF GrantStep
    <3>4. CASE Answer(r, "ok")
      <4>1. PICK c \in Consents : c = arg[r] /\ GrantOf(c) = "open"
        BY <2>1, <2>3, HeldIsOpen
      <4>2. answer'[r] = "ok" /\ arg'[r] = c
        BY <1>a, <2>1, <3>4, <4>1 DEF Answer, TypeOK
      <4>3. GrantOf(c)' = "used"
        BY <2>3, <4>2 DEF GrantOf, Known
      <4>4. ASSUME NEW d \in Consents \ {c} PROVE Same(d)
        <5>1. \A y \in taken[d] : y # r /\ y \in Exchanges
          BY <1>a, <4>1, <4>4 DEF TakenOK, TypeOK
        <5>2. \A y \in taken[d] : pc'[y] = pc[y]
          BY <1>b, <2>1, <5>1
        <5> QED
          BY <1>b, <2>1, <4>1, <4>4, <5>2, GrantFrame
      <4> QED
        BY <4>1, <4>3, <4>4 DEF GrantStep, Uses
    <3> QED
      BY <3>1, <3>2, <3>3, <3>4
  <2> QED
    BY <2>2, <2>3
<1>9. ASSUME Expire PROVE Kept
  <2> SUFFICES ASSUME NEW c \in Consents PROVE Same(c) \/ Voids(c)
    OBVIOUS
  <2>1. UNCHANGED <<pc, arg, answer, taken>> /\ (code'[c] = code[c] \/ (code[c] = "live" /\ code'[c] = "expired"))
    BY <1>9, <1>a DEF Expire, TypeOK
  <2>2. CASE code'[c] = code[c]
    BY <2>1, <2>2, GrantFrame
  <2>3. CASE code[c] = "live" /\ code'[c] = "expired"
    <3>1. taken[c] = {} /\ ~Redeemed(c) /\ ~Spoilt(c)
      BY <1>a, <2>3, UntakenIsUnanswered DEF CodeOK
    <3>2. GrantOf(c) = "open"
      BY <2>3, <3>1, GrantCases
    <3>3. GrantOf(c)' = "void"
      BY <2>1, <2>3, <3>1 DEF GrantOf, Redeemed, Spoilt, Known
    <3> QED
      BY <3>2, <3>3 DEF Voids
  <2> QED
    BY <2>1, <2>2, <2>3
<1>10. ASSUME Crash PROVE Kept
  <2> SUFFICES ASSUME NEW c \in Consents PROVE Same(c) \/ Voids(c)
    OBVIOUS
  <2>1. /\ UNCHANGED <<arg, taken>>
        /\ \A r \in Requests : /\ pc'[r] = IF pc[r] = "idle" THEN "idle" ELSE "done"
                               /\ answer'[r] = IF pc[r] \in {"idle", "done"} THEN answer[r] ELSE "lost"
        /\ code'[c] = code[c] \/ (code[c] = "live" /\ code'[c] = "expired")
    BY <1>10, <1>a DEF Crash, Wipe, TypeOK, cacheVars
  <2>2. \A x \in Exchanges : /\ answer'[x] = "ok" <=> answer[x] = "ok"
                             /\ answer'[x] = "rejected" <=> answer[x] = "rejected"
    BY <1>a, <1>b, <2>1 DEF KindOK
  <2>3. (Redeemed(c)' <=> Redeemed(c)) /\ (Spoilt(c)' <=> Spoilt(c))
    BY <2>1, <2>2 DEF Redeemed, Spoilt, Known
  <2>4. ~Held(c)'
    <3>1. \A x \in taken[c] : pc[x] # "idle" /\ x \in Requests
      BY <1>a, <1>b DEF TakenOK, TypeOK
    <3> QED
      BY <2>1, <3>1 DEF Held, At
  <2>5. GrantOf(c)' = IF Redeemed(c) THEN "used" ELSE
                      IF Spoilt(c) THEN "void" ELSE
                      IF code'[c] = "live" THEN "open" ELSE
                      IF code'[c] = "none" THEN "none" ELSE "void"
    BY <2>3, <2>4 DEF GrantOf, Redeemed, Spoilt, Held
  <2>6. code[c] = "none" => ~Held(c)
    BY <1>a, UntakenIsUnanswered DEF CodeOK
  <2> QED
    BY <2>1, <2>5, <2>6, GrantCases DEF Same, Voids
<1> QED
  BY <1>1, <1>2, <1>3, <1>4, <1>5, <1>6, <1>7, <1>8, <1>9, <1>10
  DEF GrantStep, Next, Start, Continue, ConsentStep, StorageStep, RotationStep, PairStep

LEMMA TakenStep == IInv /\ TakenOK /\ [Next]_vars => TakenOK'
<1> SUFFICES ASSUME TypeOK, KindOK, TakenOK, [Next]_vars PROVE TakenOK'
  BY DEF IInv
<1> USE DEF TypeOK, TakenOK, Requests, Pairs
<1>1. ASSUME taken' = taken, NEW r \in Requests,
             pc[r] = "idle" \/ arg'[r] = arg[r],
             pc[r] = "idle" \/ pc'[r] # "idle",
             \A y \in Requests \ {r} : pc'[y] = pc[y] /\ arg'[y] = arg[y]
      PROVE TakenOK'
  BY <1>1
<1>2. ASSUME NEW s \in Sessions, Authorize(s) PROVE TakenOK'
  BY <1>2 DEF Authorize
<1>3. ASSUME NEW s \in Sessions, NEW q \in Consents, ReadSession(q, s) PROVE TakenOK'
  BY <1>1, <1>3 DEF ReadSession, Sent, Goto, Answer
<1>4. ASSUME NEW x \in Exchanges, NEW c \in Consents, Consume(x, c) PROVE TakenOK'
  BY <1>4 DEF Consume, Take, Sent, Goto, Answer
<1>5. ASSUME NEW f \in Refreshes, NEW p \in Pairs, ReadRefresh(f, p) PROVE TakenOK'
  BY <1>1, <1>5 DEF ReadRefresh, Sent, Goto, Answer
<1>6. ASSUME NEW v \in Revocations, NEW p \in Pairs, RevokeByRefresh(v, p) \/ RevokeByAccess(v, p) PROVE TakenOK'
  BY <1>1, <1>6 DEF RevokeByRefresh, RevokeByAccess, Revoke, Sent, Goto, Answer
<1>7. ASSUME NEW r \in Requests, ConsentStep(r) \/ StorageStep(r) PROVE TakenOK'
  BY <1>1, <1>7 DEF ConsentStep, StorageStep, SignIn, StoreCode, DropSession, StoreAccess, StoreRefresh,
     StoreList, UndoAccess, UndoRefresh, Goto, Answer
<1>8. ASSUME NEW r \in Requests, RotationStep(r) \/ PairStep(r) PROVE TakenOK'
  BY <1>1, <1>8 DEF RotationStep, PairStep, LookUpRefresh, DropAccess, DropRefresh, LookUpAccess,
     DropPartner, DropToken, Goto, Answer
<1>9. CASE Expire
  BY <1>9 DEF Expire
<1>10. CASE Crash
  BY <1>10 DEF Crash
<1>11. CASE UNCHANGED vars
  BY <1>11 DEF vars
<1> QED
  BY <1>2, <1>3, <1>4, <1>5, <1>6, <1>7, <1>8, <1>9, <1>10, <1>11 DEF Next, Start, Continue

(* A code is open for a while, and then either one pair was issued for it  *)
(* or it is void for good, whatever cache calls fail and however the       *)
(* exchanges meet (get_auth_code, token_endpoint).                         *)
THEOREM CodesKeepTheirPromise == Spec => ImplementsCodeGrant
<1> DEFINE g == [c \in Consents |-> GrantOf(c)]
<1>1. Init => Grant!Init /\ TakenOK
  BY DEF Init, Grant!Init, TakenOK, GrantOf, Requests, Pairs, Known, At
<1>2. IInv /\ TakenOK /\ [Next]_vars => [Grant!Next]_g
  <2> SUFFICES ASSUME IInv, TakenOK, [Next]_vars PROVE [Grant!Next]_g
    OBVIOUS
  <2>1. CASE UNCHANGED vars
    BY <2>1 DEF vars, cacheVars, GrantOf, Known, At
  <2>2. CASE \A c \in Consents : Same(c) \/ Voids(c)
    <3> DEFINE lost == {c \in Consents : Voids(c)}
    <3>1. g' = [c \in Consents |-> IF c \in lost THEN "void" ELSE g[c]]
      BY <2>2 DEF Same, Voids
    <3>2. \A c \in lost : g[c] = "open"
      BY DEF Voids
    <3>3. lost \in SUBSET Consents
      OBVIOUS
    <3> HIDE DEF lost
    <3> QED
      BY <3>1, <3>2, <3>3 DEF Grant!Next, Grant!Void
  <2>3. ASSUME NEW c \in Consents, Opens(c) \/ Uses(c), \A d \in Consents \ {c} : Same(d)
        PROVE  Grant!Next
    <3>1. g' = [g EXCEPT ![c] = GrantOf(c)'] /\ g[c] = GrantOf(c)
      BY <2>3 DEF Same
    <3> QED
      BY <2>3, <3>1 DEF Opens, Uses, Grant!Next, Grant!Offer, Grant!Use, Grant!Become
  <2>4. CASE Next
    BY <2>2, <2>3, <2>4, GrantsMove DEF GrantStep
  <2> QED
    BY <2>1, <2>4
<1> QED
  BY <1>1, <1>2, TakenStep, InductiveInvariant, PTL DEF Spec, ImplementsCodeGrant, Grant!Spec
=============================================================================
