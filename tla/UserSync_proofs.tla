--------------------------- MODULE UserSync_proofs ---------------------------
(***************************************************************************)
(* Proofs about UserSync, for any number of requests, accounts and rows.   *)
(* What a request has in hand (Sound) is stable under the commits of the   *)
(* others because contacts of a row are never taken away and because a     *)
(* claim is only released by rows that are inactive.                       *)
(***************************************************************************)
EXTENDS UserSync, TLAPS

Person(r) == PersonOf[token[r].sid]

(* The row has an e-mail or a number of the token's person. A link needs    *)
(* one, and no commit takes a row's last one away.                         *)
ByContact(r, u) ==
  \/ users[u].email \in Emails /\ PersonOf[users[u].email] = Person(r)
  \/ users[u].phone \in Phones /\ PersonOf[users[u].phone] = Person(r)

(* What a link rests on: a contact, or a stranger's number, the request's  *)
(* own or one that has reached the row before.                             *)
MayLink(r, u) == ByContact(r, u) \/ Strangers(r) \/ u \in doubtful

(* The row is in the table and, while it is active, of the right person,   *)
(* but for a row that a stranger's number has reached.                     *)
Kept(r) == /\ found[r] \in Rows
           /\ users[found[r]].state # "absent"
           /\ users[found[r]].state = "active"
                => HasKeyOf(users[found[r]], Person(r)) \/ found[r] \in doubtful

KeysOfToken(r) ==
  /\ plan[r].sid \in {Nobody, token[r].sid}
  /\ plan[r].email # Nobody => ConfirmedEmail(r) /\ plan[r].email = token[r].email
  /\ plan[r].phone \in {Nobody, token[r].phone}

ReleasesInactive(r) ==
  /\ inactive[r] # NoRow => users[inactive[r]].state = "inactive"
  /\ plan[r].release # NoRow => users[plan[r].release].state = "inactive"

MatchedByContact(r) ==
  at[r] = "merge" \/ plan[r].kind = "update"
    => /\ found[r] \in Rows
       /\ users[found[r]].state # "absent"
       /\ MayLink(r, found[r])

PlanShape(r) ==
  /\ plan[r].kind # "none" => at[r] \in {"flush", "move", "flushed"}
  /\ plan[r].kind = "update" => plan[r].row = found[r]
  /\ plan[r].kind = "insert" => at[r] # "move" /\ plan[r].sid = token[r].sid
  /\ plan[r].kind = "insert" /\ at[r] = "flush" => plan[r].row = NoRow
  /\ at[r] = "flush" => plan[r].kind # "none"
  /\ at[r] = "transfer" => token[r].phone # Nobody

InsertIsNew(r) ==
  at[r] = "flushed" /\ plan[r].kind = "insert"
    => /\ plan[r].row \in Rows
       /\ found[r] = plan[r].row
       /\ users[plan[r].row].state = "absent"
       /\ \A u \in Present : users[u].sid # token[r].sid

HasRow(r) ==
  \/ at[r] \in {"flushed", "move"} /\ plan[r].kind = "none"
  \/ at[r] = "served" /\ r \notin Closers
  => Kept(r)

Sound(r) == /\ KeysOfToken(r)
            /\ ReleasesInactive(r)
            /\ MatchedByContact(r)
            /\ PlanShape(r)
            /\ InsertIsNew(r)
            /\ HasRow(r)

(* A flushed insert shares neither its row nor its account with another    *)
(* flushed plan: whoever comes second waits.                               *)
Apart == \A r \in Flushed : \A q \in Flushed \ {r} :
           plan[r].kind = "insert" => /\ plan[q].row # plan[r].row
                                      /\ plan[q].sid # plan[r].sid

Inv == /\ TypeOK
       /\ RowsBelongToOnePerson
       /\ \A r \in Requests : Sound(r)
       /\ Apart

-----------------------------------------------------------------------------
(* Types *)

LEMMA EmptyPlanType == EmptyPlan \in Plan
BY DEF EmptyPlan, Plan, NoRow

LEMMA AbsentRowType == AbsentRow \in Row
BY DEF AbsentRow, Row

LEMMA TokenType == ASSUME TypeOK, NEW r \in Requests PROVE token[r] \in Token
BY UserSyncAssumption DEF TypeOK, UserSyncAssumption

(* The contacts that link are the token's person's, but for a stranger's number. *)
LEMMA ContactsAreMine ==
  ASSUME TypeOK, NEW r \in Requests
  PROVE  /\ token[r].sid \in Accounts
         /\ ConfirmedEmail(r) => token[r].email \in Emails /\ PersonOf[token[r].email] = Person(r)
         /\ token[r].phone \in Phones /\ ~Strangers(r)
              => \A p \in Phones : Norm[p] = Norm[token[r].phone] => PersonOf[p] = Person(r)
         /\ token[r].phone \in Phones \cup {Nobody}
<1>1. token[r] \in Token /\ GoodToken(token[r])
  BY UserSyncAssumption DEF TypeOK, UserSyncAssumption
<1> QED BY <1>1 DEF GoodToken, ConfirmedEmail, Token, Person, Strangers

(* The frame every end of a session shares. *)
LEMMA DiscardTypes ==
  ASSUME TypeOK, NEW r \in Requests, NEW step \in Steps, NEW u \in Rows \cup {NoRow},
         Discard(r, step, u)
  PROVE  /\ at' \in [Requests -> Steps]
         /\ token' \in Presented
         /\ found' \in [Requests -> Rows \cup {NoRow}]
         /\ seen' \in [Requests -> Row]
         /\ inactive' \in [Requests -> Rows \cup {NoRow}]
         /\ again' \in [Requests -> BOOLEAN]
         /\ plan' \in [Requests -> Plan]
BY EmptyPlanType, AbsentRowType DEF TypeOK, Discard, Become, Find, Forget, NoRow

LEMMA UnlockType ==
  ASSUME TypeOK, NEW r \in Requests, Unlock(r)
  PROVE  lock' \in [Accounts -> Requests \cup {Nobody}]
BY DEF TypeOK, Unlock

LEMMA EndTypes ==
  ASSUME TypeOK, NEW r \in Requests, NEW step \in Steps, NEW u \in Rows \cup {NoRow},
         End(r, step, u), users' \in [Rows -> Row], doubtful' \subseteq Rows
  PROVE  TypeOK'
<1>1. Discard(r, step, u) /\ Unlock(r) BY DEF End
<1>2. lock' \in [Accounts -> Requests \cup {Nobody}] BY <1>1, UnlockType
<1> QED BY <1>1, <1>2, DiscardTypes DEF TypeOK

LEMMA TargetType ==
  ASSUME TypeOK, NEW p \in Plan, p.kind # "none", p.kind = "update" => p.row \in Rows
  PROVE  Target(p) \in Row
<1>1. CASE p.kind = "insert" BY <1>1 DEF Target, Inserted, Row, Plan
<1>2. CASE p.kind = "update"
  <2>1. users[p.row] \in Row BY <1>2 DEF TypeOK
  <2>2. Updated(users[p.row], p) \in Row BY <2>1 DEF Updated, Row, Plan
  <2> QED BY <1>2, <2>2 DEF Target
<1> QED BY <1>1, <1>2 DEF Plan

LEMMA ApplyType ==
  ASSUME TypeOK, NEW p \in Plan, p.kind = "update" => p.row \in Rows
  PROVE  Apply(p) \in [Rows -> Row]
<1>1. CASE p.kind = "none" BY <1>1 DEF Apply, TypeOK
<1>2. CASE p.kind # "none"
  <2>1. Target(p) \in Row BY <1>2, TargetType
  <2>2. \A u \in Rows : [users[u] EXCEPT !.sid = Nobody] \in Row BY DEF TypeOK, Row
  <2>3. \A u \in Rows : users[u] \in Row BY DEF TypeOK
  <2> QED BY <1>2, <2>1, <2>2, <2>3 DEF Apply
<1> QED BY <1>1, <1>2

LEMMA LinkPlanType ==
  ASSUME TypeOK, NEW r \in Requests, found[r] \in Rows
  PROVE  LinkPlan(r) \in Plan
<1>1. token[r] \in Token BY TokenType
<1>2. inactive[r] \in Rows \cup {NoRow} BY DEF TypeOK
<1> QED BY <1>1, <1>2 DEF LinkPlan, Plan, Token

LEMMA FirstIsMatch == ASSUME NEW S, NEW u \in First(S) PROVE u \in S
BY DEF First

LEMMA LookupsFindRows ==
  ASSUME NEW s, NEW u
  PROVE  /\ u \in ByAccount(s) => u \in Rows /\ users[u].state # "absent" /\ users[u].sid = s
         /\ u \in ByEmail(s) => u \in Rows /\ users[u].state # "absent" /\ users[u].email = s
         /\ u \in ByPhone(s) => u \in Rows /\ users[u].state # "absent"
         /\ u \in Active => u \in Rows /\ users[u].state = "active"
BY FirstIsMatch DEF ByAccount, ByEmail, ByPhone, Present, Active

LEMMA LookupTypes ==
  ASSUME TypeOK, NEW r \in Requests,
         HotLookup(r) \/ Lock(r) \/ AccountLookup(r) \/ EmailLookup(r)
  PROVE  TypeOK'
<1>1. CASE HotLookup(r)
  BY <1>1, LookupsFindRows DEF TypeOK, HotLookup, Become, Find, Steps, Ended, Open
<1>2. CASE Lock(r)
  BY <1>2 DEF TypeOK, Lock, session, Become, Steps, Open
<1>3. CASE AccountLookup(r)
  BY <1>3, LookupsFindRows DEF TypeOK, AccountLookup, Become, Find, Steps, Open
<1>4. CASE EmailLookup(r)
  <2>1. \A u \in Rows : users[u] \in Row BY DEF TypeOK
  <2> QED BY <1>4, <2>1, LookupsFindRows DEF TypeOK, EmailLookup, Become, Load, Find, Steps, Open
<1> QED BY <1>1, <1>2, <1>3, <1>4

LEMMA PhoneLookupTypes ==
  ASSUME TypeOK, NEW r \in Requests, PhoneLookup(r) PROVE TypeOK'
<1> DEFINE p == [kind |-> "insert", row |-> NoRow, sid |-> token[r].sid,
                 email |-> IF ConfirmedEmail(r) THEN token[r].email ELSE Nobody,
                 phone |-> token[r].phone, release |-> inactive[r]]
           matches == IF token[r].phone # Nobody THEN ByPhone(token[r].phone) ELSE {}
<1>1. p \in Plan
  <2>1. token[r] \in Token BY TokenType
  <2>2. inactive[r] \in Rows \cup {NoRow} BY DEF TypeOK
  <2> QED BY <2>1, <2>2 DEF Plan, Token
<1>2. CASE at[r] = "phone" /\ (\E u \in matches : Load(r, u)) /\ Become(r, "merge")
           /\ UNCHANGED <<lock, token, inactive, again, plan, users, doubtful>>
  <2>1. \A u \in Rows : users[u] \in Row BY DEF TypeOK
  <2> QED BY <1>2, <2>1, LookupsFindRows DEF TypeOK, Become, Load, Find, Steps, Open
<1>3. CASE plan' = [plan EXCEPT ![r] = p] /\ Become(r, "flush")
           /\ UNCHANGED <<lock, token, found, seen, inactive, again, users, doubtful>>
  <2> HIDE DEF p
  <2> QED BY <1>1, <1>3 DEF TypeOK, Become, Steps, Open
<1>4. CASE End(r, "failed", NoRow) /\ UNCHANGED <<users, doubtful>>
  BY <1>4, EndTypes DEF TypeOK, Steps, Ended
<1> QED BY <1>2, <1>3, <1>4 DEF PhoneLookup

LEMMA TransferTypes ==
  ASSUME TypeOK, NEW r \in Requests, Transfer(r) PROVE TypeOK'
<1> DEFINE p(u) == IF users[u].sid = token[r].sid THEN EmptyPlan
                   ELSE TakeOver(u, token[r].sid, inactive[r])
<1>1. \A u \in Rows : p(u) \in Plan
  <2>1. token[r] \in Token BY TokenType
  <2>2. inactive[r] \in Rows \cup {NoRow} BY DEF TypeOK
  <2> QED BY <2>1, <2>2, EmptyPlanType DEF Plan, Token, TakeOver
<1>2. CASE \E u \in Active : Find(r, u) /\ plan' = [plan EXCEPT ![r] = p(u)] /\ Become(r, "move")
  <2> PICK u \in Active : Find(r, u) /\ plan' = [plan EXCEPT ![r] = p(u)] /\ Become(r, "move")
    BY <1>2
  <2>1. u \in Rows /\ p(u) \in Plan BY <1>1 DEF Active
  <2> HIDE DEF p
  <2> QED BY <2>1 DEF TypeOK, Transfer, Find, Become, Steps, Open
<1>3. CASE Become(r, "email") /\ UNCHANGED <<found, plan>>
  BY <1>3 DEF TypeOK, Transfer, Become, Steps, Open
<1> QED BY <1>2, <1>3 DEF Transfer

LEMMA MergeTypes ==
  ASSUME TypeOK, NEW r \in Requests, Merge(r), found[r] \in Rows PROVE TypeOK'
<1> DEFINE p == IF ~again[r] THEN LinkPlan(r)
                ELSE TakeOver(found[r], LinkPlan(r).sid, NoRow)
<1>1. p \in Plan
  BY LinkPlanType DEF Plan, TakeOver
<1>2. plan' = [plan EXCEPT ![r] = p] BY DEF Merge
<1> HIDE DEF p
<1> QED BY <1>1, <1>2, AbsentRowType DEF TypeOK, Merge, Become, Steps, Open

LEMMA LandTypes ==
  ASSUME TypeOK, NEW r \in Requests, Land(r)
  PROVE  /\ at' \in [Requests -> Steps]
         /\ plan' \in [Requests -> Plan]
         /\ found' \in [Requests -> Rows \cup {NoRow}]
<1>1. at' \in [Requests -> Steps] BY DEF TypeOK, Land, Become, Steps, Open
<1>2. CASE plan[r].kind # "insert" BY <1>1, <1>2 DEF Land, TypeOK
<1>3. CASE plan[r].kind = "insert"
  <2> PICK u \in Rows : plan' = [plan EXCEPT ![r].row = u] /\ found' = [found EXCEPT ![r] = u]
    BY <1>3 DEF Land
  <2>1. [plan[r] EXCEPT !.row = u] \in Plan BY DEF TypeOK, Plan
  <2>2. plan' = [plan EXCEPT ![r] = [plan[r] EXCEPT !.row = u]] BY DEF TypeOK
  <2> QED BY <1>1, <2>1, <2>2 DEF TypeOK
<1> QED BY <1>2, <1>3

LEMMA FlushTypes ==
  ASSUME TypeOK, NEW r \in Requests, Flush(r) \/ Move(r) PROVE TypeOK'
<1>1. CASE Flush(r) /\ Conflicts(plan[r])
  <2>1. lock' \in [Accounts -> Requests \cup {Nobody}] BY <1>1, UnlockType DEF Flush
  <2>2. /\ at' = [at EXCEPT ![r] = "account"] /\ again' = [again EXCEPT ![r] = TRUE]
        /\ found' = [found EXCEPT ![r] = NoRow] /\ inactive' = [inactive EXCEPT ![r] = NoRow]
        /\ plan' = [plan EXCEPT ![r] = EmptyPlan] /\ UNCHANGED <<users, doubtful, token, seen>>
    BY <1>1 DEF Flush, Become, Find, Forget
  <2>3. "account" \in Steps BY DEF Steps, Open
  <2> QED BY <2>1, <2>2, <2>3, EmptyPlanType DEF TypeOK
<1>2. CASE Flush(r) /\ ~Conflicts(plan[r])
  BY <1>2, LandTypes DEF Flush, TypeOK
<1>3. CASE Move(r) /\ Conflicts(plan[r])
  <2>1. End(r, "failed", NoRow) /\ UNCHANGED <<users, doubtful>> BY <1>3 DEF Move
  <2> QED BY <2>1, EndTypes DEF TypeOK, Steps, Ended
<1>4. CASE Move(r) /\ ~Conflicts(plan[r])
  BY <1>4, LandTypes DEF Move, TypeOK
<1> QED BY <1>1, <1>2, <1>3, <1>4

LEMMA CommitTypes ==
  ASSUME TypeOK, NEW r \in Requests, Commit(r), plan[r].kind # "none" => plan[r].row \in Rows
  PROVE  TypeOK'
<1>1. plan[r] \in Plan BY DEF TypeOK
<1>2. users' \in [Rows -> Row] BY <1>1, ApplyType DEF Commit
<1>3. End(r, "served", found[r]) \/ End(r, "refused", NoRow) BY DEF Commit
<1>4. found[r] \in Rows \cup {NoRow} BY DEF TypeOK
<1>5. doubtful' \subseteq Rows BY DEF Commit, TypeOK
<1> QED BY <1>2, <1>3, <1>4, <1>5, EndTypes DEF Steps, Ended

LEMMA OtherTypes ==
  ASSUME TypeOK, NEW r \in Requests, Close(r) \/ Drop(r) \/ DeleteAccount(r) PROVE TypeOK'
<1>1. CASE Close(r)
  <2>1. found[r] \in Rows \cup {NoRow} BY DEF TypeOK
  <2> QED BY <1>1, <2>1, EndTypes DEF Close, TypeOK, Steps, Ended
<1>2. CASE Drop(r) BY <1>2, EndTypes DEF Drop, TypeOK, Steps, Ended
<1>3. CASE DeleteAccount(r) BY <1>3 DEF DeleteAccount, TypeOK, session, Become, Steps, Ended
<1> QED BY <1>1, <1>2, <1>3

LEMMA SuspendTypes == ASSUME TypeOK, NEW u \in Rows, Suspend(u) PROVE TypeOK'
<1>0. users[u] \in Row BY DEF TypeOK
<1>1. [users[u] EXCEPT !.state = "inactive"] \in Row BY <1>0 DEF Row
<1>2. users' = [users EXCEPT ![u] = [users[u] EXCEPT !.state = "inactive"]] BY DEF Suspend, TypeOK
<1> QED BY <1>1, <1>2 DEF Suspend, TypeOK, session

-----------------------------------------------------------------------------
(* A step of r's session leaves what the others have in hand alone. *)

Alone(r) == /\ users' = users
            /\ doubtful' = doubtful
            /\ token' = token
            /\ \A q \in Requests \ {r} : /\ at'[q] = at[q]
                                         /\ found'[q] = found[q]
                                         /\ inactive'[q] = inactive[q]
                                         /\ plan'[q] = plan[q]

LEMMA EndIsLocal ==
  ASSUME TypeOK, NEW r \in Requests, NEW step, NEW u, Discard(r, step, u), UNCHANGED <<users, doubtful>>
  PROVE  Alone(r)
BY DEF TypeOK, Discard, Become, Find, Forget, Alone

LEMMA LookupsAreLocal ==
  ASSUME TypeOK, NEW r \in Requests,
         HotLookup(r) \/ Lock(r) \/ AccountLookup(r) \/ EmailLookup(r)
         \/ PhoneLookup(r) \/ Transfer(r) \/ Merge(r)
  PROVE  Alone(r)
<1>1. CASE HotLookup(r) BY <1>1 DEF TypeOK, HotLookup, Become, Find, Alone
<1>2. CASE Lock(r) BY <1>2 DEF TypeOK, Lock, session, Become, Alone
<1>3. CASE AccountLookup(r) BY <1>3 DEF TypeOK, AccountLookup, Become, Find, Alone
<1>4. CASE EmailLookup(r) BY <1>4 DEF TypeOK, EmailLookup, Become, Load, Find, Alone
<1>5. CASE PhoneLookup(r)
  <2>1. CASE End(r, "failed", NoRow) BY <1>5, <2>1, EndIsLocal DEF PhoneLookup, End
  <2>2. CASE ~End(r, "failed", NoRow)
    BY <1>5, <2>2 DEF TypeOK, PhoneLookup, Become, Load, Find, Alone
  <2> QED BY <2>1, <2>2
<1>6. CASE Transfer(r) BY <1>6 DEF TypeOK, Transfer, Become, Find, Alone
<1>7. CASE Merge(r) BY <1>7 DEF TypeOK, Merge, Become, Alone
<1> QED BY <1>1, <1>2, <1>3, <1>4, <1>5, <1>6, <1>7

LEMMA FlushesAreLocal ==
  ASSUME TypeOK, NEW r \in Requests,
         Flush(r) \/ Move(r) \/ Close(r) \/ Drop(r) \/ DeleteAccount(r)
  PROVE  Alone(r)
<1>1. CASE Flush(r)
  BY <1>1 DEF TypeOK, Flush, Land, Become, Find, Forget, Alone
<1>2. CASE Move(r) /\ Conflicts(plan[r]) BY <1>2, EndIsLocal DEF Move, End
<1>3. CASE Move(r) /\ ~Conflicts(plan[r]) BY <1>3 DEF TypeOK, Move, Land, Become, Alone
<1>4. CASE Close(r) \/ Drop(r) BY <1>4, EndIsLocal DEF Close, Drop, End
<1>5. CASE DeleteAccount(r) BY <1>5 DEF TypeOK, DeleteAccount, session, Become, Alone
<1> QED BY <1>1, <1>2, <1>3, <1>4, <1>5

LEMMA OthersStaySound ==
  ASSUME NEW r \in Requests, Alone(r), NEW q \in Requests \ {r}, Sound(q)
  PROVE  Sound(q)'
<1>1. at'[q] = at[q] /\ found'[q] = found[q] /\ inactive'[q] = inactive[q]
      /\ plan'[q] = plan[q] /\ token'[q] = token[q] /\ users' = users
      /\ doubtful' = doubtful
  BY DEF Alone
<1>2. Present' = Present BY <1>1 DEF Present
<1>3. ConfirmedEmail(q)' <=> ConfirmedEmail(q) BY <1>1 DEF ConfirmedEmail
<1>4. KeysOfToken(q)' BY <1>1, <1>3 DEF Sound, KeysOfToken
<1>5. ReleasesInactive(q)' BY <1>1 DEF Sound, ReleasesInactive
<1>6. MatchedByContact(q)' BY <1>1, <1>3 DEF Sound, MatchedByContact, MayLink, ByContact, Strangers, Person
<1>7. PlanShape(q)' BY <1>1 DEF Sound, PlanShape
<1>8. InsertIsNew(q)' BY <1>1, <1>2 DEF Sound, InsertIsNew
<1>9. HasRow(q)' BY <1>1 DEF Sound, HasRow, Kept, HasKeyOf, Person
<1> QED BY <1>4, <1>5, <1>6, <1>7, <1>8, <1>9 DEF Sound

(* A session that is over holds a plan no longer. *)
LEMMA EndedIsSound ==
  ASSUME TypeOK, NEW r \in Requests, NEW step \in Ended, NEW u \in Rows \cup {NoRow},
         Discard(r, step, u),
         step = "served" /\ r \notin Closers => (Kept(r))'
  PROVE  Sound(r)'
<1>1. at'[r] = step /\ found'[r] = u /\ inactive'[r] = NoRow /\ plan'[r] = EmptyPlan
  BY DEF TypeOK, Discard, Become, Find, Forget
<1>2. KeysOfToken(r)' BY <1>1 DEF KeysOfToken, EmptyPlan
<1>3. ReleasesInactive(r)' BY <1>1 DEF ReleasesInactive, EmptyPlan
<1>4. MatchedByContact(r)' BY <1>1 DEF MatchedByContact, EmptyPlan, Ended
<1>5. PlanShape(r)' BY <1>1 DEF PlanShape, EmptyPlan, Ended
<1>6. InsertIsNew(r)' BY <1>1 DEF InsertIsNew, EmptyPlan
<1>7. HasRow(r)' BY <1>1 DEF HasRow, EmptyPlan, Ended
<1> QED BY <1>2, <1>3, <1>4, <1>5, <1>6, <1>7 DEF Sound

LEMMA NoPlanBefore ==
  ASSUME NEW r \in Requests, Sound(r), at[r] \notin {"flush", "move", "flushed"}
  PROVE  plan[r].kind = "none"
BY DEF Sound, PlanShape

-----------------------------------------------------------------------------
(* Each step keeps what its own session has in hand sound. *)

LEMMA HotLookupSound ==
  ASSUME TypeOK, NEW r \in Requests, Sound(r), HotLookup(r)
  PROVE  Sound(r)'
<1>1. plan[r].kind = "none" BY NoPlanBefore DEF HotLookup
<1>2. users' = users /\ doubtful' = doubtful /\ token' = token /\ inactive' = inactive /\ plan' = plan
  BY DEF HotLookup
<1>3. at'[r] = "served" => Kept(r)'
  <2>1. SUFFICES ASSUME NEW u \in ByAccount(token[r].sid) \cap Active, Find(r, u)
                 PROVE  Kept(r)'
    BY DEF HotLookup, TypeOK, Become
  <2>2. found'[r] = u BY <2>1 DEF Find, TypeOK
  <2>3. u \in Rows /\ users[u].sid = token[r].sid /\ users[u].state = "active"
    BY LookupsFindRows DEF Active
  <2>4. token[r].sid \in Accounts BY TokenType DEF Token
  <2> QED BY <1>2, <2>2, <2>3, <2>4 DEF Kept, HasKeyOf, Person
<1>4. at'[r] \in {"served", "lock"} BY DEF HotLookup, TypeOK, Become
<1>5. KeysOfToken(r)' /\ ReleasesInactive(r)'
  BY <1>2 DEF Sound, KeysOfToken, ReleasesInactive, ConfirmedEmail
<1>6. MatchedByContact(r)' /\ PlanShape(r)' /\ InsertIsNew(r)'
  BY <1>1, <1>2, <1>4 DEF MatchedByContact, PlanShape, InsertIsNew
<1>7. HasRow(r)' BY <1>3, <1>4 DEF HasRow
<1> QED BY <1>5, <1>6, <1>7 DEF Sound

LEMMA AccountLookupSound ==
  ASSUME TypeOK, NEW r \in Requests, Sound(r), Lock(r) \/ AccountLookup(r)
  PROVE  Sound(r)'
<1>1. plan[r].kind = "none" BY NoPlanBefore DEF Lock, AccountLookup
<1>2. users' = users /\ doubtful' = doubtful /\ token' = token /\ plan' = plan
  BY DEF Lock, AccountLookup, session
<1>3. at'[r] = "flushed" => Kept(r)'
  <2>1. SUFFICES ASSUME NEW u \in ByAccount(token[r].sid), Find(r, u)
                 PROVE  Kept(r)'
    BY DEF Lock, AccountLookup, TypeOK, Become
  <2>2. found'[r] = u BY <2>1 DEF Find, TypeOK
  <2>3. u \in Rows /\ users[u].sid = token[r].sid /\ users[u].state # "absent"
    BY LookupsFindRows
  <2>4. token[r].sid \in Accounts BY TokenType DEF Token
  <2> QED BY <1>2, <2>2, <2>3, <2>4 DEF Kept, HasKeyOf, Person
<1>4. /\ at'[r] \in {"account", "flushed", "transfer", "email"}
      /\ at'[r] = "transfer" => token[r].phone # Nobody
  BY DEF Lock, AccountLookup, TypeOK, Become
<1>5. inactive'[r] # NoRow => users[inactive'[r]].state = "inactive"
  <2>1. CASE inactive' = inactive BY <2>1 DEF Sound, ReleasesInactive
  <2>2. CASE inactive' # inactive
    <3>1. PICK u \in ByAccount(token[r].sid) : u \notin Active /\ inactive' = [inactive EXCEPT ![r] = u]
      BY <2>2 DEF Lock, AccountLookup, session
    <3>2. u \in Rows /\ users[u] \in Row /\ users[u].state # "absent" BY LookupsFindRows DEF TypeOK
    <3> QED BY <3>1, <3>2 DEF Active, Row, TypeOK
  <2> QED BY <2>1, <2>2
<1>6. KeysOfToken(r)' BY <1>2 DEF Sound, KeysOfToken, ConfirmedEmail
<1>7. ReleasesInactive(r)' BY <1>2, <1>5 DEF Sound, ReleasesInactive
<1>8. MatchedByContact(r)' /\ PlanShape(r)' /\ InsertIsNew(r)'
  BY <1>1, <1>2, <1>4 DEF MatchedByContact, PlanShape, InsertIsNew
<1>9. HasRow(r)' BY <1>3, <1>4 DEF HasRow
<1> QED BY <1>6, <1>7, <1>8, <1>9 DEF Sound

LEMMA PhoneMatches ==
  ASSUME TypeOK, NEW p \in Phones, NEW u \in ByPhone(p)
  PROVE  u \in Rows /\ users[u].state # "absent" /\ SameNumber(u, p)
<1>1. u \in Rows /\ users[u].state # "absent" BY LookupsFindRows
<1>2. users[u].phone = p \/ SameNumber(u, p) BY FirstIsMatch DEF ByPhone, Present
<1> QED BY <1>1, <1>2 DEF SameNumber

LEMMA MatchSound ==
  ASSUME TypeOK, NEW r \in Requests, Sound(r), EmailLookup(r) \/ PhoneLookup(r)
  PROVE  Sound(r)'
<1>1. plan[r].kind = "none" BY NoPlanBefore DEF EmailLookup, PhoneLookup
<1>2. users' = users /\ doubtful' = doubtful /\ token' = token BY DEF EmailLookup, PhoneLookup, End, Discard
<1>3. ASSUME NEW u \in Rows, users[u].state # "absent", MayLink(r, u), Load(r, u),
             Become(r, "merge"), UNCHANGED <<inactive, plan>>
      PROVE  Sound(r)'
  <2>1. found'[r] = u /\ at'[r] = "merge" /\ inactive'[r] = inactive[r] /\ plan'[r] = plan[r]
    BY <1>3 DEF Load, Find, Become, TypeOK
  <2>2. MayLink(r, u)' BY <1>2, <1>3 DEF MayLink, ByContact, Strangers, Person
  <2>3. MatchedByContact(r)' BY <1>2, <1>3, <2>1, <2>2 DEF MatchedByContact, MayLink, ByContact, Strangers, Person
  <2>4. KeysOfToken(r)' /\ ReleasesInactive(r)'
    BY <1>2, <2>1 DEF Sound, KeysOfToken, ReleasesInactive, ConfirmedEmail
  <2>5. PlanShape(r)' /\ InsertIsNew(r)' /\ HasRow(r)'
    BY <1>1, <2>1 DEF PlanShape, InsertIsNew, HasRow
  <2> QED BY <2>3, <2>4, <2>5 DEF Sound
<1>4. CASE EmailLookup(r) /\ at'[r] = "merge"
  <2>1. PICK u \in ByEmail(token[r].email) :
          ConfirmedEmail(r) /\ Load(r, u) /\ Become(r, "merge")
    BY <1>4 DEF EmailLookup, Become, TypeOK
  <2>2. u \in Rows /\ users[u].state # "absent" /\ MayLink(r, u)
    BY <2>1, LookupsFindRows, ContactsAreMine DEF ByContact, MayLink
  <2> QED BY <1>3, <1>4, <2>1, <2>2 DEF EmailLookup
<1>5. CASE PhoneLookup(r) /\ at'[r] = "merge"
  <2>1. PICK u \in ByPhone(token[r].phone) :
          token[r].phone # Nobody /\ Load(r, u) /\ Become(r, "merge") /\ UNCHANGED <<inactive, plan>>
    BY <1>5 DEF PhoneLookup, End, Discard, Become, TypeOK
  <2>2. token[r].phone \in Phones BY <2>1, TokenType DEF Token
  <2>3. u \in Rows /\ users[u].state # "absent" /\ MayLink(r, u)
    BY <2>1, <2>2, PhoneMatches, ContactsAreMine DEF ByContact, MayLink, SameNumber
  <2> QED BY <1>3, <2>1, <2>3
<1>6. CASE EmailLookup(r) /\ at'[r] # "merge"
  <2>1. at'[r] = "phone" /\ UNCHANGED <<found, inactive, plan>>
    BY <1>6 DEF EmailLookup, Become, TypeOK
  <2>2. KeysOfToken(r)' /\ ReleasesInactive(r)'
    BY <1>2, <2>1 DEF Sound, KeysOfToken, ReleasesInactive, ConfirmedEmail
  <2>3. MatchedByContact(r)' /\ PlanShape(r)' /\ InsertIsNew(r)' /\ HasRow(r)'
    BY <1>1, <2>1 DEF MatchedByContact, PlanShape, InsertIsNew, HasRow
  <2> QED BY <2>2, <2>3 DEF Sound
<1>7. CASE PhoneLookup(r) /\ at'[r] = "flush"
  <2> DEFINE p == [kind |-> "insert", row |-> NoRow, sid |-> token[r].sid,
                   email |-> IF ConfirmedEmail(r) THEN token[r].email ELSE Nobody,
                   phone |-> token[r].phone, release |-> inactive[r]]
  <2>1. plan' = [plan EXCEPT ![r] = p] /\ UNCHANGED <<found, inactive>>
    BY <1>7 DEF PhoneLookup, End, Discard, Become, TypeOK
  <2>2. plan'[r] = p BY <2>1 DEF TypeOK
  <2>3. KeysOfToken(r)' BY <1>2, <2>2 DEF KeysOfToken, ConfirmedEmail
  <2>4. ReleasesInactive(r)' BY <1>2, <2>1, <2>2 DEF Sound, ReleasesInactive
  <2>5. MatchedByContact(r)' /\ PlanShape(r)' /\ InsertIsNew(r)' /\ HasRow(r)'
    BY <1>2, <1>7, <2>2 DEF MatchedByContact, PlanShape, InsertIsNew, HasRow
  <2> QED BY <2>3, <2>4, <2>5 DEF Sound
<1>8. CASE PhoneLookup(r) /\ at'[r] \notin {"merge", "flush"}
  <2>1. End(r, "failed", NoRow) BY <1>8 DEF PhoneLookup, Become, TypeOK
  <2> QED BY <2>1, EndedIsSound DEF End, Ended
<1> QED BY <1>4, <1>5, <1>6, <1>7, <1>8

LEMMA TransferSound ==
  ASSUME TypeOK, NEW r \in Requests, Sound(r), Transfer(r)
  PROVE  Sound(r)'
<1>1. plan[r].kind = "none" BY NoPlanBefore DEF Transfer
<1>2. users' = users /\ doubtful' = doubtful /\ token' = token /\ inactive' = inactive BY DEF Transfer
<1>3. CASE at'[r] = "email" /\ UNCHANGED <<found, plan>>
  <2>1. KeysOfToken(r)' /\ ReleasesInactive(r)'
    BY <1>2, <1>3 DEF Sound, KeysOfToken, ReleasesInactive, ConfirmedEmail
  <2>2. MatchedByContact(r)' /\ PlanShape(r)' /\ InsertIsNew(r)' /\ HasRow(r)'
    BY <1>1, <1>3 DEF MatchedByContact, PlanShape, InsertIsNew, HasRow
  <2> QED BY <2>1, <2>2 DEF Sound
<1>4. ASSUME NEW u \in Active, SameNumber(u, token[r].phone), Find(r, u), Become(r, "move"),
             plan' = [plan EXCEPT ![r] = IF users[u].sid = token[r].sid THEN EmptyPlan
                                         ELSE TakeOver(u, token[r].sid, inactive[r])]
      PROVE  Sound(r)'
  <2>1. found'[r] = u /\ at'[r] = "move" BY <1>4 DEF Find, Become, TypeOK
  <2>2. u \in Rows /\ users[u].state = "active" BY DEF Active
  <2>3. CASE users[u].sid = token[r].sid
    <3>1. plan'[r] = EmptyPlan BY <1>4, <2>3 DEF TypeOK
    <3>2. token[r].sid \in Accounts BY TokenType DEF Token
    <3>3. Kept(r)' BY <1>2, <2>1, <2>2, <2>3, <3>2 DEF Kept, HasKeyOf, Person
    <3>4. KeysOfToken(r)' /\ ReleasesInactive(r)'
      BY <1>2, <3>1 DEF Sound, KeysOfToken, ReleasesInactive, EmptyPlan
    <3>5. MatchedByContact(r)' /\ PlanShape(r)' /\ InsertIsNew(r)' /\ HasRow(r)'
      BY <2>1, <3>1, <3>3 DEF MatchedByContact, PlanShape, InsertIsNew, HasRow, EmptyPlan
    <3> QED BY <3>4, <3>5 DEF Sound
  <2>4. CASE users[u].sid # token[r].sid
    <3>1. plan'[r] = TakeOver(u, token[r].sid, inactive[r]) BY <1>4, <2>4 DEF TypeOK
    <3>2. KeysOfToken(r)' /\ ReleasesInactive(r)'
      BY <1>2, <3>1 DEF Sound, KeysOfToken, ReleasesInactive, TakeOver
    <3>3. token[r].phone # Nobody BY DEF Sound, PlanShape, Transfer
    <3>4. MayLink(r, u)
      BY <1>4, <3>3, ContactsAreMine DEF ByContact, MayLink, SameNumber
    <3>5. MatchedByContact(r)'
      BY <1>2, <2>1, <2>2, <3>4 DEF MatchedByContact, MayLink, ByContact, Strangers, Person
    <3>6. PlanShape(r)' /\ InsertIsNew(r)' /\ HasRow(r)'
      BY <2>1, <3>1 DEF PlanShape, InsertIsNew, HasRow, TakeOver
    <3> QED BY <3>2, <3>5, <3>6 DEF Sound
  <2> QED BY <2>3, <2>4
<1>5. CASE \E u \in Active : SameNumber(u, token[r].phone) /\ Find(r, u) /\ Become(r, "move")
             /\ plan' = [plan EXCEPT ![r] = IF users[u].sid = token[r].sid THEN EmptyPlan
                                            ELSE TakeOver(u, token[r].sid, inactive[r])]
  BY <1>4, <1>5
<1>6. CASE Become(r, "email") /\ UNCHANGED <<found, plan>>
  BY <1>3, <1>6 DEF Become, TypeOK
<1> QED BY <1>5, <1>6 DEF Transfer

LEMMA MergeSound ==
  ASSUME TypeOK, NEW r \in Requests, Sound(r), Merge(r)
  PROVE  Sound(r)'
<1>1. /\ users' = users /\ doubtful' = doubtful /\ token' = token /\ inactive' = inactive
      /\ found' = found /\ at'[r] \in {"move", "flush"}
  BY DEF Merge, Become, TypeOK
<1>2. found[r] \in Rows /\ users[found[r]].state # "absent" /\ MayLink(r, found[r])
  BY DEF Merge, Sound, MatchedByContact
<1>3. plan'[r] = IF ~again[r] THEN LinkPlan(r) ELSE TakeOver(found[r], LinkPlan(r).sid, NoRow)
  BY DEF Merge, TypeOK
<1>4. plan'[r].kind = "update" /\ plan'[r].row = found[r]
  BY <1>3 DEF LinkPlan, TakeOver
<1>5. plan'[r].release \in {inactive[r], NoRow} BY <1>3 DEF LinkPlan, TakeOver
<1>6. /\ plan'[r].sid \in {Nobody, token[r].sid}
      /\ plan'[r].email # Nobody => ConfirmedEmail(r) /\ plan'[r].email = token[r].email
      /\ plan'[r].phone \in {Nobody, token[r].phone}
  BY <1>3 DEF LinkPlan, TakeOver
<1>7. KeysOfToken(r)' BY <1>1, <1>6 DEF KeysOfToken, ConfirmedEmail
<1>8. ReleasesInactive(r)' BY <1>1, <1>5 DEF Sound, ReleasesInactive
<1>9. MatchedByContact(r)'
  BY <1>1, <1>2 DEF MatchedByContact, MayLink, ByContact, Strangers, Person
<1>10. PlanShape(r)' /\ InsertIsNew(r)' /\ HasRow(r)'
  BY <1>1, <1>4 DEF PlanShape, InsertIsNew, HasRow
<1> QED BY <1>7, <1>8, <1>9, <1>10 DEF Sound

LEMMA NextIdIsNew ==
  ASSUME NEW u \in Rows, IsNext(u)
  PROVE  u \notin Present /\ \A q \in Flushed : u # plan[q].row
BY DEF IsNext, Taken, Rows

LEMMA LandSound ==
  ASSUME TypeOK, NEW r \in Requests, Sound(r), Land(r), ~Conflicts(plan[r]),
         at[r] \in {"flush", "move"}, UNCHANGED <<users, doubtful, token, inactive>>
  PROVE  Sound(r)'
<1>1. at'[r] = "flushed" BY DEF Land, Become, TypeOK
<1>2. CASE plan[r].kind # "insert"
  <2>1. UNCHANGED <<plan, found>> BY <1>2 DEF Land
  <2>2. KeysOfToken(r)' /\ ReleasesInactive(r)'
    BY <2>1 DEF Sound, KeysOfToken, ReleasesInactive, ConfirmedEmail
  <2>3. MatchedByContact(r)'
    BY <1>1, <2>1 DEF Sound, MatchedByContact, MayLink, ByContact, Strangers, Person
  <2>4. PlanShape(r)' /\ InsertIsNew(r)' BY <1>1, <1>2, <2>1 DEF Sound, PlanShape, InsertIsNew
  <2>5. HasRow(r)'
    <3>2. plan[r].kind = "none" => Kept(r)
      BY DEF Sound, HasRow, PlanShape
    <3> QED BY <1>1, <2>1, <3>2 DEF HasRow, Kept, HasKeyOf, Person
  <2> QED BY <2>2, <2>3, <2>4, <2>5 DEF Sound
<1>3. CASE plan[r].kind = "insert"
  <2>1. PICK u \in Rows : IsNext(u) /\ plan' = [plan EXCEPT ![r].row = u]
                          /\ found' = [found EXCEPT ![r] = u]
    BY <1>3 DEF Land
  <2>2. /\ found'[r] = u /\ plan'[r].row = u /\ plan'[r].kind = "insert"
        /\ plan'[r].sid = plan[r].sid /\ plan'[r].email = plan[r].email
        /\ plan'[r].phone = plan[r].phone /\ plan'[r].release = plan[r].release
    BY <1>3, <2>1 DEF TypeOK, Plan
  <2>3. KeysOfToken(r)' /\ ReleasesInactive(r)'
    BY <2>2 DEF Sound, KeysOfToken, ReleasesInactive, ConfirmedEmail
  <2>4. MatchedByContact(r)' /\ PlanShape(r)' /\ HasRow(r)'
    BY <1>1, <1>3, <2>2 DEF Sound, MatchedByContact, PlanShape, HasRow
  <2>5. users[u].state = "absent" BY <2>1, NextIdIsNew DEF Present
  <2>6. \A v \in Present : users[v].sid # token[r].sid
    <3> SUFFICES ASSUME NEW v \in Present, users[v].sid = token[r].sid PROVE FALSE
      OBVIOUS
    <3>1. plan[r].sid = token[r].sid /\ token[r].sid # Nobody
      BY <1>3, TokenType, UserSyncAssumption DEF Sound, PlanShape, Token, UserSyncAssumption
    <3>2. Clash(users[v], Target(plan[r])) BY <1>3, <3>1 DEF Clash, Target, Inserted
    <3>3. v # plan[r].row
      BY <1>3 DEF Sound, PlanShape, Present, Rows, NoRow
    <3> QED BY <1>3, <3>2, <3>3 DEF Conflicts
  <2>7. InsertIsNew(r)' BY <2>2, <2>5, <2>6 DEF InsertIsNew, Present
  <2> QED BY <2>3, <2>4, <2>7 DEF Sound
<1> QED BY <1>2, <1>3

LEMMA FlushSound ==
  ASSUME TypeOK, NEW r \in Requests, Sound(r), Flush(r) \/ Move(r)
  PROVE  Sound(r)'
<1>1. CASE ~Conflicts(plan[r])
  BY <1>1, LandSound DEF Flush, Move
<1>2. CASE Flush(r) /\ Conflicts(plan[r])
  <2>1. at'[r] = "account" /\ plan'[r] = EmptyPlan /\ inactive'[r] = NoRow
    BY <1>2 DEF Flush, Become, Forget, TypeOK
  <2>2. KeysOfToken(r)' /\ ReleasesInactive(r)'
    BY <2>1 DEF KeysOfToken, ReleasesInactive, EmptyPlan
  <2>3. MatchedByContact(r)' /\ PlanShape(r)' /\ InsertIsNew(r)' /\ HasRow(r)'
    BY <2>1 DEF MatchedByContact, PlanShape, InsertIsNew, HasRow, EmptyPlan
  <2> QED BY <2>2, <2>3 DEF Sound
<1>3. CASE Move(r) /\ Conflicts(plan[r])
  <2>1. End(r, "failed", NoRow) BY <1>3 DEF Move
  <2> QED BY <2>1, EndedIsSound DEF End, Ended
<1> QED BY <1>1, <1>2, <1>3

LEMMA EndSound ==
  ASSUME TypeOK, NEW r \in Requests, Sound(r), Close(r) \/ Drop(r) \/ DeleteAccount(r)
  PROVE  Sound(r)'
<1>1. CASE Close(r)
  <2>1. End(r, "served", found[r]) /\ r \in Closers BY <1>1 DEF Close
  <2>2. found[r] \in Rows \cup {NoRow} BY DEF TypeOK
  <2> QED BY <2>1, <2>2, EndedIsSound DEF End, Ended
<1>2. CASE Drop(r)
  BY <1>2, EndedIsSound DEF Drop, End, Ended
<1>3. CASE DeleteAccount(r)
  <2>1. at'[r] = "deleted" /\ UNCHANGED <<users, doubtful, token, found, inactive, plan>>
    BY <1>3 DEF DeleteAccount, Become, session, TypeOK
  <2>2. plan[r].kind = "none" BY <1>3, NoPlanBefore DEF DeleteAccount
  <2>3. KeysOfToken(r)' /\ ReleasesInactive(r)'
    BY <2>1 DEF Sound, KeysOfToken, ReleasesInactive, ConfirmedEmail
  <2>4. MatchedByContact(r)' /\ PlanShape(r)' /\ InsertIsNew(r)' /\ HasRow(r)'
    BY <2>1, <2>2 DEF MatchedByContact, PlanShape, InsertIsNew, HasRow
  <2> QED BY <2>3, <2>4 DEF Sound
<1> QED BY <1>1, <1>2, <1>3

-----------------------------------------------------------------------------
(* Flushed plans stay apart. *)

LEMMA ApartWhenNothingLands ==
  ASSUME NEW r \in Requests, Alone(r), Apart, at'[r] # "flushed" \/ plan'[r].kind = "none"
  PROVE  Apart'
<1>1. \A q \in Requests \ {r} : at'[q] = at[q] /\ plan'[q] = plan[q] BY DEF Alone
<1>2. \A q \in Flushed' : q \in Flushed /\ q # r /\ plan'[q] = plan[q]
  BY <1>1 DEF Flushed
<1> QED BY <1>2 DEF Apart

LEMMA ApartWhenPlanLands ==
  ASSUME TypeOK, Apart, NEW r \in Requests, \A q \in Requests : Sound(q),
         Alone(r), Land(r), ~Waits(r), plan[r].kind # "none"
  PROVE  Apart'
<1>1. \A q \in Requests \ {r} : at'[q] = at[q] /\ plan'[q] = plan[q] BY DEF Alone
<1>2. plan'[r].kind = plan[r].kind /\ plan'[r].sid = plan[r].sid
  BY DEF Land, TypeOK, Plan
<1>3. Flushed' = Flushed \cup {r}
  BY <1>1, <1>2 DEF Flushed, Land, Become, TypeOK
<1>4. ASSUME NEW q \in Flushed, q # r, plan[q].kind = "insert" \/ plan[r].kind = "insert"
      PROVE  plan'[q].row # plan'[r].row /\ plan'[q].sid # plan'[r].sid
  <2>1. q \in Requests /\ plan'[q] = plan[q] /\ plan[q] \in Plan /\ at[q] = "flushed"
        /\ plan[q].kind # "none"
    BY <1>1, <1>4 DEF Flushed, TypeOK
  <2>2. plan[q].row \in Rows /\ plan[q].row \in Writes(plan[q])
    BY <2>1 DEF Sound, InsertIsNew, MatchedByContact, PlanShape, Writes, Rows, NoRow, Plan
  <2>3. ~Clash(Apply(plan[q])[plan[q].row], Target(plan[r])) /\ plan[q].row \notin Writes(plan[r])
    BY <1>4, <2>2 DEF Waits
  <2>4. Apply(plan[q])[plan[q].row] = Target(plan[q]) BY <2>1, <2>2 DEF Apply
  <2>5. plan[q].row # plan'[r].row
    <3>1. CASE plan[r].kind = "insert"
      <4>1. PICK u \in Rows : IsNext(u) /\ plan' = [plan EXCEPT ![r].row = u]
        BY <3>1 DEF Land
      <4>2. plan'[r].row = u BY <4>1 DEF TypeOK, Plan
      <4> QED BY <1>4, <4>1, <4>2, NextIdIsNew
    <3>2. CASE plan[r].kind = "update"
      <4>1. plan' = plan BY <3>2 DEF Land
      <4>2. plan[r].row \in Rows BY <3>2 DEF Sound, MatchedByContact, PlanShape
      <4> QED BY <2>2, <2>3, <4>1, <4>2 DEF Writes, Rows, NoRow
    <3> QED BY <3>1, <3>2 DEF TypeOK, Plan
  <2>6. plan[q].sid # plan[r].sid
    <3> SUFFICES ASSUME plan[q].sid = plan[r].sid PROVE FALSE OBVIOUS
    <3>1. plan[q].sid # Nobody
      <4>1. \A x \in {q, r} : plan[x].kind = "insert" => plan[x].sid = token[x].sid
        BY <2>1 DEF Sound, PlanShape
      <4>2. \A x \in {q, r} : token[x].sid \in Accounts BY <2>1, ContactsAreMine
      <4> QED BY <1>4, <4>1, <4>2, UserSyncAssumption DEF UserSyncAssumption
    <3>2. \A x \in {q, r} : Target(plan[x]).sid = plan[x].sid
      <4>1. \A x \in {q, r} : plan[x] \in Plan /\ plan[x].kind \in {"insert", "update"}
        BY <2>1 DEF TypeOK, Plan
      <4> QED BY <3>1, <4>1 DEF Target, Inserted, Updated
    <3> QED BY <2>3, <2>4, <3>1, <3>2 DEF Clash
  <2> QED BY <1>2, <2>1, <2>5, <2>6
<1>5. \A q \in Flushed \ {r} : plan'[q] = plan[q] BY <1>1 DEF Flushed
<1> QED BY <1>2, <1>3, <1>4, <1>5 DEF Apart

LEMMA ApartAfterFlush ==
  ASSUME TypeOK, Apart, NEW r \in Requests, \A q \in Requests : Sound(q), Flush(r) \/ Move(r)
  PROVE  Apart'
<1>1. Alone(r) BY FlushesAreLocal
<1>2. CASE Conflicts(plan[r])
  <2>1. at'[r] \in {"account", "failed"}
    BY <1>2 DEF Flush, Move, End, Discard, Become, TypeOK
  <2> QED BY <1>1, <2>1, ApartWhenNothingLands
<1>3. CASE ~Conflicts(plan[r]) /\ plan[r].kind # "none"
  BY <1>1, <1>3, ApartWhenPlanLands DEF Flush, Move
<1>4. CASE ~Conflicts(plan[r]) /\ plan[r].kind = "none"
  <2>1. plan' = plan BY <1>4 DEF Flush, Move, Land
  <2> QED BY <1>1, <1>4, <2>1, ApartWhenNothingLands
<1> QED BY <1>2, <1>3, <1>4

-----------------------------------------------------------------------------
(* What a commit does to the table. *)

(* All keys of a row are p's: what OnePerson says once one of them is.     *)
AllOf(row, p) == /\ row.sid \in Accounts => PersonOf[row.sid] = p
                 /\ row.email \in Emails => PersonOf[row.email] = p
                 /\ row.phone \in Phones => PersonOf[row.phone] = p

LEMMA ContactOwnsRow ==
  ASSUME NEW r \in Requests, NEW u, ByContact(r, u), OnePerson(users[u])
  PROVE  AllOf(users[u], Person(r))
BY DEF ByContact, OnePerson, AllOf

LEMMA PersonIsPerson ==
  ASSUME TypeOK, NEW r \in Requests PROVE Person(r) \in People
BY ContactsAreMine, UserSyncAssumption DEF Person, UserSyncAssumption

(* The written row gets keys of the request's person only, but for a       *)
(* stranger's number.                                                      *)
LEMMA WrittenRow ==
  ASSUME TypeOK, RowsBelongToOnePerson, NEW r \in Requests, Sound(r), plan[r].kind # "none"
  PROVE  /\ plan[r].kind = "insert" =>
              /\ Target(plan[r]).sid = token[r].sid
              /\ Target(plan[r]).state = "active"
         /\ plan[r].kind = "update" =>
              /\ plan[r].row \in Rows
              /\ users[plan[r].row].state # "absent"
              /\ Target(plan[r]).state = users[plan[r].row].state
<1> DEFINE p == plan[r]
<1>1. CASE p.kind = "insert"
  <2>1. Target(p) = Inserted(p) BY <1>1 DEF Target
  <2>2. p.sid = token[r].sid BY <1>1 DEF Sound, PlanShape
  <2> QED BY <1>1, <2>1, <2>2 DEF Inserted
<1>2. CASE p.kind = "update"
  <2>1. p.row \in Rows /\ users[p.row].state # "absent"
    BY <1>2 DEF Sound, MatchedByContact, PlanShape
  <2>2. Target(p) = Updated(users[p.row], p) BY <1>2 DEF Target
  <2> QED BY <1>2, <2>1, <2>2 DEF Updated
<1>3. p.kind \in {"insert", "update"} BY DEF TypeOK, Plan
<1> QED BY <1>1, <1>2, <1>3

LEMMA WrittenKeys ==
  ASSUME TypeOK, RowsBelongToOnePerson, NEW r \in Requests, Sound(r), plan[r].kind # "none",
         ~Strangers(r), plan[r].kind = "update" => plan[r].row \notin doubtful
  PROVE  /\ AllOf(Target(plan[r]), Person(r))
         /\ plan[r].kind = "update" =>
              /\ ByContact(r, plan[r].row)
              /\ \/ Target(plan[r]).email \in Emails /\ PersonOf[Target(plan[r]).email] = Person(r)
                 \/ Target(plan[r]).phone \in Phones /\ PersonOf[Target(plan[r]).phone] = Person(r)
<1> DEFINE p == plan[r]
<1>1. /\ p.sid \in {Nobody, token[r].sid}
      /\ p.email # Nobody => p.email \in Emails /\ PersonOf[p.email] = Person(r)
      /\ p.phone # Nobody => p.phone \in Phones /\ PersonOf[p.phone] = Person(r)
  BY ContactsAreMine DEF Sound, KeysOfToken
<1>2. PersonOf[token[r].sid] = Person(r) BY DEF Person
<1>3. Nobody \notin Accounts /\ Nobody \notin Emails /\ Nobody \notin Phones
  BY UserSyncAssumption DEF UserSyncAssumption
<1>4. CASE p.kind = "insert"
  <2>1. Target(p) = Inserted(p) BY <1>4 DEF Target
  <2>2. AllOf(Target(p), Person(r)) BY <1>1, <1>2, <1>3, <2>1 DEF AllOf, Inserted
  <2> QED BY <1>4, <2>2
<1>5. CASE p.kind = "update"
  <2>1. p.row \in Rows /\ ByContact(r, p.row)
    BY <1>5 DEF Sound, MatchedByContact, PlanShape, MayLink
  <2>2. AllOf(users[p.row], Person(r))
    BY <1>5, <2>1, ContactOwnsRow DEF RowsBelongToOnePerson
  <2>3. Target(p) = Updated(users[p.row], p) BY <1>5 DEF Target
  <2>4. AllOf(Target(p), Person(r)) BY <1>1, <1>2, <1>3, <2>2, <2>3 DEF AllOf, Updated
  <2>5. \/ Target(p).email \in Emails /\ PersonOf[Target(p).email] = Person(r)
        \/ Target(p).phone \in Phones /\ PersonOf[Target(p).phone] = Person(r)
    BY <1>1, <2>1, <2>3 DEF Updated, ByContact
  <2> QED BY <1>5, <2>1, <2>4, <2>5
<1>6. p.kind \in {"insert", "update"} BY DEF TypeOK, Plan
<1> QED BY <1>4, <1>5, <1>6

(* Doubts never go away, and what a stranger's number writes is doubtful.  *)
LEMMA DoubtsGrow ==
  ASSUME NEW r \in Requests, Commit(r)
  PROVE  /\ token' = token /\ doubtful \subseteq doubtful'
         /\ plan[r].kind # "none" /\ Strangers(r) => plan[r].row \in doubtful'
BY DEF Commit, End, Discard

LEMMA CommittedRow ==
  ASSUME TypeOK, NEW r \in Requests, Sound(r), Commit(r), plan[r].kind # "none", NEW u \in Rows
  PROVE  \/ u = plan[r].row /\ users'[u] = Target(plan[r])
         \/ /\ u # plan[r].row /\ u = plan[r].release
            /\ users'[u] = [users[u] EXCEPT !.sid = Nobody]
            /\ users[u].state = "inactive"
         \/ u # plan[r].row /\ users'[u] = users[u]
<1>1. plan[r].release # NoRow => users[plan[r].release].state = "inactive"
  BY DEF Sound, ReleasesInactive
<1>2. u # NoRow BY DEF Rows, NoRow
<1> QED BY <1>1, <1>2 DEF Commit, Apply

LEMMA ReleasedRow ==
  ASSUME TypeOK, NEW u \in Rows, users'[u] = [users[u] EXCEPT !.sid = Nobody]
  PROVE  /\ users'[u].state = users[u].state /\ users'[u].sid = Nobody
         /\ users'[u].email = users[u].email /\ users'[u].phone = users[u].phone
<1>1. users[u] \in Row BY DEF TypeOK
<1> QED BY <1>1 DEF Row

LEMMA StatesAfterCommit ==
  ASSUME TypeOK, RowsBelongToOnePerson, NEW r \in Requests, Sound(r), Commit(r), NEW u \in Rows
  PROVE  \/ users'[u].state = users[u].state
         \/ plan[r].kind = "insert" /\ u = plan[r].row /\ users[u].state = "absent"
            /\ users'[u].state = "active"
<1>1. CASE plan[r].kind = "none" BY <1>1 DEF Commit, Apply
<1>2. CASE plan[r].kind # "none"
  <2>1. plan[r].kind = "insert" => users[plan[r].row].state = "absent"
    BY DEF Sound, InsertIsNew, Commit
  <2>2. plan[r].kind \in {"insert", "update"} BY <1>2 DEF TypeOK, Plan
  <2> QED BY <1>2, <2>1, <2>2, CommittedRow, WrittenRow, ReleasedRow
<1> QED BY <1>1, <1>2

LEMMA CommitKeepsRowsOfOnePerson ==
  ASSUME TypeOK, RowsBelongToOnePerson, NEW r \in Requests, Sound(r), Commit(r)
  PROVE  RowsBelongToOnePerson'
<1>1. CASE plan[r].kind = "none"
  BY <1>1, DoubtsGrow DEF Commit, Apply, RowsBelongToOnePerson, OnePerson
<1>2. CASE plan[r].kind # "none"
  <2> SUFFICES ASSUME NEW u \in Rows, u \notin doubtful' PROVE OnePerson(users'[u])
    BY DEF RowsBelongToOnePerson, OnePerson
  <2>1. u \notin doubtful /\ OnePerson(users[u]) BY DoubtsGrow DEF RowsBelongToOnePerson
  <2>2. CASE u = plan[r].row /\ users'[u] = Target(plan[r])
    <3>1. ~Strangers(r) BY <1>2, <2>2, DoubtsGrow
    <3>2. AllOf(Target(plan[r]), Person(r)) BY <1>2, <2>1, <2>2, <3>1, WrittenKeys
    <3> QED BY <2>2, <3>2, PersonIsPerson DEF AllOf, OnePerson
  <2>3. CASE users'[u] = [users[u] EXCEPT !.sid = Nobody]
    BY <2>1, <2>3, ReleasedRow, UserSyncAssumption DEF OnePerson, UserSyncAssumption
  <2>4. CASE users'[u] = users[u] BY <2>1, <2>4
  <2> QED BY <1>2, <2>2, <2>3, <2>4, CommittedRow
<1> QED BY <1>1, <1>2

(* A contact of a request's row survives the commit of another. *)
LEMMA ContactsSurvive ==
  ASSUME TypeOK, RowsBelongToOnePerson, NEW r \in Requests, Sound(r), Commit(r),
         NEW q \in Requests, NEW u \in Rows, users[u].state # "absent"
  PROVE  /\ MayLink(q, u) => MayLink(q, u)'
         /\ users[u].state # "inactive" /\ (HasKeyOf(users[u], Person(q)) \/ u \in doubtful)
              => HasKeyOf(users'[u], Person(q)) \/ u \in doubtful'
<1>0. token' = token /\ doubtful \subseteq doubtful' BY DoubtsGrow
<1>1. Strangers(q)' <=> Strangers(q) BY <1>0 DEF Strangers
<1>2. SUFFICES ASSUME u \notin doubtful'
               PROVE  /\ ByContact(q, u) => ByContact(q, u)'
                      /\ users[u].state # "inactive" /\ HasKeyOf(users[u], Person(q))
                           => HasKeyOf(users'[u], Person(q))
  BY <1>0, <1>1 DEF MayLink
<1>3. u \notin doubtful BY <1>0, <1>2
<1>4. CASE plan[r].kind = "none" BY <1>0, <1>4 DEF Commit, Apply, ByContact, Person
<1>5. CASE plan[r].kind # "none" /\ u = plan[r].row
  <2>1. plan[r].kind = "update" BY <1>5 DEF Sound, InsertIsNew, Commit, TypeOK, Plan
  <2>2. ~Strangers(r) BY <1>2, <1>5, DoubtsGrow
  <2>3. users'[u] = Target(plan[r]) /\ ByContact(r, u)
        /\ \/ users'[u].email \in Emails /\ PersonOf[users'[u].email] = Person(r)
           \/ users'[u].phone \in Phones /\ PersonOf[users'[u].phone] = Person(r)
    BY <1>3, <1>5, <2>1, <2>2, CommittedRow, WrittenRow, WrittenKeys
  <2>4. AllOf(users[u], Person(r)) BY <1>3, <2>3, ContactOwnsRow DEF RowsBelongToOnePerson
  <2>5. ByContact(q, u) \/ HasKeyOf(users[u], Person(q)) => Person(q) = Person(r)
    BY <2>4 DEF ByContact, HasKeyOf, AllOf
  <2> QED BY <1>0, <2>3, <2>5 DEF ByContact, HasKeyOf, Person
<1>6. CASE plan[r].kind # "none" /\ u # plan[r].row
  <2>1. CASE users'[u] = users[u] BY <1>0, <2>1 DEF ByContact, Person
  <2>2. CASE users'[u] = [users[u] EXCEPT !.sid = Nobody] /\ users[u].state = "inactive"
    BY <1>0, <2>2, ReleasedRow DEF ByContact, Person
  <2> QED BY <1>6, <2>1, <2>2, CommittedRow
<1> QED BY <1>4, <1>5, <1>6

LEMMA CommitKeepsOthersSound ==
  ASSUME TypeOK, RowsBelongToOnePerson, Apart, NEW r \in Requests, Sound(r), Commit(r),
         NEW q \in Requests \ {r}, Sound(q)
  PROVE  Sound(q)'
<1>1. at'[q] = at[q] /\ found'[q] = found[q] /\ inactive'[q] = inactive[q]
      /\ plan'[q] = plan[q] /\ token' = token
  BY DEF Commit, End, Discard, Become, Find, Forget, TypeOK
<1>2. /\ plan[q] \in Plan /\ plan[r] \in Plan /\ found[q] \in Rows \cup {NoRow}
      /\ inactive[q] \in Rows \cup {NoRow}
  BY DEF TypeOK
<1>3. ConfirmedEmail(q)' <=> ConfirmedEmail(q) BY <1>1 DEF ConfirmedEmail
<1>4. \A u \in Rows : users[u].state # "absent" => users'[u].state = users[u].state
  BY StatesAfterCommit
<1>5. KeysOfToken(q)' BY <1>1, <1>3 DEF Sound, KeysOfToken
<1>6. ReleasesInactive(q)' BY <1>1, <1>2, <1>4 DEF Sound, ReleasesInactive, Plan
<1>7. MatchedByContact(q)'
  <2>1. ASSUME at[q] = "merge" \/ plan[q].kind = "update"
        PROVE  found[q] \in Rows /\ users'[found[q]].state # "absent" /\ MayLink(q, found[q])'
    <3>1. found[q] \in Rows /\ users[found[q]].state # "absent" /\ MayLink(q, found[q])
      BY <2>1 DEF Sound, MatchedByContact
    <3>2. MayLink(q, found[q])'
      <4> DEFINE v == found[q]
      <4>1. v' = v BY <1>1
      <4>2. \A u \in Rows : users[u].state # "absent" /\ MayLink(q, u) => MayLink(q, u)'
        BY <1>1, ContactsSurvive
      <4> QED BY <3>1, <4>1, <4>2 DEF MayLink, ByContact, Strangers, Person
    <3> QED BY <1>4, <3>1, <3>2
  <2> QED BY <1>1, <2>1 DEF MatchedByContact
<1>8. PlanShape(q)' BY <1>1 DEF Sound, PlanShape
<1>9. InsertIsNew(q)'
  <2> SUFFICES ASSUME at[q] = "flushed", plan[q].kind = "insert"
               PROVE  /\ plan[q].row \in Rows /\ found[q] = plan[q].row
                      /\ users'[plan[q].row].state = "absent"
                      /\ \A u \in Present' : users'[u].sid # token[q].sid
    BY <1>1 DEF InsertIsNew
  <2>1. /\ plan[q].row \in Rows /\ found[q] = plan[q].row
        /\ users[plan[q].row].state = "absent"
        /\ \A u \in Present : users[u].sid # token[q].sid
    BY DEF Sound, InsertIsNew
  <2>2. plan[r].kind # "none" => plan[q].row # plan[r].row /\ plan[r].sid # plan[q].sid
    BY DEF Apart, Flushed, Commit
  <2>3. users'[plan[q].row].state = "absent"
    BY <2>1, <2>2, StatesAfterCommit
  <2>4. token[q].sid \in Accounts /\ token[q].sid # Nobody /\ plan[q].sid = token[q].sid
    BY ContactsAreMine, UserSyncAssumption DEF Sound, PlanShape, UserSyncAssumption
  <2>5. ASSUME NEW u \in Rows, users'[u].state # "absent", plan[r].kind # "none"
        PROVE  users'[u].sid # token[q].sid
    <3>1. CASE users'[u] = users[u] BY <2>1, <2>5, <3>1 DEF Present
    <3>2. CASE users'[u] = [users[u] EXCEPT !.sid = Nobody]
      BY <2>4, <3>2, ReleasedRow
    <3>3. CASE u = plan[r].row /\ users'[u] = Target(plan[r])
      <4>1. CASE plan[r].kind = "insert"
        <5>1. Target(plan[r]).sid = plan[r].sid BY <4>1 DEF Target, Inserted
        <5> QED BY <2>2, <2>4, <3>3, <4>1, <5>1
      <4>2. CASE plan[r].kind = "update"
        <5>1. users[u].state # "absent" BY <3>3, <4>2, WrittenRow
        <5>2. Target(plan[r]).sid \in {plan[r].sid, users[u].sid}
          BY <3>3, <4>2 DEF Target, Updated
        <5> QED BY <2>1, <2>2, <2>4, <3>3, <4>2, <5>1, <5>2 DEF Present
      <4> QED BY <1>2, <2>5, <4>1, <4>2 DEF Plan
    <3> QED BY <2>5, <3>1, <3>2, <3>3, CommittedRow
  <2>6. plan[r].kind = "none" => users' = users BY DEF Commit, Apply
  <2> QED BY <2>1, <2>3, <2>5, <2>6 DEF Present
<1>10. HasRow(q)'
  <2>1. ASSUME Kept(q) PROVE Kept(q)'
    <3>1. found[q] \in Rows /\ users[found[q]].state # "absent"
          /\ (users[found[q]].state = "active"
                => HasKeyOf(users[found[q]], Person(q)) \/ found[q] \in doubtful)
      BY <2>1 DEF Kept
    <3>2. users'[found[q]].state = users[found[q]].state BY <1>4, <3>1
    <3>3. users[found[q]].state = "active"
            => HasKeyOf(users'[found[q]], Person(q)) \/ found[q] \in doubtful'
      BY <1>1, <3>1, ContactsSurvive
    <3> QED BY <1>1, <3>1, <3>2, <3>3 DEF Kept, HasKeyOf, Person
  <2> QED BY <1>1, <2>1 DEF Sound, HasRow
<1> QED BY <1>5, <1>6, <1>7, <1>8, <1>9, <1>10 DEF Sound

LEMMA CommitKeepsOwnSound ==
  ASSUME TypeOK, RowsBelongToOnePerson, NEW r \in Requests, Sound(r), Commit(r)
  PROVE  Sound(r)'
<1>1. PICK step \in {"served", "refused"}, u \in Rows \cup {NoRow} :
        /\ Discard(r, step, u)
        /\ step = "served" => u = found[r] /\ users'[found[r]].state = "active"
  BY DEF Commit, End, TypeOK
<1>2. ASSUME step = "served" PROVE Kept(r)'
  <2>1. found'[r] = found[r] /\ token' = token /\ users'[found[r]].state = "active"
    BY <1>1, <1>2 DEF Discard, Find, TypeOK
  <2>2. CASE plan[r].kind = "none"
    <3>1. Kept(r) /\ users' = users BY <2>2 DEF Sound, HasRow, Commit, Apply
    <3> QED BY <2>1, <3>1, DoubtsGrow DEF Kept, HasKeyOf, Person
  <2>3. CASE plan[r].kind = "insert"
    <3>1. found[r] \in Rows /\ plan[r].row = found[r]
      BY <2>3 DEF Sound, InsertIsNew, Commit
    <3>2. users'[found[r]] = Target(plan[r]) BY <2>3, <3>1, CommittedRow
    <3>3. users'[found[r]].sid = token[r].sid BY <2>3, <3>2, WrittenRow
    <3> QED BY <2>1, <3>1, <3>3, ContactsAreMine DEF Kept, HasKeyOf, Person
  <2>4. CASE plan[r].kind = "update"
    <3>1. found[r] \in Rows /\ plan[r].row = found[r]
      BY <2>4 DEF Sound, MatchedByContact, PlanShape
    <3>2. users'[found[r]] = Target(plan[r]) BY <2>4, <3>1, CommittedRow
    <3>3. CASE found[r] \in doubtful'
      BY <2>1, <3>1, <3>3 DEF Kept
    <3>4. CASE found[r] \notin doubtful'
      <4>1. ~Strangers(r) /\ plan[r].row \notin doubtful BY <2>4, <3>1, <3>4, DoubtsGrow
      <4> QED BY <2>1, <2>4, <3>1, <3>2, <4>1, WrittenKeys DEF Kept, HasKeyOf, Person
    <3> QED BY <3>3, <3>4
  <2> QED BY <2>2, <2>3, <2>4 DEF TypeOK, Plan
<1> QED BY <1>1, <1>2, EndedIsSound DEF Ended

LEMMA ApartAfterCommit ==
  ASSUME TypeOK, Apart, NEW r \in Requests, Commit(r)
  PROVE  Apart'
<1>1. \A q \in Requests \ {r} : at'[q] = at[q] /\ plan'[q] = plan[q]
  BY DEF Commit, End, Discard, Become, Forget, TypeOK
<1>2. plan'[r].kind = "none"
  BY DEF Commit, End, Discard, Forget, TypeOK, EmptyPlan
<1>3. \A q \in Flushed' : q \in Flushed /\ plan'[q] = plan[q]
  BY <1>1, <1>2 DEF Flushed
<1> QED BY <1>3 DEF Apart

LEMMA SuspendKeepsSound ==
  ASSUME TypeOK, NEW u \in Rows, Suspend(u), NEW q \in Requests, Sound(q)
  PROVE  Sound(q)'
<1>1. UNCHANGED <<doubtful, at, token, found, inactive, plan>> BY DEF Suspend, session
<1>2. \A v \in Rows : /\ users'[v].sid = users[v].sid /\ users'[v].email = users[v].email
                      /\ users'[v].phone = users[v].phone
                      /\ users'[v].state = IF v = u THEN "inactive" ELSE users[v].state
  BY DEF Suspend, TypeOK, Row
<1>3. users[u].state = "active" BY DEF Suspend, Active
<1>4. plan[q] \in Plan /\ found[q] \in Rows \cup {NoRow} /\ inactive[q] \in Rows \cup {NoRow}
  BY DEF TypeOK
<1>5. Present' = Present BY <1>2, <1>3 DEF Present
<1>6. KeysOfToken(q)' BY <1>1 DEF Sound, KeysOfToken, ConfirmedEmail
<1>7. ReleasesInactive(q)' BY <1>1, <1>2, <1>4 DEF Sound, ReleasesInactive, Plan
<1>8. MatchedByContact(q)'
  BY <1>1, <1>2 DEF Sound, MatchedByContact, MayLink, ByContact, Strangers, Person
<1>9. PlanShape(q)' BY <1>1 DEF Sound, PlanShape
<1>10. InsertIsNew(q)' BY <1>1, <1>2, <1>3, <1>5 DEF Sound, InsertIsNew, Present
<1>11. HasRow(q)'
  <2>1. Kept(q) => Kept(q)' BY <1>1, <1>2 DEF Kept, HasKeyOf, Person
  <2> QED BY <1>1, <2>1 DEF Sound, HasRow
<1> QED BY <1>6, <1>7, <1>8, <1>9, <1>10, <1>11 DEF Sound

-----------------------------------------------------------------------------
(* The invariant is inductive. *)

LEMMA InitInv == Init => Inv
<1> SUFFICES ASSUME Init PROVE Inv OBVIOUS
<1>1. TypeOK
  <2>1. users \in [Rows -> Row] BY UserSyncAssumption DEF Init, UserSyncAssumption
  <2>2. lock \in [Accounts -> Requests \cup {Nobody}] BY DEF Init
  <2>3. plan \in [Requests -> Plan] /\ seen \in [Requests -> Row]
    BY EmptyPlanType, AbsentRowType DEF Init
  <2> QED BY <2>1, <2>2, <2>3 DEF Init, TypeOK, Steps
<1>2. RowsBelongToOnePerson BY DEF Init, RowsBelongToOnePerson
<1>3. ASSUME NEW r \in Requests PROVE Sound(r)
  <2>1. at[r] = "new" /\ plan[r] = EmptyPlan /\ inactive[r] = NoRow BY DEF Init
  <2>2. KeysOfToken(r) /\ ReleasesInactive(r)
    BY <2>1 DEF KeysOfToken, ReleasesInactive, EmptyPlan
  <2>3. MatchedByContact(r) /\ PlanShape(r) /\ InsertIsNew(r) /\ HasRow(r)
    BY <2>1 DEF MatchedByContact, PlanShape, InsertIsNew, HasRow, EmptyPlan
  <2> QED BY <2>2, <2>3 DEF Sound
<1>4. Apart BY DEF Init, Apart, Flushed
<1> QED BY <1>1, <1>2, <1>3, <1>4 DEF Inv

LEMMA LocalStepInv ==
  ASSUME Inv, NEW r \in Requests, Alone(r), TypeOK', Sound(r)', Apart'
  PROVE  Inv'
<1>1. \A q \in Requests \ {r} : Sound(q)'
  BY OthersStaySound DEF Inv
<1>2. RowsBelongToOnePerson' BY DEF Inv, Alone, RowsBelongToOnePerson, OnePerson
<1> QED BY <1>1, <1>2 DEF Inv

LEMMA NextInv == Inv /\ [Next]_vars => Inv'
<1> SUFFICES ASSUME Inv, [Next]_vars PROVE Inv' OBVIOUS
<1> USE DEF Inv
<1>1. ASSUME NEW r \in Requests, HotLookup(r) \/ Lock(r) \/ AccountLookup(r) \/ EmailLookup(r)
      PROVE  Inv'
  <2>1. Alone(r) /\ TypeOK' BY <1>1, LookupsAreLocal, LookupTypes
  <2>2. Sound(r)' BY <1>1, HotLookupSound, AccountLookupSound, MatchSound
  <2>3. at'[r] # "flushed" \/ plan'[r].kind = "none"
    <3>1. plan' = plan /\ at[r] \in {"new", "lock", "account", "email"}
      BY <1>1 DEF HotLookup, Lock, AccountLookup, EmailLookup, session
    <3> QED BY <3>1, NoPlanBefore
  <2> QED BY <2>1, <2>2, <2>3, ApartWhenNothingLands, LocalStepInv
<1>2. ASSUME NEW r \in Requests, PhoneLookup(r) \/ Transfer(r) \/ Merge(r)
      PROVE  Inv'
  <2>1. Merge(r) => found[r] \in Rows BY DEF Merge, Sound, MatchedByContact
  <2>2. Alone(r) /\ TypeOK'
    BY <1>2, <2>1, LookupsAreLocal, PhoneLookupTypes, TransferTypes, MergeTypes
  <2>3. Sound(r)' BY <1>2, MatchSound, TransferSound, MergeSound
  <2>4. at'[r] # "flushed"
    BY <1>2 DEF PhoneLookup, Transfer, Merge, End, Discard, Become, TypeOK
  <2> QED BY <2>2, <2>3, <2>4, ApartWhenNothingLands, LocalStepInv
<1>3. ASSUME NEW r \in Requests, Flush(r) \/ Move(r)
      PROVE  Inv'
  <2>1. Alone(r) /\ TypeOK' BY <1>3, FlushesAreLocal, FlushTypes
  <2>2. Sound(r)' BY <1>3, FlushSound
  <2> QED BY <1>3, <2>1, <2>2, ApartAfterFlush, LocalStepInv
<1>4. ASSUME NEW r \in Requests, Close(r) \/ Drop(r) \/ DeleteAccount(r)
      PROVE  Inv'
  <2>1. Alone(r) /\ TypeOK' BY <1>4, FlushesAreLocal, OtherTypes
  <2>2. Sound(r)' BY <1>4, EndSound
  <2>3. at'[r] # "flushed"
    BY <1>4 DEF Close, Drop, DeleteAccount, End, Discard, Become, TypeOK
  <2> QED BY <2>1, <2>2, <2>3, ApartWhenNothingLands, LocalStepInv
<1>5. ASSUME NEW r \in Requests, Commit(r) PROVE Inv'
  <2>1. plan[r].kind # "none" => plan[r].row \in Rows
    BY <1>5 DEF Sound, MatchedByContact, PlanShape, InsertIsNew, Commit, TypeOK, Plan
  <2>2. TypeOK' BY <1>5, <2>1, CommitTypes
  <2>3. RowsBelongToOnePerson' BY <1>5, CommitKeepsRowsOfOnePerson
  <2>4. \A q \in Requests \ {r} : Sound(q)' BY <1>5, CommitKeepsOthersSound
  <2>5. Sound(r)' BY <1>5, CommitKeepsOwnSound
  <2>6. Apart' BY <1>5, ApartAfterCommit
  <2> QED BY <2>2, <2>3, <2>4, <2>5, <2>6
<1>6. ASSUME NEW u \in Rows, Suspend(u) PROVE Inv'
  <2>1. TypeOK' BY <1>6, SuspendTypes
  <2>2. \A q \in Requests : Sound(q)' BY <1>6, SuspendKeepsSound
  <2>3. RowsBelongToOnePerson'
    BY <1>6 DEF Suspend, RowsBelongToOnePerson, OnePerson, TypeOK, Row
  <2>4. Apart' BY <1>6 DEF Suspend, session, Apart, Flushed
  <2> QED BY <2>1, <2>2, <2>3, <2>4
<1>7. CASE UNCHANGED vars
  <2>1. UNCHANGED <<users, doubtful, lock, at, token, found, seen, inactive, again, plan>>
    BY <1>7 DEF vars, session
  <2>2. TypeOK' BY <2>1 DEF TypeOK
  <2>3. \A q \in Requests : Sound(q)'
    <3> SUFFICES ASSUME NEW q \in Requests PROVE Sound(q)' OBVIOUS
    <3>1. Present' = Present BY <2>1 DEF Present
    <3>2. KeysOfToken(q)' /\ ReleasesInactive(q)' /\ PlanShape(q)' /\ InsertIsNew(q)'
      BY <2>1, <3>1 DEF Sound, KeysOfToken, ReleasesInactive, PlanShape, InsertIsNew, ConfirmedEmail
    <3>3. MatchedByContact(q)' /\ HasRow(q)'
      BY <2>1 DEF Sound, MatchedByContact, MayLink, ByContact, Strangers, HasRow, Kept, HasKeyOf, Person
    <3> QED BY <3>2, <3>3 DEF Sound
  <2>4. RowsBelongToOnePerson' BY <2>1 DEF RowsBelongToOnePerson, OnePerson
  <2>5. Apart' BY <2>1 DEF Apart, Flushed
  <2> QED BY <2>2, <2>3, <2>4, <2>5
<1> QED BY <1>1, <1>2, <1>3, <1>4, <1>5, <1>6, <1>7 DEF Next, Step

(* The table, the lock and every session stay well typed. *)
THEOREM TypeCorrect == Spec => []TypeOK
<1>1. Inv => TypeOK BY DEF Inv
<1> QED BY InitInv, NextInv, <1>1, PTL DEF Spec

(* Linking, re-pointing and reconciling mix two people in a row only by a  *)
(* stranger's number.                                                      *)
THEOREM RowsOfOnePerson == Spec => []RowsBelongToOnePerson
<1>1. Inv => RowsBelongToOnePerson BY DEF Inv
<1> QED BY InitInv, NextInv, <1>1, PTL DEF Spec

(* A served request works on a committed row, of its own person unless a   *)
(* stranger's number has reached it.                                       *)
THEOREM ServedRows == Spec => []ServedRowIsTheAccounts
<1>1. Inv => ServedRowIsTheAccounts
  BY DEF Inv, Sound, HasRow, Kept, ServedRowIsTheAccounts, Person
<1> QED BY InitInv, NextInv, <1>1, PTL DEF Spec

(* An account that a row holds never gets a second row, for any number of  *)
(* requests that race to create it.                                        *)
THEOREM OneRowPerAccount == Spec => NoNewRowForAClaimedAccount
<1> DEFINE NoNew == \A u \in Rows :
       users[u].state = "absent" /\ users'[u].state # "absent"
         => ByAccount(users'[u].sid) = {}
<1>1. ASSUME Inv, [Next]_vars PROVE [NoNew]_vars
  <2> SUFFICES ASSUME NEW u \in Rows, users[u].state = "absent", users'[u].state # "absent"
               PROVE  ByAccount(users'[u].sid) = {}
    OBVIOUS
  <2> USE <1>1 DEF Inv
  <2>1. ASSUME NEW r \in Requests, Commit(r) PROVE ByAccount(users'[u].sid) = {}
    <3>1. plan[r].kind = "insert" /\ u = plan[r].row BY <2>1, StatesAfterCommit
    <3>2. users'[u].sid = token[r].sid BY <2>1, <3>1, CommittedRow, WrittenRow
    <3>3. \A v \in Present : users[v].sid # token[r].sid
      BY <2>1, <3>1 DEF Sound, InsertIsNew, Commit
    <3> QED BY <3>2, <3>3 DEF ByAccount
  <2>2. ASSUME NEW v \in Rows, Suspend(v) PROVE FALSE
    <3>1. users'[u].state = users[u].state
      BY <2>2 DEF Suspend, Active, TypeOK, Row
    <3> QED BY <3>1
  <2>3. ASSUME users' = users PROVE FALSE BY <2>3
  <2>4. ASSUME NEW r \in Requests, Step(r) \/ Drop(r) \/ DeleteAccount(r), ~Commit(r)
        PROVE  users' = users
    <3>1. Alone(r) BY <2>4, LookupsAreLocal, FlushesAreLocal DEF Step
    <3> QED BY <3>1 DEF Alone
  <2> QED BY <1>1, <2>1, <2>2, <2>3, <2>4 DEF Next, vars
<1> QED BY InitInv, NextInv, <1>1, PTL DEF Spec, NoNewRowForAClaimedAccount

(* No active user loses its account but to another one, of the same person *)
(* unless a stranger's number has reached the row.                         *)
THEOREM ActiveRowsKeepTheirAccount == Spec => ActiveRowsKeepAnAccount
<1> DEFINE Keeps == \A u \in Active :
       users[u].sid \in Accounts /\ users'[u].sid # users[u].sid
         => /\ users'[u].sid \in Accounts
            /\ \/ PersonOf[users'[u].sid] = PersonOf[users[u].sid]
               \/ u \in doubtful'
<1>1. ASSUME Inv, [Next]_vars PROVE [Keeps]_vars
  <2> SUFFICES ASSUME NEW u \in Active, users[u].sid \in Accounts, users'[u].sid # users[u].sid
               PROVE  /\ users'[u].sid \in Accounts
                      /\ \/ PersonOf[users'[u].sid] = PersonOf[users[u].sid]
                         \/ u \in doubtful'
    OBVIOUS
  <2> USE <1>1 DEF Inv
  <2>1. u \in Rows /\ users[u].state = "active" BY DEF Active
  <2>2. ASSUME NEW r \in Requests, Commit(r)
        PROVE  /\ users'[u].sid \in Accounts
               /\ \/ PersonOf[users'[u].sid] = PersonOf[users[u].sid]
                  \/ u \in doubtful'
    <3>1. plan[r].kind # "none"
      <4> SUFFICES ASSUME plan[r].kind = "none" PROVE FALSE OBVIOUS
      <4> QED BY <2>2 DEF Commit, Apply
    <3>2. u = plan[r].row /\ users'[u] = Target(plan[r])
      BY <2>1, <2>2, <3>1, CommittedRow
    <3>3. plan[r].kind = "update"
      BY <2>1, <2>2, <3>1, <3>2 DEF Sound, InsertIsNew, Commit, TypeOK, Plan
    <3>4. u \notin doubtful' => AllOf(users[u], Person(r))
      <4> SUFFICES ASSUME u \notin doubtful' PROVE AllOf(users[u], Person(r)) OBVIOUS
      <4>1. u \notin doubtful /\ ~Strangers(r) BY <2>2, <3>1, <3>2, DoubtsGrow
      <4>2. ByContact(r, u) BY <3>1, <3>2, <3>3, <4>1, WrittenKeys
      <4> QED BY <2>1, <4>1, <4>2, ContactOwnsRow DEF RowsBelongToOnePerson
    <3>5. users'[u].sid \in {plan[r].sid, users[u].sid} BY <3>2, <3>3 DEF Target, Updated
    <3>6. users'[u].sid = plan[r].sid /\ plan[r].sid # Nobody
      BY <3>2, <3>3, <3>5 DEF Target, Updated
    <3>7. plan[r].sid = token[r].sid BY <3>6 DEF Sound, KeysOfToken
    <3> QED BY <3>4, <3>6, <3>7, ContactsAreMine DEF AllOf, Person
  <2>3. ASSUME NEW v \in Rows, Suspend(v) PROVE FALSE
    <3>1. users'[u].sid = users[u].sid
      BY <2>1, <2>3 DEF Suspend, TypeOK, Row
    <3> QED BY <3>1
  <2>4. ASSUME users' = users PROVE FALSE BY <2>4
  <2>5. ASSUME NEW r \in Requests, Step(r) \/ Drop(r) \/ DeleteAccount(r), ~Commit(r)
        PROVE  users' = users
    <3>1. Alone(r) BY <2>5, LookupsAreLocal, FlushesAreLocal DEF Step
    <3> QED BY <3>1 DEF Alone
  <2> QED BY <1>1, <2>2, <2>3, <2>4, <2>5 DEF Next, vars
<1> QED BY InitInv, NextInv, <1>1, PTL DEF Spec, ActiveRowsKeepAnAccount

-----------------------------------------------------------------------------
(* Locks, waiting and the way to the end: what the safety of RequestsEnd   *)
(* rests on.                                                               *)

Held == Open \ {"lock"}

(* Past the lock a request holds the lock of its account, and only there,  *)
(* until a conflict rolls its transaction back: the reconciliation that    *)
(* follows runs without the lock and ends without a third attempt.         *)
LockOK(r) ==
  /\ at[r] \in Held /\ ~again[r] => lock[token[r].sid] = r
  /\ \A s \in Accounts : lock[s] = r => /\ s = token[r].sid
                                        /\ at[r] \in Held
                                        /\ ~again[r]
  /\ again[r] => at[r] \in {"account", "email", "phone", "merge", "move", "flushed"}

LInv == Inv /\ \A r \in Requests : LockOK(r)

LEMMA OthersLocksStay ==
  ASSUME TypeOK, NEW r \in Requests, Step(r) \/ Drop(r) \/ DeleteAccount(r),
         NEW q \in Requests \ {r}
  PROVE  /\ token' = token /\ at'[q] = at[q] /\ again'[q] = again[q]
         /\ \A s \in Accounts : lock'[s] = q <=> lock[s] = q
<1> USE DEF TypeOK, Become
<1>0. q # Nobody BY UserSyncAssumption DEF UserSyncAssumption
<1>1. ASSUME NEW step, NEW u, End(r, step, u)
      PROVE  /\ token' = token /\ at'[q] = at[q] /\ again'[q] = again[q]
             /\ \A s \in Accounts : lock'[s] = q <=> lock[s] = q
  BY <1>0, <1>1 DEF End, Discard, Unlock
<1>2. CASE Lock(r)
  <2>1. token[r].sid \in Accounts BY ContactsAreMine
  <2> QED BY <1>0, <1>2, <2>1 DEF Lock, session
<1>3. CASE HotLookup(r) \/ AccountLookup(r) \/ Transfer(r) \/ EmailLookup(r) \/ Merge(r)
  BY <1>3 DEF HotLookup, AccountLookup, Transfer, EmailLookup, Merge
<1>4. CASE PhoneLookup(r)
  BY <1>1, <1>4 DEF PhoneLookup
<1>5. CASE Flush(r)
  BY <1>0, <1>5 DEF Flush, Land, Unlock
<1>6. CASE Move(r)
  BY <1>1, <1>6 DEF Move, Land
<1>7. CASE Commit(r) \/ Close(r) \/ Drop(r)
  BY <1>1, <1>7 DEF Commit, Close, Drop
<1>8. CASE DeleteAccount(r)
  BY <1>8 DEF DeleteAccount, session
<1> QED BY <1>2, <1>3, <1>4, <1>5, <1>6, <1>7, <1>8 DEF Step

LEMMA EndedIsUnlocked ==
  ASSUME TypeOK, NEW r \in Requests, NEW step \in Ended, NEW u, End(r, step, u)
  PROVE  LockOK(r)'
<1>1. r # Nobody BY UserSyncAssumption DEF UserSyncAssumption
<1>2. at'[r] = step /\ again'[r] = FALSE
  BY DEF TypeOK, End, Discard, Become
<1>3. \A s \in Accounts : lock'[s] # r
  BY <1>1 DEF End, Unlock
<1> QED BY <1>2, <1>3 DEF LockOK, Held, Open, Ended

LEMMA OwnLockStaysOK ==
  ASSUME TypeOK, NEW r \in Requests, Step(r) \/ Drop(r) \/ DeleteAccount(r), LockOK(r)
  PROVE  LockOK(r)'
<1> USE DEF TypeOK, Become, LockOK, Held, Open
<1>0. r # Nobody /\ token[r].sid \in Accounts
  BY ContactsAreMine, UserSyncAssumption DEF UserSyncAssumption
<1>2. CASE Lock(r)
  BY <1>0, <1>2 DEF Lock, session
<1>3. CASE HotLookup(r) \/ AccountLookup(r) \/ Transfer(r) \/ EmailLookup(r) \/ Merge(r)
  BY <1>0, <1>3 DEF HotLookup, AccountLookup, Transfer, EmailLookup, Merge
<1>4. CASE PhoneLookup(r)
  BY <1>0, <1>4, EndedIsUnlocked DEF PhoneLookup, Ended
<1>5. CASE Flush(r)
  BY <1>0, <1>5 DEF Flush, Land, Unlock
<1>6. CASE Move(r)
  BY <1>0, <1>6, EndedIsUnlocked DEF Move, Land, Ended
<1>7. CASE Commit(r) \/ Close(r) \/ Drop(r)
  BY <1>7, EndedIsUnlocked DEF Commit, Close, Drop, Ended
<1>8. CASE DeleteAccount(r)
  BY <1>0, <1>8 DEF DeleteAccount, session
<1> QED BY <1>2, <1>3, <1>4, <1>5, <1>6, <1>7, <1>8 DEF Step

LEMMA LocksInv == Spec => []LInv
<1>1. Init => LInv
  <2>1. ASSUME Init, NEW r \in Requests PROVE LockOK(r)
    <3>1. at[r] = "new" /\ again[r] = FALSE BY <2>1 DEF Init
    <3>2. \A s \in Accounts : lock[s] # r
      BY <2>1, UserSyncAssumption DEF Init, UserSyncAssumption
    <3> QED BY <3>1, <3>2 DEF LockOK, Held, Open
  <2> QED BY <2>1, InitInv DEF LInv
<1>2. LInv /\ [Next]_vars => LInv'
  <2> SUFFICES ASSUME LInv, [Next]_vars, NEW q \in Requests PROVE LockOK(q)'
    BY NextInv DEF LInv
  <2>0. TypeOK /\ LockOK(q) BY DEF LInv, Inv
  <2>1. ASSUME NEW r \in Requests, Step(r) \/ Drop(r) \/ DeleteAccount(r) PROVE LockOK(q)'
    <3>1. CASE q = r BY <2>0, <2>1, <3>1, OwnLockStaysOK
    <3>2. CASE q # r
      <4>1. /\ token' = token /\ at'[q] = at[q] /\ again'[q] = again[q]
            /\ \A s \in Accounts : lock'[s] = q <=> lock[s] = q
        BY <2>0, <2>1, <3>2, OthersLocksStay
      <4>2. token[q].sid \in Accounts BY <2>0, ContactsAreMine
      <4> QED BY <2>0, <4>1, <4>2 DEF LockOK
    <3> QED BY <3>1, <3>2
  <2>2. ASSUME UNCHANGED <<lock, at, session>> PROVE LockOK(q)'
    BY <2>0, <2>2 DEF LockOK, session
  <2> QED BY <2>1, <2>2 DEF Next, Suspend, vars
<1> QED BY <1>1, <1>2, PTL DEF Spec

(* Of the requests with one account at most one is past the lock without   *)
(* having lost it to a conflict (user.py:139): however many first requests *)
(* of a new user arrive together, one at a time looks up and links.        *)
THEOREM OneRequestPerAccount ==
  Spec => [](\A r, q \in Requests :
               /\ r # q /\ token[r].sid = token[q].sid
               /\ at[r] \in Held /\ at[q] \in Held
               => again[r] \/ again[q])
<1>1. LInv => \A r, q \in Requests :
                /\ r # q /\ token[r].sid = token[q].sid
                /\ at[r] \in Held /\ at[q] \in Held
                => again[r] \/ again[q]
  BY DEF LInv, LockOK
<1> QED BY <1>1, LocksInv, PTL

(* q keeps r waiting: it holds the advisory lock of r's account, or has    *)
(* written a row or a key that r is about to write.                        *)
Blocks(q, r) ==
  \/ at[r] = "lock" /\ lock[token[r].sid] = q
  \/ /\ at[r] \in {"flush", "move"}
     /\ plan[r].kind # "none"
     /\ q \in Flushed \ {r}
     /\ \E u \in Writes(plan[q]) : \/ u \in Writes(plan[r])
                                   \/ Clash(users[u], Target(plan[r]))
                                   \/ Clash(Apply(plan[q])[u], Target(plan[r]))

Blocked(r) == \/ at[r] = "lock" /\ lock[token[r].sid] # Nobody
              \/ at[r] \in {"flush", "move"} /\ Waits(r)

(* Blocked is that somebody blocks. *)
LEMMA BlockedBySomebody ==
  ASSUME TypeOK, NEW r \in Requests
  PROVE  Blocked(r) <=> \E q \in Requests : Blocks(q, r)
<1>1. token[r].sid \in Accounts BY ContactsAreMine
<1>2. lock[token[r].sid] \in Requests \cup {Nobody} BY <1>1 DEF TypeOK
<1>3. Nobody \notin Requests BY UserSyncAssumption DEF UserSyncAssumption
<1> QED BY <1>2, <1>3 DEF Blocked, Blocks, Waits, Flushed

(* Requests wait in chains of three at most: one for the lock, its holder  *)
(* for a row or a key, and the one that wrote it for nobody. So the lock   *)
(* and the row locks together never close a circle, whatever rows the      *)
(* requests link, and somebody can always go on.                           *)
THEOREM NoCircleOfWaits ==
  Spec => []/\ \A r, q, p \in Requests :
                 Blocks(q, r) /\ Blocks(p, q)
                   => /\ at[r] = "lock" /\ at[q] \in {"flush", "move"}
                      /\ at[p] = "flushed" /\ ~Blocked(p)
            /\ (\E r \in Requests : at[r] \in Open)
                 => \E r \in Requests : at[r] \in Open /\ ~Blocked(r)
<1> DEFINE Short(r, q, p) == Blocks(q, r) /\ Blocks(p, q)
                   => /\ at[r] = "lock" /\ at[q] \in {"flush", "move"}
                      /\ at[p] = "flushed" /\ ~Blocked(p)
<1>1. ASSUME LInv, NEW r \in Requests, NEW q \in Requests, NEW p \in Requests
      PROVE  Short(r, q, p)
  <2>1. token[r].sid \in Accounts /\ token[q].sid \in Accounts
    BY <1>1, ContactsAreMine DEF LInv, Inv
  <2>2. Blocks(q, r) => at[q] \in Held
    BY <1>1, <2>1 DEF LInv, LockOK, Blocks, Flushed, Held, Open
  <2>3. Blocks(p, q) /\ at[q] # "lock" => at[p] = "flushed"
    BY DEF Blocks, Flushed
  <2>4. at[p] = "flushed" => ~Blocked(p)
    BY DEF Blocked
  <2>5. Blocks(p, q) => at[q] \in {"lock", "flush", "move"}
    BY DEF Blocks
  <2>6. Blocks(q, r) /\ at[r] # "lock" => at[q] = "flushed"
    BY DEF Blocks, Flushed
  <2> QED BY <2>2, <2>3, <2>4, <2>5, <2>6 DEF Held
<1>2. ASSUME LInv, NEW r \in Requests, at[r] \in Open
      PROVE  \E q \in Requests : at[q] \in Open /\ ~Blocked(q)
  <2>0. TypeOK BY <1>2 DEF LInv, Inv
  <2>1. CASE ~Blocked(r) BY <1>2, <2>1
  <2>2. CASE Blocked(r)
    <3>1. PICK q \in Requests : Blocks(q, r) BY <2>0, <2>2, BlockedBySomebody
    <3>2. at[q] \in Open
      <4>1. token[r].sid \in Accounts BY <2>0, ContactsAreMine
      <4> QED BY <1>2, <3>1, <4>1 DEF LInv, LockOK, Blocks, Flushed, Held, Open
    <3>3. CASE ~Blocked(q) BY <3>2, <3>3
    <3>4. CASE Blocked(q)
      <4>1. PICK p \in Requests : Blocks(p, q) BY <2>0, <3>4, BlockedBySomebody
      <4>2. at[p] = "flushed" /\ ~Blocked(p) BY <1>1, <1>2, <3>1, <4>1
      <4> QED BY <4>2 DEF Open
    <3> QED BY <3>3, <3>4
  <2> QED BY <2>1, <2>2
<1>3. LInv => /\ \A r, q, p \in Requests : Short(r, q, p)
              /\ (\E r \in Requests : at[r] \in Open)
                   => \E r \in Requests : at[r] \in Open /\ ~Blocked(r)
  BY <1>1, <1>2
<1> QED BY <1>3, LocksInv, PTL

(* How far a request is from its end: the steps of an attempt, and a       *)
(* second attempt it may still make.                                       *)
StepsLeft == [step \in Held |->
  CASE step = "account" -> 8
    [] step = "transfer" -> 7
    [] step = "email" -> 6
    [] step = "phone" -> 5
    [] step = "merge" -> 4
    [] step \in {"flush", "move"} -> 3
    [] step = "flushed" -> 2]

Distance(r) == IF at[r] \in Ended THEN 0
               ELSE IF at[r] = "new" THEN 20
               ELSE IF at[r] = "lock" THEN 19
               ELSE IF again[r] THEN StepsLeft[at[r]]
               ELSE 10 + StepsLeft[at[r]]

LEMMA StepsLeftAre ==
  /\ StepsLeft["account"] = 8 /\ StepsLeft["transfer"] = 7 /\ StepsLeft["email"] = 6
  /\ StepsLeft["phone"] = 5 /\ StepsLeft["merge"] = 4 /\ StepsLeft["flush"] = 3
  /\ StepsLeft["move"] = 3 /\ StepsLeft["flushed"] = 2
BY DEF StepsLeft, Held, Open

LEMMA DistanceIs ==
  TypeOK => \A r \in Requests : /\ Distance(r) \in 0..20
                                /\ at[r] \in Ended <=> Distance(r) = 0
BY StepsLeftAre DEF TypeOK, Distance, Steps, Open, Ended

(* Every step of a request brings it nearer to its end, and no step of     *)
(* anybody takes it further away: at most twenty steps, the second attempt *)
(* after a conflict included (user.py:331-352 makes no third one).         *)
THEOREM StepsBringTheEndNearer ==
  Spec => /\ [](\A r \in Requests : /\ Distance(r) \in 0..20
                                    /\ at[r] \in Ended <=> Distance(r) = 0)
          /\ [][\A r \in Requests : /\ Distance(r)' <= Distance(r)
                                    /\ Step(r) => Distance(r)' < Distance(r)]_vars
<1> DEFINE Nearer == \A r \in Requests : /\ Distance(r)' <= Distance(r)
                                         /\ Step(r) => Distance(r)' < Distance(r)
<1>0. /\ TypeOK => \A r \in Requests : Distance(r) \in 0..20
      /\ TypeOK' => (\A r \in Requests : Distance(r) \in 0..20)'
  <2>1. TypeOK => \A r \in Requests : Distance(r) \in 0..20 BY DistanceIs
  <2> QED BY <2>1, PTL
<1>1. ASSUME LInv, LInv', [Next]_vars PROVE [Nearer]_vars
  <2> SUFFICES ASSUME ~UNCHANGED vars, NEW q \in Requests
               PROVE  /\ Distance(q)' <= Distance(q)
                      /\ Step(q) => Distance(q)' < Distance(q)
    OBVIOUS
  <2>0. TypeOK /\ TypeOK' /\ LockOK(q) BY <1>1 DEF LInv, Inv
  <2>1. Distance(q) \in 0..20 /\ Distance(q)' \in 0..20 BY <1>0, <2>0
  <2>2. ASSUME Step(q) PROVE Distance(q)' < Distance(q)
    <3> USE <2>0, StepsLeftAre DEF TypeOK, Become, Distance, Ended
    <3>1. ASSUME NEW step \in Ended, NEW u, End(q, step, u), at[q] \in {"new"} \cup Open
          PROVE  Distance(q)' < Distance(q)
      BY <3>1 DEF End, Discard, Open
    <3>2. CASE HotLookup(q) \/ Lock(q)
      BY <3>2 DEF HotLookup, Lock, session
    <3>3. CASE AccountLookup(q) \/ Transfer(q) \/ EmailLookup(q)
      BY <3>3 DEF AccountLookup, Transfer, EmailLookup
    <3>4. CASE Merge(q)
      BY <3>4 DEF Merge
    <3>5. CASE PhoneLookup(q)
      BY <3>1, <3>5 DEF PhoneLookup, Open
    <3>6. CASE Flush(q)
      BY <3>6 DEF Flush, Land, LockOK
    <3>7. CASE Move(q)
      BY <3>1, <3>7 DEF Move, Land, Open
    <3>8. CASE Commit(q) \/ Close(q)
      BY <3>1, <3>8 DEF Commit, Close, Open
    <3> QED BY <2>2, <3>2, <3>3, <3>4, <3>5, <3>6, <3>7, <3>8 DEF Step
  <2>3. Distance(q)' <= Distance(q)
    <3>1. CASE Step(q) BY <2>1, <2>2, <3>1
    <3>2. CASE Drop(q) \/ DeleteAccount(q)
      <4>1. at'[q] \in Ended
        BY <2>0, <3>2 DEF Drop, DeleteAccount, End, Discard, Become, TypeOK, Ended
      <4>2. Distance(q)' = 0 BY <4>1 DEF Distance
      <4> QED BY <2>1, <4>2
    <3>3. ASSUME NEW r \in Requests \ {q}, Step(r) \/ Drop(r) \/ DeleteAccount(r)
          PROVE  Distance(q)' <= Distance(q)
      <4>1. at'[q] = at[q] /\ again'[q] = again[q] BY <2>0, <3>3, OthersLocksStay
      <4>2. Distance(q)' = Distance(q) BY <4>1 DEF Distance
      <4> QED BY <2>1, <4>2
    <3>4. CASE UNCHANGED <<lock, at, session>>
      <4>1. Distance(q)' = Distance(q) BY <3>4 DEF Distance, session
      <4> QED BY <2>1, <4>1
    <3> QED BY <1>1, <3>1, <3>2, <3>3, <3>4 DEF Next, Suspend, vars
  <2> QED BY <2>2, <2>3
<1>2. LInv => \A r \in Requests : /\ Distance(r) \in 0..20
                                  /\ at[r] \in Ended <=> Distance(r) = 0
  BY DistanceIs DEF LInv, Inv
<1> QED BY <1>1, <1>2, LocksInv, PTL DEF Spec
=============================================================================
