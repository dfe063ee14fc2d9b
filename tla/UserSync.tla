------------------------------- MODULE UserSync -------------------------------
(***************************************************************************)
(* How a verified access token becomes a row of users:                     *)
(* get_or_create_user_from_supabase and delete_user_account in             *)
(* app/services/user.py with the dependencies that call them               *)
(* (app/api/api_v1/dependencies/auth.py). Each request runs in a           *)
(* transaction of its own under READ COMMITTED; a lookup is one step, and  *)
(* so is a flush. A flush waits for open transactions that touched its     *)
(* rows or keys and fails when a committed row holds one of its keys       *)
(* (users.supabase_user_id, phone and email are unique).                   *)
(*                                                                         *)
(* A phone is compared exactly or by its last ten digits (Norm). The       *)
(* creation dates that order several matches, names and verification flags *)
(* are left out; so are cached sessions of the identity provider.          *)
(***************************************************************************)
EXTENDS Integers, FiniteSets

CONSTANTS Requests,
          Closers,    \* requests of the caller that never commits
                      \*   (the consent page, oauth/authorization.py:233)
          MaxRows,    \* bound: ids of users
          Accounts,   \* Supabase user ids
          Emails, Phones, Numbers, People,
          Norm,       \* a phone's last ten digits: two phones may share them
          PersonOf,   \* whose an account, an e-mail or a phone is
          Presented,  \* the tokens the requests may come with
          Legacy,     \* the tables the system may start from
          Nobody      \* a null, or a tombstone (__migrated__, __deleted__)

Rows  == 1..MaxRows
NoRow == 0
Row   == [state : {"absent", "active", "inactive"},
          sid   : Accounts \cup {Nobody},
          email : Emails \cup {Nobody},
          phone : Phones \cup {Nobody}]
Token == [sid : Accounts, email : Emails \cup {Nobody}, confirmed : BOOLEAN,
          phone : Phones \cup {Nobody}]

(* What a request will flush: an insert, an update of a row it found (a    *)
(* key Nobody is left as it is), the release of an inactive row's claim.   *)
Plan  == [kind : {"none", "insert", "update"}, row : Rows \cup {NoRow},
          sid   : Accounts \cup {Nobody}, email : Emails \cup {Nobody},
          phone : Phones \cup {Nobody}, release : Rows \cup {NoRow}]

(* A row holds keys of one person only. *)
OnePerson(row) ==
  \E p \in People :
     /\ row.sid \in Accounts => PersonOf[row.sid] = p
     /\ row.email \in Emails => PersonOf[row.email] = p
     /\ row.phone \in Phones => PersonOf[row.phone] = p

(* A row holds a key of p. *)
HasKeyOf(row, p) == \/ row.sid \in Accounts /\ PersonOf[row.sid] = p
                    \/ row.email \in Emails /\ PersonOf[row.email] = p
                    \/ row.phone \in Phones /\ PersonOf[row.phone] = p

(* An e-mail may be anybody's until it is confirmed. The phone of a token  *)
(* may be anybody's: the code looks at no confirmation of it.              *)
GoodToken(t) == t.email \in Emails /\ t.confirmed => PersonOf[t.email] = PersonOf[t.sid]

ASSUME UserSyncAssumption ==
  /\ MaxRows \in Nat
  /\ Closers \subseteq Requests
  /\ Norm \in [Phones -> Numbers]
  /\ PersonOf \in [Accounts \cup Emails \cup Phones -> People]
  /\ Nobody \notin Accounts \cup Emails \cup Phones \cup Requests
  /\ Presented \subseteq [Requests -> Token]
  /\ \A choice \in Presented : \A r \in Requests : GoodToken(choice[r])
  /\ Legacy \subseteq [Rows -> Row]

VARIABLES users,     \* the committed table
          lock,      \* who holds pg_advisory_xact_lock(hashtext(sid))
          at,        \* where a request is
          token,     \* the token it presented
          found,     \* the row it works on
          seen,      \* that row as its session loaded it
          inactive,  \* the inactive row it found by its account
          again,     \* it is in the reconciliation after an IntegrityError
          plan,      \* what it will flush, or has flushed
          doubtful   \* history: rows that were mixed from the start, or that
                     \*   a request with a stranger's number wrote

session == <<token, found, seen, inactive, again, plan>>
vars    == <<users, doubtful, lock, at, session>>

(* "flush" : about to flush inside the try that reconciles a conflict      *)
(* "move"  : about to flush outside of it                                  *)
Ended == {"served", "refused", "failed", "deleted"}
Open  == {"lock", "account", "transfer", "email", "phone", "merge", "flush",
          "move", "flushed"}
Steps == {"new"} \cup Open \cup Ended

EmptyPlan == [kind |-> "none", row |-> NoRow, sid |-> Nobody, email |-> Nobody,
              phone |-> Nobody, release |-> NoRow]
AbsentRow == [state |-> "absent", sid |-> Nobody, email |-> Nobody, phone |-> Nobody]

Init == /\ users \in Legacy
        /\ lock = [s \in Accounts |-> Nobody]
        /\ at = [r \in Requests |-> "new"]
        /\ token \in Presented
        /\ found = [r \in Requests |-> NoRow]
        /\ seen = [r \in Requests |-> AbsentRow]
        /\ inactive = [r \in Requests |-> NoRow]
        /\ again = [r \in Requests |-> FALSE]
        /\ plan = [r \in Requests |-> EmptyPlan]
        /\ doubtful = {u \in Rows : ~OnePerson(users[u])}

(* The token's phone, or one with the same last ten digits, is another     *)
(* person's: nothing in the code tells the two apart.                      *)
Strangers(r) == /\ token[r].phone \in Phones
                /\ \E p \in Phones : /\ Norm[p] = Norm[token[r].phone]
                                     /\ PersonOf[p] # PersonOf[token[r].sid]

Become(r, step) == at' = [at EXCEPT ![r] = step]

-----------------------------------------------------------------------------
(* Lookups *)

Present == {u \in Rows : users[u].state # "absent"}
Active  == {u \in Rows : users[u].state = "active"}

(* The first by is_active DESC; which of several is the newest is open. *)
First(matches) == IF matches \cap Active # {} THEN matches \cap Active ELSE matches

ByAccount(s) == {u \in Present : users[u].sid = s}
ByEmail(e)   == First({u \in Present : users[u].email = e})
SameNumber(u, p) == users[u].phone \in Phones /\ Norm[users[u].phone] = Norm[p]
ByPhone(p)   == LET exact == {u \in Present : users[u].phone = p}
                IN  First(IF exact # {} THEN exact
                          ELSE {u \in Present : SameNumber(u, p)})

Find(r, u) == found' = [found EXCEPT ![r] = u]
Load(r, u) == Find(r, u) /\ seen' = [seen EXCEPT ![r] = users[u]]

Unlock(r) == lock' = [s \in Accounts |-> IF lock[s] = r THEN Nobody ELSE lock[s]]
Forget(r) == plan' = [plan EXCEPT ![r] = EmptyPlan]

(* The session is over; what it had in hand is gone. *)
Discard(r, step, u) == /\ Become(r, step)
                       /\ Find(r, u)
                       /\ Forget(r)
                       /\ seen' = [seen EXCEPT ![r] = AbsentRow]
                       /\ inactive' = [inactive EXCEPT ![r] = NoRow]
                       /\ again' = [again EXCEPT ![r] = FALSE]
                       /\ UNCHANGED token
End(r, step, u)     == Discard(r, step, u) /\ Unlock(r)

(* The hot path: an active row with the account's id needs no lock. *)
HotLookup(r) ==
  /\ at[r] = "new"
  /\ \/ \E u \in ByAccount(token[r].sid) \cap Active :
          /\ Become(r, "served")
          /\ Find(r, u)
     \/ /\ ByAccount(token[r].sid) \cap Active = {}
        /\ Become(r, "lock")
        /\ UNCHANGED found
  /\ UNCHANGED <<users, doubtful, lock, token, seen, inactive, again, plan>>

Lock(r) ==
  /\ at[r] = "lock"
  /\ lock[token[r].sid] = Nobody
  /\ lock' = [lock EXCEPT ![token[r].sid] = r]
  /\ Become(r, "account")
  /\ UNCHANGED <<users, doubtful, session>>

(* The lookup by account under the lock, and again after a rollback. *)
AccountLookup(r) ==
  /\ at[r] = "account"
  /\ \/ \E u \in ByAccount(token[r].sid) :
          IF again[r] \/ u \in Active
            THEN /\ Become(r, "flushed")
                 /\ Find(r, u)
                 /\ UNCHANGED inactive
            ELSE /\ inactive' = [inactive EXCEPT ![r] = u]
                 /\ Become(r, IF token[r].phone # Nobody THEN "transfer" ELSE "email")
                 /\ UNCHANGED found
     \/ /\ ByAccount(token[r].sid) = {}
        /\ Become(r, "email")
        /\ UNCHANGED <<found, inactive>>
  /\ UNCHANGED <<users, doubtful, lock, token, seen, again, plan>>

(* Faulty variant: an e-mail links whether it is confirmed or not. *)
AnyEmail(r) == token[r].email # Nobody

ConfirmedEmail(r) == token[r].email # Nobody /\ token[r].confirmed

EmailLookup(r) ==
  /\ at[r] = "email"
  /\ LET matches == IF ConfirmedEmail(r) THEN ByEmail(token[r].email) ELSE {}
     IN  \/ \E u \in matches : Load(r, u) /\ Become(r, "merge")
         \/ matches = {} /\ Become(r, "phone") /\ UNCHANGED <<found, seen>>
  /\ UNCHANGED <<users, doubtful, lock, token, inactive, again, plan>>

(* The last lookup. Without a match the request plans a new row, or gives  *)
(* up when it is reconciling.                                              *)
PhoneLookup(r) ==
  /\ at[r] = "phone"
  /\ LET matches == IF token[r].phone # Nobody THEN ByPhone(token[r].phone) ELSE {}
     IN  \/ /\ \E u \in matches : Load(r, u)
            /\ Become(r, "merge")
            /\ UNCHANGED <<lock, token, inactive, again, plan>>
         \/ /\ matches = {} /\ ~again[r]
            /\ plan' = [plan EXCEPT ![r] =
                 [kind |-> "insert", row |-> NoRow, sid |-> token[r].sid,
                  email |-> IF ConfirmedEmail(r) THEN token[r].email ELSE Nobody,
                  phone |-> token[r].phone, release |-> inactive[r]]]
            /\ Become(r, "flush")
            /\ UNCHANGED <<lock, token, found, seen, inactive, again>>
         \/ matches = {} /\ again[r] /\ End(r, "failed", NoRow)
  /\ UNCHANGED <<users, doubtful>>

(* Row u takes account s over from row v. *)
TakeOver(u, s, v) == [kind |-> "update", row |-> u, sid |-> s, email |-> Nobody,
                      phone |-> Nobody, release |-> v]

(* Faulty variant: the claims are exchanged the wrong way round. *)
TransferSwapped(r) ==
  /\ at[r] = "transfer"
  /\ \E u \in Active :
       /\ SameNumber(u, token[r].phone)
       /\ Find(r, u)
       /\ plan' = [plan EXCEPT ![r] = TakeOver(inactive[r], token[r].sid, u)]
       /\ Become(r, "move")
  /\ UNCHANGED <<users, doubtful, lock, token, seen, inactive, again>>

(* The account's row is inactive: an active row with the same number takes *)
(* the account over.                                                       *)
Transfer(r) ==
  /\ at[r] = "transfer"
  /\ LET matches == {u \in Active : SameNumber(u, token[r].phone)}
     IN  \/ \E u \in matches :
              /\ Find(r, u)
              /\ plan' = [plan EXCEPT ![r] =
                   IF users[u].sid = token[r].sid THEN EmptyPlan
                   ELSE TakeOver(u, token[r].sid, inactive[r])]
              /\ Become(r, "move")
         \/ /\ matches = {}
            /\ Become(r, "email")
            /\ UNCHANGED <<found, plan>>
  /\ UNCHANGED <<users, doubtful, lock, token, seen, inactive, again>>

(* The matched row takes the account over and, when it has none and nobody *)
(* else has it, the phone and the confirmed e-mail of the token.           *)
LinkPlan(r) ==
  LET moves == seen[r].sid # token[r].sid
  IN  [kind    |-> "update",
       row     |-> found[r],
       sid     |-> IF moves THEN token[r].sid ELSE Nobody,
       phone   |-> IF /\ token[r].phone # Nobody /\ seen[r].phone = Nobody
                      /\ ByPhone(token[r].phone) \subseteq {found[r]}
                   THEN token[r].phone ELSE Nobody,
       email   |-> IF /\ ConfirmedEmail(r) /\ seen[r].email = Nobody
                      /\ ByEmail(token[r].email) \subseteq {found[r]}
                   THEN token[r].email ELSE Nobody,
       release |-> IF moves THEN inactive[r] ELSE NoRow]

(* In the reconciliation only the account moves, and nothing is released. *)
Merge(r) ==
  /\ at[r] = "merge"
  /\ plan' = [plan EXCEPT ![r] =
       IF ~again[r] THEN LinkPlan(r)
       ELSE TakeOver(found[r], LinkPlan(r).sid, NoRow)]
  /\ Become(r, IF again[r] THEN "move" ELSE "flush")
  /\ seen' = [seen EXCEPT ![r] = AbsentRow]
  /\ UNCHANGED <<users, doubtful, lock, token, found, inactive, again>>

-----------------------------------------------------------------------------
(* Flushes, commits and rollbacks *)

Updated(row, p) == [state |-> row.state,
                    sid   |-> IF p.sid # Nobody THEN p.sid ELSE row.sid,
                    email |-> IF p.email # Nobody THEN p.email ELSE row.email,
                    phone |-> IF p.phone # Nobody THEN p.phone ELSE row.phone]

Inserted(p) == [state |-> "active", sid |-> p.sid, email |-> p.email, phone |-> p.phone]

(* The row that p writes its keys to, as it leaves it. *)
Target(p) == IF p.kind = "insert" THEN Inserted(p) ELSE Updated(users[p.row], p)

Apply(p) == IF p.kind = "none" THEN users
            ELSE [u \in Rows |->
                    IF u = p.row THEN Target(p)
                    ELSE IF u = p.release THEN [users[u] EXCEPT !.sid = Nobody]
                    ELSE users[u]]

Clash(a, b) == \/ a.sid # Nobody /\ a.sid = b.sid
               \/ a.email # Nobody /\ a.email = b.email
               \/ a.phone # Nobody /\ a.phone = b.phone

Writes(p) == {p.row, p.release} \ {NoRow}
Flushed   == {r \in Requests : at[r] = "flushed" /\ plan[r].kind # "none"}

(* Another open transaction wrote one of p's rows, or holds one of its keys. *)
Waits(r) ==
  /\ plan[r].kind # "none"
  /\ \E q \in Flushed \ {r} : \E u \in Writes(plan[q]) :
       \/ u \in Writes(plan[r])
       \/ Clash(users[u], Target(plan[r]))
       \/ Clash(Apply(plan[q])[u], Target(plan[r]))

(* Faulty variant: the claim is released before it is taken. *)
ConflictsAfterRelease(p) ==
  /\ p.kind # "none"
  /\ \E u \in Present \ {p.row, p.release} : Clash(users[u], Target(p))

(* One flush sends inserts before updates and updates in the order of      *)
(* their ids, so a claim is released before it is taken only by an update  *)
(* of a row with a higher id.                                              *)
Conflicts(p) ==
  LET released == p.kind = "update" /\ p.release < p.row
  IN  /\ p.kind # "none"
      /\ \E u \in Present \ {p.row} :
           ~(released /\ u = p.release) /\ Clash(users[u], Target(p))

(* The next id of the sequence. *)
Taken    == Present \cup {plan[q].row : q \in Flushed}
IsNext(u) == (\A v \in Taken : v < u) /\ (u = 1 \/ u - 1 \in Taken)

(* The row lands in the open transaction. *)
Land(r) ==
  /\ Become(r, "flushed")
  /\ IF plan[r].kind # "insert" THEN UNCHANGED <<plan, found>>
     ELSE \E u \in Rows : /\ IsNext(u)
                           /\ plan' = [plan EXCEPT ![r].row = u]
                           /\ found' = [found EXCEPT ![r] = u]

(* A conflict rolls the transaction back, which also gives the lock and    *)
(* the release of the inactive row up; the lookups then run again.         *)
Flush(r) ==
  /\ at[r] = "flush"
  /\ ~Waits(r)
  /\ \/ ~Conflicts(plan[r]) /\ Land(r) /\ UNCHANGED <<lock, inactive, again>>
     \/ /\ Conflicts(plan[r])
        /\ Become(r, "account")
        /\ again' = [again EXCEPT ![r] = TRUE]
        /\ Find(r, NoRow)
        /\ inactive' = [inactive EXCEPT ![r] = NoRow]
        /\ Forget(r)
        /\ Unlock(r)
  /\ UNCHANGED <<users, doubtful, token, seen>>

(* Faulty variant: the session is not closed after the exception. *)
MoveKeepsLock(r) ==
  /\ at[r] = "move"
  /\ ~Waits(r)
  /\ \/ ~Conflicts(plan[r]) /\ Land(r) /\ UNCHANGED <<token, seen, inactive, again>>
     \/ Conflicts(plan[r]) /\ Discard(r, "failed", NoRow)
  /\ UNCHANGED <<users, doubtful, lock>>

(* A conflict here is an exception: the request is answered 401. *)
Move(r) ==
  /\ at[r] = "move"
  /\ ~Waits(r)
  /\ \/ ~Conflicts(plan[r]) /\ Land(r) /\ UNCHANGED <<lock, token, seen, inactive, again>>
     \/ Conflicts(plan[r]) /\ End(r, "failed", NoRow)
  /\ UNCHANGED <<users, doubtful>>

(* Faulty variant: the session is closed without a commit. *)
CommitNothing(r) ==
  /\ at[r] = "flushed"
  /\ r \notin Closers
  /\ End(r, "served", found[r])
  /\ UNCHANGED <<users, doubtful>>

(* The dependency commits; a request of an inactive user is answered 403. *)
Commit(r) ==
  /\ at[r] = "flushed"
  /\ r \notin Closers
  /\ users' = Apply(plan[r])
  /\ doubtful' = IF plan[r].kind # "none" /\ Strangers(r) THEN doubtful \cup {plan[r].row}
                 ELSE doubtful
  /\ IF users'[found[r]].state = "active" THEN End(r, "served", found[r])
                                          ELSE End(r, "refused", NoRow)

(* The consent page stores its authorization code and never commits: the   *)
(* exit of get_db finds nothing pending and closes the session.            *)
Close(r) ==
  /\ at[r] = "flushed"
  /\ r \in Closers
  /\ End(r, "served", found[r])
  /\ UNCHANGED <<users, doubtful>>

(* The client leaves, a statement times out, the connection is lost. *)
Drop(r) ==
  /\ at[r] \in Open
  /\ End(r, "failed", NoRow)
  /\ UNCHANGED <<users, doubtful>>

-----------------------------------------------------------------------------
(* What else changes users *)

(* A moderator acts on a report (flatmates_admin.py:320). *)
Suspend(u) ==
  /\ u \in Active
  /\ \A q \in Flushed : u \notin Writes(plan[q])
  /\ users' = [users EXCEPT ![u].state = "inactive"]
  /\ UNCHANGED <<doubtful, lock, at, session>>

(* DELETE /users/me and POST /auth/delete-account: the identity is gone    *)
(* from the provider, the row is anonymised and flushed, and the exit of   *)
(* get_db rolls that back, because a flush leaves nothing pending.         *)
DeleteAccount(r) ==
  /\ at[r] = "served"
  /\ r \notin Closers
  /\ \A q \in Flushed : found[r] \notin Writes(plan[q])
  /\ Become(r, "deleted")
  /\ UNCHANGED <<users, doubtful, lock, session>>

Step(r) == \/ HotLookup(r) \/ Lock(r) \/ AccountLookup(r) \/ Transfer(r)
           \/ EmailLookup(r) \/ PhoneLookup(r) \/ Merge(r)
           \/ Flush(r) \/ Move(r) \/ Commit(r) \/ Close(r)

Next == \/ \E r \in Requests : Step(r) \/ Drop(r) \/ DeleteAccount(r)
        \/ \E u \in Rows : Suspend(u)

Spec == Init /\ [][Next]_vars

(* A statement in flight is answered or times out. *)
FairSpec == Spec /\ \A r \in Requests : WF_vars(Step(r))

-----------------------------------------------------------------------------
(* Properties *)

TypeOK == /\ users \in [Rows -> Row]
          /\ lock \in [Accounts -> Requests \cup {Nobody}]
          /\ at \in [Requests -> Steps]
          /\ token \in Presented
          /\ found \in [Requests -> Rows \cup {NoRow}]
          /\ seen \in [Requests -> Row]
          /\ inactive \in [Requests -> Rows \cup {NoRow}]
          /\ again \in [Requests -> BOOLEAN]
          /\ plan \in [Requests -> Plan]
          /\ doubtful \subseteq Rows

(* However accounts are linked, re-pointed and reconciled, a row of users  *)
(* gathers the account, e-mail or phone of two people for one reason only: *)
(* it was so before, or a request wrote it whose phone, or last ten        *)
(* digits, are another person's, which no confirmation is asked for        *)
(* (user.py:69, 217, 244, 317). An unconfirmed e-mail never does           *)
(* (user.py:154-159, 242, 283, 315).                                       *)
RowsBelongToOnePerson == \A u \in Rows : OnePerson(users[u]) \/ u \in doubtful

(* Nobody is served a row that is not in the table after the commit of the *)
(* dependency (dependencies/auth.py:162), nor an active row of another     *)
(* person, but for a row that a stranger's number has reached. A row       *)
(* suspended later may lose the account to an active one.                  *)
ServedRowIsTheAccounts ==
  \A r \in Requests \ Closers : at[r] = "served" =>
     /\ users[found[r]].state # "absent"
     /\ users[found[r]].state = "active"
          => \/ HasKeyOf(users[found[r]], PersonOf[token[r].sid])
             \/ found[r] \in doubtful

(* An account that a row holds, the row of a suspended user included,      *)
(* never gets a second, new row: the insert and the release of the old     *)
(* claim are one flush, and the insert goes first (user.py:309-328).       *)
NoNewRowForAClaimedAccount ==
  [][\A u \in Rows :
       users[u].state = "absent" /\ users'[u].state # "absent"
         => ByAccount(users'[u].sid) = {}]_vars

(* Linking never leaves an active user without an account: the row keeps   *)
(* its account or gets another one (user.py:233, 250), and that one is     *)
(* another person's only through a stranger's number.                      *)
ActiveRowsKeepAnAccount ==
  [][\A u \in Active :
       users[u].sid \in Accounts /\ users'[u].sid # users[u].sid
         => /\ users'[u].sid \in Accounts
            /\ \/ PersonOf[users'[u].sid] = PersonOf[users[u].sid]
               \/ u \in doubtful']_vars

(* A request that asks for its user is answered, whoever holds the lock of *)
(* its account or a row it must write, and whatever fails.                 *)
RequestsEnd == \A r \in Requests : at[r] # "new" ~> at[r] \in Ended
=============================================================================
