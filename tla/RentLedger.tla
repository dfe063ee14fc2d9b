----------------------------- MODULE RentLedger -----------------------------
(***************************************************************************)
(* Payments against rent charges: record_rent_payment in                   *)
(* app/services/pm_rent.py, inside the session of the owner's tool, which  *)
(* commits, or of a REST request, whose session is rolled back after the   *)
(* flush (see UnitOfWork). Every statement reads what is committed when it *)
(* runs, and its own transaction's rows.                                   *)
(*                                                                         *)
(* The payments of a charge stand for their sum, in cents (Numeric(10, 2)). *)
(* An amount arrives as a float, so it may lie between two cents and is    *)
(* rounded when it is stored; a total of two floats may miss the exact     *)
(* one. Amounts are finite.                                                *)
(* The other three tools that record payments insert a row without the     *)
(* charge it belongs to, which the NOT NULL column refuses, so no payment  *)
(* of theirs exists. A charge once created is changed by nothing else.     *)
(***************************************************************************)
EXTENDS Integers

CONSTANTS Charges,
          Sessions,   \* database sessions that record payments, one after another
          Rent,       \* amount_due of each charge
          LateFee,    \* late_fee_assessed of each charge
          Above,      \* charges the float total of which lies above the exact one
          Asked,      \* amounts a caller may send
          None        \* nobody, no request

Due(c) == Rent[c] + LateFee[c]

Statuses == {"pending", "partial", "paid", "overdue"}
Steps    == {"idle", "loaded", "guarded", "summed", "flushed"}

(* Whole cents and what a float has beyond them: no more than a rounding   *)
(* error, less than half a cent, or half a cent and more.                  *)
Amount  == [cents : Int, rest : {"none", "dust", "less", "half"}]
Request == [charge : Charges, amount : Amount, seen : Statuses, write : Statuses]

IsPositive(a) == a.cents > 0 \/ (a.cents = 0 /\ a.rest # "none")
Stored(a)     == IF a.rest = "half" THEN a.cents + 1 ELSE a.cents

ASSUME RentAssumption == /\ Rent \in [Charges -> Nat \ {0}]
                         /\ LateFee \in [Charges -> Nat]
                         /\ Above \subseteq Charges
                         /\ Asked \subseteq Amount
                         /\ None \notin Sessions

VARIABLES paid,     \* sum of the committed payments of each charge
          status,   \* committed status of each charge
          late,     \* charges whose due date has passed
          rowlock,  \* the session whose open transaction updated the charge
          at,       \* where each session is
          req,      \* its request and what it read
          stale,    \* history: sessions past the guard on whose charge
                    \*   another payment was committed
          raced     \* history: charges on which such a payment was committed,
                    \*   and no other has set the status since

vars == <<paid, status, late, rowlock, at, req, stale, raced>>

(* The difference of the floats is positive.                               *)
Outstanding(c, sum) == sum < Due(c) \/ (sum = Due(c) /\ c \in Above)

(* What the statuses of a sum of payments are.                             *)
Settled(c, sum) == IF sum >= Due(c) THEN {"paid"}
                   ELSE IF sum > 0 THEN {"partial"} ELSE {"pending", "overdue"}

Init == /\ paid = [c \in Charges |-> 0]
        /\ status = [c \in Charges |-> "pending"]
        /\ late = {}
        /\ rowlock = [c \in Charges |-> None]
        /\ at = [s \in Sessions |-> "idle"]
        /\ req = [s \in Sessions |-> None]
        /\ stale = {} /\ raced = {}

-----------------------------------------------------------------------------
(* Faulty variant: any amount will do.                                     *)
LoadAny(s, c, m) ==
  /\ at[s] = "idle"
  /\ req' = [req EXCEPT ![s] = [charge |-> c, amount |-> m,
                                seen |-> status[c], write |-> status[c]]]
  /\ at' = [at EXCEPT ![s] = "loaded"]
  /\ UNCHANGED <<paid, status, late, rowlock, stale, raced>>

(* db.get: the session keeps the charge as it is now. *)
Load(s, c, m) ==
  /\ at[s] = "idle"
  /\ IsPositive(m)
  /\ req' = [req EXCEPT ![s] = [charge |-> c, amount |-> m,
                                seen |-> status[c], write |-> status[c]]]
  /\ at' = [at EXCEPT ![s] = "loaded"]
  /\ UNCHANGED <<paid, status, late, rowlock, stale, raced>>

(* Faulty variant: the amount is not compared with what is outstanding.    *)
GuardFullyPaid(s) ==
  LET c == req[s].charge
  IN  /\ at[s] = "loaded"
      /\ Outstanding(c, paid[c])
      /\ at' = [at EXCEPT ![s] = "guarded"]
      /\ UNCHANGED <<paid, status, late, rowlock, req, stale, raced>>

(* The guard against overpayment compares floats: a rounding error more    *)
(* than what is outstanding may pass. A request it refuses ends with Abort. *)
Within(a, cents) == a.cents < cents \/ (a.cents = cents /\ a.rest \in {"none", "dust"})

Guard(s) ==
  LET c == req[s].charge
  IN  /\ at[s] = "loaded"
      /\ Outstanding(c, paid[c])
      /\ Within(req[s].amount, Due(c) - paid[c])
      /\ at' = [at EXCEPT ![s] = "guarded"]
      /\ UNCHANGED <<paid, status, late, rowlock, req, stale, raced>>

(* Faulty variant: the late fee is forgotten when the status is recomputed. *)
RecomputeRentOnly(s) ==
  LET c   == req[s].charge
      sum == paid[c] + Stored(req[s].amount)
  IN  /\ at[s] = "guarded"
      /\ req' = [req EXCEPT ![s].write = IF sum >= Rent[c] THEN "paid" ELSE "partial"]
      /\ at' = [at EXCEPT ![s] = "summed"]
      /\ UNCHANGED <<paid, status, late, rowlock, stale, raced>>

(* The payment is inserted, which nobody else sees yet, and the sum read   *)
(* again; it is zero when the first payment was stored as 0.00.            *)
NewStatus(c, sum) == IF ~Outstanding(c, sum) THEN "paid"
                     ELSE IF sum > 0 THEN "partial"
                     ELSE IF c \in late THEN "overdue" ELSE "pending"

Recompute(s) ==
  LET c   == req[s].charge
      sum == paid[c] + Stored(req[s].amount)
  IN  /\ at[s] = "guarded"
      /\ req' = [req EXCEPT ![s].write = NewStatus(c, sum)]
      /\ at' = [at EXCEPT ![s] = "summed"]
      /\ UNCHANGED <<paid, status, late, rowlock, stale, raced>>

(* The second flush: an UPDATE only when the status differs from the one   *)
(* loaded; it waits for the row while another open transaction has it.     *)
Writes(s) == req[s].write # req[s].seen

Flush(s) ==
  LET c == req[s].charge
  IN  /\ at[s] = "summed"
      /\ Writes(s) => rowlock[c] = None
      /\ rowlock' = IF Writes(s) THEN [rowlock EXCEPT ![c] = s] ELSE rowlock
      /\ at' = [at EXCEPT ![s] = "flushed"]
      /\ UNCHANGED <<paid, status, late, req, stale, raced>>

Unlocked(s) == [c \in Charges |-> IF rowlock[c] = s THEN None ELSE rowlock[c]]

PastGuard == {"guarded", "summed", "flushed"}

Commit(s) ==
  LET c == req[s].charge
  IN  /\ at[s] = "flushed"
      /\ paid' = [paid EXCEPT ![c] = @ + Stored(req[s].amount)]
      /\ status' = IF Writes(s) THEN [status EXCEPT ![c] = req[s].write] ELSE status
      /\ rowlock' = Unlocked(s)
      /\ at' = [at EXCEPT ![s] = "idle"]
      /\ stale' = (stale \cup {t \in Sessions : at[t] \in PastGuard /\ req[t].charge = c})
                  \ {s}
      /\ raced' = IF s \in stale THEN raced \cup {c}
                  ELSE IF Writes(s) \/ status[c] = req[s].seen THEN raced \ {c} ELSE raced
      /\ req' = [req EXCEPT ![s] = None]
      /\ UNCHANGED late

(* A refusal, an error, the end of a REST request, of the process or of    *)
(* the connection: everything since the load is rolled back.               *)
Abort(s) ==
  /\ at[s] # "idle"
  /\ rowlock' = Unlocked(s)
  /\ at' = [at EXCEPT ![s] = "idle"]
  /\ req' = [req EXCEPT ![s] = None]
  /\ stale' = stale \ {s}
  /\ UNCHANGED <<paid, status, late, raced>>

(* Midnight after the due date. *)
FallDue(c) == /\ c \notin late
              /\ late' = late \cup {c}
              /\ UNCHANGED <<paid, status, rowlock, at, req, stale, raced>>

Next == \/ \E s \in Sessions :
             \/ \E c \in Charges, m \in Asked : Load(s, c, m)
             \/ Guard(s) \/ Recompute(s) \/ Flush(s) \/ Commit(s) \/ Abort(s)
        \/ \E c \in Charges : FallDue(c)

Spec == Init /\ [][Next]_vars

-----------------------------------------------------------------------------
TypeOK == /\ paid \in [Charges -> Nat]
          /\ status \in [Charges -> Statuses]
          /\ late \subseteq Charges
          /\ rowlock \in [Charges -> Sessions \cup {None}]
          /\ at \in [Sessions -> Steps]
          /\ req \in [Sessions -> Request \cup {None}]
          /\ \A s \in Sessions : at[s] # "idle" => req[s] \in Request
          /\ stale \subseteq Sessions /\ raced \subseteq Charges

(* A charge marked paid is covered by committed payments, fee included,    *)
(* however the transactions of its payers overlap or are rolled back.      *)
PaidMeansCovered ==
  \A c \in Charges : status[c] = "paid" => paid[c] >= Due(c)

(* The sum never exceeds what is due and the status says what the sum is,  *)
(* pending and overdue (after the due date only) included, but for two     *)
(* causes: the last payment was committed by a session that another one    *)
(* overtook after the guard, or the float total of the charge lies above   *)
(* the exact one, which leaves a charge that is paid in full partial. The  *)
(* next payment that nobody overtakes repairs the status.                  *)
ChargesAgree ==
  \A c \in Charges \ raced :
     /\ paid[c] <= Due(c)
     /\ \/ status[c] \in Settled(c, paid[c])
        \/ c \in Above /\ paid[c] = Due(c) /\ status[c] = "partial"
     /\ status[c] = "overdue" => c \in late
=============================================================================
