------------------------- MODULE RentLedger_proofs -------------------------
(***************************************************************************)
(* RentLedger keeps its invariants for any number of charges and payers.   *)
(* IInv adds what a session's reads still say after others have committed. *)
(***************************************************************************)
EXTENDS RentLedger, TLAPS

(* The status that the float comparisons give a sum. *)
Says(c, st, sum) == IF ~Outstanding(c, sum) THEN st = "paid"
                    ELSE IF sum > 0 THEN st = "partial" ELSE st \in {"pending", "overdue"}

(* What a session loaded is never undone: payments are never taken away.   *)
SeenStillHolds(s) ==
  at[s] # "idle" =>
    /\ IsPositive(req[s].amount)
    /\ req[s].seen = "partial" => paid[req[s].charge] > 0
    /\ req[s].seen = "paid" => ~Outstanding(req[s].charge, paid[req[s].charge])

(* The sum a session read is at most what will be there when it commits.   *)
WriteIsCovered(s) ==
  at[s] \in {"summed", "flushed"} =>
    /\ req[s].write = "paid" =>
         ~Outstanding(req[s].charge, paid[req[s].charge] + Stored(req[s].amount))
    /\ req[s].write = "partial" => paid[req[s].charge] + Stored(req[s].amount) > 0
    /\ req[s].write = "overdue" => req[s].charge \in late

(* Nobody has committed on the charge since the guard: the guard's         *)
(* comparison and the recomputed status still hold.                        *)
FreshIsExact(s) ==
  at[s] \in PastGuard /\ s \notin stale =>
    /\ Outstanding(req[s].charge, paid[req[s].charge])
    /\ paid[req[s].charge] + Stored(req[s].amount) <= Due(req[s].charge)
    /\ at[s] # "guarded" =>
         Says(req[s].charge, req[s].write, paid[req[s].charge] + Stored(req[s].amount))

(* The same of the committed statuses. *)
ChargeOK(c) ==
  /\ status[c] = "partial" => paid[c] > 0
  /\ status[c] = "paid" => ~Outstanding(c, paid[c])
  /\ status[c] = "overdue" => c \in late
  /\ c \notin raced => paid[c] <= Due(c) /\ Says(c, status[c], paid[c])

IInv == /\ TypeOK
        /\ \A s \in Sessions : SeenStillHolds(s) /\ WriteIsCovered(s) /\ FreshIsExact(s)
        /\ \A c \in Charges : ChargeOK(c)

(* The total of a charge is a positive number. *)
LEMMA DueIsPositive == \A c \in Charges : Due(c) \in Nat /\ Due(c) > 0
  BY RentAssumption DEF Due

(* A charge that is settled stays so as payments are added. *)
LEMMA SettledStays ==
  ASSUME NEW c \in Charges, NEW x \in Int, NEW y \in Int, x <= y, ~Outstanding(c, x)
  PROVE  ~Outstanding(c, y)
  BY DueIsPositive DEF Outstanding

(* What is stored of an amount is a whole number, and not negative when    *)
(* the amount is positive.                                                 *)
LEMMA StoredIs ==
  ASSUME NEW a \in Amount
  PROVE  Stored(a) \in Int /\ (IsPositive(a) => Stored(a) >= 0)
  BY DEF Amount, Stored, IsPositive

(* What the guard lets through is, once stored, no more than is left. *)
LEMMA WithinStored ==
  ASSUME NEW a \in Amount, NEW left \in Int, Within(a, left)
  PROVE  Stored(a) <= left
  BY DEF Amount, Stored, Within

(* The invariant holds at the start. *)
LEMMA InitOK == Init => IInv
  BY DueIsPositive, RentAssumption
  DEF Init, IInv, TypeOK, SeenStillHolds, WriteIsCovered, FreshIsExact, ChargeOK, Says,
      Outstanding, Statuses, Steps, PastGuard

(* The steps that commit nothing leave charges as they are: what they must *)
(* keep is the acting session's own part.                                  *)
LEMMA QuietStep ==
  ASSUME IInv, NEW s \in Sessions, TypeOK',
         UNCHANGED <<paid, status, late, raced>>,
         stale' \in {stale, stale \ {s}},
         \A t \in Sessions \ {s} : at'[t] = at[t] /\ req'[t] = req[t],
         SeenStillHolds(s)', WriteIsCovered(s)', FreshIsExact(s)'
  PROVE  IInv'
<1>1. ASSUME NEW t \in Sessions
      PROVE  (SeenStillHolds(t) /\ WriteIsCovered(t) /\ FreshIsExact(t))'
  <2>1. CASE t = s
    BY <2>1
  <2>2. CASE t # s
    BY <2>2 DEF IInv, SeenStillHolds, WriteIsCovered, FreshIsExact, Says, Outstanding, Due
  <2> QED BY <2>1, <2>2
<1>2. \A c \in Charges : ChargeOK(c)'
  BY DEF IInv, ChargeOK, Says, Outstanding, Due
<1> QED BY <1>1, <1>2 DEF IInv

(* Types, action by action. *)
LEMMA TypeStep == IInv /\ [Next]_vars => TypeOK'
<1> SUFFICES ASSUME IInv, [Next]_vars PROVE TypeOK'
  OBVIOUS
<1> USE DEF IInv, TypeOK, Statuses, Steps
<1>1. ASSUME NEW s \in Sessions, NEW c \in Charges, NEW m \in Asked, Load(s, c, m)
      PROVE  TypeOK'
  <2>1. req'[s] = [charge |-> c, amount |-> m, seen |-> status[c], write |-> status[c]]
        /\ m \in Amount /\ status[c] \in Statuses /\ req'[s] \in Request
    BY <1>1, RentAssumption DEF Load, Request
  <2> QED BY <1>1, <2>1 DEF Load
<1>2. ASSUME NEW s \in Sessions, Guard(s) PROVE TypeOK'
  BY <1>2 DEF Guard
<1>3. ASSUME NEW s \in Sessions, Recompute(s) PROVE TypeOK'
  <2>1. at[s] # "idle" /\ req[s] \in Request
    BY <1>3 DEF Recompute
  <2>2. PICK w \in Statuses : req' = [req EXCEPT ![s].write = w]
    BY <1>3 DEF Recompute, NewStatus
  <2>3. req'[s] = [req[s] EXCEPT !.write = w] /\ req'[s] \in Request
    BY <2>1, <2>2 DEF Request
  <2> QED BY <1>3, <2>2, <2>3 DEF Recompute
<1>4. ASSUME NEW s \in Sessions, Flush(s) PROVE TypeOK'
  BY <1>4 DEF Flush
<1>5. ASSUME NEW s \in Sessions, Commit(s) PROVE TypeOK'
  <2>1. req[s] \in Request /\ IsPositive(req[s].amount)
    BY <1>5 DEF Commit, SeenStillHolds
  <2>2. req[s].charge \in Charges /\ Stored(req[s].amount) \in Nat /\ req[s].write \in Statuses
    BY <2>1, StoredIs DEF Request
  <2>3. paid' \in [Charges -> Nat]
    BY <1>5, <2>2 DEF Commit
  <2>4. status' \in [Charges -> Statuses]
    BY <1>5, <2>2 DEF Commit
  <2> QED BY <1>5, <2>2, <2>3, <2>4 DEF Commit, Unlocked
<1>6. ASSUME NEW s \in Sessions, Abort(s) PROVE TypeOK'
  BY <1>6 DEF Abort, Unlocked
<1>7. ASSUME NEW c \in Charges, FallDue(c) PROVE TypeOK'
  BY <1>7 DEF FallDue
<1>8. CASE UNCHANGED vars
  BY <1>8 DEF vars
<1> QED BY <1>1, <1>2, <1>3, <1>4, <1>5, <1>6, <1>7, <1>8 DEF Next

(* A commit: the charge it pays for, the sessions it overtakes, the rest.  *)
LEMMA CommitOK ==
  ASSUME IInv, NEW s \in Sessions, Commit(s), TypeOK'
  PROVE  IInv'
<1> DEFINE c == req[s].charge
           m == Stored(req[s].amount)
<1>1. /\ req[s] \in Request /\ c \in Charges /\ m \in Nat
      /\ req[s].write \in Statuses /\ req[s].seen \in Statuses
  BY StoredIs DEF IInv, TypeOK, Commit, SeenStillHolds, Request
<1>2. /\ paid \in [Charges -> Nat] /\ status \in [Charges -> Statuses]
      /\ \A d \in Charges : /\ Due(d) \in Nat /\ Due(d) > 0
                            /\ paid[d] \in Int /\ paid'[d] \in Int
  BY DueIsPositive DEF IInv, TypeOK
<1>3. /\ paid'[c] = paid[c] + m
      /\ \A d \in Charges \ {c} : paid'[d] = paid[d] /\ status'[d] = status[d]
      /\ status'[c] = IF Writes(s) THEN req[s].write ELSE status[c]
      /\ \A d \in Charges : paid'[d] >= paid[d]
      /\ late' = late
  BY <1>1, <1>2 DEF Commit
<1>4. /\ at'[s] = "idle" /\ at[s] = "flushed"
      /\ \A t \in Sessions \ {s} : at'[t] = at[t] /\ req'[t] = req[t]
  BY DEF Commit, IInv, TypeOK
<1>5. ASSUME NEW t \in Sessions
      PROVE  (SeenStillHolds(t) /\ WriteIsCovered(t) /\ FreshIsExact(t))'
  <2>1. CASE at'[t] = "idle"
    BY <2>1 DEF SeenStillHolds, WriteIsCovered, FreshIsExact, PastGuard
  <2>2. CASE at'[t] # "idle"
    <3> DEFINE e == req[t].charge
               n == Stored(req[t].amount)
    <3>0. t # s /\ at'[t] = at[t] /\ req'[t] = req[t] /\ at[t] # "idle"
      BY <2>2, <1>4
    <3>1. /\ req[t] \in Request /\ e \in Charges /\ n \in Int
          /\ SeenStillHolds(t) /\ WriteIsCovered(t) /\ FreshIsExact(t)
      BY <3>0, StoredIs DEF IInv, TypeOK, Request
    <3>2. paid'[e] >= paid[e] /\ paid[e] \in Int /\ paid'[e] \in Int
      BY <3>1, <1>2, <1>3
    <3>3. SeenStillHolds(t)'
      BY <3>0, <3>1, <3>2, SettledStays DEF SeenStillHolds, Outstanding, Due
    <3>4. WriteIsCovered(t)'
      <4>1. paid[e] + n <= paid'[e] + n /\ paid[e] + n \in Int /\ paid'[e] + n \in Int
        BY <3>1, <3>2
      <4>2. ~Outstanding(e, paid[e] + n) => ~Outstanding(e, paid'[e] + n)
        BY <3>1, <4>1, SettledStays
      <4>3. paid[e] + n > 0 => paid'[e] + n > 0
        BY <4>1
      <4> QED BY <3>0, <3>1, <4>2, <4>3, <1>3 DEF WriteIsCovered, Outstanding, Due
    <3>5. FreshIsExact(t)'
      <4>1. CASE at[t] \in PastGuard /\ e = c
        <5>1. t \in stale'
          BY <4>1, <3>0 DEF Commit
        <5> QED BY <5>1 DEF FreshIsExact
      <4>2. CASE at[t] \in PastGuard /\ e # c
        <5>1. (t \in stale' <=> t \in stale) /\ paid'[e] = paid[e]
          BY <4>2, <3>0, <3>1, <1>3 DEF Commit
        <5> QED BY <5>1, <4>2, <3>0, <3>1 DEF FreshIsExact, Says, Outstanding, Due
      <4>3. CASE at[t] \notin PastGuard
        BY <4>3, <3>0 DEF FreshIsExact, PastGuard
      <4> QED BY <4>1, <4>2, <4>3
    <3> QED BY <3>3, <3>4, <3>5
  <2> QED BY <2>1, <2>2
<1>6. ASSUME NEW d \in Charges PROVE ChargeOK(d)'
  <2>0. ChargeOK(d) BY DEF IInv
  <2>1. CASE d # c
    <3>1. paid'[d] = paid[d] /\ status'[d] = status[d] /\ (d \in raced' <=> d \in raced)
      BY <2>1, <1>3 DEF Commit
    <3> QED BY <2>0, <3>1, <1>3 DEF ChargeOK, Says, Outstanding, Due
  <2>2. CASE d = c
    <3>1. WriteIsCovered(s) /\ FreshIsExact(s) /\ SeenStillHolds(s)
      BY DEF IInv
    <3>2. paid[c] + m \in Int /\ paid[c] <= paid[c] + m /\ paid[c] \in Nat
      BY <1>1, <1>2
    <3>3. /\ req[s].write = "paid" => ~Outstanding(c, paid[c] + m)
          /\ req[s].write = "partial" => paid[c] + m > 0
          /\ req[s].write = "overdue" => c \in late
      BY <3>1, <1>4 DEF WriteIsCovered
    <3>4. /\ status[c] = "paid" => ~Outstanding(c, paid[c] + m)
          /\ status[c] = "partial" => paid[c] + m > 0
          /\ status[c] = "overdue" => c \in late
      BY <2>0, <2>2, <3>2, <1>1, SettledStays DEF ChargeOK
    <3>5. /\ status'[c] = "paid" => ~Outstanding(c, paid'[c])
          /\ status'[c] = "partial" => paid'[c] > 0
          /\ status'[c] = "overdue" => c \in late'
      BY <3>3, <3>4, <1>3
    <3>6. ASSUME c \notin raced'
          PROVE  paid'[c] <= Due(c) /\ Says(c, status'[c], paid'[c])
      <4>1. s \notin stale BY <3>6 DEF Commit
      <4>2. /\ Outstanding(c, paid[c]) /\ paid[c] + m <= Due(c)
            /\ Says(c, req[s].write, paid[c] + m)
        BY <3>1, <4>1, <1>4 DEF FreshIsExact, PastGuard
      <4>3. CASE Writes(s)
        BY <4>2, <4>3, <1>3
      <4>4. CASE ~Writes(s) /\ status[c] = req[s].seen
        BY <4>2, <4>4, <1>3 DEF Writes
      <4>5. CASE ~Writes(s) /\ status[c] # req[s].seen
        <5>1. c \notin raced BY <3>6, <4>1, <4>5 DEF Commit
        <5>2. Says(c, status[c], paid[c]) BY <2>0, <2>2, <5>1 DEF ChargeOK
        <5>3. status[c] # "paid" BY <2>0, <2>2, <4>2 DEF ChargeOK
        <5>4. req[s].seen # "paid" /\ (req[s].seen = "partial" => paid[c] > 0)
          BY <3>1, <4>2, <1>4 DEF SeenStillHolds
        <5>5. Says(c, status[c], paid[c] + m)
          BY <4>2, <4>5, <5>2, <5>3, <5>4, <3>2, <1>1 DEF Says, Writes, Statuses
        <5> QED BY <4>2, <4>5, <5>5, <1>3
      <4> QED BY <4>3, <4>4, <4>5
    <3> QED BY <2>2, <3>5, <3>6 DEF ChargeOK, Says, Outstanding, Due
  <2> QED BY <2>1, <2>2
<1> QED BY <1>5, <1>6 DEF IInv

(* Every step keeps the invariant. *)
LEMMA StepOK == IInv /\ [Next]_vars => IInv'
<1> SUFFICES ASSUME IInv, [Next]_vars PROVE IInv'
  OBVIOUS
<1>0. TypeOK'
  BY TypeStep
<1>1. ASSUME NEW s \in Sessions, NEW c \in Charges, NEW m \in Asked, Load(s, c, m)
      PROVE  IInv'
  <2>1. /\ at'[s] = "loaded" /\ IsPositive(m)
        /\ req'[s] = [charge |-> c, amount |-> m, seen |-> status[c], write |-> status[c]]
    BY <1>1 DEF Load, IInv, TypeOK
  <2>2. SeenStillHolds(s)'
    BY <1>1, <2>1 DEF Load, SeenStillHolds, IInv, ChargeOK, Outstanding, Due
  <2>3. WriteIsCovered(s)' /\ FreshIsExact(s)'
    BY <2>1 DEF WriteIsCovered, FreshIsExact, PastGuard
  <2> QED BY <1>0, <1>1, <2>2, <2>3, QuietStep DEF Load, IInv, TypeOK
<1>2. ASSUME NEW s \in Sessions, Guard(s) PROVE IInv'
  <2>0. req[s] \in Request /\ at'[s] = "guarded" /\ req' = req
    BY <1>2 DEF Guard, IInv, TypeOK
  <2>1. /\ req[s].charge \in Charges /\ req[s].amount \in Amount
        /\ paid[req[s].charge] \in Nat /\ Due(req[s].charge) \in Nat
    BY <2>0, DueIsPositive DEF Request, IInv, TypeOK
  <2>2. SeenStillHolds(s)' /\ WriteIsCovered(s)'
    BY <1>2, <2>0 DEF Guard, IInv, SeenStillHolds, WriteIsCovered, Outstanding, Due
  <2>3. FreshIsExact(s)'
    <3>1. Stored(req[s].amount) <= Due(req[s].charge) - paid[req[s].charge]
      BY <1>2, <2>1, WithinStored DEF Guard
    <3>2. paid[req[s].charge] + Stored(req[s].amount) <= Due(req[s].charge)
      BY <2>1, <3>1, StoredIs
    <3> QED BY <1>2, <2>0, <3>2 DEF Guard, FreshIsExact, Outstanding, Due
  <2> QED BY <1>0, <1>2, <2>2, <2>3, QuietStep DEF Guard, IInv, TypeOK
<1>3. ASSUME NEW s \in Sessions, Recompute(s) PROVE IInv'
  <2> DEFINE c == req[s].charge
             m == Stored(req[s].amount)
             w == NewStatus(c, paid[c] + m)
  <2>0. req[s] \in Request /\ at[s] = "guarded" /\ at'[s] = "summed"
    BY <1>3 DEF Recompute, IInv, TypeOK
  <2>1. /\ req'[s] = [req[s] EXCEPT !.write = w]
        /\ req'[s].charge = c /\ req'[s].amount = req[s].amount
        /\ req'[s].seen = req[s].seen /\ req'[s].write = w
    BY <1>3, <2>0 DEF Recompute, Request, IInv, TypeOK
  <2>2. /\ Says(c, w, paid[c] + m) /\ (w = "paid" => ~Outstanding(c, paid[c] + m))
        /\ (w = "partial" => paid[c] + m > 0) /\ (w = "overdue" => c \in late)
    BY DEF Says, NewStatus
  <2>3. UNCHANGED <<paid, status, late, stale>>
    BY <1>3 DEF Recompute
  <2> HIDE DEF w
  <2>4. SeenStillHolds(s)'
    BY <2>0, <2>1, <2>3 DEF IInv, SeenStillHolds, Outstanding, Due
  <2>5. WriteIsCovered(s)'
    BY <2>0, <2>1, <2>2, <2>3 DEF WriteIsCovered, Outstanding, Due
  <2>6. FreshIsExact(s)'
    BY <2>0, <2>1, <2>2, <2>3
    DEF IInv, FreshIsExact, Says, Outstanding, Due, PastGuard
  <2> QED BY <1>0, <1>3, <2>4, <2>5, <2>6, QuietStep DEF Recompute, IInv, TypeOK
<1>4. ASSUME NEW s \in Sessions, Flush(s) PROVE IInv'
  <2>1. at[s] = "summed" /\ at'[s] = "flushed" /\ req' = req
    BY <1>4 DEF Flush, IInv, TypeOK
  <2>2. SeenStillHolds(s)' /\ WriteIsCovered(s)' /\ FreshIsExact(s)'
    BY <1>4, <2>1
    DEF Flush, IInv, SeenStillHolds, WriteIsCovered, FreshIsExact, PastGuard, Due, Outstanding,
        Says
  <2> QED BY <1>0, <1>4, <2>2, QuietStep DEF Flush, IInv, TypeOK
<1>5. ASSUME NEW s \in Sessions, Commit(s) PROVE IInv'
  BY <1>0, <1>5, CommitOK
<1>6. ASSUME NEW s \in Sessions, Abort(s) PROVE IInv'
  <2>1. at'[s] = "idle"
    BY <1>6 DEF Abort, IInv, TypeOK
  <2>2. SeenStillHolds(s)' /\ WriteIsCovered(s)' /\ FreshIsExact(s)'
    BY <2>1 DEF SeenStillHolds, WriteIsCovered, FreshIsExact, PastGuard
  <2> QED BY <1>0, <1>6, <2>2, QuietStep DEF Abort, IInv, TypeOK
<1>7. ASSUME UNCHANGED <<paid, status, rowlock, at, req, stale, raced>>, late \subseteq late'
      PROVE  IInv'
  BY <1>0, <1>7 DEF IInv, TypeOK, SeenStillHolds, WriteIsCovered, FreshIsExact,
                    ChargeOK, Says, Outstanding, Due
<1>8. CASE \E c \in Charges : FallDue(c)
  BY <1>7, <1>8 DEF FallDue
<1>9. CASE UNCHANGED vars
  BY <1>7, <1>9 DEF vars
<1> QED BY <1>1, <1>2, <1>3, <1>4, <1>5, <1>6, <1>8, <1>9 DEF Next

(* The inductive invariant holds in every reachable state. *)
LEMMA Invariance == Spec => []IInv
  BY InitOK, StepOK, PTL DEF Spec

(* Charges, locks and requests stay well typed: no amount that is not      *)
(* positive reaches the sum of a charge.                                   *)
THEOREM TypeCorrect == Spec => []TypeOK
<1>1. IInv => TypeOK
  BY DEF IInv
<1> QED BY Invariance, <1>1, PTL

(* A charge marked paid is covered, whatever races there were.             *)
THEOREM PaidIsCovered == Spec => []PaidMeansCovered
<1>1. IInv => PaidMeansCovered
  BY DueIsPositive DEF IInv, TypeOK, ChargeOK, PaidMeansCovered, Outstanding
<1> QED BY Invariance, <1>1, PTL

(* Only a payment overtaken after its guard can exceed what is due or      *)
(* leave a status behind; a float total that is too high leaves one that   *)
(* says partial of a charge paid in full.                                  *)
THEOREM OnlyRacesDisagree == Spec => []ChargesAgree
<1>1. ASSUME IInv, NEW c \in Charges \ raced
      PROVE  /\ paid[c] <= Due(c)
             /\ \/ status[c] \in Settled(c, paid[c])
                \/ c \in Above /\ paid[c] = Due(c) /\ status[c] = "partial"
             /\ status[c] = "overdue" => c \in late
  <2>1. paid[c] <= Due(c) /\ Says(c, status[c], paid[c]) /\ (status[c] = "overdue" => c \in late)
    BY <1>1 DEF IInv, ChargeOK
  <2>2. paid[c] \in Nat /\ Due(c) \in Nat /\ Due(c) > 0
    BY <1>1, DueIsPositive DEF IInv, TypeOK
  <2>3. CASE paid[c] < Due(c)
    BY <2>1, <2>2, <2>3 DEF Says, Outstanding, Settled
  <2>4. CASE paid[c] = Due(c)
    BY <2>1, <2>2, <2>4 DEF Says, Outstanding, Settled
  <2> QED BY <2>1, <2>2, <2>3, <2>4
<1>2. IInv => ChargesAgree
  BY <1>1 DEF ChargesAgree
<1> QED BY Invariance, <1>2, PTL
=============================================================================
