--------------------------- MODULE SplatLab_proofs ---------------------------
(* What SplatLab promises for every set of jobs and of calls and, in the   *)
(* last part, what UnitOfWork promises for every set of requests and of    *)
(* changes. The two components share nothing.                              *)
EXTENDS SplatLab, UnitOfWork, TLAPS

(* A call that works alone is never behind its row, unless it runs again   *)
(* and has not reached it: the row says at most what the call reports      *)
(* next, or is deleted.                                                    *)
Ahead(w) ==
  Works(w) =>
    /\ worker[w].made < Len(Reports)
    /\ \/ Shared(worker[w].job)
       \/ worker[w].again
       \/ row[worker[w].job] = "deleted"
       \/ Rank(row[worker[w].job]) <= Rank(NextReport(w))

Started(j) == \E w \in Workers : worker[w] # None /\ worker[w].job = j

(* Only a started job has a status beyond pending.                         *)
Unstarted(j) == ~Started(j) => /\ row[j] \in {"absent", "pending", "deleted"}
                               /\ starter # j

IInv == /\ LabTypeOK
        /\ StuckForACause
        /\ \A w \in Workers : Ahead(w)
        /\ \A j \in Jobs : Unstarted(j)

-----------------------------------------------------------------------------
(* What the six reports are, and that none is behind the one before.       *)
LEMMA ReportsAre ==
  /\ Len(Reports) = 6
  /\ \A n \in 1..6 : Reports[n] \in InProgress \cup {"ready"}
  /\ Rank(Reports[1]) = 1 /\ Rank(Reports[2]) = 1 /\ Rank(Reports[3]) = 2
  /\ Rank(Reports[4]) = 3 /\ Rank(Reports[5]) = 4 /\ Rank(Reports[6]) = 5
<1>1. /\ Len(Reports) = 6
      /\ Reports[1] = "extracting" /\ Reports[2] = "extracting" /\ Reports[3] = "sfm"
      /\ Reports[4] = "training" /\ Reports[5] = "compressing" /\ Reports[6] = "ready"
  BY DEF Reports
<1>2. \A n \in 1..6 : n \in {1, 2, 3, 4, 5, 6}
  OBVIOUS
<1> QED
  BY <1>1, <1>2 DEF Rank, InProgress

LEMMA ReportsGoForward ==
  \A n \in 1..5 : Rank(Reports[n]) <= Rank(Reports[n + 1])
<1>1. \A n \in 1..5 : n \in {1, 2, 3, 4, 5}
  OBVIOUS
<1>2. 1 + 1 = 2 /\ 2 + 1 = 3 /\ 3 + 1 = 4 /\ 4 + 1 = 5 /\ 5 + 1 = 6
  OBVIOUS
<1> QED
  BY <1>1, <1>2, ReportsAre

LEMMA RankType ==
  ASSUME NEW s \in Statuses
  PROVE  /\ Rank(s) \in 0..5
         /\ Rank("ready") = 5 /\ Rank("failed") = 5 /\ Rank("deleted") = 5
         /\ Rank("pending") = 0 /\ Rank("extracting") = 1
         /\ s # "pending" => Rank(s) >= 1
BY DEF Rank, Statuses, InProgress

(* One UPDATE changes the row of its job, unless that is gone.             *)
LEMMA WriteRow ==
  ASSUME LabTypeOK, NEW j \in Jobs, NEW s \in Statuses, Write(j, s)
  PROVE  /\ row' \in [Jobs -> Statuses]
         /\ \A q \in Jobs \ {j} : row'[q] = row[q]
         /\ row'[j] = IF row[j] = "deleted" THEN "deleted" ELSE s
BY DEF Write, LabTypeOK

(* What a call does by itself, and what Modal does with it.                *)
WorkerStep(w) == \/ Advance(w) \/ Finish(w) \/ Fail(w)
                 \/ Die(w) \/ HandOver(w) \/ Rerun(w)

LEMMA CallsStayCalls ==
  ASSUME LabTypeOK, NEW w \in Workers, WorkerStep(w)
  PROVE  /\ worker[w] \in Calls /\ worker[w] # None
         /\ worker[w].job \in Jobs /\ worker[w].made \in 0..6 /\ worker[w].again \in BOOLEAN
         /\ Advance(w) => worker[w].made + 1 \in 1..6
         /\ worker' \in [Workers -> Calls \cup {None}]
         /\ worker'[w] \in Calls
         /\ \A v \in Workers \ {w} : worker'[v] = worker[v]
<1>1. worker[w] \in Calls /\ worker[w] # None
  BY DEF WorkerStep, Works, Advance, Finish, Fail, Die, HandOver, Rerun, LabTypeOK
<1>2. worker[w].job \in Jobs /\ worker[w].made \in 0..6 /\ worker[w].again \in BOOLEAN
  BY <1>1, ReportsAre DEF Calls
<1>3. Advance(w) => worker[w].made + 1 \in 0..6 /\ worker[w].made + 1 \in 1..6
  BY <1>2, ReportsAre DEF Advance
<1>4. \E c \in Calls : worker' = [worker EXCEPT ![w] = c]
  <2>1. CASE Advance(w)
    <3>1. PICK b \in BOOLEAN : Reported(w, b)
      BY <1>2, <2>1 DEF Advance
    <3>2. [worker[w] EXCEPT !.made = @ + 1, !.again = b] \in Calls
      BY <1>1, <1>3, <2>1, ReportsAre DEF Calls
    <3> QED
      BY <3>1, <3>2 DEF Reported
  <2>2. CASE Finish(w) \/ Fail(w) \/ Die(w) \/ HandOver(w)
    <3>1. PICK t \in {"returns", "ended"} : Enter(w, t)
      BY <2>2 DEF Finish, Fail, Die, HandOver
    <3>2. [worker[w] EXCEPT !.state = t] \in Calls
      BY <1>1, <3>1 DEF Calls
    <3> QED
      BY <3>1, <3>2 DEF Enter
  <2>3. CASE Rerun(w)
    <3>1. [worker[w] EXCEPT !.made = 0, !.state = "works", !.again = TRUE] \in Calls
      <4>1. 0 \in 0 .. Len(Reports)
        BY ReportsAre
      <4> QED
        BY <1>1, <4>1 DEF Calls
    <3> QED
      BY <2>3, <3>1 DEF Rerun
  <2> QED
    BY <2>1, <2>2, <2>3 DEF WorkerStep
<1> QED
  BY <1>1, <1>2, <1>3, <1>4 DEF LabTypeOK

-----------------------------------------------------------------------------
LEMMA TypeStep == LabTypeOK /\ [LabNext]_labVars => LabTypeOK'
<1> SUFFICES ASSUME LabTypeOK, [LabNext]_labVars PROVE LabTypeOK'
  OBVIOUS
<1> USE NoneAssumption
<1>1. ASSUME NEW j \in Jobs, CreateJob(j) \/ DeleteJob(j) PROVE LabTypeOK'
  BY <1>1 DEF CreateJob, DeleteJob, LabTypeOK, Statuses
<1>2. ASSUME NEW j \in Jobs, NEW w \in Workers, Spawn(j, w) PROVE LabTypeOK'
  <2>1. [job |-> j, made |-> 0, state |-> "works", again |-> FALSE] \in Calls
    BY ReportsAre DEF Calls
  <2> QED
    BY <1>2, <2>1 DEF Spawn, LabTypeOK
<1>3. CASE MarkStarted
  <2>1. starter \in Jobs /\ row' \in [Jobs -> Statuses]
    BY <1>3, WriteRow DEF MarkStarted, LabTypeOK, Statuses, InProgress
  <2> QED
    BY <1>3, <2>1 DEF MarkStarted, LabTypeOK, Causes
<1>4. CASE MarkFails
  BY <1>4 DEF MarkFails, LabTypeOK
<1>5. ASSUME NEW w \in Workers, WorkerStep(w) PROVE LabTypeOK'
  <2>1. worker[w].job \in Jobs /\ worker' \in [Workers -> Calls \cup {None}]
    BY <1>5, CallsStayCalls
  <2>2. row' \in [Jobs -> Statuses] /\ why' \in [Jobs -> SUBSET Causes]
    <3>1. CASE Advance(w)
      <4>1. NextReport(w) \in Statuses
        BY <1>5, <3>1, CallsStayCalls, ReportsAre DEF Advance, NextReport, Statuses
      <4> QED
        BY <2>1, <3>1, <4>1, WriteRow DEF Advance, LabTypeOK
    <3>2. CASE Finish(w) \/ Fail(w) \/ Die(w)
      <4>1. row' \in [Jobs -> Statuses]
        BY <2>1, <3>2, WriteRow DEF Finish, Fail, Die, LabTypeOK, Statuses
      <4>2. why' \in [Jobs -> SUBSET Causes]
        BY <2>1, <3>2 DEF Finish, Fail, Die, Explained, Because, LabTypeOK, Causes
      <4> QED
        BY <4>1, <4>2
    <3>3. CASE HandOver(w) \/ Rerun(w)
      BY <3>3 DEF HandOver, Rerun, LabTypeOK
    <3> QED
      BY <1>5, <3>1, <3>2, <3>3 DEF WorkerStep
  <2>3. starter' = starter /\ column' = column
    BY <1>5 DEF WorkerStep, Advance, Finish, Fail, Die, HandOver, Rerun
  <2> QED
    BY <2>1, <2>2, <2>3 DEF LabTypeOK
<1>6. CASE UNCHANGED labVars
  BY <1>6 DEF labVars, LabTypeOK
<1> QED
  BY <1>1, <1>2, <1>3, <1>4, <1>5, <1>6 DEF LabNext, WorkerStep

-----------------------------------------------------------------------------
(* A call keeps its job for ever.                                          *)
LEMMA CallsKeepTheirJob ==
  ASSUME LabTypeOK, NEW w \in Workers, WorkerStep(w)
  PROVE  /\ worker[w] \in Calls /\ worker[w] # None
         /\ worker[w].job \in Jobs /\ worker[w].made \in 0..6 /\ worker[w].again \in BOOLEAN
         /\ worker'[w] \in Calls /\ worker'[w] # None /\ worker'[w].job = worker[w].job
         /\ \A v \in Workers \ {w} : worker'[v] = worker[v]
         /\ \A j \in Jobs : Shared(j)' = Shared(j) /\ Started(j)' = Started(j)
         /\ \A j \in Jobs : j # worker[w].job => Running(j)' = Running(j)
         /\ starter' = starter
<1> USE NoneAssumption
<1>1. worker[w] \in Calls /\ worker[w] # None
  BY CallsStayCalls
<1>2. worker[w].job \in Jobs /\ worker[w].made \in 0..6 /\ worker[w].again \in BOOLEAN
  BY CallsStayCalls
<1>3. \/ \E b : Reported(w, b)
      \/ \E t : Enter(w, t)
      \/ worker' = [worker EXCEPT ![w].made = 0, ![w].state = "works", ![w].again = TRUE]
  BY DEF WorkerStep, Advance, Finish, Fail, Die, HandOver, Rerun
<1>4. \A v \in Workers \ {w} : worker'[v] = worker[v]
  BY CallsStayCalls
<1>5. worker'[w].job = worker[w].job
  BY <1>1, <1>3 DEF Reported, Enter, LabTypeOK, Calls
<1>6. worker'[w] \in Calls /\ worker'[w] # None
  BY CallsStayCalls
<1>7. \A v \in Workers : /\ (worker'[v] # None) <=> (worker[v] # None)
                         /\ worker'[v].job = worker[v].job
  BY <1>1, <1>4, <1>5, <1>6
<1>8. \A j \in Jobs : Shared(j)' = Shared(j) /\ Started(j)' = Started(j)
  BY <1>7 DEF Shared, Started
<1>9. \A j \in Jobs : j # worker[w].job => Running(j)' = Running(j)
  BY <1>4, <1>7 DEF Running, Works
<1>10. starter' = starter
  BY DEF WorkerStep, Advance, Finish, Fail, Die, HandOver, Rerun
<1> QED
  BY <1>1, <1>2, <1>4, <1>5, <1>6, <1>8, <1>9, <1>10

(* What the row of a call that works on says next, it has said already or  *)
(* reports now.                                                            *)
LEMMA AdvanceGoesForward ==
  ASSUME LabTypeOK, NEW w \in Workers, Ahead(w), Advance(w), ~Shared(worker[w].job),
         ~worker[w].again, row[worker[w].job] # "deleted"
  PROVE  /\ Rank(row[worker[w].job]) <= Rank(row'[worker[w].job])
         /\ Rank(row'[worker[w].job]) <= Rank(NextReport(w))
<1> DEFINE j == worker[w].job
           n == worker[w].made + 1
<1>0. j \in Jobs /\ worker[w].made \in 0..6 /\ Works(w)
  BY CallsKeepTheirJob DEF WorkerStep, Advance
<1>1. n \in 1..6 /\ n < 6
  BY <1>0, ReportsAre DEF Advance
<1>2. Rank(row[j]) <= Rank(Reports[n]) /\ NextReport(w) = Reports[n]
  BY <1>0 DEF Ahead, NextReport
<1>3. Reports[n] \in Statuses
  BY <1>1, ReportsAre DEF Statuses
<1>4. row'[j] = Reports[n] \/ row'[j] = row[j]
  BY <1>0, <1>2, <1>3, WriteRow DEF Advance
<1>5. Rank(row[j]) \in Int /\ Rank(Reports[n]) \in Int
  BY <1>0, <1>3, RankType DEF LabTypeOK
<1> QED
  BY <1>2, <1>4, <1>5

-----------------------------------------------------------------------------
LEMMA InitInvariant == LabInit => IInv
BY NoneAssumption DEF LabInit, IInv, LabTypeOK, Statuses, StuckForACause, InProgress, Ahead, Works, Unstarted, Started

LEMMA StepInvariant == IInv /\ [LabNext]_labVars => IInv'
<1> SUFFICES ASSUME IInv, [LabNext]_labVars PROVE IInv'
  OBVIOUS
<1> USE NoneAssumption
<1>0. /\ LabTypeOK /\ StuckForACause /\ LabTypeOK'
      /\ (\A w \in Workers : Ahead(w)) /\ (\A j \in Jobs : Unstarted(j))
  BY TypeStep DEF IInv
<1>1. ASSUME NEW j \in Jobs, CreateJob(j) PROVE IInv'
  <2>1. /\ row' = [row EXCEPT ![j] = "pending"] /\ worker' = worker /\ starter' = starter /\ why' = why
        /\ row[j] = "absent" /\ row' \in [Jobs -> Statuses]
    BY <1>0, <1>1 DEF CreateJob, LabTypeOK
  <2>2. StuckForACause'
    BY <1>0, <2>1 DEF StuckForACause, Running, Works, InProgress, LabTypeOK
  <2>3. ASSUME NEW w \in Workers PROVE Ahead(w)'
    <3>1. Ahead(w) /\ (Shared(worker[w].job)' <=> Shared(worker[w].job)) /\ NextReport(w)' = NextReport(w)
          /\ (Works(w)' <=> Works(w))
      BY <1>0, <2>1 DEF Shared, NextReport, Works
    <3>2. ASSUME Works(w), worker[w].job = j, ~Shared(j)
          PROVE  Rank("pending") <= Rank(NextReport(w))
      <4>1. worker[w].made \in 0..5 /\ worker[w].made + 1 \in 1..6
        BY <1>0, <3>1, <3>2, ReportsAre DEF Ahead, Works, LabTypeOK, Calls
      <4> QED
        BY <4>1, ReportsAre, RankType DEF NextReport, Statuses, InProgress
    <3> QED
      BY <1>0, <2>1, <3>1, <3>2 DEF Ahead, LabTypeOK
  <2>4. \A q \in Jobs : Unstarted(q)'
    BY <1>0, <2>1 DEF Unstarted, Started, LabTypeOK
  <2> QED
    BY <1>0, <2>2, <2>3, <2>4 DEF IInv
<1>2. ASSUME NEW j \in Jobs, DeleteJob(j) PROVE IInv'
  <2>1. /\ row' = [row EXCEPT ![j] = "deleted"] /\ worker' = worker /\ starter' = starter /\ why' = why
    BY <1>2 DEF DeleteJob
  <2>2. StuckForACause'
    BY <1>0, <2>1 DEF StuckForACause, Running, Works, InProgress, LabTypeOK
  <2>3. ASSUME NEW w \in Workers PROVE Ahead(w)'
    <3>1. Ahead(w) /\ (Shared(worker[w].job)' <=> Shared(worker[w].job)) /\ NextReport(w)' = NextReport(w)
          /\ (Works(w)' <=> Works(w))
      BY <1>0, <2>1 DEF Shared, NextReport, Works
    <3>2. Works(w) => worker[w].job \in Jobs
      BY <1>0 DEF LabTypeOK, Calls, Works
    <3> QED
      BY <1>0, <2>1, <3>1, <3>2 DEF Ahead, LabTypeOK
  <2>4. \A q \in Jobs : Unstarted(q)'
    BY <1>0, <2>1 DEF Unstarted, Started, LabTypeOK
  <2> QED
    BY <1>0, <2>2, <2>3, <2>4 DEF IInv
<1>3. ASSUME NEW j \in Jobs, NEW w \in Workers, Spawn(j, w) PROVE IInv'
  <2>1. /\ worker[w] = None /\ row[j] \notin {"absent", "deleted"} /\ row' = row
        /\ worker'[w] = [job |-> j, made |-> 0, state |-> "works", again |-> FALSE] /\ worker'[w] # None
        /\ \A v \in Workers \ {w} : worker'[v] = worker[v]
        /\ starter' = j /\ why' = [why EXCEPT ![j] = {}]
    <3>1. [job |-> j, made |-> 0, state |-> "works", again |-> FALSE] \in Calls
      BY ReportsAre DEF Calls
    <3> QED
      BY <1>0, <1>3, <3>1 DEF Spawn, LabTypeOK
  <2>2. StuckForACause'
    <3>1. w \in Running(j)'
      BY <2>1 DEF Running, Works
    <3>2. \A q \in Jobs \ {j} : Running(q)' = Running(q) /\ why'[q] = why[q]
      BY <1>0, <2>1 DEF Running, Works, LabTypeOK
    <3> QED
      BY <1>0, <2>1, <3>1, <3>2 DEF StuckForACause
  <2>3. ASSUME NEW v \in Workers PROVE Ahead(v)'
    <3>1. CASE v # w
      <4>1. worker'[v] = worker[v] /\ Ahead(v)
        BY <1>0, <2>1, <3>1
      <4>2. worker[v] # None /\ Shared(worker[v].job) => Shared(worker[v].job)'
        BY <2>1 DEF Shared
      <4> QED
        BY <2>1, <4>1, <4>2 DEF Ahead, Works, NextReport
    <3>2. CASE v = w
      <4>1. CASE Started(j)
        BY <2>1, <3>2, <4>1, ReportsAre DEF Ahead, Started, Shared
      <4>2. CASE ~Started(j)
        <5>1. row'[j] = "pending" /\ NextReport(w)' = Reports[1]
          BY <1>0, <2>1, <4>2 DEF Unstarted, NextReport
        <5>2. Rank("pending") = 0
          BY RankType DEF Statuses
        <5> QED
          BY <2>1, <3>2, <5>1, <5>2, ReportsAre DEF Ahead
      <4> QED
        BY <4>1, <4>2
    <3> QED
      BY <3>1, <3>2
  <2>4. ASSUME NEW q \in Jobs PROVE Unstarted(q)'
    <3>1. Started(q) => Started(q)'
      BY <2>1 DEF Started
    <3>2. Started(j)'
      BY <2>1 DEF Started
    <3> QED
      BY <1>0, <2>1, <3>1, <3>2 DEF Unstarted
  <2> QED
    BY <1>0, <2>2, <2>3, <2>4 DEF IInv
<1>4. CASE MarkStarted
  <2> DEFINE j == starter
  <2>1. /\ j \in Jobs /\ worker' = worker /\ starter' = None
        /\ \A q \in Jobs \ {j} : row'[q] = row[q]
        /\ row'[j] = IF row[j] = "deleted" THEN "deleted" ELSE "extracting"
        /\ why' = IF Running(j) = {} THEN [why EXCEPT ![j] = @ \cup {"overtaken"}] ELSE why
    BY <1>0, <1>4, WriteRow DEF MarkStarted, LabTypeOK, Statuses, InProgress
  <2>2. ASSUME NEW q \in Jobs, row'[q] \in InProgress, Running(q)' = {} PROVE why'[q] # {}
    <3>1. Running(q) = {}
      BY <2>1, <2>2 DEF Running, Works
    <3> QED
      BY <1>0, <2>1, <2>2, <3>1 DEF StuckForACause, LabTypeOK
  <2>3. ASSUME NEW w \in Workers PROVE Ahead(w)'
    <3>1. Ahead(w) /\ (Shared(worker[w].job)' <=> Shared(worker[w].job)) /\ NextReport(w)' = NextReport(w)
          /\ (Works(w)' <=> Works(w))
      BY <1>0, <2>1 DEF Shared, NextReport, Works
    <3>2. ASSUME Works(w) PROVE Rank("extracting") <= Rank(NextReport(w))
      <4>1. worker[w].made \in 0..5 /\ worker[w].made + 1 \in {1, 2, 3, 4, 5, 6}
        BY <1>0, <3>1, <3>2, ReportsAre DEF Ahead, Works, LabTypeOK, Calls
      <4> QED
        BY <4>1, ReportsAre, RankType DEF NextReport, Statuses, InProgress
    <3>3. Works(w) => worker[w].job \in Jobs
      BY <1>0 DEF LabTypeOK, Calls, Works
    <3> QED
      BY <2>1, <3>1, <3>2, <3>3 DEF Ahead
  <2>4. ASSUME NEW q \in Jobs PROVE Unstarted(q)'
    <3>1. Started(q)' <=> Started(q)
      BY <2>1 DEF Started
    <3>2. Started(j)
      BY <1>0, <2>1 DEF Unstarted
    <3> QED
      BY <1>0, <2>1, <3>1, <3>2 DEF Unstarted
  <2> QED
    BY <1>0, <2>2, <2>3, <2>4 DEF IInv, StuckForACause
<1>5. CASE MarkFails
  BY <1>0, <1>5 DEF MarkFails, IInv, StuckForACause, Running, Works, Ahead, Shared, NextReport, Unstarted, Started
<1>6. ASSUME NEW w \in Workers, WorkerStep(w) PROVE IInv'
  <2> DEFINE j == worker[w].job
  <2>0. /\ worker[w] \in Calls /\ worker[w] # None
        /\ j \in Jobs /\ worker[w].made \in 0..6 /\ worker[w].again \in BOOLEAN
        /\ worker'[w] # None /\ worker'[w].job = j
        /\ \A v \in Workers \ {w} : worker'[v] = worker[v]
        /\ \A q \in Jobs : Shared(q)' = Shared(q) /\ Started(q)' = Started(q)
        /\ \A q \in Jobs : q # j => Running(q)' = Running(q)
        /\ starter' = starter
    BY <1>0, <1>6, CallsKeepTheirJob
  <2>1. Started(j)
    BY <2>0 DEF Started
  <2>2. \A q \in Jobs \ {j} : row'[q] = row[q] /\ why'[q] = why[q]
    <3>1. \A q \in Jobs \ {j} : why'[q] = why[q]
      BY <1>0, <1>6, <2>0 DEF WorkerStep, Advance, Finish, Fail, Die, HandOver, Rerun, Explained, Because, LabTypeOK
    <3>2. \A s \in {"ready", "failed"} : s \in Statuses
      BY DEF Statuses
    <3>3. CASE Advance(w)
      <4>1. worker[w].made + 1 \in 1..6
        BY <2>0, <3>3, ReportsAre DEF Advance
      <4>2. NextReport(w) \in Statuses
        BY <4>1, ReportsAre DEF NextReport, Statuses
      <4> QED
        BY <1>0, <2>0, <3>1, <3>3, <4>2, WriteRow DEF Advance
    <3>4. CASE Finish(w) \/ Fail(w) \/ Die(w)
      BY <1>0, <2>0, <3>1, <3>2, <3>4, WriteRow DEF Finish, Fail, Die
    <3>5. CASE HandOver(w) \/ Rerun(w)
      BY <3>5 DEF HandOver, Rerun
    <3> QED
      BY <1>6, <3>3, <3>4, <3>5 DEF WorkerStep
  <2>3. \A q \in Jobs : Unstarted(q)'
    BY <1>0, <2>0, <2>1, <2>2 DEF Unstarted
  <2>4. ASSUME NEW v \in Workers, v # w PROVE Ahead(v)'
    <3>1. Works(v) => worker[v].job \in Jobs
      BY <1>0 DEF LabTypeOK, Calls, Works
    <3>2. Ahead(v) /\ worker'[v] = worker[v] /\ NextReport(v)' = NextReport(v) /\ (Works(v)' <=> Works(v))
      BY <1>0, <2>0, <2>4 DEF NextReport, Works
    <3>3. Works(v) /\ worker[v].job = j => Shared(j)
      BY <2>0, <2>4 DEF Shared, Works
    <3> QED
      BY <2>0, <2>2, <3>1, <3>2, <3>3 DEF Ahead
  <2>5. \A q \in Jobs \ {j} : row'[q] \in InProgress /\ Running(q)' = {} => why'[q] # {}
    BY <1>0, <2>0, <2>2 DEF StuckForACause
  <2>6. CASE Advance(w)
    <3>1. /\ worker'[w].made = worker[w].made + 1 /\ Works(w) /\ Works(w)'
          /\ worker[w].made < 5
      BY <1>0, <2>0, <2>6, ReportsAre DEF Advance, Reported, Works, LabTypeOK, Calls
    <3>2. Ahead(w)'
      <4>1. CASE Shared(j)
        BY <2>0, <3>1, <4>1, ReportsAre DEF Ahead
      <4>2. CASE row[j] = "deleted"
        <5>1. row'[j] = "deleted"
          <6>1. worker[w].made + 1 \in 1..6
            BY <2>0, <3>1
          <6>2. NextReport(w) \in Statuses
            BY <6>1, ReportsAre DEF NextReport, Statuses
          <6> QED
            BY <1>0, <2>0, <2>6, <4>2, <6>2, WriteRow DEF Advance
        <5> QED
          BY <2>0, <3>1, <5>1, ReportsAre DEF Ahead
      <4>3. CASE ~Shared(j) /\ row[j] # "deleted" /\ ~worker[w].again
        <5>1. Rank(row'[j]) <= Rank(NextReport(w))
          BY <1>0, <2>6, <4>3, AdvanceGoesForward
        <5>2. /\ worker[w].made + 1 \in 1..5
              /\ NextReport(w) = Reports[worker[w].made + 1]
              /\ NextReport(w)' = Reports[(worker[w].made + 1) + 1]
          BY <2>0, <3>1 DEF NextReport
        <5>3. Rank(NextReport(w)) <= Rank(NextReport(w)')
          BY <5>2, ReportsGoForward
        <5>4. /\ Rank(row'[j]) \in Int /\ Rank(NextReport(w)) \in Int /\ Rank(NextReport(w)') \in Int
          <6>1. (worker[w].made + 1) \in 1..6 /\ (worker[w].made + 1) + 1 \in 1..6
            BY <5>2
          <6>2. NextReport(w) \in Statuses /\ NextReport(w)' \in Statuses /\ row'[j] \in Statuses
            BY <1>0, <2>0, <5>2, <6>1, ReportsAre DEF Statuses, LabTypeOK
          <6> QED
            BY <6>2, RankType
        <5>5. Rank(row'[j]) <= Rank(NextReport(w)')
          BY <5>1, <5>3, <5>4
        <5> QED
          BY <2>0, <3>1, <5>5, ReportsAre DEF Ahead
      <4>4. CASE ~Shared(j) /\ row[j] # "deleted" /\ worker[w].again
        <5>1. CASE UNCHANGED row /\ Reported(w, worker[w].again)
          <6>1. worker'[w].again
            BY <1>0, <2>0, <4>4, <5>1 DEF Reported, LabTypeOK, Calls
          <6> QED
            BY <2>0, <3>1, <6>1, ReportsAre DEF Ahead
        <5>2. CASE Write(j, NextReport(w))
          <6>1. /\ worker[w].made + 1 \in 1..5 /\ worker[w].made + 1 \in 1..6
                /\ (worker[w].made + 1) + 1 \in 1..6
                /\ NextReport(w) = Reports[worker[w].made + 1]
                /\ NextReport(w)' = Reports[(worker[w].made + 1) + 1]
            BY <2>0, <3>1 DEF NextReport
          <6>2. NextReport(w) \in Statuses /\ NextReport(w)' \in Statuses
            BY <6>1, ReportsAre DEF Statuses
          <6>3. row'[j] = NextReport(w)
            BY <1>0, <2>0, <4>4, <5>2, <6>2, WriteRow
          <6>4. Rank(row'[j]) <= Rank(NextReport(w)')
            BY <6>1, <6>3, ReportsGoForward
          <6> QED
            BY <2>0, <3>1, <6>4, ReportsAre DEF Ahead
        <5> QED
          BY <2>6, <5>1, <5>2 DEF Advance
      <4> QED
        BY <2>0, <4>1, <4>2, <4>3, <4>4
    <3>3. ASSUME NEW q \in Jobs, row'[q] \in InProgress, Running(q)' = {} PROVE why'[q] # {}
      <4>1. q # j
        BY <2>0, <3>1, <3>3 DEF Running, Works
      <4> QED
        BY <2>5, <3>3, <4>1
    <3>4. StuckForACause'
      BY <3>3 DEF StuckForACause
    <3> QED
      BY <1>0, <2>3, <2>4, <3>2, <3>4 DEF IInv
  <2>7. CASE Finish(w) \/ Fail(w) \/ Die(w)
    <3>1. ~Works(w)'
      BY <1>0, <2>0, <2>7 DEF Finish, Fail, Die, Enter, Works, LabTypeOK, Calls
    <3>2. row'[j] \notin InProgress \/ why'[j] # {}
      <4>1. \/ \E s \in {"ready", "failed"} : Write(j, s)
            \/ \E c \in Causes : Because(w, c)
        BY <2>7 DEF Finish, Fail, Die, Causes
      <4>2. \A s \in {"ready", "failed"} : s \in Statuses /\ s \notin InProgress /\ "deleted" \notin InProgress
        BY DEF Statuses, InProgress
      <4>3. ASSUME NEW s \in {"ready", "failed"}, Write(j, s) PROVE row'[j] \notin InProgress
        BY <1>0, <2>0, <4>2, <4>3, WriteRow
      <4>4. ASSUME NEW c \in Causes, Because(w, c) PROVE why'[j] # {}
        BY <1>0, <2>0, <4>4 DEF Because, LabTypeOK
      <4> QED
        BY <4>1, <4>3, <4>4
    <3>3. StuckForACause'
      BY <2>5, <3>2 DEF StuckForACause
    <3>4. Ahead(w)'
      BY <3>1 DEF Ahead
    <3> QED
      BY <1>0, <2>3, <2>4, <3>3, <3>4 DEF IInv
  <2>8. CASE HandOver(w)
    <3>1. /\ row' = row /\ why' = why /\ ~Works(w) /\ ~Works(w)'
      BY <1>0, <2>0, <2>8 DEF HandOver, Enter, Works, LabTypeOK, Calls
    <3>2. Running(j)' = Running(j)
      BY <2>0, <3>1 DEF Running, Works
    <3>3. StuckForACause' /\ Ahead(w)'
      BY <1>0, <2>0, <3>1, <3>2 DEF StuckForACause, Ahead
    <3> QED
      BY <1>0, <2>3, <2>4, <3>3 DEF IInv
  <2>9. CASE Rerun(w)
    <3>1. /\ row' = row /\ why' = why
          /\ worker'[w].made = 0 /\ worker'[w].again /\ worker'[w].state = "works"
      BY <1>0, <2>0, <2>9 DEF Rerun, LabTypeOK, Calls
    <3>3. ASSUME NEW q \in Jobs, row'[q] \in InProgress, Running(q)' = {} PROVE why'[q] # {}
      <4>1. q # j
        BY <2>0, <3>1, <3>3 DEF Running, Works
      <4> QED
        BY <2>5, <3>3, <4>1
    <3>4. StuckForACause' /\ Ahead(w)'
      BY <3>1, <3>3, ReportsAre DEF Ahead, StuckForACause
    <3> QED
      BY <1>0, <2>3, <2>4, <3>4 DEF IInv
  <2> QED
    BY <1>6, <2>6, <2>7, <2>8, <2>9 DEF WorkerStep
<1>7. CASE UNCHANGED labVars
  BY <1>0, <1>7 DEF labVars, IInv, StuckForACause, Running, Works, Ahead, Shared, NextReport, Unstarted, Started
<1> QED
  BY <1>1, <1>2, <1>3, <1>4, <1>5, <1>6, <1>7 DEF LabNext, WorkerStep

LEMMA InductiveInvariant == LabSpec => []IInv
BY InitInvariant, StepInvariant, PTL DEF LabSpec

(* Rows, calls and the start request stay well typed (endpoints/lab.py,    *)
(* services/modal_worker.py).                                              *)
THEOREM TypeCorrect == LabSpec => []LabTypeOK
<1>1. IInv => LabTypeOK
  BY DEF IInv
<1> QED
  BY <1>1, InductiveInvariant, PTL

(* A row that shows progress while no call works for it was left so by a   *)
(* call that ended after the last start: its last report was lost, named a *)
(* missing column, was written over by the start's own update, or never    *)
(* came (lab.py start_job, modal_worker.py train_splat).                   *)
THEOREM StuckRowsHaveACause == LabSpec => []StuckForACause
<1>1. IInv => StuckForACause
  BY DEF IInv
<1> QED
  BY <1>1, InductiveInvariant, PTL

(* However many jobs, calls, lost reports, deletions and runs of a call:   *)
(* the status of a job started once goes back only by its own start's      *)
(* update, which comes after the spawn (lab.py start_job), and by the      *)
(* first report that reaches the row of a call which Modal runs again.     *)
THEOREM StatusesGoForward == LabSpec => OnlyTheStartGoesBack
<1> DEFINE Forward == \A j \in Jobs : Rank(row'[j]) < Rank(row[j]) /\ row[j] # "absent"
                                        => starter = j \/ Shared(j) \/ Repeats(j)
<1>1. IInv /\ [LabNext]_labVars => [Forward]_labVars
  <2> SUFFICES ASSUME IInv, [LabNext]_labVars, NEW j \in Jobs, row[j] # "absent", starter # j, ~Shared(j),
                      ~Repeats(j), Rank(row'[j]) < Rank(row[j])
               PROVE  FALSE
    OBVIOUS
  <2>0. LabTypeOK /\ LabTypeOK' /\ \A w \in Workers : Ahead(w)
    BY TypeStep DEF IInv
  <2>1. row[j] \in Statuses /\ row'[j] \in Statuses
    BY <2>0 DEF LabTypeOK
  <2>2. row'[j] # row[j] /\ row[j] # "pending" /\ row'[j] \notin {"ready", "failed", "deleted"}
    BY <2>1, RankType
  <2>3. ASSUME NEW k \in Jobs, CreateJob(k) \/ DeleteJob(k) PROVE FALSE
    BY <2>0, <2>2, <2>3 DEF CreateJob, DeleteJob, LabTypeOK
  <2>4. ASSUME MarkStarted PROVE FALSE
    <3>1. starter \in Jobs /\ Write(starter, "extracting") /\ "extracting" \in Statuses
      BY <2>0, <2>4 DEF MarkStarted, LabTypeOK, Statuses, InProgress
    <3> QED
      BY <2>0, <2>2, <3>1, WriteRow
  <2>5. ASSUME NEW w \in Workers, Finish(w) \/ Fail(w) PROVE FALSE
    <3>1. \E s \in {"ready", "failed"} : Write(worker[w].job, s)
      BY <2>2, <2>5 DEF Finish, Fail
    <3>2. worker[w].job \in Jobs
      BY <2>0, <2>5, CallsKeepTheirJob DEF WorkerStep
    <3>3. PICK s \in {"ready", "failed"} : Write(worker[w].job, s)
      BY <3>1
    <3>4. s \in Statuses
      BY DEF Statuses
    <3> QED
      BY <2>0, <2>2, <3>2, <3>3, <3>4, WriteRow
  <2>6. ASSUME NEW w \in Workers, Advance(w) PROVE FALSE
    <3>1. worker[w].job \in Jobs /\ worker[w].made \in 0..6 /\ Ahead(w)
      BY <2>0, <2>6, CallsKeepTheirJob DEF WorkerStep
    <3>2. NextReport(w) \in Statuses
      <4>1. worker[w].made + 1 \in 1..6
        BY <2>6, <3>1, ReportsAre DEF Advance
      <4> QED
        BY <4>1, ReportsAre DEF NextReport, Statuses
    <3>3. worker[w].job = j /\ row[j] # "deleted"
      BY <2>0, <2>2, <2>6, <3>1, <3>2, WriteRow DEF Advance
    <3>4. ~worker[w].again
      BY <2>6, <3>3 DEF Advance, Repeats
    <3>5. Rank(row[j]) <= Rank(row'[j])
      BY <2>0, <2>6, <3>1, <3>3, <3>4, AdvanceGoesForward
    <3> QED
      BY <2>1, <3>5, RankType
  <2> QED
    BY <2>2, <2>3, <2>4, <2>5, <2>6 DEF LabNext, labVars, Spawn, MarkFails, Die, HandOver, Rerun
<1> QED
  BY <1>1, InductiveInvariant, PTL DEF LabSpec, OnlyTheStartGoesBack

-----------------------------------------------------------------------------
(* UnitOfWork                                                              *)

(* While a request is alive every change it made is pending, in the open   *)
(* transaction, durable or taken back, and one that was taken back is none *)
(* of the others; until the exit code runs only the service has committed  *)
(* anything.                                                               *)
Accounted(r) == /\ pending[r] \cup flushed[r] \cup durable[r] \subseteq made[r]
                /\ pending[r] \cap (flushed[r] \cup durable[r]) = {}
                /\ flushed[r] \cap durable[r] = {}
                /\ undone[r] \cap (pending[r] \cup flushed[r] \cup durable[r]) = {}
                /\ phase[r] \in {"idle", "open", "returned", "raising"} =>
                     /\ made[r] = pending[r] \cup flushed[r] \cup durable[r] \cup undone[r]
                     /\ durable[r] = explicit[r]
                /\ phase[r] \in {"failed", "lost"} => durable[r] = explicit[r]

UInv == TypeOK /\ \A r \in Requests : Accounted(r)

(* The session state is well typed (app/core/database.py, get_db). *)
THEOREM SessionsAreWellTyped == Spec => []TypeOK
<1>1. Init => TypeOK
  BY DEF Init, TypeOK, Phases
<1>2. TypeOK /\ [Next]_vars => TypeOK'
  <2> SUFFICES ASSUME TypeOK, [Next]_vars PROVE TypeOK'
    OBVIOUS
  <2> USE DEF TypeOK, Phases, Become
  <2>1. ASSUME NEW r \in Requests, Open(r) PROVE TypeOK'
    BY <2>1 DEF Open
  <2>2. ASSUME NEW r \in Requests, NEW c \in Changes, Change(r, c) PROVE TypeOK'
    BY <2>2 DEF Change
  <2>3. ASSUME NEW r \in Requests, Flush(r) PROVE TypeOK'
    BY <2>3 DEF Flush
  <2>4. ASSUME NEW r \in Requests, ServiceCommit(r) PROVE TypeOK'
    BY <2>4 DEF ServiceCommit, CommitAll
  <2>r. ASSUME NEW r \in Requests, ServiceRollback(r) PROVE TypeOK'
    BY <2>r DEF ServiceRollback
  <2>5. ASSUME NEW r \in Requests, Return(r) PROVE TypeOK'
    BY <2>5 DEF Return
  <2>6. ASSUME NEW r \in Requests, Raise(r) PROVE TypeOK'
    BY <2>6 DEF Raise
  <2>7. ASSUME NEW r \in Requests, Exit(r) PROVE TypeOK'
    BY <2>7 DEF Exit, ExitCommit, ExitCommitFails, ExitClean, ExitRollback, CommitAll, DropAll
  <2>8. CASE UNCHANGED vars
    BY <2>8 DEF vars
  <2> QED
    BY <2>1, <2>2, <2>3, <2>4, <2>r, <2>5, <2>6, <2>7, <2>8 DEF Next
<1> QED
  BY <1>1, <1>2, PTL DEF Spec

LEMMA UInductiveInvariant == Spec => []UInv
<1>1. Init => UInv
  BY DEF Init, UInv, TypeOK, Phases, Accounted
<1>2. UInv /\ TypeOK' /\ [Next]_vars => UInv'
  <2> SUFFICES ASSUME UInv, TypeOK', [Next]_vars, NEW q \in Requests PROVE Accounted(q)'
    BY DEF UInv
  <2>0. Accounted(q) /\ TypeOK
    BY DEF UInv
  <2> USE <2>0 DEF Accounted, TypeOK, Become
  <2>1. ASSUME NEW r \in Requests, Open(r) PROVE Accounted(q)'
    BY <2>1 DEF Open
  <2>2. ASSUME NEW r \in Requests, NEW c \in Changes, Change(r, c) PROVE Accounted(q)'
    BY <2>2 DEF Change
  <2>3. ASSUME NEW r \in Requests, Flush(r) PROVE Accounted(q)'
    BY <2>3 DEF Flush
  <2>4. ASSUME NEW r \in Requests, ServiceCommit(r) PROVE Accounted(q)'
    BY <2>4 DEF ServiceCommit, CommitAll
  <2>r. ASSUME NEW r \in Requests, ServiceRollback(r) PROVE Accounted(q)'
    BY <2>r DEF ServiceRollback
  <2>5. ASSUME NEW r \in Requests, Return(r) PROVE Accounted(q)'
    BY <2>5 DEF Return
  <2>6. ASSUME NEW r \in Requests, Raise(r) PROVE Accounted(q)'
    BY <2>6 DEF Raise
  <2>7. ASSUME NEW r \in Requests, Exit(r) PROVE Accounted(q)'
    <3>1. CASE ExitCommit(r)
      BY <3>1 DEF ExitCommit, CommitAll
    <3>2. CASE ExitCommitFails(r)
      BY <3>2 DEF ExitCommitFails, DropAll
    <3>3. CASE ExitClean(r)
      BY <3>3 DEF ExitClean, DropAll
    <3>4. CASE ExitRollback(r)
      BY <3>4 DEF ExitRollback, DropAll
    <3> QED
      BY <2>7, <3>1, <3>2, <3>3, <3>4 DEF Exit
  <2>8. CASE UNCHANGED vars
    BY <2>8 DEF vars
  <2> QED
    BY <2>1, <2>2, <2>3, <2>4, <2>r, <2>5, <2>6, <2>7, <2>8 DEF Next
<1> QED
  BY <1>1, <1>2, SessionsAreWellTyped, PTL DEF Spec

(* A request that ended in an error leaves in the database nothing but     *)
(* what its service committed itself: the rollback of get_db              *)
(* (database.py:266-277) undoes the rest, whatever was flushed before.     *)
THEOREM FailedRequestsLeaveOnlyExplicit == Spec => []FailedLeavesOnlyExplicit
<1>1. UInv => FailedLeavesOnlyExplicit
  BY DEF UInv, Accounted, FailedLeavesOnlyExplicit
<1> QED
  BY <1>1, UInductiveInvariant, PTL

(* The exit commit of get_db is all or nothing (database.py:278-286): when *)
(* the exit code makes anything durable, every change of the request is.   *)
THEOREM ExitCommitIsAllOrNothing == Spec => ExitIsAllOrNothing
<1> DEFINE Step == \A r \in Requests :
       phase[r] = "returned" /\ durable'[r] # durable[r]
         => durable'[r] = made[r] \ undone[r]
<1>1. UInv /\ [Next]_vars => [Step]_vars
  <2> SUFFICES ASSUME UInv, [Next]_vars, NEW q \in Requests,
                      phase[q] = "returned", durable'[q] # durable[q]
               PROVE  durable'[q] = made[q] \ undone[q]
    OBVIOUS
  <2>0. /\ made[q] \ undone[q] = pending[q] \cup flushed[q] \cup durable[q]
        /\ TypeOK
    BY DEF UInv, Accounted
  <2> USE DEF TypeOK
  <2>1. \E r \in Requests : \/ ServiceCommit(r) \/ ExitCommit(r)
    BY <2>0 DEF Next, vars, Open, Change, Flush, ServiceRollback, Return, Raise, Exit,
               ExitCommitFails, ExitClean, ExitRollback, DropAll
  <2>2. PICK r \in Requests : ServiceCommit(r) \/ ExitCommit(r)
    BY <2>1
  <2>3. CommitAll(r) /\ (r = q => durable'[q] = durable[q] \cup pending[q] \cup flushed[q])
    BY <2>0, <2>2 DEF ServiceCommit, ExitCommit, CommitAll
  <2>4. r = q
    BY <2>0, <2>3 DEF CommitAll
  <2> QED
    BY <2>0, <2>3, <2>4
<1> QED
  BY <1>1, UInductiveInvariant, PTL DEF Spec, ExitIsAllOrNothing
=============================================================================
