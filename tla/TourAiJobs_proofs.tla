-------------------------- MODULE TourAiJobs_proofs --------------------------
(* What TourAiJobs promises for every set of jobs and every bound and, in  *)
(* the last part, JobUpdates for every set of sockets.                     *)
EXTENDS JobUpdates, FiniteSetTheorems, TLAPS

(* Where a task has got to bounds what its row and its session may say:    *)
(* before the runner's last update the row is not over, or is cancelled.   *)
Unfinished == {"pending", "processing", "cancelled"}

RowExists(j) == pc[j] # "none" => row[j] \in Row

RunnerOK(j) ==
  /\ pc[j] \in Active =>
       /\ stage[j] \in 1 .. Stages + 1
       /\ intent[j].status \in {"processing", "completed", "failed"}
       /\ intent[j].status = "processing" => stage[j] <= Stages
       /\ intent[j].result = "final" <=> intent[j].status = "completed"
       /\ intent[j].error => intent[j].status = "failed"
  /\ pc[j] = "work" => intent[j].status = "processing"

(* Only the runner writes result and error; nobody clears completed_at.    *)
ViewOK(j) ==
  view[j] # NoRow => /\ view[j] \in Row
                     /\ view[j].result = row[j].result
                     /\ view[j].error = row[j].error
                     /\ view[j].stamped => row[j].stamped

NotOver(j) ==
  /\ pc[j] \in {"created", "queued", "select", "commit", "work"} =>
       /\ row[j].status \in Unfinished
       /\ view[j].status \in Unfinished \cup {"absent"}
  /\ pc[j] \in {"refresh", "notify"} /\ intent[j].status = "processing" =>
       row[j].status \in Unfinished /\ view[j].status \in Unfinished
  /\ pc[j] = "none" => view[j] = NoRow /\ row[j] = NoRow
  /\ pc[j] \in {"commit", "refresh", "notify"} => view[j] # NoRow
  /\ (\/ pc[j] \in {"created", "queued", "select", "commit", "work"}
      \/ pc[j] \in {"refresh", "notify"} /\ intent[j].status = "processing")
       => ~row[j].error /\ row[j].result # "final"
  /\ cancel[j] = "writing" => pc[j] # "none"

Whole(j) == /\ row[j].status \in Terminal => row[j].stamped
            /\ row[j].status = "completed" => row[j].result = "final" /\ ~row[j].error
            /\ row[j].status = "failed" => row[j].result # "final" /\ row[j].error = intent[j].error

JobOK(j) == RowExists(j) /\ RunnerOK(j) /\ ViewOK(j) /\ NotOver(j) /\ Whole(j)

IInv == /\ TypeOK
        /\ PermitsConserved
        /\ \A j \in Jobs : JobOK(j)

-----------------------------------------------------------------------------
(* The set of permit holders is finite, and changes by one job.            *)
LEMMA HoldersFinite == IsFiniteSet(Holders)
<1>1. Holders \subseteq Jobs
  BY DEF Holders
<1> QED
  BY <1>1, FiniteJobsAssumption, FS_Subset

LEMMA HoldersJoin ==
  ASSUME NEW j \in Jobs, TypeOK, pc[j] \notin Active, NEW step \in Active, Goto(j, step)
  PROVE  Cardinality(Holders)' = Cardinality(Holders) + 1
<1>1. Holders' = Holders \cup {j} /\ j \notin Holders
  BY DEF Holders, Goto, TypeOK
<1> QED
  BY <1>1, HoldersFinite, FS_AddElement

LEMMA HoldersLeave ==
  ASSUME NEW j \in Jobs, TypeOK, pc[j] \in Active, NEW step, step \notin Active, Goto(j, step)
  PROVE  /\ Cardinality(Holders)' = Cardinality(Holders) - 1
         /\ Cardinality(Holders) \in Nat \ {0}
<1>1. Holders' = Holders \ {j} /\ j \in Holders
  BY DEF Holders, Goto, TypeOK
<1>2. Cardinality(Holders \ {j}) = Cardinality(Holders) - 1 /\ Cardinality(Holders) \in Nat
  BY <1>1, HoldersFinite, FS_RemoveElement, FS_CardinalityType
<1>3. Cardinality(Holders) # 0
  BY <1>1, HoldersFinite, FS_EmptySet
<1> QED
  BY <1>1, <1>2, <1>3

LEMMA HoldersStay ==
  ASSUME NEW j \in Jobs, TypeOK, NEW step, Goto(j, step), pc[j] \in Active <=> step \in Active
  PROVE  Holders' = Holders
BY DEF Holders, Goto, TypeOK

(* What an UPDATE leaves in the row. *)
LEMMA UpdateType ==
  ASSUME NEW v \in Row \cup {NoRow}, NEW c \in Calls, NEW r \in Row
  PROVE  /\ Assigned(v, c) \in Row
         /\ Update(v, Assigned(v, c), r) \in Row
<1>1. Assigned(v, c) \in Row
  BY DEF Assigned, Row, NoRow, Calls, Terminal, Statuses
<1>2. Update(v, Assigned(v, c), r) \in Row
  BY <1>1 DEF Update, Row
<1> QED
  BY <1>1, <1>2

(* The calls a runner makes at the start of a stage.                       *)
LEMMA StageCallsOK ==
  ASSUME NEW s \in 1 .. Stages + 1, NEW c \in StageCalls(s)
  PROVE  /\ c \in Calls
         /\ c.status \in {"processing", "completed"}
         /\ c.status = "processing" => s <= Stages
         /\ c.result = "final" <=> c.status = "completed"
         /\ ~c.error
<1>1. CASE s > Stages
  <2>1. c = Call("completed", "final", FALSE)
    BY <1>1 DEF StageCalls
  <2> QED
    BY <1>1, <2>1, BoundsAssumption DEF Call, Calls, Statuses, Terminal
<1>2. CASE ~(s > Stages)
  <2>1. PICK res \in {"none", "partial"} : c = Call("processing", res, FALSE)
    BY <1>2 DEF StageCalls
  <2> QED
    BY <1>2, <2>1, BoundsAssumption DEF Call, Calls, Statuses, Terminal
<1> QED
  BY <1>1, <1>2

(* A step that leaves a job's own state alone leaves what is known of it.  *)
LEMMA JobFrame ==
  ASSUME NEW q \in Jobs, JobOK(q),
         row'[q] = row[q], view'[q] = view[q], pc'[q] = pc[q],
         intent'[q] = intent[q], stage'[q] = stage[q],
         cancel'[q] \in {cancel[q], "done", "refused"} \/ pc[q] # "none"
  PROVE  JobOK(q)'
BY DEF JobOK, RowExists, RunnerOK, ViewOK, NotOver, Whole

-----------------------------------------------------------------------------
LEMMA InitInvariant == Init => IInv
<1> SUFFICES ASSUME Init PROVE IInv
  OBVIOUS
<1>1. TypeOK
  BY BoundsAssumption DEF Init, TypeOK, Call, Calls, Statuses, Terminal
<1>2. PermitsConserved
  <2>1. Holders = {}
    BY DEF Init, Holders, Active
  <2> QED
    BY <2>1, FS_EmptySet, BoundsAssumption DEF Init, PermitsConserved
<1>3. ASSUME NEW j \in Jobs PROVE JobOK(j)
  BY DEF Init, JobOK, RowExists, RunnerOK, ViewOK, NotOver, Whole, NoRow, Active, Terminal
<1> QED
  BY <1>1, <1>2, <1>3 DEF IInv

LEMMA StepInvariant == IInv /\ [Next]_vars => IInv'
<1> SUFFICES ASSUME IInv, [Next]_vars PROVE IInv'
  OBVIOUS
<1> USE BoundsAssumption
<1>0. TypeOK /\ PermitsConserved /\ \A q \in Jobs : JobOK(q)
  BY DEF IInv
<1>1. ASSUME NEW j \in Jobs, CreateJob(j) PROVE IInv'
  <2>1. Holders' = Holders
    BY <1>0, <1>1, HoldersStay DEF CreateJob, At, Goto, Active
  <2>2. PermitsConserved' /\ permits' = permits
    BY <1>0, <1>1, <2>1 DEF PermitsConserved, CreateJob, NoRow, Row, Statuses, semVars
  <2>3. TypeOK'
    BY <1>0, <1>1, <2>2 DEF TypeOK, JobOK, RunnerOK, CreateJob, NoRow, Row, Statuses, At, Goto, Active, semVars, taskVars
  <2>4. ASSUME NEW q \in Jobs PROVE JobOK(q)'
    <3>1. CASE q # j
      BY <1>0, <1>1, <3>1, JobFrame DEF CreateJob, TypeOK, Goto, taskVars, semVars
    <3>2. CASE q = j
      <4>1. JobOK(j)
        BY <1>0
      <4>2. /\ pc[j] = "none" /\ pc'[j] = "created" /\ view'[j] = view[j]
            /\ row'[j] = [NoRow EXCEPT !.status = "pending"]
        BY <1>0, <1>1 DEF CreateJob, TypeOK, At, Goto, taskVars, semVars
      <4>3. row'[j] \in Row /\ row'[j].status = "pending" /\ view[j] = NoRow
        BY <4>1, <4>2 DEF JobOK, NotOver, NoRow, Row, Statuses, Terminal
      <4>4. NoRow.status = "absent"
        BY DEF NoRow
      <4> QED
        BY <3>2, <4>1, <4>2, <4>3, <4>4 DEF RowExists, RunnerOK, ViewOK, NotOver, Whole, JobOK, Active, Unfinished, Terminal, NoRow
    <3> QED
      BY <3>1, <3>2
  <2> QED
    BY <2>2, <2>3, <2>4 DEF IInv
<1>2. ASSUME NEW j \in Jobs, SpawnTask(j) PROVE IInv'
  <2>1. Holders' = Holders
    BY <1>0, <1>2, HoldersStay DEF SpawnTask, At, Goto, Active
  <2>2. PermitsConserved' /\ permits' = permits
    BY <1>0, <1>2, <2>1 DEF PermitsConserved, SpawnTask, semVars
  <2>3. TypeOK'
    BY <1>0, <1>2, <2>2 DEF TypeOK, JobOK, RunnerOK, SpawnTask, At, Goto, Active, semVars, taskVars
  <2>4. ASSUME NEW q \in Jobs PROVE JobOK(q)'
    BY <1>0, <1>2, <2>3 DEF TypeOK, JobOK, RowExists, RunnerOK, ViewOK, NotOver, Whole, SpawnTask, At, Goto, Active, semVars, taskVars, Unfinished
  <2> QED
    BY <2>2, <2>3, <2>4 DEF IInv
<1>3. ASSUME NEW j \in Jobs, Acquire(j) PROVE IInv'
  <2>1. Cardinality(Holders)' = Cardinality(Holders) + 1
    BY <1>0, <1>3, HoldersJoin DEF Acquire, At, Active
  <2>2. PermitsConserved' /\ permits' \in 0 .. Permits
    BY <1>0, <1>3, <2>1, HoldersFinite, FS_CardinalityType DEF PermitsConserved, Acquire, TypeOK
  <2>3. TypeOK'
    <3>1. PICK c \in StageCalls(1) : intent' = [intent EXCEPT ![j] = c]
      BY <1>3 DEF Acquire
    <3>2. c \in Calls
      BY <3>1, StageCallsOK
    <3>3. Tail(waiting) \in Seq(Jobs)
      BY <1>0, <1>3 DEF Acquire, TypeOK
    <3> QED
      BY <1>0, <1>3, <2>2, <3>1, <3>2, <3>3 DEF TypeOK, Acquire, At, Goto, Active
  <2>4. ASSUME NEW q \in Jobs PROVE JobOK(q)'
    <3>1. CASE q # j
      BY <1>0, <1>3, <3>1, JobFrame DEF Acquire, TypeOK, Goto
    <3>2. CASE q = j
      <4>1. PICK c \in StageCalls(1) : intent' = [intent EXCEPT ![j] = c]
        BY <1>3 DEF Acquire
      <4>2. /\ c.status \in {"processing", "completed"} /\ ~c.error
            /\ c.result = "final" <=> c.status = "completed"
        BY <4>1, StageCallsOK
      <4>3. /\ pc[j] = "queued" /\ pc'[j] = "select" /\ view'[j] = view[j] /\ row'[j] = row[j]
            /\ intent'[j] = c /\ stage'[j] = 1 /\ cancel'[j] = cancel[j]
        BY <1>0, <1>3, <4>1 DEF Acquire, TypeOK, At, Goto
      <4>4. JobOK(j)
        BY <1>0
      <4> QED
        BY <3>2, <4>2, <4>3, <4>4 DEF JobOK, RowExists, RunnerOK, ViewOK, NotOver, Whole, Active, Unfinished
    <3> QED
      BY <3>1, <3>2
  <2> QED
    BY <2>2, <2>3, <2>4 DEF IInv
<1>4. ASSUME NEW j \in Jobs, SelectRow(j) PROVE IInv'
  <2>1. Holders' = Holders
    BY <1>0, <1>4, HoldersStay DEF SelectRow, At, Goto, Active
  <2>2. PermitsConserved' /\ permits' = permits
    BY <1>0, <1>4, <2>1 DEF PermitsConserved, SelectRow, semVars
  <2>3. TypeOK'
    BY <1>0, <1>4, <2>2 DEF TypeOK, JobOK, RunnerOK, SelectRow, At, Goto, Active, semVars, taskVars
  <2>4. ASSUME NEW q \in Jobs PROVE JobOK(q)'
    <3>1. CASE q # j
      BY <1>0, <1>4, <3>1, JobFrame DEF SelectRow, TypeOK, Goto, taskVars, semVars
    <3>2. CASE q = j
      <4>1. JobOK(j)
        BY <1>0
      <4>a. row[j].status # NoRow.status
        BY <1>0, <1>4 DEF JobOK, NotOver, SelectRow, At, Unfinished, NoRow
      <4>2. /\ pc[j] = "select" /\ pc'[j] = "commit" /\ row'[j] = row[j]
            /\ intent'[j] = intent[j] /\ stage'[j] = stage[j] /\ cancel'[j] = cancel[j]
            /\ view'[j] = row[j]
            /\ row[j].status # NoRow.status
        BY <1>0, <1>4, <4>a DEF SelectRow, TypeOK, At, Goto, taskVars, semVars
      <4> QED
        BY <3>2, <4>1, <4>2 DEF RowExists, RunnerOK, ViewOK, NotOver, Whole, JobOK, Active, Unfinished, NoRow
    <3> QED
      BY <3>1, <3>2
  <2> QED
    BY <2>2, <2>3, <2>4 DEF IInv
<1>5. ASSUME NEW j \in Jobs, CommitRow(j) PROVE IInv'
  <2>a. Update(view[j], Assigned(view[j], intent[j]), row[j]) \in Row /\ Assigned(view[j], intent[j]) \in Row
    BY <1>0, <1>5, UpdateType DEF TypeOK, JobOK, RowExists, CommitRow, At
  <2>1. Holders' = Holders
    BY <1>0, <1>5, HoldersStay DEF CommitRow, At, Goto, Active
  <2>2. PermitsConserved' /\ permits' = permits
    BY <1>0, <1>5, <2>1 DEF PermitsConserved, CommitRow, semVars
  <2>3. TypeOK'
    BY <1>0, <1>5, <2>a, <2>2 DEF TypeOK, JobOK, RunnerOK, CommitRow, At, Goto, Active, semVars, taskVars
  <2>4. ASSUME NEW q \in Jobs PROVE JobOK(q)'
    <3>1. CASE q # j
      BY <1>0, <1>5, <3>1, JobFrame DEF CommitRow, TypeOK, Goto, semVars
    <3>2. CASE q = j
      <4> DEFINE new == Assigned(view[j], intent[j])
      <4>1. JobOK(j) /\ view[j] \in Row /\ row[j] \in Row /\ intent[j] \in Calls
        BY <1>0, <1>5 DEF JobOK, ViewOK, RowExists, NotOver, TypeOK, CommitRow, At
      <4>2. /\ pc[j] = "commit" /\ pc'[j] = "refresh"
            /\ row'[j] = Update(view[j], new, row[j]) /\ view'[j] = new
            /\ intent'[j] = intent[j] /\ stage'[j] = stage[j] /\ cancel'[j] = cancel[j]
        BY <1>0, <1>5 DEF CommitRow, TypeOK, At, Goto, semVars
      <4>a. /\ view[j] # NoRow
            /\ row[j].status \in Unfinished /\ view[j].status \in Unfinished
            /\ view[j].stamped => row[j].stamped
            /\ Whole(j) /\ view[j].result = row[j].result /\ view[j].error = row[j].error
        BY <4>1, <4>2 DEF JobOK, NotOver, ViewOK, Row, Unfinished, Statuses, Terminal
      <4>b. /\ view[j].stamped \in BOOLEAN /\ row[j].stamped \in BOOLEAN
            /\ view[j].error \in BOOLEAN /\ row[j].error \in BOOLEAN /\ intent[j].error \in BOOLEAN
        BY <4>1 DEF Row, Calls
      <4>3. /\ new.status = intent[j].status
            /\ new.stamped = (view[j].stamped \/ intent[j].status \in Terminal)
            /\ new.result = IF intent[j].result # "none" THEN intent[j].result ELSE view[j].result
            /\ new.error = (view[j].error \/ intent[j].error)
        BY DEF Assigned
      <4>4. /\ row'[j].status = IF new.status # view[j].status THEN new.status ELSE row[j].status
            /\ row'[j].stamped = IF new.stamped # view[j].stamped THEN new.stamped ELSE row[j].stamped
            /\ row'[j].result = IF new.result # view[j].result THEN new.result ELSE row[j].result
            /\ row'[j].error = IF new.error # view[j].error THEN new.error ELSE row[j].error
        BY <4>2 DEF Update
      <4>5. new \in Row /\ row'[j] \in Row /\ new # NoRow
        BY <2>a, <4>2 DEF Row, NoRow, Statuses, Terminal
      <4>6. RowExists(j)' /\ RunnerOK(j)'
        BY <4>1, <4>2, <4>5 DEF JobOK, RowExists, RunnerOK, Active
      <4>7. ViewOK(j)'
        <5>1. row'[j].result = view'[j].result /\ row'[j].error = view'[j].error
          BY <4>2, <4>4, <4>a
        <5>2. view'[j].stamped => row'[j].stamped
          BY <4>2, <4>4, <4>a
        <5> QED
          BY <4>2, <4>5, <5>1, <5>2 DEF ViewOK
      <4>8. NotOver(j)'
        BY <4>1, <4>2, <4>3, <4>4, <4>5, <4>a, <4>b DEF JobOK, NotOver, RunnerOK, Active, Unfinished
      <4>9. Whole(j)'
        <5>2. /\ intent[j].status \in {"processing", "completed", "failed"}
              /\ intent[j].result = "final" <=> intent[j].status = "completed"
              /\ intent[j].error => intent[j].status = "failed"
              /\ ~row[j].error /\ row[j].result # "final"
          BY <4>1, <4>2 DEF JobOK, RunnerOK, NotOver, Active
        <5>4. CASE intent[j].status = "processing"
          <6>1. row'[j].status \in {"processing", "pending", "cancelled"}
            BY <4>3, <4>4, <4>a, <5>4 DEF Unfinished
          <6>2. row'[j].status = "cancelled" => row'[j].stamped
            BY <4>3, <4>4, <4>a, <4>b, <5>4 DEF Unfinished, Whole, Terminal
          <6> QED
            BY <6>1, <6>2 DEF Whole, Terminal
        <5>5. CASE intent[j].status = "completed"
          BY <4>2, <4>3, <4>4, <4>a, <4>b, <5>2, <5>5 DEF Unfinished, Whole, Terminal
        <5>6. CASE intent[j].status = "failed"
          BY <4>2, <4>3, <4>4, <4>a, <5>2, <4>b, <5>6 DEF Unfinished, Whole, Terminal
        <5> QED
          BY <5>2, <5>4, <5>5, <5>6
      <4> QED
        BY <3>2, <4>6, <4>7, <4>8, <4>9 DEF JobOK
    <3> QED
      BY <3>1, <3>2
  <2> QED
    BY <2>2, <2>3, <2>4 DEF IInv
<1>6. ASSUME NEW j \in Jobs, RefreshRow(j) PROVE IInv'
  <2>1. Holders' = Holders
    BY <1>0, <1>6, HoldersStay DEF RefreshRow, At, Goto, Active
  <2>2. PermitsConserved' /\ permits' = permits
    BY <1>0, <1>6, <2>1 DEF PermitsConserved, RefreshRow, semVars
  <2>3. TypeOK'
    BY <1>0, <1>6, <2>2 DEF TypeOK, JobOK, RunnerOK, RefreshRow, At, Goto, Active, semVars, taskVars
  <2>4. ASSUME NEW q \in Jobs PROVE JobOK(q)'
    <3>1. CASE q # j
      BY <1>0, <1>6, <3>1, JobFrame DEF RefreshRow, TypeOK, Goto, taskVars, semVars
    <3>2. CASE q = j
      <4>1. JobOK(j)
        BY <1>0
      <4>2. /\ pc[j] = "refresh" /\ pc'[j] = "notify" /\ row'[j] = row[j] /\ view'[j] = row[j]
            /\ intent'[j] = intent[j] /\ stage'[j] = stage[j] /\ cancel'[j] = cancel[j]
        BY <1>0, <1>6 DEF RefreshRow, TypeOK, At, Goto, taskVars, semVars
      <4> QED
        BY <3>2, <4>1, <4>2 DEF RowExists, RunnerOK, ViewOK, NotOver, Whole, JobOK, Active, Unfinished, NoRow, Row, Statuses, Terminal
    <3> QED
      BY <3>1, <3>2
  <2> QED
    BY <2>2, <2>3, <2>4 DEF IInv
<1>7. ASSUME NEW j \in Jobs, Notify(j) PROVE IInv'
  <2>1. PermitsConserved' /\ permits' \in 0 .. Permits
    <3>1. CASE intent[j].status \in Terminal
      <4>1. Cardinality(Holders)' = Cardinality(Holders) - 1 /\ Cardinality(Holders) \in Nat \ {0}
        BY <1>0, <1>7, <3>1, HoldersLeave DEF Notify, Release, At, Active
      <4> QED
        BY <1>0, <1>7, <3>1, <4>1 DEF PermitsConserved, Notify, Release, TypeOK
    <3>2. CASE intent[j].status \notin Terminal
      <4>1. Holders' = Holders
        BY <1>0, <1>7, <3>2, HoldersStay DEF Notify, At, Active
      <4> QED
        BY <1>0, <1>7, <3>2, <4>1 DEF PermitsConserved, Notify, semVars, TypeOK
    <3> QED
      BY <3>1, <3>2
  <2>3. TypeOK'
    BY <1>0, <1>7, <2>1 DEF TypeOK, JobOK, RunnerOK, Notify, Release, At, Goto, Active, semVars, taskVars
  <2>4. ASSUME NEW q \in Jobs PROVE JobOK(q)'
    <3>1. CASE q # j
      BY <1>0, <1>7, <3>1, JobFrame DEF Notify, Release, TypeOK, Goto, taskVars, semVars
    <3>2. CASE q = j
      <4>1. JobOK(j)
        BY <1>0
      <4>2. /\ pc[j] = "notify" /\ row'[j] = row[j] /\ view'[j] = view[j]
            /\ pc'[j] = IF intent[j].status \in Terminal THEN "done" ELSE "work"
            /\ intent'[j] = intent[j] /\ stage'[j] = stage[j] /\ cancel'[j] = cancel[j]
        BY <1>0, <1>7 DEF Notify, Release, TypeOK, At, Goto, taskVars, semVars
      <4> QED
        BY <3>2, <4>1, <4>2 DEF RowExists, RunnerOK, ViewOK, NotOver, Whole, JobOK, Active, Unfinished, Terminal
    <3> QED
      BY <3>1, <3>2
  <2> QED
    BY <2>1, <2>3, <2>4 DEF IInv
<1>8. ASSUME NEW j \in Jobs, FinishStage(j) PROVE IInv'
  <2>1. Holders' = Holders
    BY <1>0, <1>8, HoldersStay DEF FinishStage, At, Goto, Active
  <2>2. PermitsConserved' /\ permits' = permits
    BY <1>0, <1>8, <2>1 DEF PermitsConserved, FinishStage, StageCalls, Call, Calls, Statuses, semVars
  <2>3. TypeOK'
    <3>1. stage[j] \in 1 .. Stages
      BY <1>0, <1>8 DEF JobOK, RunnerOK, FinishStage, At, Active
    <3>2. PICK c \in StageCalls(stage[j] + 1) : intent' = [intent EXCEPT ![j] = c]
      BY <1>8 DEF FinishStage
    <3>3. c \in Calls
      BY <3>1, <3>2, StageCallsOK
    <3> QED
      <4>1. intent' \in [Jobs -> Calls]
        BY <1>0, <3>2, <3>3 DEF TypeOK
      <4>2. stage' \in [Jobs -> 0 .. Stages + 1] /\ attempt' \in [Jobs -> 0 .. MaxRetries - 1]
        BY <1>0, <1>8, <3>1 DEF TypeOK, FinishStage
      <4>3. view' \in [Jobs -> Row \cup {NoRow}]
        BY <1>0, <1>8 DEF TypeOK, FinishStage
      <4> QED
        BY <1>0, <1>8, <2>2, <4>1, <4>2, <4>3 DEF TypeOK, FinishStage, Goto, Active, semVars
  <2>4. ASSUME NEW q \in Jobs PROVE JobOK(q)'
    <3>1. CASE q # j
      BY <1>0, <1>8, <3>1, JobFrame DEF FinishStage, TypeOK, Goto
    <3>2. CASE q = j
      <4>1. JobOK(j) /\ pc[j] = "work"
        BY <1>0, <1>8 DEF FinishStage, At
      <4>2. stage[j] \in 1 .. Stages
        BY <4>1 DEF JobOK, RunnerOK, Active
      <4>3. PICK c \in StageCalls(stage[j] + 1) : intent' = [intent EXCEPT ![j] = c]
        BY <1>8 DEF FinishStage
      <4>4. /\ c.status \in {"processing", "completed"}
            /\ c.status = "processing" => stage[j] + 1 <= Stages
            /\ c.result = "final" <=> c.status = "completed"
            /\ ~c.error
        BY <4>2, <4>3, StageCallsOK
      <4>5. /\ pc'[j] = "select" /\ row'[j] = row[j] /\ view'[j] = view[j]
            /\ intent'[j] = c /\ stage'[j] = stage[j] + 1 /\ cancel'[j] = cancel[j]
        BY <1>0, <1>8, <4>3 DEF FinishStage, TypeOK, Goto
      <4> QED
        <5>1. RowExists(j)' /\ RunnerOK(j)' /\ Whole(j)'
          BY <4>1, <4>2, <4>4, <4>5 DEF JobOK, RowExists, RunnerOK, NotOver, Whole, Active, Unfinished, Terminal
        <5>2. ViewOK(j)'
          BY <4>1, <4>5 DEF JobOK, ViewOK
        <5>3. NotOver(j)'
          BY <4>1, <4>5 DEF JobOK, NotOver, NoRow, Unfinished
        <5> QED
          BY <3>2, <5>1, <5>2, <5>3 DEF JobOK
    <3> QED
      BY <3>1, <3>2
  <2> QED
    BY <2>2, <2>3, <2>4 DEF IInv
<1>9. ASSUME NEW j \in Jobs, ProviderError(j) PROVE IInv'
  <2>1. Holders' = Holders
    BY <1>0, <1>9 DEF ProviderError, Fail, At, Goto, Holders, Active, TypeOK
  <2>2. PermitsConserved' /\ permits' = permits
    BY <1>0, <1>9, <2>1 DEF PermitsConserved, ProviderError, semVars
  <2>3. TypeOK'
    <3>1. CASE attempt[j] + 1 < MaxRetries
      <4>1. attempt' \in [Jobs -> 0 .. MaxRetries - 1] /\ pc' = pc /\ intent' = intent
        BY <1>0, <1>9, <3>1 DEF TypeOK, ProviderError
      <4> QED
        BY <1>0, <1>9, <2>2, <4>1 DEF TypeOK, ProviderError, semVars
    <3>2. CASE ~(attempt[j] + 1 < MaxRetries)
      <4>1. \A text \in BOOLEAN : Call("failed", "none", text) \in Calls
        BY DEF Call, Calls, Statuses, Terminal
      <4> QED
        <5>1. Fail(j)
          BY <1>9, <3>2 DEF ProviderError
        <5>a. 0 \in 0 .. MaxRetries - 1
          OBVIOUS
        <5>b. attempt' \in [Jobs -> 0 .. MaxRetries - 1]
          BY <1>0, <5>1, <5>a DEF TypeOK, Fail
        <5>2. intent' \in [Jobs -> Calls] /\ pc' = [pc EXCEPT ![j] = "select"]
          BY <1>0, <4>1, <5>1 DEF TypeOK, Fail, Goto
        <5> QED
          BY <1>0, <1>9, <2>2, <5>b, <5>2 DEF TypeOK, ProviderError, Active, semVars
    <3> QED
      BY <3>1, <3>2
  <2>4. ASSUME NEW q \in Jobs PROVE JobOK(q)'
    <3>1. CASE q # j
      BY <1>0, <1>9, <3>1, JobFrame DEF ProviderError, Fail, Goto, TypeOK
    <3>2. CASE q = j
      <4>1. JobOK(j) /\ pc[j] = "work"
        BY <1>0, <1>9 DEF ProviderError, At
      <4>2. /\ row'[j] = row[j] /\ view'[j] = view[j] /\ stage'[j] = stage[j] /\ cancel'[j] = cancel[j]
            /\ \/ pc'[j] = pc[j] /\ intent'[j] = intent[j]
               \/ /\ pc'[j] = "select"
                  /\ \E text \in BOOLEAN : intent'[j] = Call("failed", "none", text)
        BY <1>0, <1>9 DEF ProviderError, Fail, Goto, TypeOK
      <4>3. CASE pc'[j] = pc[j] /\ intent'[j] = intent[j]
        BY <3>2, <4>1, <4>2, <4>3 DEF JobOK, RowExists, RunnerOK, ViewOK, NotOver, Whole
      <4>4. ASSUME pc'[j] = "select", NEW text \in BOOLEAN, intent'[j] = Call("failed", "none", text)
            PROVE  JobOK(j)'
        <5>1. intent'[j].status = "failed" /\ intent'[j].result = "none"
          BY <4>4 DEF Call
        <5>2. stage[j] \in 1 .. Stages + 1 /\ row[j].status \in Unfinished /\ row[j] \in Row
          BY <4>1 DEF JobOK, RunnerOK, RowExists, NotOver, Active
        <5>3. RunnerOK(j)' /\ RowExists(j)' /\ ViewOK(j)'
          BY <4>1, <4>2, <4>4, <5>1, <5>2 DEF JobOK, RunnerOK, RowExists, ViewOK, Active
        <5>4. NotOver(j)'
          BY <4>1, <4>2, <4>4, <5>1 DEF JobOK, NotOver
        <5>5. Whole(j)'
          BY <4>1, <4>2, <5>2 DEF JobOK, Whole, Unfinished
        <5> QED
          BY <5>3, <5>4, <5>5 DEF JobOK
      <4> QED
        BY <3>2, <4>2, <4>3, <4>4
    <3> QED
      BY <3>1, <3>2
  <2> QED
    BY <2>2, <2>3, <2>4 DEF IInv
<1>10. ASSUME NEW j \in Jobs, WorkError(j) PROVE IInv'
  <2>1. Holders' = Holders
    BY <1>0, <1>10, HoldersStay DEF WorkError, At, Goto, Fail, Active
  <2>2. PermitsConserved' /\ permits' = permits
    BY <1>0, <1>10, <2>1 DEF PermitsConserved, WorkError, Fail, Call, Calls, Statuses, Terminal, semVars
  <2>3. TypeOK'
    BY <1>0, <1>10, <2>2 DEF TypeOK, JobOK, RunnerOK, WorkError, Fail, Call, Calls, Statuses, Terminal, At, Goto, Active, semVars, taskVars
  <2>4. ASSUME NEW q \in Jobs PROVE JobOK(q)'
    BY <1>0, <1>10, <2>3 DEF TypeOK, JobOK, RowExists, RunnerOK, ViewOK, NotOver, Whole, WorkError, Fail, Call, Calls, Statuses, Terminal, At, Goto, Active, semVars, taskVars, Unfinished
  <2> QED
    BY <2>2, <2>3, <2>4 DEF IInv
<1>11. ASSUME NEW j \in Jobs, DatabaseError(j) PROVE IInv'
  <2>1. Cardinality(Holders)' = Cardinality(Holders) - 1 /\ Cardinality(Holders) \in Nat \ {0}
    BY <1>0, <1>11, HoldersLeave DEF DatabaseError, Release, Active
  <2>2. PermitsConserved' /\ permits' \in 0 .. Permits
    BY <1>0, <1>11, <2>1 DEF PermitsConserved, DatabaseError, Release, TypeOK
  <2>3. TypeOK'
    BY <1>0, <1>11, <2>2 DEF TypeOK, JobOK, RunnerOK, DatabaseError, Release, At, Goto, Active, semVars, taskVars
  <2>4. ASSUME NEW q \in Jobs PROVE JobOK(q)'
    BY <1>0, <1>11, <2>3 DEF TypeOK, JobOK, RowExists, RunnerOK, ViewOK, NotOver, Whole, DatabaseError, Release, At, Goto, Active, semVars, taskVars, Unfinished
  <2> QED
    BY <2>2, <2>3, <2>4 DEF IInv
<1>12. ASSUME NEW j \in Jobs, CancelRead(j) PROVE IInv'
  <2>1. Holders' = Holders
    BY <1>12 DEF CancelRead, Holders, taskVars
  <2>2. PermitsConserved' /\ permits' = permits
    BY <1>0, <1>12, <2>1 DEF PermitsConserved, CancelRead, semVars
  <2>3. TypeOK'
    BY <1>0, <1>12, <2>2 DEF TypeOK, JobOK, RunnerOK, CancelRead, At, Goto, Active, semVars, taskVars
  <2>4. ASSUME NEW q \in Jobs PROVE JobOK(q)'
    BY <1>0, <1>12, <2>3 DEF TypeOK, JobOK, RowExists, RunnerOK, ViewOK, NotOver, Whole, CancelRead, At, Goto, Active, semVars, taskVars, Unfinished
  <2> QED
    BY <2>2, <2>3, <2>4 DEF IInv
<1>13. ASSUME NEW j \in Jobs, CancelWrite(j) PROVE IInv'
  <2>1. Holders' = Holders
    BY <1>13 DEF CancelWrite, Holders, taskVars
  <2>2. PermitsConserved' /\ permits' = permits
    BY <1>0, <1>13, <2>1 DEF PermitsConserved, CancelWrite, semVars
  <2>3. TypeOK'
    <3>1. [row[j] EXCEPT !.status = "cancelled", !.stamped = TRUE] \in Row
      <4>1. row[j] \in Row
        BY <1>0, <1>13 DEF JobOK, NotOver, RowExists, CancelWrite
      <4> QED
        BY <4>1 DEF Row, Statuses, Terminal
    <3> QED
      BY <1>0, <1>13, <2>2, <3>1 DEF TypeOK, CancelWrite, taskVars, semVars
  <2>4. ASSUME NEW q \in Jobs PROVE JobOK(q)'
    <3>1. CASE q # j
      BY <1>0, <1>13, <3>1, JobFrame DEF CancelWrite, TypeOK, taskVars
    <3>2. CASE q = j
      <4>1. JobOK(j) /\ pc[j] # "none" /\ row[j] \in Row
        BY <1>0, <1>13 DEF JobOK, NotOver, RowExists, CancelWrite
      <4>2. /\ row'[j] = [row[j] EXCEPT !.status = "cancelled", !.stamped = TRUE]
            /\ pc'[j] = pc[j] /\ view'[j] = view[j]
            /\ intent'[j] = intent[j] /\ stage'[j] = stage[j]
        BY <1>0, <1>13 DEF CancelWrite, TypeOK, taskVars
      <4> QED
        BY <3>2, <4>1, <4>2 DEF JobOK, RowExists, RunnerOK, ViewOK, NotOver, Whole, Row, Statuses, Terminal, Unfinished
    <3> QED
      BY <3>1, <3>2
  <2> QED
    BY <2>2, <2>3, <2>4 DEF IInv
<1>14. ASSUME Crash PROVE IInv'
  <2>1. Holders' = {}
    BY <1>0, <1>14 DEF Crash, Holders, Active
  <2>2. PermitsConserved'
    BY <1>14, <2>1, FS_EmptySet DEF Crash, PermitsConserved
  <2>3. TypeOK'
    BY <1>0, <1>14 DEF TypeOK, Crash
  <2>4. ASSUME NEW q \in Jobs PROVE JobOK(q)'
    BY <1>0, <1>14 DEF TypeOK, JobOK, RowExists, RunnerOK, ViewOK, NotOver, Whole, Crash, Active
  <2> QED
    BY <2>2, <2>3, <2>4 DEF IInv
<1>15. ASSUME NEW j \in Jobs, RequestFails(j) PROVE IInv'
  <2>1. Holders' = Holders
    BY <1>0, <1>15, HoldersStay DEF RequestFails, At, Goto, Active
  <2>2. PermitsConserved' /\ permits' = permits
    BY <1>0, <1>15, <2>1 DEF PermitsConserved, RequestFails, semVars
  <2>3. TypeOK'
    BY <1>0, <1>15, <2>2 DEF TypeOK, JobOK, RunnerOK, RequestFails, At, Goto, Active, semVars, taskVars
  <2>4. ASSUME NEW q \in Jobs PROVE JobOK(q)'
    BY <1>0, <1>15, <2>3 DEF TypeOK, JobOK, RowExists, RunnerOK, ViewOK, NotOver, Whole, RequestFails, At, Goto, Active, semVars, taskVars, Unfinished
  <2> QED
    BY <2>2, <2>3, <2>4 DEF IInv
<1>16. CASE UNCHANGED vars
  <2>1. TypeOK' /\ PermitsConserved'
    BY <1>0, <1>16 DEF vars, taskVars, semVars, TypeOK, PermitsConserved, Holders
  <2>2. ASSUME NEW q \in Jobs PROVE JobOK(q)'
    BY <1>0, <1>16 DEF vars, taskVars, semVars, JobOK, RowExists, RunnerOK, ViewOK, NotOver, Whole
  <2> QED
    BY <2>1, <2>2 DEF IInv
<1> QED
  BY <1>1, <1>2, <1>3, <1>4, <1>5, <1>6, <1>7, <1>8, <1>9, <1>10, <1>11, <1>12, <1>13, <1>14, <1>15, <1>16 DEF Next, Run, Report, Work

LEMMA InductiveInvariant == Spec => []IInv
BY InitInvariant, StepInvariant, PTL DEF Spec

(* The job table, the runners and the semaphore stay well typed            *)
(* (services/tour_ai/jobs.py, helpers.py).                                 *)
THEOREM TypeCorrect == Spec => []TypeOK
<1>1. IInv => TypeOK
  BY DEF IInv
<1> QED
  BY <1>1, InductiveInvariant, PTL

(* _run_with_semaphore neither loses nor mints a permit, however a runner  *)
(* ends and whenever the process restarts (helpers.py:49-55).              *)
THEOREM PermitsAreConserved == Spec => []PermitsConserved
<1>1. IInv => PermitsConserved
  BY DEF IInv
<1> QED
  BY <1>1, InductiveInvariant, PTL

(* A finished row is whole whatever a runner and a cancel request wrote    *)
(* over each other (jobs.py update_job_status, cancel_ai_job).             *)
THEOREM TerminalRowsStayWhole == Spec => []TerminalRowsAreWhole
<1>1. IInv => TerminalRowsAreWhole
  BY DEF IInv, JobOK, Whole, TerminalRowsAreWhole
<1> QED
  BY <1>1, InductiveInvariant, PTL

(* Once a job is over, its task has ended and no cancel request that read  *)
(* it earlier is about to write, its row never changes again (jobs.py:     *)
(* the only writers are update_job_status and cancel_ai_job).              *)
THEOREM SettledRowsNeverChange == Spec => SettledRowsStay
<1> DEFINE Step == \A j \in Jobs : Settled(j) => row'[j] = row[j] /\ Settled(j)'
<1>1. IInv /\ [Next]_vars => [Step]_vars
  <2> SUFFICES ASSUME TypeOK, [Next]_vars, NEW q \in Jobs, Settled(q)
               PROVE  row'[q] = row[q] /\ Settled(q)'
    BY DEF IInv
  <2>1. row'[q] = row[q]
    <3>1. ASSUME NEW j \in Jobs, CreateJob(j) \/ CommitRow(j) \/ CancelWrite(j)
          PROVE  row'[q] = row[q]
      <4>1. j # q
        BY <3>1 DEF Settled, CreateJob, CommitRow, CancelWrite, At
      <4> QED
        BY <3>1, <4>1 DEF CreateJob, CommitRow, CancelWrite, TypeOK
    <3>2. CASE UNCHANGED row
      BY <3>2
    <3>3. (\E j \in Jobs : CreateJob(j) \/ CommitRow(j) \/ CancelWrite(j)) \/ UNCHANGED row
      BY DEF Next, vars, Run, Report, Work, SpawnTask, RequestFails, Acquire, SelectRow, RefreshRow, Notify,
             FinishStage, ProviderError, WorkError, DatabaseError, CancelRead, Crash
    <3> QED
      BY <3>1, <3>2, <3>3
  <2>2. pc'[q] = pc[q]
    <3>1. ASSUME NEW j \in Jobs, CreateJob(j) \/ Run(j) \/ RequestFails(j) \/ DatabaseError(j)
          PROVE  pc'[q] = pc[q]
      <4>1. j # q
        BY <3>1 DEF Settled, CreateJob, Run, Report, Work, SpawnTask, RequestFails, Acquire, SelectRow,
                    CommitRow, RefreshRow, Notify, FinishStage, ProviderError, WorkError, DatabaseError, At
      <4> QED
        BY <3>1, <4>1 DEF TypeOK, CreateJob, Run, Report, Work, SpawnTask, RequestFails, Acquire, SelectRow,
                    CommitRow, RefreshRow, Notify, FinishStage, ProviderError, WorkError, DatabaseError,
                    Goto, Release, Fail
    <3>2. CASE Crash
      BY <3>2 DEF Crash, Settled, TypeOK
    <3>3. CASE UNCHANGED pc
      BY <3>3
    <3>4. \/ \E j \in Jobs : CreateJob(j) \/ Run(j) \/ RequestFails(j) \/ DatabaseError(j)
          \/ Crash
          \/ UNCHANGED pc
      BY DEF Next, vars, CancelRead, CancelWrite, taskVars
    <3> QED
      BY <3>1, <3>2, <3>3, <3>4
  <2>3. cancel'[q] # "writing"
    <3>1. ASSUME NEW j \in Jobs, CancelRead(j)
          PROVE  cancel'[q] # "writing"
      BY <3>1 DEF CancelRead, Settled, TypeOK
    <3>2. ASSUME NEW j \in Jobs, CancelWrite(j)
          PROVE  cancel'[q] # "writing"
      BY <3>2 DEF CancelWrite, Settled, TypeOK
    <3>3. CASE Crash
      BY <3>3 DEF Crash, Settled, TypeOK
    <3>4. CASE UNCHANGED cancel
      BY <3>4 DEF Settled
    <3>5. (\E j \in Jobs : CancelRead(j) \/ CancelWrite(j)) \/ Crash \/ UNCHANGED cancel
      BY DEF Next, vars, CreateJob, Run, Report, Work, SpawnTask, RequestFails, Acquire, SelectRow,
             CommitRow, RefreshRow, Notify, FinishStage, ProviderError, WorkError, DatabaseError
    <3> QED
      BY <3>1, <3>2, <3>3, <3>4, <3>5
  <2> QED
    BY <2>1, <2>2, <2>3 DEF Settled
<1> QED
  BY <1>1, InductiveInvariant, PTL DEF Spec, SettledRowsStay

-----------------------------------------------------------------------------
(* That a job nobody cancels keeps the promise of JobLifecycle rests on    *)
(* its session's copy being the row's status, and on the first update of a *)
(* runner being a "processing" one.                                        *)
Polled(j) ==
  /\ cancel[j] = "idle"
  /\ view[j] # NoRow => view[j].status = row[j].status
  /\ pc[j] \in {"created", "queued"} => row[j].status = "pending"
  /\ pc[j] \in {"select", "commit"} =>
       row[j].status \in IF intent[j].status = "processing" THEN {"pending", "processing"}
                                                            ELSE {"processing"}
  /\ pc[j] \in {"refresh", "notify"} => row[j].status = intent[j].status
  /\ pc[j] = "work" => row[j].status = "processing"

AllPolled == \A j \in Uncancelled : Polled(j)

(* One step of the job's own, as JobLifecycle takes it.                    *)
Moves(a, b) == \/ a = b
               \/ a = "absent" /\ b = "pending"
               \/ a = "pending" /\ b = "processing"
               \/ a = "processing" /\ b \in {"completed", "failed"}

LEMMA PolledFrame ==
  ASSUME NEW q \in Uncancelled, Polled(q),
         row'[q] = row[q], view'[q] = view[q], pc'[q] = pc[q],
         intent'[q] = intent[q], cancel'[q] = cancel[q]
  PROVE  Polled(q)' /\ row'[q] = row[q]
BY DEF Polled

LEMMA PolledStep ==
  ASSUME IInv, IInv', AllPolled, Next
  PROVE  /\ AllPolled'
         /\ \/ row' = row
            \/ \E j \in Jobs : /\ \A q \in Jobs \ {j} : row'[q] = row[q]
                               /\ j \in Uncancelled => Moves(row[j].status, row'[j].status)
<1> USE BoundsAssumption, CancellableAssumption
<1> DEFINE Step(j) == /\ AllPolled'
                      /\ \A q \in Jobs \ {j} : row'[q] = row[q]
                      /\ j \in Uncancelled => Moves(row[j].status, row'[j].status)
<1>0. TypeOK /\ (\A q \in Jobs : JobOK(q)) /\ Uncancelled \subseteq Jobs
  BY DEF IInv, Uncancelled
<1>1. ASSUME NEW j \in Jobs, CreateJob(j) PROVE Step(j)
  <2>1. ASSUME NEW q \in Uncancelled, q # j PROVE Polled(q)' /\ row'[q] = row[q]
    BY <1>0, <1>1, <2>1, PolledFrame DEF AllPolled, CreateJob, TypeOK, Goto, taskVars, semVars
  <2>2. /\ pc[j] = "none" /\ pc'[j] = "created" /\ view'[j] = view[j] /\ cancel'[j] = cancel[j]
        /\ row'[j] = [NoRow EXCEPT !.status = "pending"]
    BY <1>0, <1>1 DEF CreateJob, TypeOK, At, Goto
  <2>3. row[j] = NoRow /\ view[j] = NoRow
    BY <1>0, <2>2 DEF JobOK, NotOver
  <2>4. row'[j].status = "pending" /\ NoRow.status = "absent"
    BY <2>2 DEF NoRow
  <2>5. j \in Uncancelled => Polled(j)'
    BY <2>2, <2>3, <2>4 DEF Polled, AllPolled
  <2>6. \A q \in Jobs \ {j} : row'[q] = row[q]
    BY <1>0, <1>1 DEF CreateJob, TypeOK
  <2> QED
    BY <2>1, <2>3, <2>4, <2>5, <2>6 DEF AllPolled, Moves
<1>2. ASSUME NEW j \in Jobs, CommitRow(j) PROVE Step(j)
  <2>1. ASSUME NEW q \in Uncancelled, q # j PROVE Polled(q)' /\ row'[q] = row[q]
    BY <1>0, <1>2, <2>1, PolledFrame DEF AllPolled, CommitRow, TypeOK, Goto, semVars
  <2>2. /\ pc[j] = "commit" /\ pc'[j] = "refresh" /\ intent'[j] = intent[j] /\ cancel'[j] = cancel[j]
        /\ row'[j] = Update(view[j], Assigned(view[j], intent[j]), row[j])
        /\ view'[j] = Assigned(view[j], intent[j])
    BY <1>0, <1>2 DEF CommitRow, TypeOK, At, Goto
  <2>3. /\ view'[j].status = intent[j].status
        /\ row'[j].status = IF intent[j].status # view[j].status THEN intent[j].status ELSE row[j].status
    BY <2>2 DEF Update, Assigned
  <2>4. ASSUME j \in Uncancelled PROVE Polled(j)' /\ Moves(row[j].status, row'[j].status)
    <3>1. Polled(j) /\ view[j] # NoRow /\ intent[j].status \in {"processing", "completed", "failed"}
      BY <1>0, <2>2, <2>4 DEF AllPolled, JobOK, NotOver, RunnerOK, Active
    <3>2. row'[j].status = intent[j].status
      BY <2>3, <3>1 DEF Polled
    <3> QED
      BY <2>2, <2>3, <3>1, <3>2 DEF Polled, Moves
  <2>5. \A q \in Jobs \ {j} : row'[q] = row[q]
    BY <1>0, <1>2 DEF CommitRow, TypeOK
  <2> QED
    BY <2>1, <2>4, <2>5 DEF AllPolled
<1>3. ASSUME NEW j \in Jobs, CancelWrite(j) PROVE Step(j)
  <2>1. j \notin Uncancelled
    BY <1>3 DEF AllPolled, Polled, CancelWrite
  <2>2. ASSUME NEW q \in Uncancelled PROVE Polled(q)'
    <3>1. q # j
      BY <2>1
    <3> QED
      BY <1>0, <1>3, <3>1, PolledFrame DEF AllPolled, CancelWrite, TypeOK, taskVars
  <2>3. \A q \in Jobs \ {j} : row'[q] = row[q]
    BY <1>0, <1>3 DEF CancelWrite, TypeOK
  <2> QED
    BY <2>1, <2>2, <2>3 DEF AllPolled
<1>4. ASSUME NEW j \in Jobs, CancelRead(j) PROVE AllPolled' /\ row' = row
  <2>1. ASSUME NEW q \in Uncancelled PROVE Polled(q)'
    <3>1. q # j
      BY <1>4 DEF CancelRead, Uncancelled
    <3> QED
      BY <1>0, <1>4, <3>1, PolledFrame DEF AllPolled, CancelRead, TypeOK, taskVars
  <2> QED
    BY <1>4, <2>1 DEF AllPolled, CancelRead
<1>5. ASSUME NEW j \in Jobs, SpawnTask(j) \/ RequestFails(j) \/ DatabaseError(j) PROVE AllPolled' /\ row' = row
  <2>1. ASSUME NEW q \in Uncancelled PROVE Polled(q)'
    BY <1>0, <1>5 DEF AllPolled, Polled, SpawnTask, RequestFails, DatabaseError, Release, TypeOK, At, Goto, taskVars, semVars
  <2> QED
    BY <1>5, <2>1 DEF AllPolled, SpawnTask, RequestFails, DatabaseError
<1>6. ASSUME NEW j \in Jobs, Acquire(j) PROVE AllPolled' /\ row' = row
  <2>1. PICK c \in StageCalls(1) : intent' = [intent EXCEPT ![j] = c]
    BY <1>6 DEF Acquire
  <2>2. c.status = "processing"
    BY <2>1 DEF StageCalls, Call
  <2>3. ASSUME NEW q \in Uncancelled PROVE Polled(q)'
    BY <1>0, <1>6, <2>1, <2>2 DEF AllPolled, Polled, Acquire, TypeOK, At, Goto
  <2> QED
    BY <1>6, <2>3 DEF AllPolled, Acquire
<1>7. ASSUME NEW j \in Jobs, SelectRow(j) \/ RefreshRow(j) PROVE AllPolled' /\ row' = row
  <2>1. ASSUME NEW q \in Uncancelled PROVE Polled(q)'
    BY <1>0, <1>7 DEF AllPolled, Polled, SelectRow, RefreshRow, TypeOK, At, Goto
  <2> QED
    BY <1>7, <2>1 DEF AllPolled, SelectRow, RefreshRow
<1>8. ASSUME NEW j \in Jobs, Notify(j) PROVE AllPolled' /\ row' = row
  <2>1. ASSUME NEW q \in Uncancelled PROVE Polled(q)'
    <3>1. CASE q # j
      BY <1>0, <1>8, <3>1, PolledFrame DEF AllPolled, Notify, Release, TypeOK, Goto
    <3>2. CASE q = j
      <4>1. /\ pc[j] = "notify" /\ view'[j] = view[j] /\ row'[j] = row[j]
            /\ intent'[j] = intent[j] /\ cancel'[j] = cancel[j]
            /\ pc'[j] = IF intent[j].status \in Terminal THEN "done" ELSE "work"
        BY <1>0, <1>8 DEF Notify, Release, TypeOK, At, Goto
      <4>2. intent[j].status \in Terminal \/ intent[j].status = "processing"
        BY <1>0, <4>1 DEF JobOK, RunnerOK, Active, Terminal
      <4> QED
        BY <3>2, <4>1, <4>2 DEF AllPolled, Polled, Terminal
    <3> QED
      BY <3>1, <3>2
  <2> QED
    BY <1>8, <2>1 DEF AllPolled, Notify
<1>9. ASSUME NEW j \in Jobs, FinishStage(j) PROVE AllPolled' /\ row' = row
  <2>1. PICK c \in StageCalls(stage[j] + 1) : intent' = [intent EXCEPT ![j] = c]
    BY <1>9 DEF FinishStage
  <2>3. ASSUME NEW q \in Uncancelled PROVE Polled(q)'
    BY <1>0, <1>9, <2>1 DEF AllPolled, Polled, FinishStage, TypeOK, At, Goto
  <2> QED
    BY <1>9, <2>3 DEF AllPolled, FinishStage
<1>10. ASSUME NEW j \in Jobs, ProviderError(j) \/ WorkError(j) PROVE AllPolled' /\ row' = row
  <2>1. ASSUME NEW q \in Uncancelled PROVE Polled(q)'
    BY <1>0, <1>10 DEF AllPolled, Polled, ProviderError, WorkError, Fail, TypeOK, At, Goto
  <2> QED
    BY <1>10, <2>1 DEF AllPolled, ProviderError, WorkError
<1>11. ASSUME Crash PROVE AllPolled' /\ row' = row
  <2>1. ASSUME NEW q \in Uncancelled PROVE Polled(q)'
    BY <1>0, <1>11 DEF AllPolled, Polled, Crash, TypeOK
  <2> QED
    BY <1>11, <2>1 DEF AllPolled, Crash
<1> HIDE DEF Step
<1>12. \A j \in Jobs : Step(j) => AllPolled' /\ \E k \in Jobs :
           /\ \A q \in Jobs \ {k} : row'[q] = row[q]
           /\ k \in Uncancelled => Moves(row[k].status, row'[k].status)
  BY DEF Step
<1> QED
  BY <1>1, <1>2, <1>3, <1>4, <1>5, <1>6, <1>7, <1>8, <1>9, <1>10, <1>11, <1>12 DEF Next, Run, Report, Work

(* A job nobody cancels is pending, then processing, and over exactly      *)
(* once, whatever fails and whenever the process restarts                  *)
(* (update_job_status, models/tours.py).                                   *)
THEOREM UncancelledJobsKeepTheirPromise == Spec => ImplementsLifecycle
<1>1. Init => Lifecycle!Init /\ AllPolled
  BY DEF Init, Lifecycle!Init, AllPolled, Polled, Uncancelled, NoRow
<1>2. IInv /\ IInv' /\ AllPolled /\ [Next]_vars =>
        AllPolled' /\ [Lifecycle!Next]_([j \in Uncancelled |-> row[j].status])
  <2> SUFFICES ASSUME IInv, IInv', AllPolled, [Next]_vars
               PROVE  AllPolled' /\ [Lifecycle!Next]_([j \in Uncancelled |-> row[j].status])
    OBVIOUS
  <2>1. CASE UNCHANGED vars
    BY <2>1 DEF vars, taskVars, AllPolled, Polled
  <2>2. CASE row' = row /\ Next
    BY <2>2, PolledStep
  <2>3. CASE row' # row /\ Next
    <3>1. PICK j \in Jobs : /\ \A q \in Jobs \ {j} : row'[q] = row[q]
                            /\ j \in Uncancelled => Moves(row[j].status, row'[j].status)
      BY <2>3, PolledStep
    <3>2. CASE j \notin Uncancelled
      <4>1. \A q \in Uncancelled : row'[q] = row[q]
        BY <3>1, <3>2 DEF Uncancelled
      <4>2. [q \in Uncancelled |-> row[q].status]' = [q \in Uncancelled |-> row[q].status]
        BY <4>1
      <4> QED
        BY <2>3, <4>2, PolledStep
    <3>3. CASE j \in Uncancelled
      <4> DEFINE st == [q \in Uncancelled |-> row[q].status]
      <4>1. st' = [st EXCEPT ![j] = row'[j].status] /\ st[j] = row[j].status
        BY <3>1, <3>3 DEF Uncancelled
      <4>2. CASE row'[j].status = row[j].status
        BY <2>3, <4>1, <4>2, PolledStep
      <4>3. CASE row[j].status = "absent" /\ row'[j].status = "pending"
        BY <2>3, <3>3, <4>1, <4>3, PolledStep DEF Lifecycle!Next, Lifecycle!Accept
      <4>4. CASE row[j].status = "pending" /\ row'[j].status = "processing"
        BY <2>3, <3>3, <4>1, <4>4, PolledStep DEF Lifecycle!Next, Lifecycle!Begin
      <4>5. CASE row[j].status = "processing" /\ row'[j].status \in {"completed", "failed"}
        BY <2>3, <3>3, <4>1, <4>5, PolledStep DEF Lifecycle!Next, Lifecycle!End
      <4> QED
        BY <3>1, <3>3, <4>2, <4>3, <4>4, <4>5 DEF Moves
    <3> QED
      BY <3>2, <3>3
  <2> QED
    BY <2>1, <2>2, <2>3
<1>3. Spec => []IInv
  BY InductiveInvariant
<1> QED
  BY <1>1, <1>2, <1>3, PTL DEF Spec, ImplementsLifecycle, Lifecycle!Spec

-----------------------------------------------------------------------------
(* The queue and the way to the end: what the safety of JobsReachTheEnd    *)
(* rests on.                                                               *)

Places == 1 .. Len(waiting)

(* The semaphore's queue holds each task that waits, once, and no other.   *)
QueueOK == /\ \A n \in Places : pc[waiting[n]] = "queued"
           /\ \A j \in Jobs : pc[j] = "queued" => \E n \in Places : waiting[n] = j
           /\ \A n, m \in Places : waiting[n] = waiting[m] => n = m

LEMMA QueuesAre ==
  ASSUME TypeOK
  PROVE  /\ Len(waiting) \in Nat
         /\ \A n \in Places : waiting[n] \in Jobs
         /\ waiting = <<>> <=> Len(waiting) = 0
         /\ waiting # <<>> => Head(waiting) = waiting[1]
BY DEF TypeOK, Places

(* The queue changes by a task that joins it, by the first one that leaves *)
(* it, and by a restart.                                                   *)
QueueStays == /\ waiting' = waiting
              /\ \A j \in Jobs : pc'[j] = "queued" <=> pc[j] = "queued"

LEMMA QueueSteps ==
  ASSUME TypeOK, [Next]_vars
  PROVE  \/ QueueStays
         \/ \E j \in Jobs : SpawnTask(j) \/ Acquire(j)
         \/ Crash
<1> USE DEF TypeOK, QueueStays, At, Goto, semVars, taskVars
<1>1. ASSUME NEW j \in Jobs, CreateJob(j) \/ RequestFails(j) \/ CancelRead(j) \/ CancelWrite(j)
      PROVE  QueueStays
  BY <1>1 DEF CreateJob, RequestFails, CancelRead, CancelWrite
<1>2. ASSUME NEW j \in Jobs, Report(j) \/ DatabaseError(j) PROVE QueueStays
  BY <1>2 DEF Report, SelectRow, CommitRow, RefreshRow, Notify, DatabaseError, Release
<1>3. ASSUME NEW j \in Jobs, Work(j) PROVE QueueStays
  BY <1>3 DEF Work, FinishStage, ProviderError, WorkError, Fail
<1>4. CASE UNCHANGED vars
  BY <1>4 DEF vars
<1> QED
  BY <1>1, <1>2, <1>3, <1>4 DEF Next, Run

LEMMA QueueInvariant == Spec => []QueueOK
<1>1. Init => QueueOK
  BY DEF Init, QueueOK, Places
<1>2. IInv /\ QueueOK /\ [Next]_vars => QueueOK'
  <2> SUFFICES ASSUME TypeOK, QueueOK, [Next]_vars PROVE QueueOK'
    BY DEF IInv
  <2> USE QueuesAre
  <2>1. CASE QueueStays
    BY <2>1 DEF QueueOK, QueueStays, Places
  <2>2. ASSUME NEW j \in Jobs, SpawnTask(j) PROVE QueueOK'
    <3>1. /\ waiting' = Append(waiting, j) /\ pc[j] = "created" /\ pc'[j] = "queued"
          /\ \A q \in Jobs \ {j} : pc'[q] = pc[q]
      BY <2>2 DEF SpawnTask, At, Goto, TypeOK
    <3>2. /\ Len(waiting') = Len(waiting) + 1
          /\ waiting'[Len(waiting) + 1] = j
          /\ \A n \in Places : waiting'[n] = waiting[n]
      BY <3>1 DEF TypeOK, Places
    <3>3. \A n \in Places : waiting[n] # j
      BY <3>1 DEF QueueOK
    <3>4. \A n \in Places' : n \in Places \/ n = Len(waiting) + 1
      BY <3>2 DEF Places
    <3>5. (\A n \in Places : n \in Places') /\ Len(waiting) + 1 \in Places'
      BY <3>2 DEF Places
    <3>6. ASSUME NEW n \in Places' PROVE pc'[waiting'[n]] = "queued"
      <4>1. CASE n = Len(waiting) + 1
        BY <3>1, <3>2, <4>1
      <4>2. CASE n \in Places
        <5>1. waiting'[n] = waiting[n] /\ waiting[n] \in Jobs \ {j}
          BY <3>2, <3>3, <4>2
        <5>2. pc[waiting[n]] = "queued"
          BY <4>2 DEF QueueOK
        <5> QED
          BY <3>1, <5>1, <5>2
      <4> QED
        BY <3>4, <4>1, <4>2
    <3>7. ASSUME NEW q \in Jobs, pc'[q] = "queued" PROVE \E n \in Places' : waiting'[n] = q
      <4>1. CASE q = j
        BY <3>2, <3>5, <4>1
      <4>2. CASE q # j
        <5>1. PICK n \in Places : waiting[n] = q
          BY <3>1, <3>7, <4>2 DEF QueueOK
        <5> QED
          BY <3>2, <3>5, <5>1
      <4> QED
        BY <4>1, <4>2
    <3>8. \A n, m \in Places' : waiting'[n] = waiting'[m] => n = m
      BY <3>2, <3>3, <3>4 DEF QueueOK
    <3> QED
      BY <3>6, <3>7, <3>8 DEF QueueOK
  <2>3. ASSUME NEW j \in Jobs, Acquire(j) PROVE QueueOK'
    <3>1. /\ waiting # <<>> /\ waiting[1] = j /\ waiting' = Tail(waiting)
          /\ pc'[j] = "select" /\ \A q \in Jobs \ {j} : pc'[q] = pc[q]
      BY <2>3 DEF Acquire, At, Goto, TypeOK
    <3>2. /\ Len(waiting') = Len(waiting) - 1
          /\ \A n \in Places' : waiting'[n] = waiting[n + 1]
      BY <3>1 DEF TypeOK, Places
    <3>3. 1 \in Places /\ \A n \in Places' : n + 1 \in Places /\ n + 1 # 1
      BY <3>1, <3>2 DEF Places
    <3>4. \A n \in Places : n = 1 \/ (n - 1 \in Places' /\ (n - 1) + 1 = n)
      BY <3>2 DEF Places
    <3>5. \A n, m \in Places' : n + 1 = m + 1 => n = m
      BY <3>2 DEF Places
    <3>6. ASSUME NEW n \in Places' PROVE pc'[waiting'[n]] = "queued"
      <4>1. n + 1 \in Places /\ n + 1 # 1 /\ waiting'[n] = waiting[n + 1]
        BY <3>2, <3>3
      <4>2. waiting[n + 1] # j /\ waiting[n + 1] \in Jobs
        BY <3>1, <3>3, <4>1 DEF QueueOK
      <4>3. pc[waiting[n + 1]] = "queued"
        BY <4>1 DEF QueueOK
      <4> QED
        BY <3>1, <4>1, <4>2, <4>3
    <3>7. ASSUME NEW q \in Jobs, pc'[q] = "queued" PROVE \E n \in Places' : waiting'[n] = q
      <4>1. q # j /\ pc[q] = "queued"
        BY <3>1, <3>7
      <4>2. PICK n \in Places : waiting[n] = q
        BY <4>1 DEF QueueOK
      <4>3. n - 1 \in Places' /\ (n - 1) + 1 = n
        BY <3>1, <3>4, <4>1, <4>2
      <4> QED
        BY <3>2, <4>2, <4>3
    <3>8. \A n, m \in Places' : waiting'[n] = waiting'[m] => n = m
      BY <3>2, <3>3, <3>5 DEF QueueOK
    <3> QED
      BY <3>6, <3>7, <3>8 DEF QueueOK
  <2>4. CASE Crash
    BY <2>4 DEF Crash, QueueOK, Places, TypeOK
  <2> QED
    BY <2>1, <2>2, <2>3, <2>4, QueueSteps
<1> QED
  BY <1>1, <1>2, InductiveInvariant, PTL DEF Spec

(* No task waits for a permit that nobody will give back: while one waits  *)
(* the queue names who is next, and a permit is free for it or held by a   *)
(* runner (helpers.py:49-55).                                              *)
THEOREM NobodyWaitsForNobody ==
  Spec => [](\A j \in Jobs : pc[j] = "queued" =>
                 /\ waiting # <<>> /\ pc[Head(waiting)] = "queued"
                 /\ permits > 0 \/ Holders # {})
<1>1. IInv /\ QueueOK => \A j \in Jobs : pc[j] = "queued" =>
                            /\ waiting # <<>> /\ pc[Head(waiting)] = "queued"
                            /\ permits > 0 \/ Holders # {}
  <2> SUFFICES ASSUME IInv, QueueOK, NEW j \in Jobs, pc[j] = "queued"
               PROVE  /\ waiting # <<>> /\ pc[Head(waiting)] = "queued"
                      /\ permits > 0 \/ Holders # {}
    OBVIOUS
  <2>1. TypeOK /\ PermitsConserved
    BY DEF IInv
  <2>2. waiting # <<>> /\ 1 \in Places
    BY <2>1, QueuesAre DEF QueueOK, Places
  <2>3. pc[Head(waiting)] = "queued"
    BY <2>1, <2>2, QueuesAre DEF QueueOK
  <2>4. Holders = {} => permits = Permits
    BY <2>1, FS_EmptySet, BoundsAssumption DEF PermitsConserved, TypeOK
  <2> QED
    BY <2>2, <2>3, <2>4, BoundsAssumption
<1> QED
  BY <1>1, InductiveInvariant, QueueInvariant, PTL

Precedes(j, k) == \E n, m \in Places : n < m /\ waiting[n] = j /\ waiting[m] = k

(* First come, first served: a task that waits is never overtaken; who is  *)
(* before another in the queue stays before it until it leaves the queue.  *)
THEOREM NobodyOvertakes ==
  Spec => [][\A j, k \in Jobs : Precedes(j, k) => Precedes(j, k)' \/ pc'[j] # "queued"]_vars
<1> DEFINE InOrder == \A j, k \in Jobs :
                        Precedes(j, k) => Precedes(j, k)' \/ pc'[j] # "queued"
<1>1. IInv /\ QueueOK /\ [Next]_vars => [InOrder]_vars
  <2> SUFFICES ASSUME TypeOK, QueueOK, [Next]_vars, NEW j \in Jobs, NEW k \in Jobs,
                      NEW n \in Places, NEW m \in Places,
                      n < m, waiting[n] = j, waiting[m] = k
               PROVE  Precedes(j, k)' \/ pc'[j] # "queued"
    BY DEF IInv, Precedes
  <2> USE QueuesAre
  <2>1. CASE QueueStays
    BY <2>1 DEF QueueStays, Places, Precedes
  <2>2. ASSUME NEW q \in Jobs, SpawnTask(q) PROVE Precedes(j, k)'
    <3>1. waiting' = Append(waiting, q)
      BY <2>2 DEF SpawnTask
    <3>2. Len(waiting') = Len(waiting) + 1 /\ \A l \in Places : waiting'[l] = waiting[l]
      BY <3>1 DEF TypeOK, Places
    <3>3. n \in Places' /\ m \in Places'
      BY <3>2 DEF Places
    <3> QED
      BY <3>2, <3>3 DEF Precedes
  <2>3. ASSUME NEW q \in Jobs, Acquire(q) PROVE Precedes(j, k)' \/ pc'[j] # "queued"
    <3>1. waiting # <<>> /\ waiting[1] = q /\ waiting' = Tail(waiting) /\ pc'[q] = "select"
      BY <2>3 DEF Acquire, At, Goto, TypeOK
    <3>2. CASE n = 1
      BY <3>1, <3>2
    <3>3. CASE n # 1
      <4>1. n - 1 \in Places' /\ m - 1 \in Places' /\ n - 1 < m - 1
        BY <3>1, <3>3 DEF TypeOK, Places
      <4>2. waiting'[n - 1] = j /\ waiting'[m - 1] = k
        BY <3>1, <3>3, <4>1 DEF TypeOK, Places
      <4> QED
        BY <4>1, <4>2 DEF Precedes
    <3> QED
      BY <3>2, <3>3
  <2>4. CASE Crash
    BY <2>4 DEF Crash, TypeOK
  <2> QED
    BY <2>1, <2>2, <2>3, <2>4, QueueSteps
<1> QED
  BY <1>1, InductiveInvariant, QueueInvariant, PTL DEF Spec

(* How far a task is from its end: the phase of its life, the stages that  *)
(* are left to report, the steps of this one.                              *)
Life(j) == CASE pc[j] = "none"      -> 4
             [] pc[j] = "created"   -> 3
             [] pc[j] = "queued"    -> 2
             [] pc[j] \in Active    -> 1
             [] OTHER               -> 0

StagesLeft(j) == IF pc[j] \in Active /\ intent[j].status = "processing"
                   THEN Stages + 2 - stage[j] ELSE 0

StepsInStage(j) == CASE pc[j] = "select"  -> MaxRetries + 3
                     [] pc[j] = "commit"  -> MaxRetries + 2
                     [] pc[j] = "refresh" -> MaxRetries + 1
                     [] pc[j] = "notify"  -> MaxRetries
                     [] pc[j] = "work"    -> MaxRetries - 1 - attempt[j]
                     [] OTHER             -> 0

Nearer(j) == \/ Life(j)' < Life(j)
             \/ Life(j)' = Life(j) /\ StagesLeft(j)' < StagesLeft(j)
             \/ /\ Life(j)' = Life(j) /\ StagesLeft(j)' = StagesLeft(j)
                /\ StepsInStage(j)' < StepsInStage(j)

AsFar(j) == /\ Life(j)' = Life(j) /\ StagesLeft(j)' = StagesLeft(j)
            /\ StepsInStage(j)' = StepsInStage(j)

LEMMA DistanceIsNatural ==
  IInv => \A j \in Jobs : /\ Life(j) \in Nat /\ StagesLeft(j) \in Nat
                          /\ StepsInStage(j) \in Nat
<1> SUFFICES ASSUME IInv, NEW j \in Jobs
             PROVE  Life(j) \in Nat /\ StagesLeft(j) \in Nat /\ StepsInStage(j) \in Nat
  OBVIOUS
<1>1. attempt[j] \in 0 .. MaxRetries - 1 /\ MaxRetries \in Nat /\ Stages \in Nat
  BY BoundsAssumption DEF IInv, TypeOK
<1>2. StagesLeft(j) \in Nat
  BY <1>1 DEF IInv, JobOK, RunnerOK, StagesLeft
<1>3. StepsInStage(j) \in Nat
  BY <1>1 DEF StepsInStage
<1> QED
  BY <1>2, <1>3 DEF Life

LEMMA RunComesNearer ==
  ASSUME IInv, NEW j \in Jobs, Run(j) PROVE Nearer(j)
<1>0. /\ TypeOK /\ JobOK(j)
      /\ attempt[j] \in 0 .. MaxRetries - 1 /\ MaxRetries \in Nat \ {0} /\ Stages \in Nat \ {0}
  BY BoundsAssumption DEF IInv, TypeOK
<1> USE <1>0 DEF TypeOK, At, Goto, Nearer, Active
<1>1. CASE SpawnTask(j)
  BY <1>1 DEF SpawnTask, Life
<1>2. CASE Acquire(j)
  BY <1>2 DEF Acquire, Life
<1>3. CASE SelectRow(j) \/ CommitRow(j) \/ RefreshRow(j)
  BY <1>3 DEF SelectRow, CommitRow, RefreshRow, Life, StagesLeft, StepsInStage
<1>4. CASE Notify(j)
  BY <1>4 DEF Notify, Release, Life, StagesLeft, StepsInStage
<1>5. CASE FinishStage(j)
  <2>1. /\ pc[j] = "work" /\ pc'[j] = "select" /\ stage'[j] = stage[j] + 1
        /\ stage[j] \in 1 .. Stages /\ intent[j].status = "processing"
    BY <1>5 DEF FinishStage, JobOK, RunnerOK
  <2>2. Life(j)' = Life(j)
    BY <2>1 DEF Life
  <2>3. StagesLeft(j) = Stages + 2 - stage[j]
    BY <2>1 DEF StagesLeft
  <2>4. StagesLeft(j)' \in {0, Stages + 1 - stage[j]}
    BY <2>1 DEF StagesLeft
  <2> QED
    BY <2>1, <2>2, <2>3, <2>4
<1>6. ASSUME Fail(j), pc[j] = "work", UNCHANGED stage PROVE Nearer(j)
  <2>1. pc'[j] = "select" /\ intent'[j].status = "failed"
    BY <1>6 DEF Fail, Call
  <2>2. stage[j] \in 1 .. Stages /\ intent[j].status = "processing"
    BY <1>6 DEF JobOK, RunnerOK
  <2>3. Life(j)' = Life(j)
    BY <1>6, <2>1 DEF Life
  <2>4. StagesLeft(j)' = 0 /\ StagesLeft(j) = Stages + 2 - stage[j]
    BY <1>6, <2>1, <2>2 DEF StagesLeft
  <2> QED
    BY <2>2, <2>3, <2>4
<1>7. CASE ProviderError(j) /\ attempt[j] + 1 < MaxRetries
  <2>1. /\ pc[j] = "work" /\ pc'[j] = "work" /\ attempt'[j] = attempt[j] + 1
        /\ intent'[j] = intent[j] /\ stage'[j] = stage[j]
    BY <1>7 DEF ProviderError
  <2>2. Life(j)' = Life(j) /\ StagesLeft(j)' = StagesLeft(j)
    BY <2>1 DEF Life, StagesLeft
  <2>3. StepsInStage(j)' < StepsInStage(j)
    BY <2>1 DEF StepsInStage
  <2> QED
    BY <2>2, <2>3
<1>8. CASE ProviderError(j) /\ ~(attempt[j] + 1 < MaxRetries)
  BY <1>6, <1>8 DEF ProviderError
<1>9. CASE WorkError(j)
  BY <1>6, <1>9 DEF WorkError
<1> QED
  BY <1>1, <1>2, <1>3, <1>4, <1>5, <1>7, <1>8, <1>9 DEF Run, Report, Work

LEMMA OthersComeNoFurther ==
  ASSUME IInv, [Next]_vars, NEW j \in Jobs, ~Run(j) PROVE Nearer(j) \/ AsFar(j)
<1>0. TypeOK
  BY DEF IInv
<1>1. ASSUME pc'[j] = pc[j], intent'[j] = intent[j], stage'[j] = stage[j], attempt'[j] = attempt[j]
      PROVE  AsFar(j)
  BY <1>1 DEF AsFar, Life, StagesLeft, StepsInStage
<1>2. CASE CreateJob(j) \/ RequestFails(j)
  BY <1>0, <1>2 DEF CreateJob, RequestFails, TypeOK, At, Goto, Nearer, Life, Active
<1>3. CASE DatabaseError(j)
  BY <1>0, <1>3 DEF DatabaseError, Release, TypeOK, Goto, Nearer, Life, Active
<1>4. ASSUME NEW q \in Jobs, q # j, CreateJob(q) \/ Run(q) \/ RequestFails(q) \/ DatabaseError(q)
      PROVE  AsFar(j)
  <2>1. CASE CreateJob(q) \/ RequestFails(q) \/ DatabaseError(q) \/ SpawnTask(q) \/ Acquire(q)
    BY <1>0, <1>1, <1>4, <2>1 DEF CreateJob, RequestFails, DatabaseError, Release, SpawnTask, Acquire,
       TypeOK, Goto
  <2>2. CASE Report(q)
    BY <1>0, <1>1, <1>4, <2>2 DEF Report, SelectRow, CommitRow, RefreshRow, Notify, Release, TypeOK, Goto
  <2>3. CASE Work(q)
    BY <1>0, <1>1, <1>4, <2>3 DEF Work, FinishStage, ProviderError, WorkError, Fail, TypeOK, Goto
  <2> QED
    BY <1>4, <2>1, <2>2, <2>3 DEF Run
<1>5. ASSUME NEW q \in Jobs, CancelRead(q) \/ CancelWrite(q) PROVE AsFar(j)
  BY <1>1, <1>5 DEF CancelRead, CancelWrite, taskVars
<1>6. CASE Crash
  <2>1. pc'[j] = IF pc[j] = "none" THEN "none" ELSE IF pc[j] = "done" THEN "done" ELSE "lost"
    BY <1>6 DEF Crash
  <2>2. UNCHANGED <<intent, stage, attempt>>
    BY <1>6 DEF Crash
  <2>3. CASE pc[j] \in {"none", "done", "lost"}
    BY <1>1, <2>1, <2>2, <2>3
  <2>4. CASE pc[j] \in {"created", "queued"} \cup Active
    BY <2>1, <2>4 DEF Nearer, Life, Active
  <2> QED
    BY <1>0, <2>3, <2>4 DEF TypeOK
<1>7. CASE UNCHANGED vars
  BY <1>1, <1>7 DEF vars, taskVars
<1> QED
  BY <1>2, <1>3, <1>4, <1>5, <1>6, <1>7 DEF Next

(* Every step of a task brings it nearer to its end and no other step, of  *)
(* another task, a cancel request or a restart, takes it further away: the *)
(* retries, the stages and the updates of a runner cannot go on for ever.  *)
THEOREM StepsBringTheEndNearer ==
  Spec => /\ [](\A j \in Jobs : /\ Life(j) \in Nat /\ StagesLeft(j) \in Nat
                                /\ StepsInStage(j) \in Nat)
          /\ [][\A j \in Jobs : /\ Run(j) => Nearer(j)
                                /\ Nearer(j) \/ AsFar(j)]_vars
<1>1. IInv /\ [Next]_vars => [\A j \in Jobs : /\ Run(j) => Nearer(j)
                                              /\ Nearer(j) \/ AsFar(j)]_vars
  BY RunComesNearer, OthersComeNoFurther
<1> QED
  BY <1>1, DistanceIsNatural, InductiveInvariant, PTL DEF Spec

-----------------------------------------------------------------------------
(* JobUpdates.  Once a client was told an end, by a message or by what its *)
(* handler read, the job's runner sends nothing but that end.              *)
Ends == {"completed", "failed"}

Over(j, status) ==
  /\ pc[j] \notin {"none", "created", "queued", "select", "commit", "work"}
  /\ pc[j] \in {"refresh", "notify"} => intent[j].status = status

EndIsTheRunners(j) == pc[j] \in {"refresh", "notify"} /\ row[j].status \in Ends
                        => intent[j].status = row[j].status

Told(s) ==
  /\ sock[s] \in {"authorized", "registered"} /\ snapshot[s] \in Ends
       => Over(Watches[s], snapshot[s])
  /\ sock[s] = "live" /\ heard[s] \in Ends => Over(Watches[s], heard[s])

SocketTypes == /\ sock     \in [Sockets -> SockStates]
               /\ DOMAIN snapshot = Sockets
               /\ joined   \in [Jobs -> SUBSET Sockets]
               /\ DOMAIN heard = Sockets

(* The registry of a job holds its own clients, and all of those that may  *)
(* still hear; of the others it may hold some.                             *)
RegistryOK ==
  /\ \A j \in Jobs : \A s \in joined[j] : Watches[s] = j
  /\ \A s \in Sockets : sock[s] \in {"registered", "live"} => s \in joined[Watches[s]]

JIInv == /\ IInv
         /\ SocketTypes
         /\ RegistryOK
         /\ \A j \in Jobs : EndIsTheRunners(j)
         /\ \A s \in Sockets : Told(s)

(* Jobs move as in TourAiJobs, whatever their sockets do.                  *)
LEMMA SocketsDoNotDisturb == [JNext]_<<vars, sockVars>> => [Next]_vars
BY DEF JNext, Quiet, SocketStep, Next, Run, Report, Work

(* A step of the jobs never takes an end back.                             *)
LEMMA OverStays ==
  ASSUME IInv, [Next]_vars, NEW j \in Jobs, NEW status \in Ends, Over(j, status)
  PROVE  Over(j, status)'
<1> USE DEF Over
<1>0. TypeOK
  BY DEF IInv
<1>1. CASE UNCHANGED vars
  BY <1>1 DEF vars, taskVars
<1>2. CASE Crash
  BY <1>0, <1>2 DEF Crash, TypeOK
<1>3. ASSUME NEW q \in Jobs, SelectRow(q) \/ CommitRow(q) \/ RefreshRow(q) PROVE Over(j, status)'
  BY <1>0, <1>3 DEF SelectRow, CommitRow, RefreshRow, At, Goto, TypeOK
<1>4. ASSUME NEW q \in Jobs, Notify(q) PROVE Over(j, status)'
  BY <1>0, <1>4 DEF Notify, Release, At, Goto, TypeOK, Ends, Terminal
<1>5. ASSUME NEW q \in Jobs, CreateJob(q) \/ SpawnTask(q) \/ RequestFails(q) \/ Acquire(q) PROVE Over(j, status)'
  BY <1>0, <1>5 DEF CreateJob, SpawnTask, RequestFails, Acquire, At, Goto, TypeOK
<1>6. ASSUME NEW q \in Jobs, Work(q) \/ DatabaseError(q) PROVE Over(j, status)'
  BY <1>0, <1>6 DEF Work, FinishStage, ProviderError, WorkError, DatabaseError, Fail, Release, At, Goto, TypeOK
<1>7. ASSUME NEW q \in Jobs, CancelRead(q) \/ CancelWrite(q) PROVE Over(j, status)'
  BY <1>7 DEF CancelRead, CancelWrite, taskVars
<1> QED
  BY <1>1, <1>2, <1>3, <1>4, <1>5, <1>6, <1>7 DEF Next, Run, Report

(* A row that says completed or failed says what its runner reports.       *)
LEMMA EndStaysTheRunners ==
  ASSUME IInv, [Next]_vars, NEW j \in Jobs, EndIsTheRunners(j)
  PROVE  EndIsTheRunners(j)'
<1> USE DEF EndIsTheRunners
<1>0. TypeOK /\ JobOK(j)
  BY DEF IInv
<1>1. CASE UNCHANGED vars
  BY <1>1 DEF vars, taskVars
<1>2. CASE Crash
  BY <1>0, <1>2 DEF Crash, TypeOK
<1>3. ASSUME NEW q \in Jobs, SelectRow(q) \/ RefreshRow(q) \/ Notify(q) PROVE EndIsTheRunners(j)'
  BY <1>0, <1>3 DEF SelectRow, RefreshRow, Notify, Release, At, Goto, TypeOK
<1>4. ASSUME NEW q \in Jobs, CommitRow(q) PROVE EndIsTheRunners(j)'
  <2>1. CASE q # j
    BY <1>0, <1>4, <2>1 DEF CommitRow, Goto, TypeOK
  <2>2. CASE q = j
    <3>1. /\ pc[j] = "commit" /\ intent'[j] = intent[j]
          /\ row'[j] = Update(view[j], Assigned(view[j], intent[j]), row[j])
      BY <1>0, <1>4, <2>2 DEF CommitRow, At, TypeOK
    <3>2. row'[j].status = IF intent[j].status # view[j].status THEN intent[j].status ELSE row[j].status
      BY <3>1 DEF Update, Assigned
    <3>3. row[j].status \notin Ends
      BY <1>0, <3>1 DEF JobOK, NotOver, Unfinished, Ends
    <3> QED
      BY <3>1, <3>2, <3>3
  <2> QED
    BY <2>1, <2>2
<1>5. ASSUME NEW q \in Jobs, CreateJob(q) \/ SpawnTask(q) \/ RequestFails(q) \/ Acquire(q) PROVE EndIsTheRunners(j)'
  BY <1>0, <1>5 DEF CreateJob, SpawnTask, RequestFails, Acquire, At, Goto, TypeOK
<1>6. ASSUME NEW q \in Jobs, Work(q) \/ DatabaseError(q) PROVE EndIsTheRunners(j)'
  BY <1>0, <1>6 DEF Work, FinishStage, ProviderError, WorkError, DatabaseError, Fail, Release, At, Goto, TypeOK
<1>7. ASSUME NEW q \in Jobs, CancelRead(q) PROVE EndIsTheRunners(j)'
  BY <1>7 DEF CancelRead, taskVars
<1>8. ASSUME NEW q \in Jobs, CancelWrite(q) PROVE EndIsTheRunners(j)'
  <2>1. /\ pc' = pc /\ intent' = intent
        /\ row'[j] = row[j] \/ row'[j].status = "cancelled"
    BY <1>0, <1>8 DEF CancelWrite, taskVars, TypeOK, Row, NoRow
  <2> QED
    BY <2>1 DEF Ends
<1> QED
  BY <1>1, <1>2, <1>3, <1>4, <1>5, <1>6, <1>7, <1>8 DEF Next, Run, Report

(* What a message may say while a client knows of an end.                  *)
LEMMA DeliveredEnds ==
  ASSUME IInv, NEW j \in Jobs, Notify(j)
  PROVE  /\ intent[j].status \in Ends => Over(j, intent[j].status)'
         /\ \A status \in Ends : Over(j, status) => intent[j].status = status
<1>1. /\ pc[j] = "notify" /\ TypeOK
      /\ intent[j].status \in Ends => pc'[j] = "done"
  BY DEF IInv, TypeOK, Notify, At, Goto, Release, Ends, Terminal
<1> QED
  BY <1>1 DEF Over

LEMMA JInitInvariant == JInit => JIInv
<1> SUFFICES ASSUME JInit PROVE JIInv
  OBVIOUS
<1>1. IInv
  BY InitInvariant DEF JInit
<1>2. SocketTypes /\ RegistryOK /\ \A s \in Sockets : Told(s)
  BY DEF JInit, SocketTypes, SockStates, RegistryOK, Told
<1>3. \A j \in Jobs : EndIsTheRunners(j)
  BY DEF JInit, Init, EndIsTheRunners
<1> QED
  BY <1>1, <1>2, <1>3 DEF JIInv

LEMMA JStepInvariant == JIInv /\ [JNext]_<<vars, sockVars>> => JIInv'
<1> SUFFICES ASSUME JIInv, [JNext]_<<vars, sockVars>> PROVE JIInv'
  OBVIOUS
<1> USE WatchesAssumption
<1> DEFINE Rest == SocketTypes' /\ RegistryOK' /\ \A s \in Sockets : Told(s)'
<1>0. IInv /\ SocketTypes /\ RegistryOK /\ [Next]_vars
  BY SocketsDoNotDisturb DEF JIInv
<1>1. IInv' /\ \A j \in Jobs : EndIsTheRunners(j)'
  BY <1>0, StepInvariant, EndStaysTheRunners DEF JIInv
<1>2. ASSUME NEW s \in Sockets, NEW status \in Ends, Over(Watches[s], status)
      PROVE  Over(Watches[s], status)'
  BY <1>0, <1>2, OverStays
<1>3. ASSUME UNCHANGED sockVars PROVE Rest
  <2>1. \A s \in Sockets : Told(s)'
    BY <1>2, <1>3 DEF JIInv, Told, sockVars
  <2> QED
    BY <1>0, <1>3, <2>1 DEF SocketTypes, RegistryOK, sockVars
<1>4. ASSUME NEW j \in Jobs, Notify(j), Deliver(j) PROVE Rest
  <2> DEFINE open == {s \in joined[j] : sock[s] \in {"registered", "live"}}
  <2>a. PICK raised \in SUBSET (joined[j] \ open) : joined' = [joined EXCEPT ![j] = @ \ raised]
    BY <1>4 DEF Deliver
  <2>1. /\ heard' = [s \in Sockets |-> IF s \in open THEN intent[j].status ELSE heard[s]]
        /\ sock' = sock /\ snapshot' = snapshot
        /\ joined'[j] \subseteq joined[j] /\ open \subseteq joined'[j]
        /\ joined' \in [Jobs -> SUBSET Sockets]
        /\ \A q \in Jobs \ {j} : joined'[q] = joined[q]
    BY <1>0, <1>4, <2>a DEF Deliver, SocketTypes
  <2>2. SocketTypes' /\ RegistryOK'
    BY <1>0, <2>1 DEF SocketTypes, RegistryOK
  <2>3. ASSUME NEW s \in Sockets PROVE Told(s)'
    <3>1. Told(s)
      BY DEF JIInv
    <3>2. CASE s \in open
      <4>1. Watches[s] = j /\ heard'[s] = intent[j].status
        BY <1>0, <2>1, <3>2 DEF RegistryOK
      <4>2. intent[j].status \in Ends => Over(j, intent[j].status)'
        BY <1>0, <1>4, DeliveredEnds
      <4>3. heard'[s] \in Ends => Over(Watches[s], heard[s])'
        BY <1>4, <4>1, <4>2 DEF Over, Notify
      <4>4. sock'[s] \in {"authorized", "registered"} /\ snapshot'[s] \in Ends => Over(Watches[s], snapshot[s])'
        BY <1>2, <2>1, <3>1 DEF Told
      <4> QED
        BY <4>3, <4>4 DEF Told
    <3>3. CASE s \notin open
      <4>1. heard'[s] = heard[s]
        BY <2>1, <3>3
      <4> QED
        BY <1>2, <2>1, <3>1, <4>1 DEF Told
    <3> QED
      BY <3>2, <3>3
  <2> QED
    BY <2>2, <2>3
<1>5. ASSUME DropSockets PROVE Rest
  BY <1>0, <1>5 DEF DropSockets, SocketTypes, SockStates, RegistryOK, Told
<1>6. ASSUME NEW s \in Sockets, ReadJob(s), UNCHANGED vars PROVE Rest
  <2>1. /\ sock[s] = "idle" /\ sock' = [sock EXCEPT ![s] = "authorized"]
        /\ snapshot' = [snapshot EXCEPT ![s] = row[Watches[s]].status]
        /\ joined' = joined /\ heard' = heard /\ row[Watches[s]] # NoRow
    BY <1>6 DEF ReadJob, Move
  <2>2. row[Watches[s]].status \in Ends => Over(Watches[s], row[Watches[s]].status)
    <3>1. Watches[s] \in Jobs
      OBVIOUS
    <3>2. EndIsTheRunners(Watches[s]) /\ NotOver(Watches[s])
      BY <1>0, <3>1 DEF JIInv, IInv, JobOK
    <3> QED
      BY <2>1, <3>2 DEF EndIsTheRunners, NotOver, Over, Ends, Unfinished
  <2>3. row[Watches[s]].status \in Ends => Over(Watches[s], row[Watches[s]].status)'
    BY <1>2, <1>6, <2>2 DEF vars
  <2>4. ASSUME NEW q \in Sockets PROVE Told(q)'
    <3>1. CASE q # s
      BY <1>0, <1>2, <2>1, <3>1 DEF JIInv, Told, SocketTypes
    <3>2. CASE q = s
      <4>1. sock'[q] = "authorized" /\ snapshot'[q] = row[Watches[s]].status
        BY <1>0, <2>1, <3>2 DEF SocketTypes
      <4> QED
        BY <1>6, <2>3, <3>2, <4>1 DEF Told, Over, vars
    <3> QED
      BY <3>1, <3>2
  <2> QED
    BY <1>0, <2>1, <2>4 DEF SocketTypes, SockStates, RegistryOK
<1>7. ASSUME NEW s \in Sockets, SendSnapshot(s) PROVE Rest
  <2>1. /\ sock[s] = "registered" /\ sock' = [sock EXCEPT ![s] = "live"]
        /\ heard' = [heard EXCEPT ![s] = snapshot[s]]
        /\ joined' = joined /\ snapshot' = snapshot
    BY <1>7 DEF SendSnapshot, Move
  <2>2. ASSUME NEW q \in Sockets PROVE Told(q)'
    BY <1>0, <1>2, <2>1 DEF JIInv, Told, SocketTypes
  <2> QED
    BY <1>0, <2>1, <2>2 DEF SocketTypes, SockStates, RegistryOK
<1>8. ASSUME NEW s \in Sockets, ConnectJob(s) PROVE Rest
  <2>1. /\ sock[s] = "authorized" /\ sock' = [sock EXCEPT ![s] = "registered"]
        /\ joined' = [joined EXCEPT ![Watches[s]] = @ \cup {s}]
        /\ heard' = heard /\ snapshot' = snapshot
    BY <1>8 DEF ConnectJob, Move
  <2>2. ASSUME NEW q \in Sockets PROVE Told(q)'
    BY <1>0, <1>2, <2>1 DEF JIInv, Told, SocketTypes
  <2>3. SocketTypes' /\ RegistryOK'
    BY <1>0, <2>1 DEF SocketTypes, SockStates, RegistryOK
  <2> QED
    BY <2>2, <2>3
<1>9. ASSUME NEW s \in Sockets, SendSnapshotFails(s) \/ ClientLeaves(s) PROVE Rest
  <2>1. /\ sock' \in {[sock EXCEPT ![s] = "orphan"], [sock EXCEPT ![s] = "dead"]}
        /\ joined' = joined /\ heard' = heard /\ snapshot' = snapshot
    BY <1>9 DEF SendSnapshotFails, ClientLeaves, Move
  <2>2. ASSUME NEW q \in Sockets PROVE Told(q)'
    BY <1>0, <1>2, <2>1 DEF JIInv, Told, SocketTypes
  <2> QED
    BY <1>0, <2>1, <2>2 DEF SocketTypes, SockStates, RegistryOK
<1>10. ASSUME NEW s \in Sockets, DisconnectJob(s) PROVE Rest
  <2>1. /\ sock' = [sock EXCEPT ![s] = "closed"]
        /\ joined' = [joined EXCEPT ![Watches[s]] = @ \ {s}]
        /\ heard' = heard /\ snapshot' = snapshot
    BY <1>10 DEF DisconnectJob, Move
  <2>2. ASSUME NEW q \in Sockets PROVE Told(q)'
    BY <1>0, <1>2, <2>1 DEF JIInv, Told, SocketTypes
  <2>3. ASSUME NEW q \in Sockets, sock'[q] \in {"registered", "live"} PROVE q \in joined'[Watches[q]]
    <3>1. q # s /\ q \in joined[Watches[q]]
      BY <1>0, <2>1, <2>3 DEF SocketTypes, RegistryOK
    <3> QED
      BY <1>0, <2>1, <3>1 DEF SocketTypes
  <2> QED
    BY <1>0, <2>1, <2>2, <2>3 DEF SocketTypes, SockStates, RegistryOK
<1>11. Rest
  BY <1>3, <1>4, <1>5, <1>6, <1>7, <1>8, <1>9, <1>10 DEF JNext, SocketStep, Handler
<1> QED
  BY <1>1, <1>11 DEF JIInv

LEMMA JInductiveInvariant == JSpec => []JIInv
BY JInitInvariant, JStepInvariant, PTL DEF JSpec

(* Each update reaches every client of its job that is past its snapshot,  *)
(* whatever other clients do to the set they share, and nobody else        *)
(* (core/websocket.py connect_job, disconnect_job, send_job_update).       *)
THEOREM EveryClientIsTold == JSpec => UpdatesReachEveryClient
<1> DEFINE Told1(j, s) == sock[s] = "live" =>
                            heard'[s] = IF Watches[s] = j THEN intent[j].status ELSE heard[s]
           Step == \A j \in Jobs : Sends(j) => \A s \in Sockets : Told1(j, s)
<1>1. JIInv /\ [JNext]_<<vars, sockVars>> => [Step]_<<vars, sockVars>>
  <2> SUFFICES ASSUME JIInv, JNext, NEW j \in Jobs, Sends(j), NEW s \in Sockets, sock[s] = "live"
               PROVE  heard'[s] = IF Watches[s] = j THEN intent[j].status ELSE heard[s]
    BY DEF Sends, vars, taskVars
  <2>0. TypeOK /\ RegistryOK
    BY DEF JIInv, IInv
  <2>1. PICK q \in Jobs : Notify(q) /\ Deliver(q)
    <3>1. ASSUME Quiet PROVE FALSE
      BY <2>0, <3>1 DEF Sends, Quiet, CreateJob, SpawnTask, RequestFails, Acquire, SelectRow, CommitRow,
             RefreshRow, Work, FinishStage, ProviderError, WorkError, Fail, DatabaseError, Release,
             CancelRead, CancelWrite, At, Goto, TypeOK, taskVars
    <3>2. ASSUME Crash \/ UNCHANGED vars PROVE FALSE
      BY <2>0, <3>2 DEF Sends, Crash, vars, taskVars, TypeOK
    <3> QED
      BY <3>1, <3>2 DEF JNext
  <2>2. q = j
    BY <2>0, <2>1 DEF Sends, Notify, Release, At, Goto, TypeOK
  <2>3. s \in joined[j] <=> Watches[s] = j
    BY <2>0, WatchesAssumption DEF RegistryOK
  <2> QED
    BY <2>1, <2>2, <2>3 DEF Deliver
<1> QED
  BY <1>1, JInductiveInvariant, PTL DEF JSpec, UpdatesReachEveryClient

(* Nothing follows the message, or the snapshot, that told a client of its *)
(* job's end (send_job_update, websocket.py:98-111).                       *)
THEOREM NothingFollowsTheEnd == JSpec => EndIsHeardLast
<1> DEFINE Step == \A s \in Sockets : sock[s] = "live" /\ heard[s] \in {"completed", "failed"}
                                        => heard'[s] = heard[s]
<1>1. JIInv /\ [JNext]_<<vars, sockVars>> => [Step]_<<vars, sockVars>>
  <2> SUFFICES ASSUME JIInv, [JNext]_<<vars, sockVars>>, NEW s \in Sockets,
                      sock[s] = "live", heard[s] \in Ends
               PROVE  heard'[s] = heard[s]
    BY DEF Ends
  <2>1. CASE heard' = heard
    BY <2>1
  <2>2. ASSUME NEW j \in Jobs, Notify(j), Deliver(j) PROVE heard'[s] = heard[s]
    <3>1. CASE s \in joined[j]
      <4>1. Watches[s] = j /\ Over(j, heard[s])
        BY <3>1 DEF JIInv, RegistryOK, Told
      <4>2. intent[j].status = heard[s]
        BY <2>2, <4>1, DeliveredEnds DEF JIInv
      <4> QED
        BY <2>2, <4>2 DEF Deliver
    <3>2. CASE s \notin joined[j]
      BY <2>2, <3>2 DEF Deliver
    <3> QED
      BY <3>1, <3>2
  <2>3. ASSUME NEW q \in Sockets, SendSnapshot(q) PROVE heard'[s] = heard[s]
    BY <2>3 DEF SendSnapshot, Move, JIInv, SocketTypes
  <2> QED
    BY <2>1, <2>2, <2>3 DEF JNext, SocketStep, Handler, ReadJob, ConnectJob, DisconnectJob, SendSnapshotFails,
                            ClientLeaves, DropSockets, sockVars
<1> QED
  BY <1>1, JInductiveInvariant, PTL DEF JSpec, EndIsHeardLast
=============================================================================
