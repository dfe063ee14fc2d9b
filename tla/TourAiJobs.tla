----------------------------- MODULE TourAiJobs -----------------------------
(***************************************************************************)
(* AI jobs of the virtual-tour editor: services/tour_ai.                   *)
(*                                                                         *)
(* A request creates a job row (create_ai_job) and starts an asyncio task  *)
(* for it.  At most Permits runners work at a time; each reports to the    *)
(* row through update_job_status, in a database session of its own, before *)
(* and between its provider calls, and a final time when it ends.  A       *)
(* second request may cancel the job (cancel_ai_job).  Every await is a    *)
(* point where another task, or a request, may run: SELECT, COMMIT and     *)
(* refresh of one update are separate steps.                               *)
(*                                                                         *)
(* No runner keeps the job an update returns and the session holds it only *)
(* weakly, so every SELECT loads the row anew; what another session        *)
(* commits between that SELECT and the COMMIT is not seen, and the UPDATE  *)
(* names only the columns whose value differs from the loaded copy.        *)
(*                                                                         *)
(* Left out: the progress number and the payloads; of a result only        *)
(* whether it is the final one.                                            *)
(***************************************************************************)
EXTENDS Naturals, FiniteSets, Sequences

CONSTANTS Jobs,           \* job ids
          Cancellable,    \* the jobs some request asks to cancel
          Permits,        \* _AI_TASK_SEMAPHORE: 5 in the code
          Stages,         \* "processing" updates of a runner
          MaxRetries,     \* provider calls per stage: 3 in the code
          MaxFaults,      \* bound: database errors in a behaviour
          MaxCrashes      \* bound: restarts of the process

ASSUME FiniteJobsAssumption == IsFiniteSet(Jobs)
ASSUME CancellableAssumption == Cancellable \subseteq Jobs
ASSUME BoundsAssumption == /\ Permits \in Nat \ {0}
                           /\ Stages \in Nat \ {0}
                           /\ MaxRetries \in Nat \ {0}
                           /\ MaxFaults \in Nat
                           /\ MaxCrashes \in Nat

VARIABLES row,       \* the ai_jobs table
          view,      \* the runner's session: its copy of the row
          pc,        \* where the job's task is
          intent,    \* the update_job_status call under way
          stage,     \* "processing" updates the runner has begun
          attempt,   \* provider calls made in this stage
          permits,   \* value of the semaphore
          waiting,   \* tasks waiting for it, first come first served
          cancel,    \* the cancel request of the job
          faults,    \* database errors so far
          crashes    \* restarts so far

taskVars == <<view, pc, intent, stage, attempt>>
semVars  == <<permits, waiting>>
vars == <<row, taskVars, semVars, cancel, faults, crashes>>

Terminal == {"completed", "failed", "cancelled"}
Statuses == Terminal \cup {"pending", "processing"}

Row == [status  : Statuses,
        started : BOOLEAN,                       \* started_at is set
        stamped : BOOLEAN,                       \* completed_at is set
        result  : {"none", "partial", "final"},
        error   : BOOLEAN]
NoRow == [status |-> "absent", started |-> FALSE, stamped |-> FALSE,
          result |-> "none", error |-> FALSE]

Call(s, res, e) == [status |-> s, result |-> res, error |-> e]
Calls == [status : Statuses, result : {"none", "partial", "final"}, error : BOOLEAN]

(* The steps of a task that holds a permit.  "work" is between two updates,*)
(* in the downloads and provider calls.                                    *)
Active == {"select", "commit", "refresh", "notify", "work"}
Holders == {j \in Jobs : pc[j] \in Active}

Init == /\ row     = [j \in Jobs |-> NoRow]
        /\ view    = [j \in Jobs |-> NoRow]
        /\ pc      = [j \in Jobs |-> "none"]
        /\ intent  = [j \in Jobs |-> Call("pending", "none", FALSE)]
        /\ stage   = [j \in Jobs |-> 0]
        /\ attempt = [j \in Jobs |-> 0]
        /\ permits = Permits
        /\ waiting = <<>>
        /\ cancel  = [j \in Jobs |-> "idle"]
        /\ faults  = 0
        /\ crashes = 0

At(j, step) == pc[j] = step
Goto(j, step) == pc' = [pc EXCEPT ![j] = step]

-----------------------------------------------------------------------------
(* The request that starts a job: analyze_scene, generate_tour and the     *)
(* other seven share this shape.                                           *)

(* create_ai_job inserts the row and commits. *)
CreateJob(j) == /\ At(j, "none")
                /\ row' = [row EXCEPT ![j] = [NoRow EXCEPT !.status = "pending"]]
                /\ Goto(j, "created")
                /\ UNCHANGED <<view, intent, stage, attempt, semVars, cancel, faults, crashes>>

(* After the refresh of the row the task is created and waits for the      *)
(* semaphore.                                                              *)
SpawnTask(j) == /\ At(j, "created")
                /\ Goto(j, "queued")
                /\ waiting' = Append(waiting, j)
                /\ UNCHANGED <<row, view, intent, stage, attempt, permits, cancel, faults, crashes>>

(* The refresh fails: the client gets an error and the row has no task.    *)
RequestFails(j) == /\ At(j, "created")
                   /\ faults < MaxFaults
                   /\ faults' = faults + 1
                   /\ Goto(j, "lost")
                   /\ UNCHANGED <<row, view, intent, stage, attempt, semVars, cancel, crashes>>

(* The call the runner makes at the start of a stage.  Tour generation and *)
(* optimization hand a result, the tour id, to the first one.              *)
StageCalls(s) == IF s > Stages THEN {Call("completed", "final", FALSE)}
                 ELSE {Call("processing", res, FALSE) :
                         res \in IF s = 1 THEN {"none", "partial"} ELSE {"none"}}

(* async with _AI_TASK_SEMAPHORE, and the runner's first update. *)
Acquire(j) == /\ At(j, "queued")
              /\ waiting # <<>> /\ Head(waiting) = j
              /\ permits > 0
              /\ permits' = permits - 1
              /\ waiting' = Tail(waiting)
              /\ Goto(j, "select")
              /\ stage' = [stage EXCEPT ![j] = 1]
              /\ \E c \in StageCalls(1) : intent' = [intent EXCEPT ![j] = c]
              /\ UNCHANGED <<row, view, attempt, cancel, faults, crashes>>

(* The task ends and gives its permit back. *)
Release(j, step) == /\ Goto(j, step)
                    /\ permits' = permits + 1
                    /\ UNCHANGED waiting

-----------------------------------------------------------------------------
(* update_job_status *)

(* The copy of an earlier update is gone by now: the row is loaded anew.   *)
SelectRow(j) == /\ At(j, "select")
                /\ view' = [view EXCEPT ![j] = row[j]]
                /\ Goto(j, "commit")
                /\ UNCHANGED <<row, intent, stage, attempt, semVars, cancel, faults, crashes>>

(* Faulty variant: completed_at is set for jobs that completed only. *)
AssignedNoStamp(v, c) == [status  |-> c.status,
                          started |-> v.started \/ c.status = "processing",
                          stamped |-> v.stamped \/ c.status = "completed",
                          result  |-> IF c.result # "none" THEN c.result ELSE v.result,
                          error   |-> v.error \/ c.error]

(* The row as the session holds it after the assignments. *)
Assigned(v, c) == [status  |-> c.status,
                   started |-> v.started \/ c.status = "processing",
                   stamped |-> v.stamped \/ c.status \in Terminal,
                   result  |-> IF c.result # "none" THEN c.result ELSE v.result,
                   error   |-> v.error \/ c.error]

(* The UPDATE of a flush names the columns that differ from the loaded     *)
(* copy; the others keep what the row holds by now.                        *)
Update(loaded, new, current) ==
  LET Column(f) == IF new[f] # loaded[f] THEN new[f] ELSE current[f]
  IN [status  |-> Column("status"),  started |-> Column("started"),
      stamped |-> Column("stamped"), result  |-> Column("result"),
      error   |-> Column("error")]

(* COMMIT: nothing in the UPDATE guards on the status that was read. *)
CommitRow(j) ==
  LET new == Assigned(view[j], intent[j])
  IN /\ At(j, "commit")
     /\ row' = [row EXCEPT ![j] = Update(view[j], new, row[j])]
     /\ view' = [view EXCEPT ![j] = new]
     /\ Goto(j, "refresh")
     /\ UNCHANGED <<intent, stage, attempt, semVars, cancel, faults, crashes>>

(* refresh loads the row anew: a status another session wrote is seen. *)
RefreshRow(j) == /\ At(j, "refresh")
                 /\ view' = [view EXCEPT ![j] = row[j]]
                 /\ Goto(j, "notify")
                 /\ UNCHANGED <<row, intent, stage, attempt, semVars, cancel, faults, crashes>>

(* Faulty variant: the runner does not stop after its last update. *)
NotifyGoesOn(j) == /\ At(j, "notify")
                   /\ IF intent[j].status = "failed"
                        THEN Release(j, "done")
                        ELSE Goto(j, "work") /\ UNCHANGED semVars
                   /\ UNCHANGED <<row, view, intent, stage, attempt, cancel, faults, crashes>>

(* The WebSocket messages go out (errors in them are logged only), and the *)
(* runner goes on to its work or, after the last update, ends.             *)
Notify(j) == /\ At(j, "notify")
             /\ IF intent[j].status \in Terminal
                  THEN Release(j, "done")
                  ELSE Goto(j, "work") /\ UNCHANGED semVars
             /\ UNCHANGED <<row, view, intent, stage, attempt, cancel, faults, crashes>>

-----------------------------------------------------------------------------
(* The runner between two updates. *)

(* The stage's work succeeds (a tour-wide runner also goes on after a      *)
(* scene whose analysis failed).                                           *)
FinishStage(j) == /\ At(j, "work")
                  /\ stage' = [stage EXCEPT ![j] = @ + 1]
                  /\ attempt' = [attempt EXCEPT ![j] = 0]
                  /\ \E c \in StageCalls(stage[j] + 1) : intent' = [intent EXCEPT ![j] = c]
                  /\ Goto(j, "select")
                  /\ UNCHANGED <<row, view, semVars, cancel, faults, crashes>>

(* The runner's except clause reports the failure with str(e), which is    *)
(* empty for an exception without a text; an empty one is not stored.      *)
Fail(j) == /\ \E text \in BOOLEAN : intent' = [intent EXCEPT ![j] = Call("failed", "none", text)]
           /\ attempt' = [attempt EXCEPT ![j] = 0]
           /\ Goto(j, "select")

(* Faulty variant: the stop condition counts one call too many. *)
ProviderErrorLate(j) == /\ At(j, "work")
                        /\ IF attempt[j] < MaxRetries
                             THEN /\ attempt' = [attempt EXCEPT ![j] = @ + 1]
                                  /\ UNCHANGED <<pc, intent>>
                             ELSE Fail(j)
                        /\ UNCHANGED <<row, view, stage, semVars, cancel, faults, crashes>>

(* A provider call raises AIProviderError: tenacity repeats it, MaxRetries *)
(* calls in all, then re-raises.                                           *)
ProviderError(j) == /\ At(j, "work")
                    /\ IF attempt[j] + 1 < MaxRetries
                         THEN /\ attempt' = [attempt EXCEPT ![j] = @ + 1]
                              /\ UNCHANGED <<pc, intent>>
                         ELSE Fail(j)
                    /\ UNCHANGED <<row, view, stage, semVars, cancel, faults, crashes>>

(* Faulty variant: no except clause for other exceptions. *)
WorkErrorUnreported(j) == /\ At(j, "work")
                          /\ Release(j, "done")
                          /\ UNCHANGED <<row, view, intent, stage, attempt, cancel, faults, crashes>>

(* Any other exception, a failed download for one, is not retried. *)
WorkError(j) == /\ At(j, "work")
                /\ Fail(j)
                /\ UNCHANGED <<row, view, stage, semVars, cancel, faults, crashes>>

(* Faulty variant: the permit is given back on the normal way out only. *)
DatabaseErrorLeaks(j) == /\ pc[j] \in {"select", "commit", "refresh", "work"}
                         /\ faults < MaxFaults
                         /\ faults' = faults + 1
                         /\ Goto(j, "done")
                         /\ UNCHANGED <<row, view, intent, stage, attempt, semVars, cancel, crashes>>

(* A statement of the session fails.  Nobody rolls the session back, so    *)
(* the update the except clause attempts in it fails too and its exception *)
(* ends in _run_with_semaphore, which logs it and gives the permit back.   *)
DatabaseError(j) == /\ pc[j] \in {"select", "commit", "refresh", "work"}
                    /\ faults < MaxFaults
                    /\ faults' = faults + 1
                    /\ Release(j, "done")
                    /\ UNCHANGED <<row, view, intent, stage, attempt, cancel, crashes>>

-----------------------------------------------------------------------------
(* cancel_ai_job, in the session of its request. *)

(* Faulty variant: the early return for finished jobs is missing. *)
CancelReadUnguarded(j) == /\ j \in Cancellable
                          /\ row[j] # NoRow
                          /\ cancel[j] = "idle"
                          /\ cancel' = [cancel EXCEPT ![j] = "writing"]
                          /\ UNCHANGED <<row, taskVars, semVars, faults, crashes>>

CancelRead(j) == /\ j \in Cancellable
                 /\ row[j] # NoRow
                 /\ cancel[j] = "idle"
                 /\ cancel' = [cancel EXCEPT ![j] =
                                 IF row[j].status \in Terminal THEN "refused" ELSE "writing"]
                 /\ UNCHANGED <<row, taskVars, semVars, faults, crashes>>

CancelWrite(j) == /\ cancel[j] = "writing"
                  /\ row' = [row EXCEPT ![j].status = "cancelled", ![j].stamped = TRUE]
                  /\ cancel' = [cancel EXCEPT ![j] = "done"]
                  /\ UNCHANGED <<taskVars, semVars, faults, crashes>>

-----------------------------------------------------------------------------
(* The process restarts: tasks, semaphore and requests are gone, the table *)
(* stays.  Nothing looks for the rows of lost tasks at start-up.           *)
Crash == /\ crashes < MaxCrashes
         /\ crashes' = crashes + 1
         /\ pc' = [j \in Jobs |-> IF pc[j] = "none" THEN "none" ELSE
                                  IF pc[j] = "done" THEN "done" ELSE "lost"]
         /\ view' = [j \in Jobs |-> NoRow]
         /\ permits' = Permits
         /\ waiting' = <<>>
         /\ cancel' = [j \in Jobs |-> IF cancel[j] = "writing" THEN "idle" ELSE cancel[j]]
         /\ UNCHANGED <<row, intent, stage, attempt, faults>>

Report(j) == SelectRow(j) \/ CommitRow(j) \/ RefreshRow(j) \/ Notify(j)
Work(j)   == FinishStage(j) \/ ProviderError(j) \/ WorkError(j)
Run(j)    == SpawnTask(j) \/ Acquire(j) \/ Report(j) \/ Work(j)

Next == \/ \E j \in Jobs : CreateJob(j) \/ Run(j) \/ RequestFails(j)
                             \/ DatabaseError(j) \/ CancelRead(j) \/ CancelWrite(j)
        \/ Crash

(* The event loop resumes every task whose await is over, and every client *)
(* call ends (the HTTP clients have timeouts).                             *)
Fairness == \A j \in Jobs : WF_vars(Run(j)) /\ WF_vars(CancelWrite(j))
Spec == Init /\ [][Next]_vars /\ Fairness

-----------------------------------------------------------------------------
(* Type invariant of the job table, the runners and the semaphore          *)
(* (services/tour_ai/jobs.py, helpers.py).                                 *)
TypeOK == /\ row     \in [Jobs -> Row \cup {NoRow}]
          /\ view    \in [Jobs -> Row \cup {NoRow}]
          /\ pc      \in [Jobs -> Active \cup {"none", "created", "queued", "done", "lost"}]
          /\ intent  \in [Jobs -> Calls]
          /\ stage   \in [Jobs -> 0 .. Stages + 1]
          /\ attempt \in [Jobs -> 0 .. MaxRetries - 1]
          /\ permits \in 0 .. Permits
          /\ waiting \in Seq(Jobs)
          /\ cancel  \in [Jobs -> {"idle", "writing", "done", "refused"}]
          /\ faults  \in 0 .. MaxFaults
          /\ crashes \in 0 .. MaxCrashes

(* No runner that fails, in whatever await, keeps its permit, and none     *)
(* works without one: _run_with_semaphore never loses or mints a permit.   *)
PermitsConserved == permits + Cardinality(Holders) = Permits

(* Whatever the order in which a runner and a cancel request write their   *)
(* columns, a row that says the job is over carries completed_at, a        *)
(* completed one the final result, and a failed one the message of its     *)
(* runner's exception, if that had one: no mixture of two outcomes.        *)
TerminalRowsAreWhole ==
  \A j \in Jobs :
    /\ row[j].status \in Terminal => row[j].stamped
    /\ row[j].status = "completed" => row[j].result = "final" /\ ~row[j].error
    /\ row[j].status = "failed" => /\ row[j].result # "final"
                                   /\ row[j].error = intent[j].error

(* Once a job is over and neither its task nor a cancel request that read  *)
(* it earlier is still alive, its row never changes again, and no later    *)
(* request sets out to change it.                                          *)
Settled(j) == /\ row[j].status \in Terminal
              /\ pc[j] \in {"done", "lost"}
              /\ cancel[j] # "writing"
SettledRowsStay == [][\A j \in Jobs : Settled(j) => row'[j] = row[j] /\ Settled(j)']_vars

(* Unless the database fails or the process restarts, every job that was   *)
(* accepted is reported over in the end, and stays so.                     *)
JobsReachTheEnd ==
  \A j \in Jobs : (row[j] # NoRow) ~> (\/ faults + crashes > 0
                                       \/ [](row[j].status \in Terminal))

(* A job nobody cancels keeps the promise of JobLifecycle, whatever fails  *)
(* and whenever the process restarts: models/tours.py, AIJob.status.       *)
Uncancelled == Jobs \ Cancellable
Lifecycle == INSTANCE JobLifecycle WITH Jobs   <- Uncancelled,
                                        status <- [j \in Uncancelled |-> row[j].status]
ImplementsLifecycle == Lifecycle!Spec
=============================================================================
