------------------------------ MODULE SplatLab ------------------------------
(***************************************************************************)
(* The 3D splat lab: rows of the Supabase table splat_jobs, the endpoints  *)
(* of app/api/api_v1/endpoints/lab.py that create, start and delete them,  *)
(* and the calls of train_splat (app/services/modal_worker.py) that run on *)
(* Modal, each in a container of its own, and report to the row.           *)
(*                                                                         *)
(* The endpoints call Supabase and Modal without awaiting, so that one     *)
(* request at a time is between its calls; the workers run beside it.      *)
(* Every report is one UPDATE that does not look at the row. A call whose  *)
(* container is lost before it has returned runs again on the same input,  *)
(* from the first report on. What a stage computes, the copies it keeps on *)
(* the volume and the video are left out.                                  *)
(***************************************************************************)
EXTENDS Integers, Sequences

CONSTANTS Jobs,      \* job ids
          Workers,   \* calls of train_splat: bound on the starts
          None

VARIABLES row,       \* the status of each row of splat_jobs
          worker,    \* each call: its job, the reports it has made, and whether
                     \*   it runs again and no report has reached the row since
          starter,   \* the job whose start request is between its two calls
          column,    \* whether splat_jobs has the column viewer_url
          why        \* history: why a row may show progress for ever

labVars == <<row, worker, starter, column, why>>

(* What train_splat reports, in this order. *)
Reports == <<"extracting", "extracting", "sfm", "training", "compressing", "ready">>

InProgress == {"extracting", "sfm", "training", "compressing"}
Statuses   == InProgress \cup {"absent", "pending", "ready", "failed", "deleted"}
Causes     == {"lost",      \* the last report did not reach the row
               "column",    \* the last report names a column the table lacks
               "died",      \* the call ended without a report
               "overtaken"} \* the start wrote over the last report

(* "returns": the last report is made, Modal does not have the result yet. *)
Calls == [job : Jobs, made : 0 .. Len(Reports),
          state : {"works", "returns", "ended"}, again : BOOLEAN]

ASSUME NoneAssumption == None \notin Calls \cup Jobs

LabInit == /\ row = [j \in Jobs |-> "absent"]
           /\ worker = [w \in Workers |-> None]
           /\ starter = None
           /\ column \in BOOLEAN    \* no migration of the repository adds it
           /\ why = [j \in Jobs |-> {}]

Works(w)   == worker[w] # None /\ worker[w].state = "works"
Running(j) == {w \in Workers : Works(w) /\ worker[w].job = j}

-----------------------------------------------------------------------------
(* An UPDATE of a row that is gone changes nothing. *)
Write(j, status) ==
  row' = IF row[j] = "deleted" THEN row ELSE [row EXCEPT ![j] = status]

CreateJob(j) == /\ row[j] = "absent" /\ starter = None
                /\ row' = [row EXCEPT ![j] = "pending"]
                /\ UNCHANGED <<worker, starter, column, why>>

(* start_job starts a job whatever its status. *)
Spawn(j, w) ==
  /\ starter = None /\ row[j] \notin {"absent", "deleted"}
  /\ worker[w] = None
  /\ worker' = [worker EXCEPT ![w] = [job |-> j, made |-> 0,
                                         state |-> "works", again |-> FALSE]]
  /\ starter' = j
  /\ why' = [why EXCEPT ![j] = {}]
  /\ UNCHANGED <<row, column>>

(* Its update, after the spawn: the worker may have reported already.      *)
MarkStarted ==
  /\ starter # None
  /\ Write(starter, "extracting")
  /\ why' = IF Running(starter) = {}
              THEN [why EXCEPT ![starter] = @ \cup {"overtaken"}] ELSE why
  /\ starter' = None
  /\ UNCHANGED <<worker, column>>

(* The update fails: the client is answered 500, the worker runs on. *)
MarkFails == /\ starter # None
             /\ starter' = None
             /\ UNCHANGED <<row, worker, column, why>>

DeleteJob(j) == /\ starter = None /\ row[j] \notin {"absent", "deleted"}
                /\ row' = [row EXCEPT ![j] = "deleted"]
                /\ UNCHANGED <<worker, starter, column, why>>

-----------------------------------------------------------------------------
NextReport(w) == Reports[worker[w].made + 1]

Enter(w, s)   == worker' = [worker EXCEPT ![w].state = s]
Because(w, c)  == why' = [why EXCEPT ![worker[w].job] = @ \cup {c}]
Explained(w)   == why' = [why EXCEPT ![worker[w].job] = {}]

(* Faulty variant: the last report is taken for one more stage. *)
AdvancePastTheEnd(w) ==
  /\ Works(w)
  /\ worker[w].made <= Len(Reports)
  /\ worker' = [worker EXCEPT ![w].made = @ + 1]
  /\ UNCHANGED <<row, starter, column, why>>

(* _update_job at the beginning of a stage; an error of it is printed.     *)
Reported(w, again) == worker' = [worker EXCEPT ![w].made = @ + 1, ![w].again = again]

Advance(w) ==
  /\ Works(w)
  /\ worker[w].made < Len(Reports) - 1
  /\ \/ Write(worker[w].job, NextReport(w)) /\ Reported(w, FALSE)
     \/ UNCHANGED row /\ Reported(w, worker[w].again)
  /\ UNCHANGED <<starter, column, why>>

(* The last report, after which the call returns. *)
Finish(w) ==
  /\ Works(w)
  /\ worker[w].made = Len(Reports) - 1
  /\ Enter(w, "returns")
  /\ \/ column /\ Write(worker[w].job, "ready") /\ Explained(w)
     \/ UNCHANGED row /\ Because(w, IF column THEN "lost" ELSE "column")
  /\ UNCHANGED <<starter, column>>

(* Faulty variant: the return after the report is missing. *)
FailAndGoOn(w) ==
  /\ Works(w)
  /\ worker[w].made \in 1 .. Len(Reports) - 2
  /\ worker' = [worker EXCEPT ![w].made = @ + 1]
  /\ Write(worker[w].job, "failed") /\ Explained(w)
  /\ UNCHANGED <<starter, column>>

(* Faulty variant: the error is returned to Modal and not reported. *)
FailSilently(w) ==
  /\ Works(w)
  /\ worker[w].made \in 1 .. Len(Reports) - 1
  /\ Enter(w, "returns")
  /\ UNCHANGED <<row, starter, column, why>>

(* A stage fails where the code expects it to: no video, too few images,   *)
(* an error of SfM, training or export.                                    *)
Fail(w) ==
  /\ Works(w)
  /\ worker[w].made \in 1 .. Len(Reports) - 1
  /\ Enter(w, "returns")
  /\ \/ Write(worker[w].job, "failed") /\ Explained(w)
     \/ UNCHANGED row /\ Because(w, "lost")
  /\ UNCHANGED <<starter, column>>

(* An error outside those places (ffmpeg, the volume, the disk), or the    *)
(* four hours are over: the function asks for no retry.                    *)
Die(w) ==
  /\ Works(w)
  /\ Enter(w, "ended")
  /\ Because(w, "died")
  /\ UNCHANGED <<row, starter, column>>

HandOver(w) ==
  /\ worker[w] # None /\ worker[w].state = "returns"
  /\ Enter(w, "ended")
  /\ UNCHANGED <<row, starter, column, why>>

(* The container is lost, preempted or crashed: Modal runs the call on the *)
(* same input in another one, where the workspace is wiped.                *)
Rerun(w) ==
  /\ worker[w] # None /\ worker[w].state # "ended"
  /\ worker' = [worker EXCEPT ![w].made = 0, ![w].state = "works", ![w].again = TRUE]
  /\ UNCHANGED <<row, starter, column, why>>

LabNext == \/ \E j \in Jobs : \/ CreateJob(j) \/ DeleteJob(j)
                              \/ \E w \in Workers : Spawn(j, w)
           \/ MarkStarted \/ MarkFails
           \/ \E w \in Workers : \/ Advance(w) \/ Finish(w) \/ Fail(w)
                                 \/ Die(w) \/ HandOver(w) \/ Rerun(w)

LabSpec == LabInit /\ [][LabNext]_labVars

-----------------------------------------------------------------------------
LabTypeOK == /\ row \in [Jobs -> Statuses]
             /\ worker \in [Workers -> Calls \cup {None}]
             /\ starter \in Jobs \cup {None}
             /\ column \in BOOLEAN
             /\ why \in [Jobs -> SUBSET Causes]

(* A row that shows progress while no call works for it, so that the       *)
(* client polls a job that nothing will end, has one of four causes, and   *)
(* it arose after the last start and after the last report that ended the  *)
(* job, though perhaps of a call of an earlier start.                      *)
StuckForACause ==
  \A j \in Jobs : row[j] \in InProgress /\ Running(j) = {} => why[j] # {}

Rank(status) == CASE status = "pending"     -> 0
                  [] status = "extracting"  -> 1
                  [] status = "sfm"         -> 2
                  [] status = "training"    -> 3
                  [] status = "compressing" -> 4
                  [] OTHER                  -> 5

Shared(j) == \E v, w \in Workers : /\ v # w
                                  /\ worker[v] # None /\ worker[v].job = j
                                  /\ worker[w] # None /\ worker[w].job = j

Repeats(j) == \E w \in Workers : Works(w) /\ worker[w].job = j /\ worker[w].again

(* The status of a job that was started once never goes back, a failed or  *)
(* ready job included, but for the update of its own start, which comes    *)
(* after the spawn, and for the first report that reaches the row of a     *)
(* call which Modal runs again: once for each run.                         *)
OnlyTheStartGoesBack ==
  [][\A j \in Jobs : Rank(row'[j]) < Rank(row[j]) /\ row[j] # "absent"
                        => starter = j \/ Shared(j) \/ Repeats(j)]_labVars
=============================================================================
