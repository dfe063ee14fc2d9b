---------------------------- MODULE JobLifecycle ----------------------------
(***************************************************************************)
(* What an AI job promises to somebody who polls its row                   *)
(* (models/tours.py, AIJob.status): it is pending, then processing, and is *)
(* over exactly once.  TourAiJobs is shown to implement it when nobody     *)
(* cancels a job.                                                          *)
(***************************************************************************)
CONSTANT Jobs
VARIABLE status

Init == status = [j \in Jobs |-> "absent"]

Accept(j) == /\ status[j] = "absent"
             /\ status' = [status EXCEPT ![j] = "pending"]

Begin(j) == /\ status[j] = "pending"
            /\ status' = [status EXCEPT ![j] = "processing"]

End(j) == /\ status[j] = "processing"
          /\ \E s \in {"completed", "failed"} : status' = [status EXCEPT ![j] = s]

Next == \E j \in Jobs : Accept(j) \/ Begin(j) \/ End(j)

Spec == Init /\ [][Next]_status
=============================================================================
