---------------------------- MODULE MCTourAiJobs ----------------------------
(* Instances of TourAiJobs for TLC. *)
EXTENDS TourAiJobs, TLC

CONSTANTS j1, j2

MCJobs    == {j1, j2}
MCOneJob  == {j1}
=============================================================================
