----------------------------- MODULE MCSplatLab -----------------------------
(* An instance of SplatLab for TLC: two jobs and two calls, so that one    *)
(* job is started again, while its first call runs or after it, or both    *)
(* jobs run at once. Runs of a call are not bounded.                       *)
EXTENDS SplatLab, TLC

CONSTANTS j1, j2, w1, w2

MCJobs    == {j1, j2}
MCWorkers == {w1, w2}
MCAlike   == Permutations(MCJobs) \cup Permutations(MCWorkers)
=============================================================================
