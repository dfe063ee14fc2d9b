---------------------------- MODULE MCJobUpdates ----------------------------
(* Instances of JobUpdates for TLC: two clients of one job. *)
EXTENDS JobUpdates, TLC

CONSTANTS j1, s1, s2

MCOneJob  == {j1}
MCSockets == {s1, s2}
MCWatches == [s \in MCSockets |-> j1]
=============================================================================
