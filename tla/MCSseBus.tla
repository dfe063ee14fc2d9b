------------------------------ MODULE MCSseBus ------------------------------
(* An instance of SseBus for TLC: three streams of one user, which nothing *)
(* tells apart.                                                            *)
EXTENDS SseBus, TLC

CONSTANTS s1, s2, s3, u1

MCOneUser   == {u1}
MCThree     == {s1, s2, s3}
MCAllOfOne  == [s \in MCThree |-> u1]
MCAlike     == Permutations(MCThree)
=============================================================================
