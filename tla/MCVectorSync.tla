---------------------------- MODULE MCVectorSync ----------------------------
(* Instances of VectorSync for TLC. The tables: one row imported and never *)
(* updated beside one updated later and one not there yet; two rows of one *)
(* import.                                                                 *)
EXTENDS VectorSync, TLC

CONSTANTS p1, p2, p3, x1, x2, i1, i2, w1, w2

MCProps   == {p1, p2, p3}
MCTexts   == {x1, x2}
MCWorkers == {i1, i2}
MCWriters == {w1, w2}

MCRow(c, u) == [text |-> x1, created |-> c, updated |-> u]
MCAbsent    == [text |-> None, created |-> Null, updated |-> Null]
MCTables == { p1 :> MCRow(1, 2) @@ p2 :> MCRow(1, Null) @@ p3 :> MCAbsent,
              p1 :> MCRow(1, Null) @@ p2 :> MCRow(1, Null) @@ p3 :> MCRow(1, 2) }
MCAlike   == Permutations(MCWorkers) \cup Permutations(MCWriters)
=============================================================================
