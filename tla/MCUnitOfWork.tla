---------------------------- MODULE MCUnitOfWork ----------------------------
(* Instance of UnitOfWork for TLC: two requests, two changes each. *)
EXTENDS UnitOfWork, TLC

CONSTANTS r1, r2, c1, c2

MCRequests == {r1, r2}
MCChanges  == {c1, c2}
=============================================================================
