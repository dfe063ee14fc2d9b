---------------------------- MODULE MCRentLedger ----------------------------
(* Instances of RentLedger for TLC: a charge that takes three payments,    *)
(* one that takes two and the float total of which is not exact, and two   *)
(* payers, who may send less than half a cent.                             *)
EXTENDS RentLedger, TLC

CONSTANTS c1, c2, s1, s2

MCCharges  == {c1, c2}
MCSessions == {s1, s2}
MCRent     == c1 :> 2 @@ c2 :> 1
MCLateFee  == c1 :> 1 @@ c2 :> 1
MCAbove    == {c2}

A(cents, rest) == [cents |-> cents, rest |-> rest]
MCAsked == {A(-1, "none"), A(0, "none"), A(0, "dust"), A(0, "less"), A(1, "none"), A(1, "half")}
MCAlike    == Permutations(MCSessions)
=============================================================================
