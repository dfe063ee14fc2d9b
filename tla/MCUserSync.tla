----------------------------- MODULE MCUserSync -----------------------------
(* Instance of UserSync for TLC: two accounts of one person, one account   *)
(* of another, a phone in two formats, an e-mail that one token confirms   *)
(* and another only names, a phone that its owner and a stranger name, and *)
(* two phones of different people with the same last ten digits.           *)
EXTENDS UserSync, TLC

CONSTANTS r1, r2, r3, ann1, ann2, bob1, annMail, annPhone, annPhone91, annAbroad, bobPhone,
          number, bobNumber, Ann, Bob

MCRequests == {r1, r2, r3}
MCAccounts == {ann1, ann2, bob1}
MCEmails   == {annMail}
MCPhones   == {annPhone, annPhone91, annAbroad, bobPhone}
MCNorm     == annPhone :> number @@ annPhone91 :> number
              @@ annAbroad :> bobNumber @@ bobPhone :> bobNumber
MCPersonOf == ann1 :> Ann @@ ann2 :> Ann @@ bob1 :> Bob @@ annMail :> Ann
              @@ annPhone :> Ann @@ annPhone91 :> Ann @@ annAbroad :> Ann @@ bobPhone :> Bob

Tok(s, e, c, p) == [sid |-> s, email |-> e, confirmed |-> c, phone |-> p]
AnnMail  == Tok(ann1, annMail, TRUE, Nobody)
AnnPhone == Tok(ann1, Nobody, FALSE, annPhone)
Ann2Both == Tok(ann2, annMail, TRUE, annPhone91)
BobMail  == Tok(bob1, annMail, FALSE, Nobody)
BobNamesAnn == Tok(bob1, Nobody, FALSE, annPhone)
BobPhone    == Tok(bob1, Nobody, FALSE, bobPhone)
AnnAbroad   == Tok(ann2, annMail, TRUE, annAbroad)

(* r1 and r2 are alike, so each pair of their tokens is taken once. *)
MCPresented ==
  {r1 :> pair[1] @@ r2 :> pair[2] @@ r3 :> t :
     pair \in {<<AnnMail, AnnMail>>, <<AnnMail, AnnPhone>>, <<AnnPhone, AnnPhone>>,
               <<AnnMail, Ann2Both>>, <<AnnPhone, Ann2Both>>, <<BobMail, Ann2Both>>,
               <<BobNamesAnn, AnnMail>>, <<BobPhone, AnnAbroad>>},
     t \in {AnnPhone, Ann2Both}}

R(st, s, e, p) == [state |-> st, sid |-> s, email |-> e, phone |-> p]
Table(a, b)    == [u \in Rows |-> IF u = 1 THEN a ELSE IF u = 2 THEN b ELSE AbsentRow]
MCLegacy ==
  {Table(AbsentRow, AbsentRow),
   Table(R("active", ann2, Nobody, annPhone), AbsentRow),
   Table(R("active", ann2, Nobody, annPhone), R("inactive", ann1, annMail, Nobody)),
   Table(R("inactive", ann1, Nobody, annPhone91), R("active", ann2, Nobody, annPhone)),
   Table(R("inactive", ann1, Nobody, Nobody), AbsentRow)}
=============================================================================
