-------------------------- MODULE VectorSync_proofs --------------------------
(* What the vector sync promises for any number of properties, writers and *)
(* workers, any batch size and any table it starts from.                   *)
EXTENDS VectorSync, FiniteSetTheorems, TLAPS

LEMMA LeastOfNat ==
  ASSUME NEW T \in SUBSET Nat, T # {}
  PROVE  \E x \in T : \A y \in T : x <= y
<1> DEFINE R == OpToRel(<, Nat)
<1>1. IsWellFoundedOn(R, Nat)
  BY NatLessThanWellFounded
<1>2. PICK x \in T : \A y \in T : <<y, x>> \notin R
  BY <1>1, WFMin
<1>3. \A y \in T : y < x => <<y, x>> \in R
  BY DEF OpToRel
<1> HIDE DEF R
<1>4. \A y \in T : ~(y < x)
  BY <1>2, <1>3
<1> QED
  BY <1>4

(* The places of a batch are 1, 2, ... without a gap. *)
WellPlaced(b) ==
  /\ b.need \subseteq b.compared /\ b.compared \subseteq b.ids
  /\ \A p \in b.ids : b.place[p] \in Nat \ {0} /\ b.text[p] # None
  /\ \A p, q \in b.ids : b.place[p] = b.place[q] => p = q
  /\ \A p \in b.ids : \A k \in 1..b.place[p] : \E q \in b.ids : b.place[q] = k

(* The rows of the first m places number m. *)
LEMMA FirstPlaces ==
  ASSUME NEW b \in Batch, WellPlaced(b), NEW m \in Nat \ {0},
         \E p \in b.ids : b.place[p] = m,
         NEW S, S = {q \in b.ids : b.place[q] <= m}
  PROVE  Cardinality(S) = m
<1> DEFINE f == [q \in S |-> b.place[q]]
<1>1. IsFiniteSet(S)
  BY FS_Subset, VectorAssumption DEF Batch
<1>2. f \in [S -> 1..m]
  BY DEF WellPlaced
<1>3. \A p, q \in S : f[p] = f[q] => p = q
  BY DEF WellPlaced
<1>4. \A k \in 1..m : \E q \in S : f[q] = k
  <2> TAKE k \in 1..m
  <2>1. PICK p \in b.ids : b.place[p] = m
    OBVIOUS
  <2>2. PICK q \in b.ids : b.place[q] = k
    BY <2>1 DEF WellPlaced
  <2> QED
    BY <2>2
<1> HIDE DEF f
<1>5. f \in Bijection(S, 1..m)
  <2>1. f \in Injection(S, 1..m)
    BY <1>2, <1>3 DEF Injection, IsInjective
  <2>2. f \in Surjection(S, 1..m)
    BY <1>2, <1>4 DEF Surjection
  <2> QED
    BY <2>1, <2>2 DEF Bijection
<1>6. Cardinality(1..m) = Cardinality(S)
  BY <1>1, <1>5, FS_Bijection DEF ExistsBijection
<1>7. Cardinality(1..m) = m
  BY FS_Interval
<1> QED
  BY <1>6, <1>7

(* Although the vectors of a batch are not aligned with the rows that take *)
(* them, a batch that pgvector accepts stores the right ones: the first    *)
(* row that needs a vector after one that does not would take [].          *)
LEMMA AcceptedMeansAligned ==
  ASSUME NEW b \in Batch, WellPlaced(b),
         \A p \in b.need : Taken(b, p) # None,
         NEW p \in b.need
  PROVE  Taken(b, p) = b.text[p]
<1> DEFINE Skipped == {u \in b.ids \ b.need : b.place[u] < b.place[p]}
           Ahead(q) == {r \in b.need : b.place[r] <= b.place[q]}
<1>0. /\ p \in b.ids /\ b.need \subseteq b.ids
      /\ \A q \in b.ids : b.place[q] \in Nat \ {0}
  BY DEF WellPlaced
<1>1. Skipped = {}
  <2> SUFFICES ASSUME Skipped # {} PROVE FALSE
    OBVIOUS
  <2>1. PICK u \in Skipped : \A w \in Skipped : b.place[u] <= b.place[w]
    <3> DEFINE T == {b.place[w] : w \in Skipped}
    <3>1. T \in SUBSET Nat /\ T # {}
      BY <1>0
    <3> HIDE DEF T
    <3>2. PICK x \in T : \A y \in T : x <= y
      BY <3>1, LeastOfNat
    <3> QED
      BY <3>2 DEF T
  <2> DEFINE Later == {v \in b.need : b.place[u] < b.place[v]}
  <2>2. PICK v \in Later : \A w \in Later : b.place[v] <= b.place[w]
    <3> DEFINE T == {b.place[w] : w \in Later}
    <3>1. T \in SUBSET Nat /\ T # {}
      BY <1>0
    <3> HIDE DEF T
    <3>2. PICK x \in T : \A y \in T : x <= y
      BY <3>1, LeastOfNat
    <3> QED
      BY <3>2 DEF T
  <2> DEFINE S == {q \in b.ids : b.place[q] <= b.place[u]}
  <2>3. Ahead(v) = (S \ {u}) \cup {v}
    <3>1. \A r \in Ahead(v) : r = v \/ r \in S \ {u}
      BY <1>0, <2>2 DEF WellPlaced
    <3>2. \A r \in S \ {u} : r \in b.need
      BY <1>0, <2>1 DEF WellPlaced
    <3>3. \A r \in S \ {u} : b.place[r] <= b.place[v]
      BY <1>0, <2>1, <2>2
    <3> QED
      BY <1>0, <2>2, <3>1, <3>2, <3>3
  <2>4. Cardinality(Ahead(v)) = b.place[u]
    <3>1. IsFiniteSet(S) /\ Cardinality(S) = b.place[u]
      BY <1>0, <2>1, FirstPlaces, FS_Subset, VectorAssumption DEF Batch
    <3>2. IsFiniteSet(S \ {u}) /\ Cardinality(S \ {u}) = b.place[u] - 1
      <4>1. u \in S
        BY <1>0, <2>1
      <4> HIDE DEF S
      <4> QED
        BY <3>1, <4>1, FS_RemoveElement
    <3>3. v \notin S \ {u}
      BY <1>0, <2>1, <2>2
    <3>4. Cardinality((S \ {u}) \cup {v}) = b.place[u] - 1 + 1
      BY <3>2, <3>3, FS_AddElement
    <3> QED
      BY <1>0, <2>1, <2>3, <3>4
  <2>5. (CHOOSE q \in b.ids : b.place[q] = b.place[u]) = u
    BY <2>1 DEF WellPlaced
  <2>6. Taken(b, v) = None
    BY <2>1, <2>4, <2>5 DEF Taken, FullVectors
  <2> QED
    BY <2>2, <2>6
<1>2. Ahead(p) = {q \in b.ids : b.place[q] <= b.place[p]}
  BY <1>0, <1>1 DEF WellPlaced
<1>3. Cardinality(Ahead(p)) = b.place[p]
  BY <1>0, <1>2, FirstPlaces
<1>4. (CHOOSE q \in b.ids : b.place[q] = b.place[p]) = p
  BY <1>0 DEF WellPlaced
<1> QED
  BY <1>3, <1>4 DEF Taken, FullVectors

-----------------------------------------------------------------------------
(* Until its upsert a pass either holds the present text of a property the *)
(* watermark would pass, or the property has it already; after its upsert  *)
(* the property has it.                                                    *)
InFlightCovers ==
  \A i \in Workers : phase[i] # "idle" =>
    \A p \in Props \ slipped :
      Exists(p) /\ Stamp(row[p]) <= batch[i].newest =>
        \/ stored[p].hash = row[p].text
        \/ /\ phase[i] # "upserted"
           /\ p \in batch[i].ids /\ batch[i].text[p] = row[p].text

BatchesAreWellPlaced == \A i \in Workers : WellPlaced(batch[i])

IInv == /\ TypeOK
        /\ BatchesAreWellPlaced
        /\ BehindTheWatermark
        /\ InFlightCovers
        /\ VectorOfTheHash

LEMMA StampType == ASSUME NEW r \in Row PROVE Stamp(r) \in Times
BY DEF Stamp, Row

LEMMA TimesAreNat == Times \subseteq Nat
BY VectorAssumption DEF Times, Null

LEMMA NoBatchType == NoBatch \in Batch /\ WellPlaced(NoBatch)
BY TimesAreNat, VectorAssumption DEF NoBatch, Batch, Times, Null, WellPlaced

LEMMA InitIInv == Init => IInv
<1> SUFFICES ASSUME Init PROVE IInv
  OBVIOUS
<1>1. TypeOK
  BY NoBatchType, VectorAssumption DEF Init, TypeOK, Stored, Times, Null, Phases
<1>2. \A p \in Props : Exists(p) => ~(Stamp(row[p]) <= watermark)
  <2> TAKE p \in Props
  <2> HAVE Exists(p)
  <2>1. row[p] \in Row /\ row[p].created # Null
    BY VectorAssumption DEF Init, Exists
  <2>2. Stamp(row[p]) \in Nat /\ Stamp(row[p]) # Null
    BY <2>1, TimesAreNat DEF Stamp, Row
  <2> QED
    BY <2>2 DEF Init, Null
<1> QED
  BY <1>1, <1>2, NoBatchType
     DEF IInv, InFlightCovers, BehindTheWatermark, BatchesAreWellPlaced, VectorOfTheHash, Init

(* One lemma for each action: it preserves the invariant. *)
LEMMA BeginStep ==
  ASSUME IInv, NEW w \in Writers, NEW p \in Props, NEW x \in Texts, Begin(w, p, x)
  PROVE  IInv'
<1>1. TypeOK'
  <2>1. now' \in Times /\ [prop |-> p, text |-> x, stamp |-> now'] \in Edit
    BY VectorAssumption DEF IInv, TypeOK, Begin, Times, Null, Edit
  <2> QED
    BY <2>1 DEF IInv, TypeOK, Begin, history
<1> QED
  BY <1>1 DEF IInv, Begin, history, BehindTheWatermark, InFlightCovers, Exists,
              BatchesAreWellPlaced, VectorOfTheHash

LEMMA CommitStep ==
  ASSUME IInv, NEW w \in Writers, Commit(w)
  PROVE  IInv'
<1> DEFINE e == edit[w]
<1>0. e \in Edit /\ e.prop \in Props /\ row[e.prop] \in Row
  BY DEF IInv, TypeOK, Commit, Edit
<1>1. Written(row[e.prop], e) \in Row
  <2>1. e.text \in Texts /\ e.stamp \in Times /\ Null \in Times
    BY <1>0, VectorAssumption DEF Edit, Times, Null
  <2> QED
    BY <1>0, <2>1 DEF Written, Row
<1>2. TypeOK'
  BY <1>0, <1>1 DEF IInv, TypeOK, Commit, Slips
<1>3. \A p \in Props \ {e.prop} : row'[p] = row[p] /\ (p \in slipped' <=> p \in slipped)
  BY DEF IInv, TypeOK, Commit, Slips
<1>4. e.prop \notin slipped' =>
        /\ ~(Stamp(row'[e.prop]) <= watermark)
        /\ \A i \in Workers : phase[i] # "idle" => ~(Stamp(row'[e.prop]) <= batch[i].newest)
  BY DEF Commit, Slips, Passed
<1>5. UNCHANGED <<stored, watermark, phase, batch, crossed>>
  BY DEF Commit
<1>6. BehindTheWatermark'
  BY <1>3, <1>4, <1>5 DEF IInv, BehindTheWatermark, Exists
<1>7. InFlightCovers'
  BY <1>3, <1>4, <1>5 DEF IInv, InFlightCovers, Exists
<1> QED
  BY <1>2, <1>5, <1>6, <1>7 DEF IInv, BatchesAreWellPlaced, VectorOfTheHash

LEMMA FetchStep ==
  ASSUME IInv, NEW i \in Workers, Fetch(i)
  PROVE  IInv'
<1>1. PICK o \in Orders(Changed), n \in Times :
        LET ids == {p \in Changed : o[p] <= BatchSize}
        IN  /\ \A p \in ids : Stamp(row[p]) <= n
            /\ batch' = [batch EXCEPT ![i] =
                 [ids |-> ids, place |-> [p \in Props |-> IF p \in ids THEN o[p] ELSE 0],
                  text |-> [p \in Props |-> row[p].text],
                  compared |-> {}, need |-> {}, newest |-> n]]
            /\ slipped' = slipped \cup {p \in Changed \ ids : Stamp(row[p]) <= n}
  <2>1. \A p \in Props : Stamp(row[p]) \in Times
    BY StampType DEF IInv, TypeOK
  <2> QED
    BY <2>1 DEF Fetch, Changed
<1> DEFINE ids == {p \in Changed : o[p] <= BatchSize}
           b == batch'[i]
<1>2. Changed \subseteq Props /\ o \in [Changed -> Nat]
  BY DEF Changed, Orders
<1>3. b = [ids |-> ids, place |-> [p \in Props |-> IF p \in ids THEN o[p] ELSE 0],
           text |-> [p \in Props |-> row[p].text],
           compared |-> {}, need |-> {}, newest |-> n]
  BY <1>1 DEF IInv, TypeOK
<1>4. b \in Batch
  <2>1. [p \in Props |-> IF p \in ids THEN o[p] ELSE 0] \in [Props -> Nat]
    BY <1>2
  <2>2. [p \in Props |-> row[p].text] \in [Props -> Texts \cup {None}]
    BY DEF IInv, TypeOK, Row
  <2> HIDE DEF ids
  <2> QED
    BY <1>1, <1>2, <1>3, <2>1, <2>2 DEF Batch, ids
<1>5. TypeOK'
  BY <1>1, <1>2, <1>4 DEF IInv, TypeOK, Fetch, table, Phases
<1>9. WellPlaced(b)
  <2>1. \A p \in ids : /\ p \in Changed /\ p \in Props /\ b.place[p] = o[p]
                       /\ o[p] \in 1..Cardinality(Changed) /\ o[p] <= BatchSize
    BY <1>2, <1>3 DEF Orders
  <2>2. \A p \in ids : b.place[p] \in Nat \ {0} /\ b.text[p] # None
    <3> TAKE p \in ids
    <3>1. b.text[p] = row[p].text /\ row[p].text # None
      BY <1>3, <2>1 DEF Changed, Exists
    <3>2. o[p] \in Nat \ {0}
      BY <2>1
    <3> QED
      BY <2>1, <3>1, <3>2
  <2>3. \A p, q \in ids : b.place[p] = b.place[q] => p = q
    BY <2>1 DEF Orders
  <2>4. \A p \in ids : \A k \in 1..b.place[p] : \E q \in ids : b.place[q] = k
    <3> TAKE p \in ids
    <3> TAKE k \in 1..b.place[p]
    <3>1. Cardinality(Changed) \in Nat
      BY <1>2, FS_Subset, FS_CardinalityType, VectorAssumption
    <3>2. k \in 1..Cardinality(Changed) /\ k <= BatchSize
      BY <2>1, <3>1, VectorAssumption
    <3>3. PICK q \in Changed : o[q] = k
      BY <3>2 DEF Orders
    <3> QED
      BY <2>1, <3>2, <3>3
  <2>5. b.ids = ids /\ b.need = {} /\ b.compared = {}
    BY <1>3
  <2> HIDE DEF ids, b
  <2> QED
    BY <2>2, <2>3, <2>4, <2>5 DEF WellPlaced
<1>10. BatchesAreWellPlaced' /\ VectorOfTheHash'
  BY <1>1, <1>9 DEF IInv, TypeOK, BatchesAreWellPlaced, VectorOfTheHash, Fetch
<1>6. BehindTheWatermark'
  BY <1>1 DEF IInv, BehindTheWatermark, Fetch, table, Exists
<1>7. \A p \in Props \ slipped' : Exists(p) /\ Stamp(row[p]) <= n =>
         stored[p].hash = row[p].text \/ (p \in b.ids /\ b.text[p] = row[p].text)
  <2> TAKE p \in Props \ slipped'
  <2> HAVE Exists(p) /\ Stamp(row[p]) <= n
  <2>1. CASE p \in Changed
    <3>1. p \in ids
      BY <1>1, <2>1
    <3> QED
      BY <1>3, <3>1
  <2>2. CASE p \notin Changed
    <3>1. Stamp(row[p]) \in Nat /\ watermark \in Nat
      BY StampType, TimesAreNat DEF IInv, TypeOK
    <3>2. Stamp(row[p]) <= watermark
      BY <2>2, <3>1 DEF Changed
    <3>3. p \notin slipped
      BY <1>1
    <3> QED
      BY <3>2, <3>3 DEF IInv, BehindTheWatermark
  <2> QED
    BY <2>1, <2>2
<1>8. InFlightCovers'
  <2>1. /\ \A j \in Workers \ {i} : batch'[j] = batch[j] /\ phase'[j] = phase[j]
        /\ phase'[i] = "fetched" /\ UNCHANGED <<row, stored>> /\ slipped \subseteq slipped'
    BY <1>1 DEF IInv, TypeOK, Fetch, table
  <2>2. b.newest = n
    BY <1>3
  <2> QED
    BY <1>7, <2>1, <2>2 DEF IInv, InFlightCovers, Exists
<1> QED
  BY <1>5, <1>6, <1>8, <1>10 DEF IInv

LEMMA CompareStep ==
  ASSUME IInv, NEW i \in Workers, NEW p \in Props, Compare(i, p)
  PROVE  IInv'
<1> DEFINE b == batch[i]
           c == [b EXCEPT !.compared = @ \cup {p},
                          !.need = IF stored[p].hash # b.text[p] THEN @ \cup {p} ELSE @]
<1>1. b \in Batch
  BY DEF IInv, TypeOK
<1>2. batch' = [batch EXCEPT ![i] = c]
  BY DEF Compare
<1>3. c \in Batch /\ c.ids = b.ids /\ c.text = b.text /\ c.newest = b.newest
  BY <1>1 DEF Batch
<1>6. WellPlaced(c)
  BY <1>1 DEF IInv, BatchesAreWellPlaced, Compare, WellPlaced, Batch
<1> HIDE DEF c
<1>4. TypeOK'
  BY <1>2, <1>3 DEF IInv, TypeOK, Compare, table, history
<1>5. /\ UNCHANGED <<row, stored, watermark, phase, slipped>>
      /\ \A j \in Workers : /\ batch'[j].ids = batch[j].ids
                            /\ batch'[j].text = batch[j].text
                            /\ batch'[j].newest = batch[j].newest
  BY <1>2, <1>3 DEF IInv, TypeOK, Compare, table, history
<1>7. BatchesAreWellPlaced'
  BY <1>2, <1>6 DEF IInv, TypeOK, BatchesAreWellPlaced
<1>8. VectorOfTheHash' /\ BehindTheWatermark'
  BY <1>5 DEF IInv, VectorOfTheHash, BehindTheWatermark, Exists, Compare, history
<1>9. InFlightCovers'
  BY <1>5 DEF IInv, InFlightCovers, Exists
<1> QED
  BY <1>4, <1>7, <1>8, <1>9 DEF IInv

LEMMA ReleaseStep ==
  ASSUME IInv, NEW i \in Workers, Release(i) \/ Embed(i)
  PROVE  IInv'
<1>1. TypeOK'
  BY DEF IInv, TypeOK, Release, Embed, table, history, Phases
<1>2. /\ UNCHANGED <<row, stored, watermark, batch, slipped>>
      /\ \A j \in Workers : /\ phase'[j] = "idle" <=> phase[j] = "idle"
                            /\ phase'[j] = "upserted" <=> phase[j] = "upserted"
  BY DEF IInv, TypeOK, Release, Embed, table, history
<1> QED
  BY <1>1, <1>2 DEF IInv, BehindTheWatermark, InFlightCovers, Exists,
                    BatchesAreWellPlaced, VectorOfTheHash, Release, Embed, history


LEMMA UpsertStep ==
  ASSUME IInv, NEW i \in Workers, Upsert(i)
  PROVE  IInv'
<1> DEFINE b == batch[i]
           stale == {p \in b.ids : b.text[p] # row[p].text}
<1>1. b \in Batch /\ WellPlaced(b)
  BY DEF IInv, TypeOK, BatchesAreWellPlaced
<1>2. \A p \in b.need : Taken(b, p) = b.text[p]
  BY <1>1, AcceptedMeansAligned DEF Upsert
<1>3. stored' = [p \in Props |->
        IF p \in b.ids
          THEN [hash |-> b.text[p],
                vector |-> IF p \in b.need THEN b.text[p] ELSE stored[p].vector]
          ELSE stored[p]]
  BY <1>2 DEF Upsert
<1>4. stored' \in [Props -> Stored]
  BY <1>1, <1>3 DEF IInv, TypeOK, Stored, Batch
<1>5. UNCHANGED <<now, row, edit, watermark, lock, batch>>
  BY DEF Upsert, table
<1>6. phase' = [phase EXCEPT ![i] = "upserted"] /\ phase[i] = "embedded"
  BY DEF Upsert
<1>7. /\ slipped' = (slipped \ (b.ids \ stale)) \cup {p \in stale : Passed(Stamp(row[p]))}
      /\ b.ids \subseteq Props
  BY <1>1, <1>5 DEF Upsert, Slips, Batch
<1>8. crossed' = (crossed \ b.need) \cup {p \in b.ids \ b.need : stored[p].hash # b.text[p]}
  BY DEF Upsert
<1>9. TypeOK'
  BY <1>1, <1>4, <1>5, <1>6, <1>7, <1>8 DEF IInv, TypeOK, Phases, Batch
<1>10. \A p \in Props \ slipped' :
         \/ stored'[p].hash = row[p].text
         \/ p \in b.ids /\ ~Passed(Stamp(row[p]))
         \/ p \notin b.ids /\ p \notin slipped /\ stored'[p] = stored[p]
  BY <1>3, <1>7
<1>11. BehindTheWatermark'
  BY <1>5, <1>10 DEF IInv, BehindTheWatermark, Exists, Passed
<1>12. InFlightCovers'
  <2> SUFFICES ASSUME NEW j \in Workers, phase'[j] # "idle",
                      NEW p \in Props \ slipped',
                      Exists(p), Stamp(row[p]) <= batch[j].newest
               PROVE  \/ stored'[p].hash = row[p].text
                      \/ /\ phase'[j] # "upserted"
                         /\ p \in batch[j].ids /\ batch[j].text[p] = row[p].text
    BY <1>5 DEF InFlightCovers, Exists
  <2>1. phase[j] # "idle"
    BY <1>6 DEF IInv, TypeOK
  <2>2. Passed(Stamp(row[p]))
    BY <2>1 DEF Passed
  <2>3. CASE p \notin b.ids /\ p \notin slipped /\ stored'[p] = stored[p]
    <3>1. \/ stored[p].hash = row[p].text
          \/ /\ phase[j] # "upserted"
             /\ p \in batch[j].ids /\ batch[j].text[p] = row[p].text
      BY <2>1, <2>3 DEF IInv, InFlightCovers
    <3> QED
      BY <1>6, <2>3, <3>1 DEF IInv, TypeOK
  <2> QED
    BY <1>10, <2>2, <2>3
<1>13. VectorOfTheHash'
  <2> SUFFICES ASSUME NEW p \in Props \ crossed'
               PROVE  stored'[p].vector = stored'[p].hash
    BY DEF VectorOfTheHash
  <2>1. CASE p \in b.need
    BY <1>1, <1>3, <2>1 DEF WellPlaced
  <2>2. CASE p \notin b.need
    <3>1. p \notin crossed /\ stored[p].vector = stored[p].hash
      BY <1>8, <2>2 DEF IInv, VectorOfTheHash
    <3>2. p \in b.ids => stored[p].hash = b.text[p]
      BY <1>8, <2>2
    <3> QED
      BY <1>3, <2>2, <3>1, <3>2
  <2> QED
    BY <2>1, <2>2
<1> QED
  BY <1>5, <1>9, <1>11, <1>12, <1>13 DEF IInv, BatchesAreWellPlaced

LEMMA AdvanceStep ==
  ASSUME IInv, NEW i \in Workers, Advance(i) \/ Fail(i)
  PROVE  IInv'
<1>1. batch[i] \in Batch
  BY DEF IInv, TypeOK
<1>2. TypeOK'
  <2>1. batch[i].newest \in Times
    BY <1>1 DEF Batch
  <2>2. /\ watermark' \in Times /\ lock' \in Workers \cup {Free}
        /\ batch' \in [Workers -> Batch] /\ phase' \in [Workers -> Phases]
    BY <2>1, NoBatchType DEF IInv, TypeOK, Advance, Fail, Phases
  <2> QED
    BY <2>2 DEF IInv, TypeOK, Advance, Fail, table, history
<1>3. /\ UNCHANGED <<row, stored, slipped, crossed>>
      /\ \A j \in Workers \ {i} : phase'[j] = phase[j] /\ batch'[j] = batch[j]
      /\ phase'[i] = "idle" /\ batch'[i] = NoBatch
      /\ watermark' = watermark \/ (phase[i] = "upserted" /\ watermark' = batch[i].newest)
  BY DEF IInv, TypeOK, Advance, Fail, table, history
<1>4. BehindTheWatermark'
  BY <1>3 DEF IInv, BehindTheWatermark, InFlightCovers, Exists
<1>5. InFlightCovers'
  BY <1>3 DEF IInv, InFlightCovers, Exists
<1> QED
  BY <1>2, <1>3, <1>4, <1>5, NoBatchType DEF IInv, BatchesAreWellPlaced, VectorOfTheHash

LEMMA StutterStep == IInv /\ UNCHANGED vars => IInv'
BY DEF IInv, vars, table, history, TypeOK, BatchesAreWellPlaced, BehindTheWatermark,
       InFlightCovers, VectorOfTheHash, Exists

LEMMA Invariance == Spec => []IInv
<1>1. IInv /\ [Next]_vars => IInv'
  BY BeginStep, CommitStep, FetchStep, CompareStep, ReleaseStep, UpsertStep,
     AdvanceStep, StutterStep DEF Next
<1> QED
  BY <1>1, InitIInv, PTL DEF Spec

-----------------------------------------------------------------------------
(* The types are right: what a refused or failed pass leaves included.     *)
THEOREM TypeCorrect == Spec => []TypeOK
BY Invariance, PTL DEF IInv

(* Whatever the order of edits, passes and failures, a property behind the *)
(* watermark has its present text embedded unless it slipped.              *)
THEOREM NothingElseIsLost == Spec => []BehindTheWatermark
BY Invariance, PTL DEF IInv

(* A stored vector is the one of the stored hash unless a pass wrote a     *)
(* hash back over another: the vectors that are not aligned make a pass    *)
(* fail, and are never stored.                                             *)
THEOREM VectorsAreNeverSwapped == Spec => []VectorOfTheHash
BY Invariance, PTL DEF IInv
=============================================================================
