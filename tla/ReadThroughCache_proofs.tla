----------------------- MODULE ReadThroughCache_proofs -----------------------
(***************************************************************************)
(* Every stale answer has a cause, for any pages, edits, readers, writers. *)
(* The invariant says of an answer under way what it says of a stored one. *)
(***************************************************************************)
EXTENDS ReadThroughCache, TLAPS

(* What a reader has read and an edit has overtaken since is noted, or     *)
(* the eviction that will note it is still to come.                        *)
StaleReadsAreNoted ==
  \A r \in Readers, t \in Tables :
    /\ reader[r] # None /\ t \in Shows(reader[r].page)
    /\ reader[r].seen[t] # Unread /\ reader[r].seen[t] < version[t]
    => late[r] # {} \/ Awaited(reader[r].page, t)

IInv == TypeOK /\ StaleForACause /\ StaleReadsAreNoted

(* A reader and a writer that are there are well typed. *)
LEMMA RecordTypes ==
  ASSUME TypeOK
  PROVE  /\ \A r \in Readers : reader[r] # None =>
              /\ reader[r] \in Reading
              /\ reader[r].page \in Pages /\ reader[r].seen \in Answer
         /\ \A w \in Writers : writer[w] # None =>
              /\ writer[w] \in Writing
              /\ writer[w].tables \in SUBSET Tables /\ writer[w].todo \in SUBSET Pages
         /\ \A p \in Pages : cache[p] # None => cache[p] \in Answer
<1>1. /\ reader \in [Readers -> Reading \cup {None}]
      /\ writer \in [Writers -> Writing \cup {None}]
      /\ cache \in [Pages -> Answer \cup {None}]
  BY DEF TypeOK
<1>2. ASSUME NEW r \in Readers, reader[r] # None
      PROVE  reader[r] \in Reading /\ reader[r].page \in Pages /\ reader[r].seen \in Answer
  <2>1. reader[r] \in Reading
    BY <1>1, <1>2
  <2> QED BY <2>1 DEF Reading
<1>3. ASSUME NEW w \in Writers, writer[w] # None
      PROVE  /\ writer[w] \in Writing
             /\ writer[w].tables \in SUBSET Tables /\ writer[w].todo \in SUBSET Pages
  <2>1. writer[w] \in Writing
    BY <1>1, <1>3
  <2> QED BY <2>1 DEF Writing
<1> QED BY <1>1, <1>2, <1>3

LEMMA EditedTables == \A e \in Edits : Edited(e) \subseteq SUBSET Tables
  BY DEF Edited, Tables

(* What a writer has left is a record of the right type, or nothing. *)
LEMMA LeftType ==
  ASSUME NEW ts \in SUBSET Tables, NEW ps \in SUBSET Pages
  PROVE  Left(ts, ps) \in Writing \cup {None}
  BY DEF Left, Writing

(* The invariant holds at the start. *)
LEMMA InitOK == Init => IInv
  BY CacheAssumption
  DEF Init, IInv, TypeOK, StaleForACause, StaleReadsAreNoted, Stale, Answer, Causes

(* Types, action by action. *)
LEMMA TypeStep == TypeOK /\ [Next]_vars => TypeOK'
<1> SUFFICES ASSUME TypeOK, [Next]_vars PROVE TypeOK'
  OBVIOUS
<1>t. /\ version \in [Tables -> Nat]
      /\ cache \in [Pages -> Answer \cup {None}]
      /\ \A p \in Pages, t \in Tables : cache[p] # None /\ t \in Shows(p) => cache[p][t] # Unread
      /\ reader \in [Readers -> Reading \cup {None}]
      /\ writer \in [Writers -> Writing \cup {None}]
      /\ late \in [Readers -> SUBSET Causes]
      /\ why \in [Pages -> SUBSET Causes]
  BY DEF TypeOK
<1>1. ASSUME NEW r \in Readers, NEW p \in Pages, Miss(r, p) PROVE TypeOK'
  <2>1. [page |-> p, seen |-> [t \in Tables |-> Unread]] \in Reading
    BY DEF Reading, Answer
  <2>2. reader' \in [Readers -> Reading \cup {None}]
    BY <1>1, <1>t, <2>1 DEF Miss
  <2> QED BY <1>1, <1>t, <2>2 DEF Miss, TypeOK
<1>2. ASSUME NEW r \in Readers, NEW t \in Tables, Read(r, t) PROVE TypeOK'
  <2>1. reader[r] \in Reading /\ reader[r].page \in Pages /\ reader[r].seen \in Answer
    BY <1>2, RecordTypes DEF Read
  <2>2. reader'[r] = [page |-> reader[r].page,
                      seen |-> [reader[r].seen EXCEPT ![t] = version[t]]]
    BY <1>2, <1>t, <2>1 DEF Read, Reading
  <2>3. [reader[r].seen EXCEPT ![t] = version[t]] \in Answer
    BY <1>t, <2>1 DEF Answer
  <2>4. reader'[r] \in Reading
    BY <2>1, <2>2, <2>3 DEF Reading
  <2>5. reader' = [reader EXCEPT ![r] = reader'[r]]
    BY <1>2, <1>t DEF Read
  <2>6. reader' \in [Readers -> Reading \cup {None}]
    BY <1>t, <2>4, <2>5
  <2> QED BY <1>2, <1>t, <2>6 DEF Read, TypeOK
<1>3. ASSUME NEW r \in Readers, Store(r) PROVE TypeOK'
  <2>1. reader[r].page \in Pages /\ reader[r].seen \in Answer
    BY <1>3, RecordTypes DEF Store
  <2>2. \A t \in Tables : t \in Shows(reader[r].page) => reader[r].seen[t] # Unread
    BY <1>3 DEF Store, Unfinished
  <2> QED BY <1>3, <1>t, <2>1, <2>2 DEF Store, TypeOK
<1>4. ASSUME NEW r \in Readers, GiveUp(r) PROVE TypeOK'
  BY <1>4, <1>t DEF GiveUp, TypeOK
<1>s. ASSUME NEW e \in Edits, NEW ts \in SUBSET Tables, Save(e, ts)
      PROVE  /\ version' \in [Tables -> Nat]
             /\ why' \in [Pages -> SUBSET Causes] /\ late' \in [Readers -> SUBSET Causes]
             /\ UNCHANGED <<cache, reader>>
  <2> DEFINE missed == {p \in Pages \ Evicts(e) : Shows(p) \cap ts # {}}
             cause(p) == IF p \in EvictsFirst(e) THEN "early" ELSE "unlisted"
  <2>1. \A p \in Pages : cause(p) \in Causes
    BY DEF Causes
  <2>2. /\ version' = [t \in Tables |-> IF t \in ts THEN version[t] + 1 ELSE version[t]]
        /\ why' = [p \in Pages |-> IF p \in missed /\ cache[p] # None
                                     THEN why[p] \cup {cause(p)} ELSE why[p]]
        /\ late' = [r \in Readers |->
                      late[r] \cup {cause(p) : p \in {q \in missed : HasRead(r, q, ts)}}]
        /\ UNCHANGED <<cache, reader>>
    BY <1>s DEF Save
  <2> HIDE DEF cause
  <2>3. version' \in [Tables -> Nat]
    BY <1>t, <2>2
  <2>4. why' \in [Pages -> SUBSET Causes]
    BY <1>t, <2>1, <2>2
  <2>5. late' \in [Readers -> SUBSET Causes]
    BY <1>t, <2>1, <2>2
  <2> QED BY <2>2, <2>3, <2>4, <2>5
<1>5. ASSUME NEW w \in Writers, NEW e \in Edits, NEW ts \in SUBSET Tables,
             Commit(w, e, ts) \/ EvictEarly(w, e, ts)
      PROVE  TypeOK'
  <2>1. /\ Left(ts, Evicts(e) \cap Pages) \in Writing \cup {None}
        /\ [tables |-> ts, todo |-> {}] \in Writing
    BY LeftType DEF Writing
  <2>2. CASE Commit(w, e, ts)
    <3>1. Save(e, ts) /\ writer' \in [Writers -> Writing \cup {None}]
      BY <1>t, <2>1, <2>2 DEF Commit
    <3> QED BY <1>s, <1>t, <3>1 DEF TypeOK
  <2>3. CASE EvictEarly(w, e, ts)
    BY <1>t, <2>1, <2>3 DEF EvictEarly, TypeOK
  <2> QED BY <1>5, <2>2, <2>3
<1>l. ASSUME NEW w \in Writers, NEW e \in Edits, CommitLast(w, e) PROVE TypeOK'
  <2>1. writer[w].tables \in SUBSET Tables
    BY <1>l, RecordTypes DEF CommitLast
  <2>2. Save(e, writer[w].tables) /\ writer' \in [Writers -> Writing \cup {None}]
    BY <1>l, <1>t DEF CommitLast
  <2> QED BY <1>s, <1>t, <2>1, <2>2 DEF TypeOK
<1>6. ASSUME NEW w \in Writers, NEW p \in Pages, Evict(w, p) PROVE TypeOK'
  <2>1. writer[w].tables \in SUBSET Tables /\ writer[w].todo \in SUBSET Pages
    BY <1>6, RecordTypes DEF Evict, IsNext
  <2>2. Left(writer[w].tables, writer[w].todo \ {p}) \in Writing \cup {None}
    BY <2>1, LeftType
  <2>3. writer' \in [Writers -> Writing \cup {None}]
    BY <1>6, <1>t, <2>2 DEF Evict
  <2>4. late' \in [Readers -> SUBSET Causes]
    BY <1>6, <1>t DEF Evict, Overtake, Causes
  <2> QED BY <1>6, <1>t, <2>3, <2>4 DEF Evict, TypeOK
<1>7. ASSUME NEW w \in Writers, NEW p \in Pages, EvictFails(w, p) PROVE TypeOK'
  <2>1. writer[w].tables \in SUBSET Tables /\ writer[w].todo \in SUBSET Pages
    BY <1>7, RecordTypes DEF EvictFails, IsNext
  <2>2. Left(writer[w].tables, writer[w].todo \ {p}) \in Writing \cup {None}
    BY <2>1, LeftType
  <2>3. writer' \in [Writers -> Writing \cup {None}]
    BY <1>7, <1>t, <2>2 DEF EvictFails
  <2>4. late' \in [Readers -> SUBSET Causes]
    BY <1>7, <1>t DEF EvictFails, Overtake, Causes
  <2>5. why' \in [Pages -> SUBSET Causes]
    BY <1>7, <1>t DEF EvictFails, Causes
  <2> QED BY <1>7, <1>t, <2>3, <2>4, <2>5 DEF EvictFails, TypeOK
<1>8. ASSUME NEW w \in Writers, Abandon(w) PROVE TypeOK'
  <2>1. late' \in [Readers -> SUBSET Causes]
    BY <1>8, <1>t DEF Abandon, Overtake, Causes
  <2>2. why' \in [Pages -> SUBSET Causes]
    BY <1>8, <1>t DEF Abandon, Causes
  <2> QED BY <1>8, <1>t, <2>1, <2>2 DEF Abandon, TypeOK
<1>9. ASSUME NEW p \in Pages, Drop(p) PROVE TypeOK'
  BY <1>9, <1>t DEF Drop, TypeOK
<1>10. CASE UNCHANGED vars
  BY <1>10, <1>t DEF vars, TypeOK
<1> QED BY <1>1, <1>2, <1>3, <1>4, <1>5, <1>l, <1>6, <1>7, <1>8, <1>9, <1>10, EditedTables DEF Next

(* A writer that has dealt with the pages ps, and noted whom it overtook,  *)
(* still awaits the eviction of the others.                                *)
LEMMA DoneWithPages ==
  ASSUME TypeOK, StaleReadsAreNoted,
         NEW w \in Writers, NEW ps \in SUBSET Pages,
         writer[w] # None,
         writer' = [writer EXCEPT ![w] = Left(writer[w].tables, writer[w].todo \ ps)],
         Overtake(ps, writer[w].tables),
         UNCHANGED <<version, reader>>
  PROVE  /\ StaleReadsAreNoted'
         /\ \A p \in Pages \ ps, t \in Tables : Awaited(p, t) => Awaited(p, t)'
<1>1. /\ writer \in [Writers -> Writing \cup {None}]
      /\ writer[w].tables \in SUBSET Tables /\ writer[w].todo \in SUBSET Pages
  BY RecordTypes DEF TypeOK
<1>2. ASSUME NEW p \in Pages, NEW t \in Tables, Awaited(p, t), p \notin ps
      PROVE  Awaited(p, t)'
  <2>1. PICK v \in Writers : /\ writer[v] # None
                             /\ t \in writer[v].tables /\ p \in writer[v].todo
    BY <1>2 DEF Awaited
  <2>2. CASE v # w
    BY <1>1, <2>1, <2>2 DEF Awaited
  <2>3. CASE v = w
    <3>1. writer'[w] = [tables |-> writer[w].tables, todo |-> writer[w].todo \ ps]
      BY <1>1, <1>2, <2>1, <2>3 DEF Left
    <3>2. writer'[w] \in Writing
      BY <1>1, <3>1 DEF Writing
    <3>3. writer'[w] # None /\ t \in writer'[w].tables /\ p \in writer'[w].todo
      BY <1>2, <2>1, <2>3, <3>1, <3>2, CacheAssumption
    <3> QED BY <3>3 DEF Awaited
  <2> QED BY <2>2, <2>3
<1>3. ASSUME NEW r \in Readers, NEW t \in Tables,
             reader[r] # None, t \in Shows(reader[r].page),
             reader[r].seen[t] # Unread, reader[r].seen[t] < version[t]
      PROVE  late'[r] # {} \/ Awaited(reader[r].page, t)'
  <2>1. reader[r].page \in Pages /\ late[r] \subseteq late'[r]
    BY <1>3, RecordTypes DEF Overtake
  <2>2. CASE late[r] # {}
    BY <2>1, <2>2
  <2>3. CASE Awaited(reader[r].page, t) /\ reader[r].page \notin ps
    BY <1>2, <2>1, <2>3
  <2>4. CASE Awaited(reader[r].page, t) /\ reader[r].page \in ps
    <3>1. PICK v \in Writers : /\ writer[v] # None
                               /\ t \in writer[v].tables /\ reader[r].page \in writer[v].todo
      BY <2>4 DEF Awaited
    <3>2. CASE v # w
      BY <1>1, <3>1, <3>2 DEF Awaited
    <3>3. CASE v = w
      <4>1. HasRead(r, reader[r].page, writer[w].tables)
        BY <1>3, <3>1, <3>3 DEF HasRead
      <4>2. late'[r] = late[r] \cup {"overtaken"}
        BY <1>3, <2>4, <3>1, <3>3, <4>1 DEF Overtake
      <4> QED BY <4>2
    <3> QED BY <3>2, <3>3
  <2> QED BY <1>3, <2>2, <2>3, <2>4 DEF StaleReadsAreNoted
<1>4. StaleReadsAreNoted'
  <2>1. ASSUME NEW r \in Readers, NEW t \in Tables,
               reader'[r] # None, t \in Shows(reader'[r].page),
               reader'[r].seen[t] # Unread, reader'[r].seen[t] < version'[t]
        PROVE  late'[r] # {} \/ Awaited(reader[r].page, t)'
    BY <1>3, <2>1
  <2> QED BY <2>1 DEF StaleReadsAreNoted, Awaited
<1> QED BY <1>2, <1>4

(* The same for stored answers: a page of ps is gone, or noted.            *)
LEMMA PagesAreNoted ==
  ASSUME StaleForACause, NEW ps \in SUBSET Pages,
         \A p \in Pages \ ps, t \in Tables : Awaited(p, t) => Awaited(p, t)',
         \A p \in Pages \ ps : cache'[p] = cache[p] /\ why[p] \subseteq why'[p],
         \A p \in ps : cache'[p] = None \/ why'[p] # {},
         UNCHANGED version
  PROVE  StaleForACause'
<1>1. ASSUME NEW p \in Pages, NEW t \in Tables, Stale(p, t)'
      PROVE  why'[p] # {} \/ Awaited(p, t)'
  <2>1. CASE p \in ps
    BY <1>1, <2>1 DEF Stale
  <2>2. CASE p \notin ps
    BY <1>1, <2>2 DEF Stale, StaleForACause
  <2> QED BY <2>1, <2>2
<1> QED BY <1>1 DEF StaleForACause

(* A commit awaits the eviction of every page it does not leave out. *)
LEMMA CommitAwaits ==
  ASSUME TypeOK, NEW w \in Writers, NEW e \in Edits, NEW ts \in SUBSET Tables,
         Commit(w, e, ts)
  PROVE  /\ \A p \in Pages, t \in Tables : Awaited(p, t) => Awaited(p, t)'
         /\ \A p \in Pages \cap Evicts(e), t \in ts : Awaited(p, t)'
<1>1. /\ writer \in [Writers -> Writing \cup {None}]
      /\ writer[w] = None
      /\ writer' = [writer EXCEPT ![w] = Left(ts, Evicts(e) \cap Pages)]
  BY DEF TypeOK, Commit
<1>2. ASSUME NEW p \in Pages, NEW t \in Tables, Awaited(p, t) PROVE Awaited(p, t)'
  BY <1>1, <1>2 DEF Awaited
<1>3. ASSUME NEW p \in Pages \cap Evicts(e), NEW t \in ts PROVE Awaited(p, t)'
  <2>1. writer'[w] = [tables |-> ts, todo |-> Evicts(e) \cap Pages]
    BY <1>1, <1>3 DEF Left
  <2>2. writer'[w] \in Writing
    BY <2>1 DEF Writing
  <2>3. writer'[w] # None /\ t \in writer'[w].tables /\ p \in writer'[w].todo
    BY <2>1, <2>2, CacheAssumption
  <2> QED BY <2>3 DEF Awaited
<1> QED BY <1>2, <1>3

(* A commit makes answers stale, and notes or awaits each of them. *)
LEMMA SaveStep ==
  ASSUME IInv, NEW e \in Edits, NEW ts \in SUBSET Tables, Save(e, ts),
         \A p \in Pages, t \in Tables : Awaited(p, t) => Awaited(p, t)',
         \A p \in Pages \cap Evicts(e), t \in ts : Awaited(p, t)'
  PROVE  StaleForACause' /\ StaleReadsAreNoted'
<1> DEFINE missed == {p \in Pages \ Evicts(e) : Shows(p) \cap ts # {}}
           cause(p) == IF p \in EvictsFirst(e) THEN "early" ELSE "unlisted"
<1>1. /\ \A p \in Pages, t \in Tables : Awaited(p, t) => Awaited(p, t)'
      /\ \A p \in Pages \cap Evicts(e), t \in ts : Awaited(p, t)'
  OBVIOUS
<1>2. /\ \A t \in Tables \ ts : version'[t] = version[t]
      /\ why' = [p \in Pages |-> IF p \in missed /\ cache[p] # None
                                   THEN why[p] \cup {cause(p)} ELSE why[p]]
      /\ late' = [r \in Readers |->
                    late[r] \cup {cause(p) : p \in {q \in missed : HasRead(r, q, ts)}}]
      /\ UNCHANGED <<cache, reader>>
  BY DEF Save
<1> HIDE DEF cause
<1>3. ASSUME NEW p \in Pages, NEW t \in Tables, Stale(p, t)'
      PROVE  why'[p] # {} \/ Awaited(p, t)'
  <2>1. cache[p] # None /\ t \in Shows(p) /\ why[p] \subseteq why'[p]
    BY <1>2, <1>3 DEF Stale
  <2>2. CASE t \in ts /\ p \in Evicts(e)
    BY <1>1, <2>2
  <2>3. CASE t \in ts /\ p \notin Evicts(e)
    BY <1>2, <2>1, <2>3
  <2>4. CASE t \notin ts
    <3>1. Stale(p, t)
      BY <1>2, <1>3, <2>4 DEF Stale
    <3> QED BY <1>1, <2>1, <3>1 DEF IInv, StaleForACause
  <2> QED BY <2>2, <2>3, <2>4
<1>4. ASSUME NEW r \in Readers, NEW t \in Tables,
             reader[r] # None, t \in Shows(reader[r].page),
             reader[r].seen[t] # Unread, reader[r].seen[t] < version'[t]
      PROVE  late'[r] # {} \/ Awaited(reader[r].page, t)'
  <2>1. reader[r].page \in Pages /\ late[r] \subseteq late'[r]
    BY <1>2, <1>4, RecordTypes DEF IInv
  <2>2. CASE t \in ts /\ reader[r].page \in Evicts(e)
    BY <1>1, <1>2, <2>1, <2>2 DEF Awaited
  <2>3. CASE t \in ts /\ reader[r].page \notin Evicts(e)
    <3>1. reader[r].page \in missed /\ HasRead(r, reader[r].page, ts)
      BY <1>4, <2>1, <2>3 DEF HasRead
    <3>2. cause(reader[r].page) \in late'[r]
      BY <1>2, <3>1
    <3> QED BY <3>2
  <2>4. CASE t \notin ts
    <3>1. late[r] # {} \/ Awaited(reader[r].page, t)
      BY <1>2, <1>4, <2>4 DEF IInv, StaleReadsAreNoted
    <3> QED BY <1>1, <1>2, <2>1, <3>1 DEF Awaited
  <2> QED BY <2>2, <2>3, <2>4
<1>5. StaleReadsAreNoted'
  <2>1. ASSUME NEW r \in Readers, NEW t \in Tables,
               reader'[r] # None, t \in Shows(reader'[r].page),
               reader'[r].seen[t] # Unread, reader'[r].seen[t] < version'[t]
        PROVE  late'[r] # {} \/ Awaited(reader[r].page, t)'
    BY <1>2, <1>4, <2>1
  <2>2. reader' = reader
    BY <1>2
  <2> QED BY <2>1, <2>2 DEF StaleReadsAreNoted, Awaited
<1> QED BY <1>3, <1>5 DEF StaleForACause

(* The three steps of a writer around its commit.                          *)
LEMMA CommitStep ==
  ASSUME IInv, NEW w \in Writers, NEW e \in Edits,
         (\E ts \in Edited(e) : Commit(w, e, ts) \/ EvictEarly(w, e, ts)) \/ CommitLast(w, e)
  PROVE  StaleForACause' /\ StaleReadsAreNoted'
<1>t. /\ writer \in [Writers -> Writing \cup {None}]
      /\ cache \in [Pages -> Answer \cup {None}]
      /\ why \in [Pages -> SUBSET Causes]
  BY DEF IInv, TypeOK
<1>1. ASSUME NEW ts \in Edited(e), Commit(w, e, ts) PROVE StaleForACause' /\ StaleReadsAreNoted'
  <2>1. ts \in SUBSET Tables /\ Save(e, ts)
    BY <1>1, EditedTables DEF Commit
  <2>2. /\ \A p \in Pages, t \in Tables : Awaited(p, t) => Awaited(p, t)'
        /\ \A p \in Pages \cap Evicts(e), t \in ts : Awaited(p, t)'
    BY <1>1, <2>1, CommitAwaits DEF IInv
  <2> QED BY <2>1, <2>2, SaveStep
<1>2. ASSUME NEW ts \in Edited(e), EvictEarly(w, e, ts) PROVE StaleForACause' /\ StaleReadsAreNoted'
  <2>1. /\ writer[w] = None /\ \A v \in Writers \ {w} : writer'[v] = writer[v]
        /\ UNCHANGED <<version, reader, late>>
    BY <1>2, <1>t DEF EvictEarly
  <2>2. \A p \in Pages, t \in Tables : Awaited(p, t) => Awaited(p, t)'
    BY <2>1 DEF Awaited
  <2>3. \A p \in Pages : cache'[p] = None \/ (cache'[p] = cache[p] /\ why'[p] = why[p])
    BY <1>2, <1>t DEF EvictEarly
  <2>4. ASSUME NEW p \in Pages, NEW t \in Tables, Stale(p, t)'
        PROVE  why'[p] # {} \/ Awaited(p, t)'
    <3>1. Stale(p, t) /\ why'[p] = why[p]
      BY <2>1, <2>3, <2>4 DEF Stale
    <3> QED BY <2>2, <3>1 DEF IInv, StaleForACause
  <2>5. ASSUME NEW r \in Readers, NEW t \in Tables,
               reader[r] # None, t \in Shows(reader[r].page),
               reader[r].seen[t] # Unread, reader[r].seen[t] < version[t]
        PROVE  late[r] # {} \/ Awaited(reader[r].page, t)'
    <3>1. reader[r].page \in Pages /\ (late[r] # {} \/ Awaited(reader[r].page, t))
      BY <2>5, RecordTypes DEF IInv, StaleReadsAreNoted
    <3> QED BY <2>1, <2>2, <3>1 DEF Awaited
  <2>6. StaleReadsAreNoted'
    BY <2>1, <2>5 DEF StaleReadsAreNoted, Awaited
  <2> QED BY <2>4, <2>6 DEF StaleForACause
<1>3. ASSUME CommitLast(w, e) PROVE StaleForACause' /\ StaleReadsAreNoted'
  <2>1. /\ writer[w].tables \in SUBSET Tables /\ Save(e, writer[w].tables)
        /\ writer[w].todo = {} /\ EvictsFirst(e) # {}
        /\ \A v \in Writers \ {w} : writer'[v] = writer[v]
    BY <1>3, <1>t, RecordTypes DEF IInv, CommitLast
  <2>2. \A p \in Pages, t \in Tables : Awaited(p, t) => Awaited(p, t)'
    BY <2>1 DEF Awaited
  <2>3. Evicts(e) = {}
    BY <2>1 DEF EvictsFirst, Evicts
  <2> QED BY <2>1, <2>2, <2>3, SaveStep
<1> QED BY <1>1, <1>2, <1>3

(* A reader's steps: what it stores is as stale as what it read. *)
LEMMA ReaderStep ==
  ASSUME IInv, NEW r \in Readers,
         \/ \E p \in Pages : Miss(r, p)
         \/ \E t \in Tables : Read(r, t)
         \/ Store(r) \/ GiveUp(r)
  PROVE  StaleForACause' /\ StaleReadsAreNoted'
<1>t. /\ version \in [Tables -> Nat]
      /\ reader \in [Readers -> Reading \cup {None}]
      /\ cache \in [Pages -> Answer \cup {None}]
      /\ late \in [Readers -> SUBSET Causes]
      /\ why \in [Pages -> SUBSET Causes]
  BY DEF IInv, TypeOK
<1>a. \A p \in Pages, t \in Tables : writer' = writer => (Awaited(p, t)' <=> Awaited(p, t))
  BY DEF Awaited
<1>o. ASSUME NEW s \in Readers, NEW t \in Tables, UNCHANGED <<version, writer>>,
             reader'[s] = reader[s], late'[s] = late[s],
             reader[s] # None, t \in Shows(reader[s].page),
             reader[s].seen[t] # Unread, reader[s].seen[t] < version[t]
      PROVE  late'[s] # {} \/ Awaited(reader[s].page, t)'
  <2>1. reader[s].page \in Pages
    BY <1>o, RecordTypes DEF IInv
  <2>2. late[s] # {} \/ Awaited(reader[s].page, t)
    BY <1>o DEF IInv, StaleReadsAreNoted
  <2> QED BY <1>o, <2>1, <2>2 DEF Awaited
<1>1. ASSUME NEW p \in Pages, Miss(r, p) PROVE StaleForACause' /\ StaleReadsAreNoted'
  <2>1. UNCHANGED <<version, cache, writer, late, why>>
    BY <1>1 DEF Miss
  <2>2. StaleForACause'
    BY <2>1 DEF IInv, StaleForACause, Stale, Awaited
  <2>3. /\ \A s \in Readers \ {r} : reader'[s] = reader[s]
        /\ reader'[r] = [page |-> p, seen |-> [t \in Tables |-> Unread]]
    BY <1>1, <1>t DEF Miss
  <2>4. ASSUME NEW s \in Readers, NEW t \in Tables,
               reader'[s] # None, t \in Shows(reader'[s].page),
               reader'[s].seen[t] # Unread, reader'[s].seen[t] < version'[t]
        PROVE  late'[s] # {} \/ Awaited(reader[s].page, t)'
    <3>1. s # r
      BY <2>3, <2>4
    <3> QED BY <1>o, <2>1, <2>3, <2>4, <3>1 DEF Awaited
  <2> QED BY <2>2, <2>4 DEF StaleReadsAreNoted, Awaited
<1>2. ASSUME NEW u \in Tables, Read(r, u) PROVE StaleForACause' /\ StaleReadsAreNoted'
  <2>1. UNCHANGED <<version, cache, writer, late, why>>
    BY <1>2 DEF Read
  <2>2. StaleForACause'
    BY <2>1 DEF IInv, StaleForACause, Stale, Awaited
  <2>3. reader[r] \in Reading /\ reader[r].page \in Pages /\ reader[r].seen \in Answer
    BY <1>2, RecordTypes DEF IInv, Read
  <2>4. /\ \A s \in Readers \ {r} : reader'[s] = reader[s]
        /\ reader[r] # None
        /\ reader'[r].page = reader[r].page
        /\ reader'[r].seen = [reader[r].seen EXCEPT ![u] = version[u]]
    BY <1>2, <1>t, <2>3 DEF Read, Reading
  <2>5. ASSUME NEW s \in Readers, NEW t \in Tables,
               reader'[s] # None, t \in Shows(reader'[s].page),
               reader'[s].seen[t] # Unread, reader'[s].seen[t] < version'[t]
        PROVE  late'[s] # {} \/ Awaited(reader[s].page, t)'
    <3>1. CASE s # r
      BY <1>o, <2>1, <2>4, <2>5, <3>1 DEF Awaited
    <3>2. CASE s = r
      <4>1. t # u
        BY <1>t, <2>1, <2>3, <2>4, <2>5, <3>2 DEF Answer
      <4>2. reader'[r].seen[t] = reader[r].seen[t]
        BY <2>3, <2>4, <4>1 DEF Answer
      <4>3. late[r] # {} \/ Awaited(reader[r].page, t)
        BY <2>1, <2>4, <2>5, <3>2, <4>2 DEF IInv, StaleReadsAreNoted
      <4> QED BY <2>1, <2>4, <3>2, <4>3 DEF Awaited
    <3> QED BY <3>1, <3>2
  <2> QED BY <2>2, <2>5 DEF StaleReadsAreNoted, Awaited
<1>3. ASSUME NEW q \in Pages, Store(r), q = reader[r].page
      PROVE  StaleForACause' /\ StaleReadsAreNoted'
  <2>1. /\ UNCHANGED <<version, writer>>
        /\ \A s \in Readers \ {r} : reader'[s] = reader[s] /\ late'[s] = late[s]
        /\ reader'[r] = None
        /\ \A p \in Pages \ {q} : cache'[p] = cache[p] /\ why'[p] = why[p]
        /\ cache'[q] = reader[r].seen /\ why'[q] = late[r]
    BY <1>3, <1>t DEF Store
  <2>2. \A t \in Tables : t \in Shows(q) => reader[r].seen[t] # Unread
    BY <1>3 DEF Store, Unfinished
  <2>3. ASSUME NEW p \in Pages, NEW t \in Tables, Stale(p, t)'
        PROVE  why'[p] # {} \/ Awaited(p, t)'
    <3>1. CASE p # q
      <4>1. Stale(p, t)
        BY <2>1, <2>3, <3>1 DEF Stale
      <4> QED BY <1>a, <2>1, <3>1, <4>1 DEF IInv, StaleForACause
    <3>2. CASE p = q
      <4>1. /\ reader[r] # None /\ t \in Shows(reader[r].page)
            /\ reader[r].seen[t] # Unread /\ reader[r].seen[t] < version[t]
        BY <1>3, <2>1, <2>2, <2>3, <3>2 DEF Stale, Store
      <4>2. late[r] # {} \/ Awaited(q, t)
        BY <1>3, <4>1 DEF IInv, StaleReadsAreNoted
      <4> QED BY <1>a, <2>1, <3>2, <4>2
    <3> QED BY <3>1, <3>2
  <2>4. ASSUME NEW s \in Readers, NEW t \in Tables,
               reader'[s] # None, t \in Shows(reader'[s].page),
               reader'[s].seen[t] # Unread, reader'[s].seen[t] < version'[t]
        PROVE  late'[s] # {} \/ Awaited(reader[s].page, t)'
    BY <1>o, <2>1, <2>4 DEF Awaited
  <2> QED BY <2>3, <2>4 DEF StaleForACause, StaleReadsAreNoted, Awaited
<1>4. ASSUME GiveUp(r) PROVE StaleForACause' /\ StaleReadsAreNoted'
  <2>1. /\ UNCHANGED <<version, cache, writer, why>>
        /\ \A s \in Readers \ {r} : reader'[s] = reader[s] /\ late'[s] = late[s]
        /\ reader'[r] = None
    BY <1>4, <1>t DEF GiveUp
  <2>2. StaleForACause'
    BY <2>1 DEF IInv, StaleForACause, Stale, Awaited
  <2>3. ASSUME NEW s \in Readers, NEW t \in Tables,
               reader'[s] # None, t \in Shows(reader'[s].page),
               reader'[s].seen[t] # Unread, reader'[s].seen[t] < version'[t]
        PROVE  late'[s] # {} \/ Awaited(reader[s].page, t)'
    BY <1>o, <2>1, <2>3 DEF Awaited
  <2> QED BY <2>2, <2>3 DEF StaleReadsAreNoted, Awaited
<1>5. Store(r) => reader[r].page \in Pages
  BY RecordTypes DEF IInv, Store
<1> QED BY <1>1, <1>2, <1>3, <1>4, <1>5

(* A writer's steps after its commit: each page it is done with is evicted *)
(* or noted, and so are the readers it overtook.                           *)
LEMMA WriterStep ==
  ASSUME IInv, NEW w \in Writers,
         (\E p \in Pages : Evict(w, p) \/ EvictFails(w, p)) \/ Abandon(w)
  PROVE  StaleForACause' /\ StaleReadsAreNoted'
<1>t. /\ writer \in [Writers -> Writing \cup {None}]
      /\ cache \in [Pages -> Answer \cup {None}]
      /\ why \in [Pages -> SUBSET Causes]
      /\ TypeOK /\ StaleForACause /\ StaleReadsAreNoted
  BY DEF IInv, TypeOK
<1>1. ASSUME NEW p \in Pages, Evict(w, p) PROVE StaleForACause' /\ StaleReadsAreNoted'
  <2>1. /\ writer[w] # None
        /\ writer' = [writer EXCEPT ![w] = Left(writer[w].tables, writer[w].todo \ {p})]
        /\ Overtake({p}, writer[w].tables)
        /\ UNCHANGED <<version, reader>>
    BY <1>1, <1>t DEF Evict, IsNext
  <2>2. /\ StaleReadsAreNoted'
        /\ \A q \in Pages \ {p}, t \in Tables : Awaited(q, t) => Awaited(q, t)'
    BY <1>t, <2>1, DoneWithPages
  <2>3. /\ \A q \in Pages \ {p} : cache'[q] = cache[q] /\ why[q] \subseteq why'[q]
        /\ cache'[p] = None
    BY <1>1, <1>t DEF Evict
  <2> QED BY <1>t, <2>1, <2>2, <2>3, PagesAreNoted
<1>2. ASSUME NEW p \in Pages, EvictFails(w, p) PROVE StaleForACause' /\ StaleReadsAreNoted'
  <2>1. /\ writer[w] # None
        /\ writer' = [writer EXCEPT ![w] = Left(writer[w].tables, writer[w].todo \ {p})]
        /\ Overtake({p}, writer[w].tables)
        /\ UNCHANGED <<version, cache, reader>>
    BY <1>2, <1>t DEF EvictFails, IsNext
  <2>2. /\ StaleReadsAreNoted'
        /\ \A q \in Pages \ {p}, t \in Tables : Awaited(q, t) => Awaited(q, t)'
    BY <1>t, <2>1, DoneWithPages
  <2>3. /\ \A q \in Pages \ {p} : cache'[q] = cache[q] /\ why[q] \subseteq why'[q]
        /\ cache'[p] = None \/ why'[p] # {}
    BY <1>2, <1>t, <2>1 DEF EvictFails
  <2> QED BY <1>t, <2>1, <2>2, <2>3, PagesAreNoted
<1>3. ASSUME NEW rest \in SUBSET Pages, Abandon(w), rest = writer[w].todo
      PROVE  StaleForACause' /\ StaleReadsAreNoted'
  <2>1. Left(writer[w].tables, writer[w].todo \ rest) = None
    BY <1>3 DEF Left
  <2>2. /\ writer[w] # None
        /\ writer' = [writer EXCEPT ![w] = Left(writer[w].tables, writer[w].todo \ rest)]
        /\ Overtake(rest, writer[w].tables)
        /\ UNCHANGED <<version, cache, reader>>
    BY <1>3, <2>1 DEF Abandon
  <2>3. /\ StaleReadsAreNoted'
        /\ \A q \in Pages \ rest, t \in Tables : Awaited(q, t) => Awaited(q, t)'
    BY <1>t, <2>2, DoneWithPages
  <2>4. /\ \A q \in Pages \ rest : cache'[q] = cache[q] /\ why[q] \subseteq why'[q]
        /\ \A q \in rest : cache'[q] = None \/ why'[q] # {}
    BY <1>3, <1>t, <2>2 DEF Abandon
  <2> QED BY <1>t, <2>2, <2>3, <2>4, PagesAreNoted
<1>4. Abandon(w) => writer[w].todo \in SUBSET Pages
  BY <1>t, RecordTypes DEF Abandon
<1> QED BY <1>1, <1>2, <1>3, <1>4

(* The invariant is inductive. *)
LEMMA StepOK == IInv /\ [Next]_vars => IInv'
<1> SUFFICES ASSUME IInv, [Next]_vars PROVE IInv'
  OBVIOUS
<1>1. TypeOK'
  BY TypeStep DEF IInv
<1>2. ASSUME NEW p \in Pages, Drop(p) PROVE StaleForACause' /\ StaleReadsAreNoted'
  <2>1. /\ UNCHANGED <<version, reader, writer, late>>
        /\ \A q \in Pages \ {p} : cache'[q] = cache[q] /\ why'[q] = why[q]
        /\ cache'[p] = None
    BY <1>2 DEF Drop, IInv, TypeOK
  <2>2. StaleReadsAreNoted'
    BY <2>1 DEF IInv, StaleReadsAreNoted, Awaited
  <2>3. StaleForACause'
    BY <2>1 DEF IInv, StaleForACause, Stale, Awaited
  <2> QED BY <2>2, <2>3
<1>3. CASE UNCHANGED vars
  BY <1>3 DEF vars, IInv, StaleForACause, StaleReadsAreNoted, Stale, Awaited, TypeOK
<1>4. StaleForACause' /\ StaleReadsAreNoted'
  BY <1>2, <1>3, ReaderStep, WriterStep, CommitStep DEF Next, IInv, StaleForACause,
     StaleReadsAreNoted, Stale, Awaited
<1> QED BY <1>1, <1>4 DEF IInv

(* Every variable keeps its type, stored answers being complete. *)
THEOREM TypeCorrect == Spec => []TypeOK
<1>1. IInv => TypeOK
  BY DEF IInv
<1> QED BY InitOK, StepOK, <1>1, PTL DEF Spec

(* Among any readers and writers, a stored answer older than the committed *)
(* data is about to be evicted or there for one of the four causes.        *)
THEOREM StaleAnswersHaveACause == Spec => []StaleForACause
<1>1. IInv => StaleForACause
  BY DEF IInv
<1> QED BY InitOK, StepOK, <1>1, PTL DEF Spec

-----------------------------------------------------------------------------
(* What the safety of Converges rests on: staleness runs out.              *)

(* The readers that hold a reading of t older than the table.              *)
Behind(t) ==
  {r \in Readers : /\ reader[r] # None /\ t \in Shows(reader[r].page)
                   /\ reader[r].seen[t] # Unread
                   /\ reader[r].seen[t] < version[t]}

(* While a table is not edited nobody falls behind it, and a page becomes  *)
(* stale only by a reader that was behind and stores what it has read: it  *)
(* can do so once. Who misses after the edit reads what is there now.      *)
RunsOut(t) ==
  version'[t] = version[t] =>
    /\ Behind(t)' \subseteq Behind(t)
    /\ \A p \in Pages : Stale(p, t)' /\ ~Stale(p, t) => Behind(t)' # Behind(t)

LEMMA ReadersFallNotBehind ==
  ASSUME TypeOK, NEW r \in Readers, NEW t \in Tables,
         \/ \E p \in Pages : Miss(r, p)
         \/ \E u \in Tables : Read(r, u)
         \/ GiveUp(r)
  PROVE  RunsOut(t)
<1>t. reader \in [Readers -> Reading \cup {None}] /\ version \in [Tables -> Nat]
  BY DEF TypeOK
<1>o. /\ UNCHANGED <<version, cache>>
      /\ \A s \in Readers \ {r} : reader'[s] = reader[s]
  BY <1>t DEF Miss, Read, GiveUp
<1>p. \A p \in Pages : Stale(p, t)' <=> Stale(p, t)
  BY <1>o DEF Stale
<1>1. ASSUME NEW p \in Pages, Miss(r, p) PROVE r \notin Behind(t)'
  <2>1. reader'[r] = [page |-> p, seen |-> [u \in Tables |-> Unread]]
    BY <1>1, <1>t DEF Miss
  <2> QED BY <2>1 DEF Behind
<1>2. ASSUME NEW u \in Tables, Read(r, u) PROVE r \in Behind(t)' => r \in Behind(t)
  <2>1. reader[r] \in Reading /\ reader[r].seen \in Answer /\ reader[r] # None
    BY <1>2, RecordTypes DEF Read
  <2>2. /\ reader'[r].page = reader[r].page
        /\ reader'[r].seen = [reader[r].seen EXCEPT ![u] = version[u]]
    BY <1>2, <1>t, <2>1 DEF Read, Reading
  <2>3. CASE t = u
    <3>1. reader'[r].seen[t] = version[t]
      BY <2>1, <2>2, <2>3 DEF Answer
    <3> QED BY <1>o, <1>t, <3>1 DEF Behind
  <2>4. CASE t # u
    <3>1. reader'[r].seen[t] = reader[r].seen[t]
      BY <2>1, <2>2, <2>4 DEF Answer
    <3> QED BY <1>o, <2>1, <2>2, <3>1 DEF Behind
  <2> QED BY <2>3, <2>4
<1>3. ASSUME GiveUp(r) PROVE r \notin Behind(t)'
  BY <1>3, <1>t DEF GiveUp, Behind
<1>4. \A s \in Readers \ {r} : s \in Behind(t)' => s \in Behind(t)
  BY <1>o DEF Behind
<1>5. Behind(t)' \subseteq Behind(t)
  <2>1. \A s \in Behind(t)' : s \in Readers
    BY DEF Behind
  <2> QED BY <1>1, <1>2, <1>3, <1>4, <2>1
<1> QED BY <1>p, <1>5 DEF RunsOut

LEMMA StoringEndsReading ==
  ASSUME TypeOK, NEW r \in Readers, NEW t \in Tables, Store(r)
  PROVE  RunsOut(t)
<1>1. /\ reader[r].page \in Pages /\ reader[r] # None
      /\ \A s \in Readers \ {r} : reader'[s] = reader[s]
      /\ reader'[r] = None /\ version' = version
      /\ \A p \in Pages \ {reader[r].page} : cache'[p] = cache[p]
      /\ cache'[reader[r].page] = reader[r].seen
  BY RecordTypes DEF TypeOK, Store
<1>2. Behind(t)' = Behind(t) \ {r}
  BY <1>1 DEF Behind
<1>3. ASSUME NEW p \in Pages, Stale(p, t)', ~Stale(p, t) PROVE r \in Behind(t)
  <2>1. p = reader[r].page
    BY <1>1, <1>3 DEF Stale
  <2>2. t \in Shows(p) /\ reader[r].seen[t] < version[t]
    BY <1>1, <1>3, <2>1 DEF Stale
  <2>3. reader[r].seen[t] # Unread
    BY <2>1, <2>2 DEF Store, Unfinished
  <2> QED BY <1>1, <2>1, <2>2, <2>3 DEF Behind
<1> QED BY <1>2, <1>3 DEF RunsOut

LEMMA TheRestMakesNothingStale ==
  ASSUME TypeOK, NEW t \in Tables, reader' = reader, version'[t] = version[t],
         \A p \in Pages : cache'[p] \in {cache[p], None}
  PROVE  RunsOut(t)
<1>1. Behind(t)' = Behind(t)
  BY DEF Behind
<1>2. \A p \in Pages : Stale(p, t)' => Stale(p, t)
  BY DEF Stale
<1> QED BY <1>1, <1>2 DEF RunsOut

(* Staleness runs out: a table's edits are never undone, each of them      *)
(* leaves behind the readers that are under way and no others, and each of *)
(* these stores at most one stale answer. With the lifetimes of the stored *)
(* answers this is why stale ones are all gone in the end.                 *)
THEOREM StalenessRunsOut ==
  Spec => [][\A t \in Tables : version[t] <= version'[t] /\ RunsOut(t)]_vars
<1>1. IInv /\ [Next]_vars =>
        [\A t \in Tables : version[t] <= version'[t] /\ RunsOut(t)]_vars
  <2> SUFFICES ASSUME TypeOK, Next, NEW t \in Tables
               PROVE  version[t] <= version'[t] /\ RunsOut(t)
    BY DEF IInv
  <2>t. /\ version \in [Tables -> Nat] /\ cache \in [Pages -> Answer \cup {None}]
    BY DEF TypeOK
  <2>1. ASSUME NEW r \in Readers,
               \/ \E p \in Pages : Miss(r, p)
               \/ \E u \in Tables : Read(r, u)
               \/ GiveUp(r) \/ Store(r)
        PROVE  version[t] <= version'[t] /\ RunsOut(t)
    <3>1. version' = version
      BY <2>1 DEF Miss, Read, GiveUp, Store
    <3>2. RunsOut(t)
      BY <2>1, ReadersFallNotBehind, StoringEndsReading
    <3> QED BY <2>t, <3>1, <3>2
  <2>2. ASSUME NEW e \in Edits, NEW ts, Save(e, ts)
        PROVE  version[t] <= version'[t] /\ RunsOut(t)
    <3>1. /\ reader' = reader /\ cache' = cache
          /\ version'[t] = IF t \in ts THEN version[t] + 1 ELSE version[t]
      BY <2>2 DEF Save
    <3>2. version'[t] = version[t] => RunsOut(t)
      BY <3>1, TheRestMakesNothingStale
    <3> QED BY <2>t, <3>1, <3>2 DEF RunsOut
  <2>3. ASSUME NEW w \in Writers,
               (\E p \in Pages : Evict(w, p) \/ EvictFails(w, p)) \/ Abandon(w)
        PROVE  version[t] <= version'[t] /\ RunsOut(t)
    <3>1. UNCHANGED <<version, reader>> /\ \A p \in Pages : cache'[p] \in {cache[p], None}
      BY <2>3, <2>t DEF Evict, EvictFails, Abandon
    <3> QED BY <2>t, <3>1, TheRestMakesNothingStale
  <2>4. ASSUME NEW p \in Pages, Drop(p) PROVE version[t] <= version'[t] /\ RunsOut(t)
    <3>1. UNCHANGED <<version, reader>> /\ \A q \in Pages : cache'[q] \in {cache[q], None}
      BY <2>4, <2>t DEF Drop
    <3> QED BY <2>t, <3>1, TheRestMakesNothingStale
  <2>5. ASSUME NEW w \in Writers, NEW e \in Edits, NEW ts, EvictEarly(w, e, ts)
        PROVE  version[t] <= version'[t] /\ RunsOut(t)
    <3>1. UNCHANGED <<version, reader>> /\ \A p \in Pages : cache'[p] \in {cache[p], None}
      BY <2>5, <2>t DEF EvictEarly
    <3> QED BY <2>t, <3>1, TheRestMakesNothingStale
  <2> QED BY <2>1, <2>2, <2>3, <2>4, <2>5 DEF Next, Commit, CommitLast
<1> QED BY <1>1, InitOK, StepOK, PTL DEF Spec
=============================================================================
