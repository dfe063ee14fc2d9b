----------------------------- MODULE VectorSync -----------------------------
(***************************************************************************)
(* The incremental sync that gives the properties their embeddings:        *)
(* run_property_vector_sync in app/vector/sync.py over the statements of   *)
(* app/vector/store.py. A pass reads the properties changed since the      *)
(* watermark under an advisory lock, releases lock and session, asks the   *)
(* embedding service for the texts whose hash is new, and then writes the  *)
(* batch in one transaction and the watermark in the next.                 *)
(*                                                                         *)
(* Properties are edited meanwhile. now() is the start of a transaction,   *)
(* so an edit can be committed with a stamp older than one already read.   *)
(* A text stands for itself, its SHA-256 and its vector. Amenities are     *)
(* part of the text, but editing them alone stamps no property. A pass     *)
(* with VECTOR_SYNC_FORCE, which takes no lock, is left out.               *)
(***************************************************************************)
EXTENDS Integers, FiniteSets

CONSTANTS Props,
          Texts,      \* what build_embedding_text can make of a property
          Workers,    \* processes that run passes: the scheduler's job is
                      \*   limited to one pass per process, the backfill adds one
          Writers,    \* transactions that edit properties
          BatchSize,  \* VECTOR_SYNC_BATCH_SIZE
          MaxTime,    \* bound: values of the clock
          Tables,     \* the contents properties may have before the first pass
          None        \* no row, no vector, no open transaction

Null  == 0           \* a timestamp that is not set
Times == Null..MaxTime
Free  == "free"      \* no session holds the advisory lock

Row    == [text : Texts \cup {None}, created : Times, updated : Times]
Stored == [hash : Texts \cup {None}, vector : Texts \cup {None}]
Edit   == [prop : Props, text : Texts, stamp : Times]

(* What a pass keeps between its phases: the rows it fetched and their     *)
(* order, the texts, which of them have been compared with the stored hash *)
(* and which differ, and the newest timestamp among the rows.              *)
Batch  == [ids : SUBSET Props, place : [Props -> Nat],
           text : [Props -> Texts \cup {None}],
           compared : SUBSET Props, need : SUBSET Props, newest : Times]

ASSUME VectorAssumption == /\ IsFiniteSet(Props)
                           /\ BatchSize \in Nat \ {0}
                           /\ MaxTime \in Nat
                           /\ Tables \subseteq [Props -> Row]
                           /\ \A t \in Tables, p \in Props :
                                t[p].text # None => t[p].created # Null
                           /\ None \notin Texts
                           /\ Free \notin Workers

VARIABLES now,        \* when the last transaction started
          row,        \* properties, as committed
          edit,       \* the open transaction of each writer
          stored,     \* property_embeddings, as committed
          watermark,  \* vector_sync_state.last_watermark
          lock,       \* the worker whose session holds the advisory lock
          phase,      \* where the worker's pass is
          batch,
          slipped,    \* history: properties left behind, see Slips below
          crossed     \* history: properties whose hash was written back by a
                      \*   pass after another had stored a different text

table   == <<now, row, edit>>
history == <<slipped, crossed>>
vars    == <<table, stored, watermark, lock, phase, batch, history>>

Phases == {"idle", "fetched", "prepared", "embedded", "upserted"}

Exists(p) == row[p].text # None
Stamp(r)  == IF r.updated # Null THEN r.updated ELSE r.created

NoBatch == [ids |-> {}, place |-> [p \in Props |-> 0],
            text |-> [p \in Props |-> None],
            compared |-> {}, need |-> {}, newest |-> Null]

Init == /\ row \in Tables
        /\ now \in Times
        /\ \A p \in Props : Stamp(row[p]) <= now
        /\ \E p \in Props : Stamp(row[p]) = now
        /\ edit = [w \in Writers |-> None]
        /\ stored = [p \in Props |-> [hash |-> None, vector |-> None]]
        /\ watermark = Null
        /\ lock = Free
        /\ phase = [i \in Workers |-> "idle"]
        /\ batch = [i \in Workers |-> NoBatch]
        /\ slipped = {} /\ crossed = {}

-----------------------------------------------------------------------------
(* Where a property can be left behind: its stamp is one that no pass will *)
(* look for again, or a pass in flight is about to make it one.            *)
Passed(t) == \/ t <= watermark
             \/ \E i \in Workers : phase[i] # "idle" /\ t <= batch[i].newest

(* A property slips when the edit is committed after a later stamp was     *)
(* read, when the limit cuts it off a batch that reaches beyond its stamp, *)
(* or when a pass stores an older text over it.                            *)
Slips(ps, recovered) ==
  slipped' = (slipped \ recovered) \cup {p \in ps : Passed(Stamp(row'[p]))}

-----------------------------------------------------------------------------
(* The writers: create_property, update_property_fields and                *)
(* toggle_property_availability of the tools; the last one may leave the   *)
(* text as it is, and the trigger stamps the row all the same.             *)
BeingCreated(p) == \E w \in Writers : edit[w] # None /\ edit[w].prop = p

(* Faulty variant: the stamp is taken after the clock has moved on.        *)
BeginLate(w, p, x) ==
  /\ edit[w] = None
  /\ now < MaxTime
  /\ Exists(p) \/ ~BeingCreated(p)
  /\ now' = now + 1
  /\ edit' = [edit EXCEPT ![w] = [prop |-> p, text |-> x, stamp |-> now' + 1]]
  /\ UNCHANGED <<row, stored, watermark, lock, phase, batch, history>>

Begin(w, p, x) ==
  /\ edit[w] = None
  /\ now < MaxTime
  /\ Exists(p) \/ ~BeingCreated(p)
  /\ now' = now + 1
  /\ edit' = [edit EXCEPT ![w] = [prop |-> p, text |-> x, stamp |-> now']]
  /\ UNCHANGED <<row, stored, watermark, lock, phase, batch, history>>

Written(r, e) == IF r.text = None
                   THEN [text |-> e.text, created |-> e.stamp, updated |-> Null]
                   ELSE [r EXCEPT !.text = e.text, !.updated = e.stamp]

Commit(w) ==
  /\ edit[w] # None
  /\ LET p == edit[w].prop
     IN  /\ row' = [row EXCEPT ![p] = Written(@, edit[w])]
         /\ Slips({p}, {p})
  /\ edit' = [edit EXCEPT ![w] = None]
  /\ UNCHANGED <<now, stored, watermark, lock, phase, batch, crossed>>

-----------------------------------------------------------------------------
(* _fetch_changed_properties *)
Changed == {p \in Props : /\ Exists(p)
                          /\ watermark = Null \/ Stamp(row[p]) > watermark}

(* ORDER BY updated_at ASC NULLS LAST: rows never updated come last.       *)
Before(r, s) == r.updated # Null /\ (s.updated = Null \/ r.updated < s.updated)

Orders(ps) == {o \in [ps -> 1..Cardinality(ps)] :
                 /\ \A n \in 1..Cardinality(ps) : \E p \in ps : o[p] = n
                 /\ \A p, q \in ps : /\ p # q => o[p] # o[q]
                                     /\ Before(row[p], row[q]) => o[p] < o[q]}

(* Phase 1, with the lock: one statement reads the watermark, the next the *)
(* batch; nothing between them changes what either sees. A pass that does  *)
(* not get the lock, or finds nothing changed, leaves everything as it is. *)
Fetch(i) ==
  /\ phase[i] = "idle" /\ lock = Free
  /\ Changed # {}
  /\ \E o \in Orders(Changed) :
       LET ids == {p \in Changed : o[p] <= BatchSize}
       IN  \E n \in {Stamp(row[p]) : p \in ids} :
             /\ \A p \in ids : Stamp(row[p]) <= n
             /\ batch' = [batch EXCEPT ![i] =
                  [ids |-> ids, place |-> [p \in Props |-> IF p \in ids THEN o[p] ELSE 0],
                   text |-> [p \in Props |-> row[p].text],
                   compared |-> {}, need |-> {}, newest |-> n]]
             /\ slipped' = slipped \cup {p \in Changed \ ids : Stamp(row[p]) <= n}
  /\ lock' = i
  /\ phase' = [phase EXCEPT ![i] = "fetched"]
  /\ UNCHANGED <<table, stored, watermark, crossed>>

(* _prepare_batch: one statement per property, in the order of the batch.  *)
Compare(i, p) ==
  LET b == batch[i]
  IN  /\ phase[i] = "fetched"
      /\ p \in b.ids \ b.compared
      /\ \A q \in b.ids \ b.compared : b.place[p] <= b.place[q]
      /\ batch' = [batch EXCEPT
           ![i].compared = @ \cup {p},
           ![i].need = IF stored[p].hash # b.text[p] THEN @ \cup {p} ELSE @]
      /\ UNCHANGED <<table, stored, watermark, lock, phase, history>>

Release(i) ==
  /\ phase[i] = "fetched" /\ batch[i].compared = batch[i].ids
  /\ lock' = Free
  /\ phase' = [phase EXCEPT ![i] = "prepared"]
  /\ UNCHANGED <<table, stored, watermark, batch, history>>

(* Phase 2, without a session: one vector for every text that is needed.   *)
Embed(i) ==
  /\ phase[i] = "prepared"
  /\ phase' = [phase EXCEPT ![i] = "embedded"]
  /\ UNCHANGED <<table, stored, watermark, lock, batch, history>>

(* full_vectors has an entry for every row of the batch, [] for a row that *)
(* needed none; _upsert_batch takes the next entry only for a row that     *)
(* needs one. pgvector refuses [].                                         *)
FullVectors(b, k) == LET p == CHOOSE p \in b.ids : b.place[p] = k
                     IN  IF p \in b.need THEN b.text[p] ELSE None
Taken(b, p) == FullVectors(b, Cardinality({q \in b.need : b.place[q] <= b.place[p]}))

(* Faulty variant: the hash is taken from the row as it is by now.         *)
UpsertRereads(i) ==
  LET b == batch[i]
  IN  /\ phase[i] = "embedded"
      /\ \A p \in b.need : Taken(b, p) # None
      /\ stored' = [p \in Props |->
           IF p \in b.ids
             THEN [hash |-> row[p].text,
                   vector |-> IF p \in b.need THEN Taken(b, p) ELSE stored[p].vector]
             ELSE stored[p]]
      /\ UNCHANGED table
      /\ Slips({p \in b.ids : b.text[p] # row[p].text},
               {p \in b.ids : b.text[p] = row[p].text})
      /\ crossed' = (crossed \ b.need) \cup
                    {p \in b.ids \ b.need : stored[p].hash # b.text[p]}
      /\ phase' = [phase EXCEPT ![i] = "upserted"]
      /\ UNCHANGED <<watermark, lock, batch>>

(* Phase 3, first transaction. A row that needs no vector gets the hash it *)
(* had when it was compared, and keeps whatever vector it has by now.      *)
Upsert(i) ==
  LET b == batch[i]
  IN  /\ phase[i] = "embedded"
      /\ \A p \in b.need : Taken(b, p) # None
      /\ stored' = [p \in Props |->
           IF p \in b.ids
             THEN [hash |-> b.text[p],
                   vector |-> IF p \in b.need THEN Taken(b, p) ELSE stored[p].vector]
             ELSE stored[p]]
      /\ UNCHANGED table
      /\ Slips({p \in b.ids : b.text[p] # row[p].text},
               {p \in b.ids : b.text[p] = row[p].text})
      /\ crossed' = (crossed \ b.need) \cup
                    {p \in b.ids \ b.need : stored[p].hash # b.text[p]}
      /\ phase' = [phase EXCEPT ![i] = "upserted"]
      /\ UNCHANGED <<watermark, lock, batch>>

(* Faulty variant: the watermark becomes the time of the pass.             *)
AdvanceToNow(i) ==
  /\ phase[i] = "upserted"
  /\ watermark' = now
  /\ phase' = [phase EXCEPT ![i] = "idle"]
  /\ batch' = [batch EXCEPT ![i] = NoBatch]
  /\ UNCHANGED <<table, stored, lock, history>>

(* Phase 3, second transaction. *)
Advance(i) ==
  /\ phase[i] = "upserted"
  /\ watermark' = batch[i].newest
  /\ phase' = [phase EXCEPT ![i] = "idle"]
  /\ batch' = [batch EXCEPT ![i] = NoBatch]
  /\ UNCHANGED <<table, stored, lock, history>>

(* An exception of the database or of the embedding service, a refused     *)
(* vector, or the end of the process: the open transaction is rolled back, *)
(* the lock released, and the next pass starts anew.                       *)
Fail(i) ==
  /\ phase[i] # "idle"
  /\ lock' = IF lock = i THEN Free ELSE lock
  /\ phase' = [phase EXCEPT ![i] = "idle"]
  /\ batch' = [batch EXCEPT ![i] = NoBatch]
  /\ UNCHANGED <<table, stored, watermark, history>>

Next == \/ \E w \in Writers : \/ \E p \in Props, x \in Texts : Begin(w, p, x)
                              \/ Commit(w)
        \/ \E i \in Workers : \/ Fetch(i) \/ Release(i) \/ Embed(i)
                              \/ \E p \in Props : Compare(i, p)
                              \/ Upsert(i) \/ Advance(i) \/ Fail(i)

Spec == Init /\ [][Next]_vars

-----------------------------------------------------------------------------
TypeOK == /\ now \in Times
          /\ row \in [Props -> Row]
          /\ edit \in [Writers -> Edit \cup {None}]
          /\ stored \in [Props -> Stored]
          /\ watermark \in Times
          /\ lock \in Workers \cup {Free}
          /\ phase \in [Workers -> Phases]
          /\ batch \in [Workers -> Batch]
          /\ slipped \subseteq Props /\ crossed \subseteq Props

(* A property the watermark has passed has its present text embedded,      *)
(* unless it slipped in one of the three ways Slips names: whatever the    *)
(* order of passes, edits, failures and a watermark that moves back.       *)
BehindTheWatermark ==
  \A p \in Props \ slipped :
    Exists(p) /\ Stamp(row[p]) <= watermark => stored[p].hash = row[p].text

(* The vector stored for a property is that of the text whose hash is      *)
(* stored with it, unless a pass wrote a hash back over another pass.      *)
VectorOfTheHash == \A p \in Props \ crossed : stored[p].vector = stored[p].hash
=============================================================================
