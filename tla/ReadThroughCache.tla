-------------------------- MODULE ReadThroughCache --------------------------
(***************************************************************************)
(* Cached answers and the edits that evict them: the decorators cached and *)
(* invalidate_cache of app/core/cache/decorators.py and the same steps     *)
(* written out in the property services, over any of the cache back ends.  *)
(*                                                                         *)
(* A page is a kind of cached answer, named for the prefix of its key; one *)
(* key of each is enough, since keys do not meet. What a page shows of a   *)
(* table is the number of committed edits the answer has seen. A hit       *)
(* changes nothing and is not a step. Pages that no edit evicts and edits  *)
(* of nothing that is cached (amenities, the data hub, owners) are left    *)
(* out; so are the edits that end with a flush and are rolled back.        *)
(***************************************************************************)
EXTENDS Integers

CONSTANTS Pages,      \* the kinds of answers that are asked for
          Edits,      \* the edits that are made, among the names in Edited
          Readers,    \* requests that compute an answer
          Writers,    \* requests and jobs that edit
          MaxEdits,   \* bound: edits of a table
          None

Tables == {"posts", "categories", "tags", "faqs", "versions", "properties"}

(* The tables whose rows are in an answer. *)
Shows(page) ==
  CASE page \in {"blog:post", "blog:posts"}  -> {"posts", "categories", "tags"}
    [] page = "blog:categories"              -> {"categories"}
    [] page = "blog:tags"                    -> {"tags"}
    [] page = "faqs:public"                  -> {"faqs"}
    [] page = "versions:check"               -> {"versions"}
    [] page \in {"properties", "property"}   -> {"properties"}
    [] OTHER                                 -> {}

(* What an edit commits: an edit of a post creates the categories and tags *)
(* it names when they are new.                                             *)
Edited(edit) ==
  CASE edit \in {"update_post", "publish_scheduled"}      -> {{"posts"}}
    [] edit = "update_post_names" -> {{"posts", "categories"}, {"posts", "tags"}}
    [] edit = "edit_category"                             -> {{"categories"}}
    [] edit = "edit_tag"                                  -> {{"tags"}}
    [] edit = "edit_faq"                                  -> {{"faqs"}}
    [] edit = "edit_version"                              -> {{"versions"}}
    [] edit \in {"create_property", "create_property_rest",
                 "update_property", "verify_images"}      -> {{"properties"}}
    [] OTHER                                              -> {}

(* The pages whose keys match the patterns the edit evicts when it has     *)
(* committed. blog:posts:* does not match the keys of single posts,        *)
(* blog:post:<hash>.                                                       *)
Evicts(edit) ==
  CASE edit \in {"update_post", "update_post_names"} -> {"blog:posts"}
    [] edit = "edit_category"                        -> {"blog:categories"}
    [] edit = "edit_tag"                             -> {"blog:tags"}
    [] edit = "edit_faq"                             -> {"faqs:public"}
    [] edit = "edit_version"                         -> {"versions:check"}
    [] edit = "update_property"                      -> {"properties", "property"}
    [] edit = "verify_images"                        -> {"properties"}
    [] OTHER                                         -> {}

(* A property created by a REST request with amenities or images: the      *)
(* service evicts, and the session commits at the end of the request.      *)
EvictsFirst(edit) == IF edit = "create_property_rest" THEN {"properties"} ELSE {}

Unread  == -1
Answer  == [Tables -> Nat \cup {Unread}]
Causes  == {"overtaken",   \* computed before an edit, stored after its eviction
            "failed",      \* the eviction did not happen
            "unlisted",    \* the edit does not evict the page
            "early"}       \* the edit evicted the page before it committed

VARIABLES version,   \* committed edits of each table
          cache,     \* the stored answer of each page
          reader,    \* the page a reader computes and what it has read
          writer,    \* what a writer has committed and has left to evict, or
                     \*   with nothing to evict what it has yet to commit
          late,      \* history: why a reader's answer will be stale
          why        \* history: why a stored answer may be stale

vars == <<version, cache, reader, writer, late, why>>

Reading == [page : Pages, seen : Answer]
Writing == [tables : SUBSET Tables, todo : SUBSET Pages]

ASSUME CacheAssumption == MaxEdits \in [Tables -> Nat] /\ None \notin Writing

Init == /\ version = [t \in Tables |-> 0]
        /\ cache = [p \in Pages |-> None]
        /\ reader = [r \in Readers |-> None]
        /\ writer = [w \in Writers |-> None]
        /\ late = [r \in Readers |-> {}]
        /\ why = [p \in Pages |-> {}]

-----------------------------------------------------------------------------
(* cached: no entry, or the back end did not answer. *)
Miss(r, p) ==
  /\ reader[r] = None
  /\ reader' = [reader EXCEPT ![r] = [page |-> p, seen |-> [t \in Tables |-> Unread]]]
  /\ UNCHANGED <<version, cache, writer, late, why>>

Unfinished(r) == {t \in Shows(reader[r].page) : reader[r].seen[t] = Unread}

(* One statement for each table: related rows are loaded by SELECTs of     *)
(* their own, each of which sees what is committed by then. They come in   *)
(* any order: a category or tag filter reads those tables before the posts. *)
Read(r, t) ==
  /\ reader[r] # None
  /\ t \in Unfinished(r)
  /\ reader' = [reader EXCEPT ![r].seen[t] = version[t]]
  /\ UNCHANGED <<version, cache, writer, late, why>>

(* Faulty variant: the answer is stored before it is complete.             *)
StoreEarly(r) ==
  /\ reader[r] # None
  /\ LET p == reader[r].page
     IN  /\ cache' = [cache EXCEPT ![p] = reader[r].seen]
         /\ why' = [why EXCEPT ![p] = late[r]]
  /\ reader' = [reader EXCEPT ![r] = None]
  /\ late' = [late EXCEPT ![r] = {}]
  /\ UNCHANGED <<version, writer>>

Store(r) ==
  /\ reader[r] # None
  /\ Unfinished(r) = {}
  /\ LET p == reader[r].page
     IN  /\ cache' = [cache EXCEPT ![p] = reader[r].seen]
         /\ why' = [why EXCEPT ![p] = late[r]]
  /\ reader' = [reader EXCEPT ![r] = None]
  /\ late' = [late EXCEPT ![r] = {}]
  /\ UNCHANGED <<version, writer>>

(* The function raised or returned None, the entry was too large, or the   *)
(* back end refused it.                                                    *)
GiveUp(r) ==
  /\ reader[r] # None
  /\ reader' = [reader EXCEPT ![r] = None]
  /\ late' = [late EXCEPT ![r] = {}]
  /\ UNCHANGED <<version, cache, writer, why>>

-----------------------------------------------------------------------------
HasRead(r, p, ts) == /\ reader[r] # None /\ reader[r].page = p
                     /\ \E t \in ts \cap Shows(p) : reader[r].seen[t] # Unread

Left(ts, ps) == IF ps = {} THEN None ELSE [tables |-> ts, todo |-> ps]

(* The edit becomes visible; the pages it will not evict show it only by   *)
(* chance.                                                                 *)
Save(e, ts) ==
  LET missed   == {p \in Pages \ Evicts(e) : Shows(p) \cap ts # {}}
      cause(p) == IF p \in EvictsFirst(e) THEN "early" ELSE "unlisted"
  IN  /\ \A t \in ts : version[t] < MaxEdits[t]
      /\ version' = [t \in Tables |-> IF t \in ts THEN version[t] + 1 ELSE version[t]]
      /\ why' = [p \in Pages |-> IF p \in missed /\ cache[p] # None
                                   THEN why[p] \cup {cause(p)} ELSE why[p]]
      /\ late' = [r \in Readers |->
                    late[r] \cup {cause(p) : p \in {q \in missed : HasRead(r, q, ts)}}]
      /\ UNCHANGED <<cache, reader>>

Commit(w, e, ts) ==
  /\ writer[w] = None
  /\ EvictsFirst(e) = {}
  /\ Save(e, ts)
  /\ writer' = [writer EXCEPT ![w] = Left(ts, Evicts(e) \cap Pages)]

(* The eviction before the commit, which may fail as any other.            *)
EvictEarly(w, e, ts) ==
  /\ writer[w] = None
  /\ EvictsFirst(e) # {}
  /\ writer' = [writer EXCEPT ![w] = [tables |-> ts, todo |-> {}]]
  /\ \/ /\ cache' = [p \in Pages |-> IF p \in EvictsFirst(e) THEN None ELSE cache[p]]
        /\ why' = [p \in Pages |-> IF p \in EvictsFirst(e) THEN {} ELSE why[p]]
     \/ UNCHANGED <<cache, why>>
  /\ UNCHANGED <<version, reader, late>>

CommitLast(w, e) ==
  /\ writer[w] # None /\ writer[w].todo = {}
  /\ EvictsFirst(e) # {} /\ writer[w].tables \in Edited(e)
  /\ Save(e, writer[w].tables)
  /\ writer' = [writer EXCEPT ![w] = None]

(* Readers of the page that read before the edit and store after this.     *)
Overtake(ps, ts) ==
  late' = [r \in Readers |->
             IF \E p \in ps : /\ HasRead(r, p, ts)
                              /\ \E t \in ts \cap Shows(p) :
                                   /\ reader[r].seen[t] # Unread
                                   /\ reader[r].seen[t] < version[t]
               THEN late[r] \cup {"overtaken"} ELSE late[r]]

(* The property tools evict the lists before the single property.          *)
IsNext(w, p) == /\ writer[w] # None
                /\ p \in writer[w].todo
                /\ p = "property" => "properties" \notin writer[w].todo

(* Faulty variant: the pattern lacks the prefix the keys were stored with. *)
EvictUnprefixed(w, p) ==
  /\ IsNext(w, p)
  /\ writer' = [writer EXCEPT ![w] = Left(@.tables, @.todo \ {p})]
  /\ Overtake({p}, writer[w].tables)
  /\ UNCHANGED <<version, reader, cache, why>>

(* delete_pattern, after the commit: one pattern after the other. *)
Evict(w, p) ==
  /\ IsNext(w, p)
  /\ writer' = [writer EXCEPT ![w] = Left(@.tables, @.todo \ {p})]
  /\ Overtake({p}, writer[w].tables)
  /\ cache' = [cache EXCEPT ![p] = None]
  /\ why' = [why EXCEPT ![p] = {}]
  /\ UNCHANGED <<version, reader>>

(* The back end fails, which delete_pattern answers with 0, and the next   *)
(* pattern is tried all the same.                                          *)
EvictFails(w, p) ==
  /\ IsNext(w, p)
  /\ writer' = [writer EXCEPT ![w] = Left(@.tables, @.todo \ {p})]
  /\ Overtake({p}, writer[w].tables)
  /\ why' = [why EXCEPT ![p] = IF cache[p] # None THEN @ \cup {"failed"} ELSE @]
  /\ UNCHANGED <<version, cache, reader>>

(* The request is cancelled or cut off by the end of the process; when it  *)
(* has not committed it is rolled back.                                    *)
Abandon(w) ==
  /\ writer[w] # None
  /\ LET rest == writer[w].todo
     IN  /\ Overtake(rest, writer[w].tables)
         /\ why' = [p \in Pages |-> IF p \in rest /\ cache[p] # None
                                      THEN why[p] \cup {"failed"} ELSE why[p]]
  /\ writer' = [writer EXCEPT ![w] = None]
  /\ UNCHANGED <<version, cache, reader>>

(* Faulty variant: an entry leaves only to make room for another page.     *)
DropWhenFull(p) ==
  /\ cache[p] # None
  /\ \A q \in Pages : cache[q] # None
  /\ cache' = [cache EXCEPT ![p] = None]
  /\ why' = [why EXCEPT ![p] = {}]
  /\ UNCHANGED <<version, reader, writer, late>>

(* The entry expires, is the least recently used of a full cache, or is    *)
(* gone with the process that held it.                                     *)
Drop(p) ==
  /\ cache[p] # None
  /\ cache' = [cache EXCEPT ![p] = None]
  /\ why' = [why EXCEPT ![p] = {}]
  /\ UNCHANGED <<version, reader, writer, late>>

Next == \/ \E r \in Readers : \/ \E p \in Pages : Miss(r, p)
                              \/ \E t \in Tables : Read(r, t)
                              \/ Store(r) \/ GiveUp(r)
        \/ \E w \in Writers : \/ \E e \in Edits : \E ts \in Edited(e) :
                                   Commit(w, e, ts) \/ EvictEarly(w, e, ts)
                              \/ \E e \in Edits : CommitLast(w, e)
                              \/ \E p \in Pages : Evict(w, p) \/ EvictFails(w, p)
                              \/ Abandon(w)
        \/ \E p \in Pages : Drop(p)

(* Every entry is stored with a lifetime, and time passes. *)
Spec == Init /\ [][Next]_vars /\ \A p \in Pages : WF_vars(Drop(p))

-----------------------------------------------------------------------------
TypeOK == /\ version \in [Tables -> Nat]
          /\ cache \in [Pages -> Answer \cup {None}]
          /\ \A p \in Pages, t \in Tables :
               cache[p] # None /\ t \in Shows(p) => cache[p][t] # Unread
          /\ reader \in [Readers -> Reading \cup {None}]
          /\ writer \in [Writers -> Writing \cup {None}]
          /\ late \in [Readers -> SUBSET Causes]
          /\ why \in [Pages -> SUBSET Causes]

Stale(p, t) == cache[p] # None /\ t \in Shows(p) /\ cache[p][t] < version[t]

(* A writer that edited the table has yet to evict the page. *)
Awaited(p, t) == \E w \in Writers : /\ writer[w] # None
                                    /\ t \in writer[w].tables /\ p \in writer[w].todo

(* An answer older than the data is about to be evicted, or is there for   *)
(* one of four causes: an eviction that failed, an edit that does not      *)
(* evict the page or did so before it committed, or a computation that an  *)
(* edit and its eviction overtook.                                         *)
StaleForACause ==
  \A p \in Pages, t \in Tables : Stale(p, t) => why[p] # {} \/ Awaited(p, t)

(* Whatever the cause, once edits have ceased no stale answer stays.       *)
Converges == <>[](\A p \in Pages, t \in Tables : ~Stale(p, t))
=============================================================================
