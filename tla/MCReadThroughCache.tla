------------------------- MODULE MCReadThroughCache -------------------------
(* An instance of ReadThroughCache for TLC: a list of posts, read table by *)
(* table, and a list of properties, each with an edit that evicts the page *)
(* and one that does not; a property is also created by an edit that       *)
(* evicts first.                                                           *)
EXTENDS ReadThroughCache

CONSTANTS r1, r2, w1, w2

MCReaders  == {r1, r2}
MCWriters  == {w1, w2}
MCPages    == {"blog:posts", "properties"}
MCEdits    == {"update_post", "edit_category", "update_property",
               "create_property", "create_property_rest"}
MCMaxEdits == [t \in Tables |->
                IF t \in {"posts", "categories", "properties"} THEN 1 ELSE 0]
=============================================================================
