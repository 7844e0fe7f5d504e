--------------------------- MODULE MCTuggerStore ---------------------------
(***************************************************************************)
(* Instances of TuggerStore for TLC.                                       *)
(***************************************************************************)
EXTENDS TuggerStore

\* Four buckets.  Own buckets: every id has a home of its own.  Shared: a and
\* b collide, and c's home is the bucket their chain runs into.
OwnBuckets == [id \in Ids |-> CASE id = "a" -> 3 [] id = "b" -> 0 [] OTHER -> 1]
SharedBuckets == [id \in Ids |-> IF id = "c" THEN 0 ELSE 3]
=============================================================================
