----------------------------- MODULE ProbeTable -----------------------------
(***************************************************************************)
(* The duplicate index of the tugger (sketch_nov19a.ino): a linear-probing *)
(* table of pointers into the order ring.  A bucket holds Null or the      *)
(* number of a ring slot, and a probe compares the wanted order id with    *)
(* the id that the slot holds NOW: idAt[s].  The table never stores an id  *)
(* of its own, and removal leaves no tombstone.                            *)
(***************************************************************************)
EXTENDS Integers, FiniteSets

CONSTANTS Ids,        \* order ids
          TableSize,  \* HASH_TABLE_SIZE
          Hash        \* hashString: the home bucket of each id

ASSUME ProbeTableAssumption ==
  /\ TableSize \in Nat \ {0}
  /\ Hash \in [Ids -> 0 .. TableSize - 1]

Buckets == 0 .. TableSize - 1
Null == -1

EmptyTable == [b \in Buckets |-> Null]

\* The bucket the k-th probe for id looks at.
Probe(id, k) == (Hash[id] + k) % TableSize

\* The k-th probe for id ends the search: the bucket is empty or is id's.
Stops(table, idAt, id, k) ==
  LET s == table[Probe(id, k)] IN s = Null \/ idAt[s] = id

\* No earlier probe for id ends the search before the k-th does.
FirstStop(table, idAt, id, k) ==
  /\ Stops(table, idAt, id, k)
  /\ \A j \in Buckets : Stops(table, idAt, id, j) => k <= j

\* The walk finds a bucket whose slot holds id (the duplicate test).
Exists(table, idAt, id) ==
  \E k \in Buckets : /\ FirstStop(table, idAt, id, k)
                     /\ table[Probe(id, k)] # Null

\* addToHashTable: fill the first empty bucket of the walk; a walk that
\* finds the id, or comes back to its start, changes nothing.
AddToTable(table, idAt, id, slot) ==
  [b \in Buckets |->
     IF /\ table[b] = Null
        /\ \E k \in Buckets : b = Probe(id, k) /\ FirstStop(table, idAt, id, k)
     THEN slot ELSE table[b]]

\* Mutant: a served order stays in the index.
RemoveNothing(table, idAt, id) == table

\* removeFromHashTable: empty the bucket at which the walk finds the id.
RemoveFromTable(table, idAt, id) ==
  [b \in Buckets |->
     IF \E k \in Buckets : b = Probe(id, k) /\ FirstStop(table, idAt, id, k)
     THEN Null ELSE table[b]]
=============================================================================
