----------------------------- MODULE OrderLedger -----------------------------
(***************************************************************************)
(* What the line stores and the tugger promise together about an order: it *)
(* is placed once; the tugger takes placed orders only, and an order       *)
(* leaves the tugger only by being served; a line is told "Received" only  *)
(* of an order the tugger has, or has served.  The tugger may take an      *)
(* order again that it has served, if the line asks for it again.          *)
(***************************************************************************)
CONSTANT Ids

VARIABLES placed, taken, done, told

ledger == <<placed, taken, done, told>>

Init == placed = {} /\ taken = {} /\ done = {} /\ told = {}

Place(id) == /\ id \notin placed
             /\ placed' = placed \cup {id}
             /\ UNCHANGED <<taken, done, told>>

Take(id)  == /\ id \in placed \ taken
             /\ taken' = taken \cup {id}
             /\ UNCHANGED <<placed, done, told>>

Serve(id) == /\ id \in taken
             /\ taken' = taken \ {id}
             /\ done' = done \cup {id}
             /\ UNCHANGED <<placed, told>>

Tell(id)  == /\ id \in taken \cup done
             /\ told' = told \cup {id}
             /\ UNCHANGED <<placed, taken, done>>

Next == \E id \in Ids : Place(id) \/ Take(id) \/ Serve(id) \/ Tell(id)

Spec == Init /\ [][Next]_ledger
=============================================================================
