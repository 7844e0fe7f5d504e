----------------------------- MODULE OrderQueue -----------------------------
(***************************************************************************)
(* What the tugger promises its line stores and its driver: a bounded      *)
(* first-in-first-out queue that holds each order at most once.  Power     *)
(* failures, saving and loading do not show: they are stuttering steps.    *)
(***************************************************************************)
EXTENDS Naturals, Sequences

CONSTANTS Ids, Capacity

VARIABLE queue   \* the orders, oldest first, each with its "late" mark

Holds(id) == \E k \in DOMAIN queue : queue[k].id = id

Init == queue = <<>>

Accept(id) ==
  /\ Len(queue) < Capacity
  /\ ~Holds(id)
  /\ queue' = Append(queue, [id |-> id, late |-> FALSE])

MarkLate(k) ==
  /\ ~queue[k].late
  /\ queue' = [queue EXCEPT ![k].late = TRUE]

Serve ==
  /\ queue # <<>>
  /\ queue' = Tail(queue)

Next == \/ \E id \in Ids : Accept(id)
        \/ \E k \in DOMAIN queue : MarkLate(k)
        \/ Serve

Spec == Init /\ [][Next]_queue
=============================================================================
