---------------------------- MODULE MCTuggerClock ----------------------------
(***************************************************************************)
(* Instances of TuggerClock for TLC.                                       *)
(***************************************************************************)
EXTENDS TuggerClock

OwnBuckets == [id \in Ids |-> IF id = "a" THEN 0 ELSE 1]
=============================================================================
