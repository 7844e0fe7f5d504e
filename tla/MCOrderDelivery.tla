--------------------------- MODULE MCOrderDelivery ---------------------------
(***************************************************************************)
(* Instances of OrderDelivery for TLC.  Time does not pass in them: the    *)
(* runs of TuggerStore and TuggerClock are about late orders.              *)
(***************************************************************************)
EXTENDS OrderDelivery

NoneId == <<"none", 0>>
AllIds == Stations \X (1 .. LastStamp)
OwnBuckets == CHOOSE h \in [AllIds -> 0 .. TableSize - 1] :
                \A i, j \in AllIds : h[i] = h[j] => i = j
=============================================================================
