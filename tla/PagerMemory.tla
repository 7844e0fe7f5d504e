----------------------------- MODULE PagerMemory -----------------------------
(***************************************************************************)
(* Pagers that hear any packet at any time, and what should be remembered  *)
(* of the orders that left their lists.  The orders a line station makes   *)
(* itself touch none of this and are left to Mesh.                         *)
(***************************************************************************)
EXTENDS MeshPager

CONSTANT HeardZones   \* the zones of the packets on the air

ASSUME PagerMemoryAssumption == HeardZones \subseteq PagerZones \cup {0}

VARIABLES heard,   \* history: the orders heard of since the last restart
          taken,   \* history: the orders listed since the last restart
          cleared, \* history: the orders cleared, and not listed anew since
          unsaved  \* history: has an order expired since the last save?

memory == <<heard, taken, cleared, unsaved>>

MemoryInit ==
  /\ \E modes \in [Nodes -> Modes], zones \in [Nodes -> PagerZones] :
       PagerInit(modes, zones)
  /\ heard = [n \in Nodes |-> {}]
  /\ taken = [n \in Nodes |-> {}]
  /\ cleared = [n \in Nodes |-> {}]
  /\ unsaved = [n \in Nodes |-> FALSE]

\* The packets on the air.  What matters of the hop count is whether it is
\* spent, and only an order's zone is looked at.
Heard == {p \in Packets : /\ p.zone \in HeardZones
                          /\ p.zone # 0 \/ p.type = "order"
                          /\ p.hop \in {0, MaxHops}
                          /\ p.type = "boot" <=> p.id = 0}

MemoryStep(n) ==
  \/ \E p \in Heard :
       /\ Process(n, p)
       /\ LET new == IdsOf(orders'[n]) \ IdsOf(orders[n]) IN
            /\ taken' = [taken EXCEPT ![n] = @ \cup new]
            /\ cleared' = [cleared EXCEPT ![n] = @ \ new]
            /\ unsaved' = [unsaved EXCEPT ![n] = @ /\ new = {}]
       /\ heard' = [heard EXCEPT ![n] = @ \cup ({p.id} \ {0})]
  \/ /\ ClearSelected(n)
     /\ cleared' = [cleared EXCEPT ![n] = @ \cup {orders[n][sel[n] + 1].id}]
     /\ unsaved' = [unsaved EXCEPT ![n] = FALSE]
     /\ UNCHANGED <<heard, taken>>
  \/ /\ AckSelected(n)
     /\ unsaved' = [unsaved EXCEPT ![n] = FALSE]
     /\ UNCHANGED <<heard, taken, cleared>>
  \/ /\ Cleanup(n)
     /\ unsaved' = [unsaved EXCEPT ![n] = @ \/ orders'[n] # orders[n]]
     /\ UNCHANGED <<heard, taken, cleared>>
  \/ /\ \/ \E m \in Modes : SwitchMode(n, m)
        \/ \E up \in BOOLEAN : Select(n, up)
        \/ SendBoot(n) \/ Tick(n)
     /\ UNCHANGED memory

MemoryRestart(n) ==
  /\ Restart(n) \/ \E m \in Modes, z \in PagerZones : Configure(n, m, z)
  /\ heard' = [heard EXCEPT ![n] = {}]
  /\ taken' = [taken EXCEPT ![n] = {}]
  /\ unsaved' = [unsaved EXCEPT ![n] = FALSE]
  /\ UNCHANGED cleared

MemoryNext == \E n \in Nodes : MemoryStep(n) \/ MemoryRestart(n)

MemorySpec == MemoryInit /\ [][MemoryNext]_<<pagerVars, memory>>

-----------------------------------------------------------------------------
Distinct(list) == \A j, k \in DOMAIN list : list[j].id = list[k].id => j = k

\* No order is listed twice, in RAM or by the next restart, although its
\* packet may be heard again after the seen packets were forgotten.
ListsDistinct ==
  \A n \in Nodes : Distinct(orders[n]) /\ Distinct(Restored(box[n]))

\* The orders at the beginning of the list are restored by the next restart,
\* after any mix of taking, clearing, accepting, switching and restarting,
\* except between an expiry, which is not saved, and the next save.
BoxHasList ==
  \A n \in Nodes :
    LET first == {orders[n][k].id : k \in 1 .. Min({Len(orders[n]), BoxSize})}
    IN unsaved[n] \/ first \subseteq IdsOf(Restored(box[n]))

\* The black box never holds an order the driver has cleared.
BoxForgetsCleared ==
  \A n \in Nodes : cleared[n] \cap IdsOf(Restored(box[n])) = {}

\* A late copy of its packet does not bring back an order that was cleared,
\* expired or dropped by a mode switch: while a pager is up it lists an order
\* a second time only if it has heard of more orders than it can remember.
ListedOncePerBoot ==
  [][\A n \in Nodes :
       (IdsOf(orders'[n]) \ IdsOf(orders[n])) \cap taken[n] # {} /\ taken'[n] # {}
         => Cardinality(heard'[n]) > SeenSize
    ]_<<pagerVars, memory>>
=============================================================================
