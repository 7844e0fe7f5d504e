------------------------------ MODULE MemoryProofs ------------------------------
(***************************************************************************)
(* Proofs about PagerMemory for every set of pagers and every size of      *)
(* list, black box and memory of packets, hearing any packets in any       *)
(* order: the types, what the black box holds, and that no order is listed *)
(* anew while a pager can still remember it.                               *)
(***************************************************************************)
EXTENDS PagerMemory, PagerProofs

HistoryTyped ==
  /\ heard \in [Nodes -> SUBSET Ids] /\ taken \in [Nodes -> SUBSET Ids]
  /\ cleared \in [Nodes -> SUBSET Ids] /\ unsaved \in [Nodes -> BOOLEAN]

\* The slots that a restart reads were written.
BoxFilled ==
  \A n \in Nodes : \A k \in 1 .. BoxSize : k <= box[n].cnt => box[n].slot[k] # <<>>

NodeTyped == PagerTyped /\ BoxFilled

-----------------------------------------------------------------------------
(* The black box. *)

LEMMA MinOfTwo ==
  ASSUME NEW a \in Int, NEW b \in Int
  PROVE  Min({a, b}) = IF a <= b THEN a ELSE b
<1>1. CASE a <= b
  <2>1. \A x \in {a, b} : (\A y \in {a, b} : x <= y) <=> x = a
    BY <1>1
  <2> QED
    BY <1>1, <2>1 DEF Min
<1>2. CASE ~(a <= b)
  <2>1. \A x \in {a, b} : (\A y \in {a, b} : x <= y) <=> x = b
    BY <1>2
  <2> QED
    BY <1>2, <2>1 DEF Min
<1> QED
  BY <1>1, <1>2

\* The orders of a list that the black box has room for.
FirstOf(list) == [k \in 1 .. Min({Len(list), BoxSize}) |-> list[k]]

LEMMA FirstOfList ==
  ASSUME NEW list \in Seq(Orders)
  PROVE  /\ Min({Len(list), BoxSize}) \in Nat /\ Min({Len(list), BoxSize}) <= BoxSize
         /\ 1 .. Min({Len(list), BoxSize}) \subseteq DOMAIN list
         /\ FirstOf(list) \in Seq(Orders)
         /\ IdsOf(FirstOf(list)) = {list[k].id : k \in 1 .. Min({Len(list), BoxSize})}
         /\ IdsOf(FirstOf(list)) \subseteq IdsOf(list)
         /\ OneEach(list) => OneEach(FirstOf(list))
<1> DEFINE m == Min({Len(list), BoxSize})
<1>1. Len(list) \in Nat /\ DOMAIN list = 1 .. Len(list) /\ BoxSize \in Nat
  BY LenProperties, MeshPagerAssumption
<1>2. m \in Nat /\ m <= BoxSize /\ m <= Len(list)
  BY <1>1, MinOfTwo
<1> HIDE DEF m
<1>3. 1 .. m \subseteq DOMAIN list
  BY <1>1, <1>2
<1> DEFINE f == [k \in 1 .. m |-> list[k]]
<1>4. f \in Seq(Orders) /\ DOMAIN f = 1 .. m /\ \A k \in 1 .. m : f[k] = list[k]
  <2>1. \A k \in 1 .. m : list[k] \in Orders
    BY <1>1, <1>3, ElementOfSeq
  <2> QED
    BY <1>2, <2>1
<1> HIDE DEF f
<1>5. IdsOf(f) = {list[k].id : k \in 1 .. m} /\ IdsOf(f) \subseteq IdsOf(list)
  BY <1>3, <1>4 DEF IdsOf
<1>6. OneEach(list) => OneEach(f)
  BY <1>3, <1>4 DEF OneEach
<1>7. f = FirstOf(list)
  BY DEF f, m, FirstOf
<1> QED
  BY <1>2, <1>3, <1>4, <1>5, <1>6, <1>7 DEF m

\* What a restart reads is a list; after a save it is the list's beginning.
LEMMA RestoredTyped ==
  ASSUME NEW b \in Boxes, \A k \in 1 .. BoxSize : k <= b.cnt => b.slot[k] # <<>>
  PROVE  Restored(b) \in Seq(Orders) /\ Len(Restored(b)) <= MaxOrders
<1> DEFINE m == Min({b.cnt, BoxSize})
<1>1. b.cnt \in 0 .. MaxOrders /\ BoxSize \in Nat /\ MaxOrders \in Nat /\ BoxSize <= MaxOrders
  BY MeshPagerAssumption DEF Boxes
<1>2. m \in Nat /\ m <= BoxSize /\ m <= b.cnt
  BY <1>1, MinOfTwo
<1> HIDE DEF m
<1>3. \A k \in 1 .. m : b.slot[k][1] \in Orders
  <2> SUFFICES ASSUME NEW k \in 1 .. m PROVE b.slot[k][1] \in Orders
    OBVIOUS
  <2>1. k \in 1 .. BoxSize /\ k <= b.cnt
    BY <1>1, <1>2
  <2>2. b.slot[k] \in Slots /\ b.slot[k] # <<>>
    BY <2>1 DEF Boxes
  <2>3. PICK order \in Orders : b.slot[k] = <<order>>
    BY <2>2 DEF Slots
  <2> QED
    BY <2>3
<1>4. [k \in 1 .. m |-> b.slot[k][1]] \in Seq(Orders)
  BY <1>2, <1>3
<1>5. Len([k \in 1 .. m |-> b.slot[k][1]]) = m
  BY <1>2
<1>6. Restored(b) = [k \in 1 .. m |-> b.slot[k][1]]
  BY DEF Restored, m
<1> QED
  BY <1>1, <1>2, <1>4, <1>5, <1>6

LEMMA RestoredSaved ==
  ASSUME NEW b \in Boxes, NEW list \in Seq(Orders)
  PROVE  /\ Restored(Saved(b, list)) = FirstOf(list)
         /\ \A k \in 1 .. BoxSize : k <= Saved(b, list).cnt => Saved(b, list).slot[k] # <<>>
<1> DEFINE m == Min({Len(list), BoxSize})
           s == Saved(b, list)
<1>1. m \in Nat /\ m <= BoxSize /\ m <= Len(list) /\ Len(list) \in Nat /\ BoxSize \in Nat
  BY MinOfTwo, LenProperties, MeshPagerAssumption
<1>2. /\ s.cnt = Len(list)
      /\ \A k \in 1 .. BoxSize : k <= Len(list) => s.slot[k] = <<list[k]>>
  BY DEF Saved
<1> HIDE DEF s
<1>3. Restored(s) = [k \in 1 .. m |-> s.slot[k][1]]
  BY <1>2 DEF Restored
<1> HIDE DEF m
<1>4. \A k \in 1 .. m : s.slot[k][1] = list[k]
  BY <1>1, <1>2
<1>5. FirstOf(list) = [k \in 1 .. m |-> list[k]]
  BY DEF FirstOf, m
<1>6. Restored(s) = FirstOf(list)
  BY <1>3, <1>4, <1>5
<1>7. \A k \in 1 .. BoxSize : k <= s.cnt => s.slot[k] # <<>>
  <2>1. \A k \in DOMAIN list : <<list[k]>> # <<>>
    OBVIOUS
  <2>2. \A k \in 1 .. BoxSize : k <= Len(list) => k \in DOMAIN list
    BY <1>1, LenProperties
  <2> QED
    BY <1>2, <2>1, <2>2
<1>8. s = Saved(b, list)
  BY DEF s
<1>9. Restored(Saved(b, list)) = FirstOf(list)
  BY <1>6, <1>8, Zenon
<1> QED
  BY <1>7, <1>8, <1>9, Zenon

-----------------------------------------------------------------------------
(* The types. *)

\* A list that shrank or was dropped, with nothing else changed but the mode.
LEMMA ListTyped ==
  ASSUME NodeTyped, NEW n \in Nodes, NEW list \in Seq(Orders), Len(list) <= MaxOrders,
         Lists(n, list), Transmits(n, <<>>), mode' \in [Nodes -> Modes],
         UNCHANGED <<prefs, box, sel, seen, requests, clock>>
  PROVE  NodeTyped'
<1>1. AirTyped'
  BY NothingTyped DEF NodeTyped, PagerTyped
<1>2. ListsTyped'
  BY DEF NodeTyped, PagerTyped, ListsTyped, Lists
<1> QED
  BY <1>1, <1>2 DEF NodeTyped, PagerTyped, FixedTyped, MemoryTyped, BoxFilled

LEMMA SelectTyped ==
  ASSUME NodeTyped, NEW n \in Nodes, NEW up \in BOOLEAN, Select(n, up)
  PROVE  NodeTyped'
<1> DEFINE count == Len(orders[n])
           next == (IF up THEN sel[n] - 1 + count ELSE sel[n] + 1) % count
<1>1. AirTyped'
  BY NothingTyped DEF NodeTyped, PagerTyped, Select
<1>2. /\ count \in Nat /\ count <= MaxOrders /\ count > 0 /\ MaxOrders \in Nat
      /\ sel[n] \in 0 .. MaxOrders - 1
  <2>1. orders[n] \in Seq(Orders) /\ count <= MaxOrders /\ orders[n] # <<>>
    BY DEF NodeTyped, PagerTyped, ListsTyped, Select
  <2>2. count \in Nat /\ count # 0
    BY <2>1, LenProperties, EmptySeq
  <2> QED
    BY <2>1, <2>2, MeshPagerAssumption DEF NodeTyped, PagerTyped, ListsTyped
<1>3. sel' = [sel EXCEPT ![n] = next]
  BY DEF Select
<1>4. next \in 0 .. MaxOrders - 1
  <2> HIDE DEF count
  <2>1. (IF up THEN sel[n] - 1 + count ELSE sel[n] + 1) \in Nat
    BY <1>2
  <2>2. next \in 0 .. count - 1
    BY <1>2, <2>1
  <2> QED
    BY <1>2, <2>2
<1> HIDE DEF next, count
<1>5. ListsTyped'
  BY <1>3, <1>4 DEF NodeTyped, PagerTyped, ListsTyped, Select
<1> QED
  BY <1>1, <1>5 DEF Select, NodeTyped, PagerTyped, FixedTyped, MemoryTyped, BoxFilled

LEMMA TickTyped ==
  ASSUME NodeTyped, NEW n \in Nodes, Tick(n)
  PROVE  NodeTyped'
<1>1. AirTyped'
  BY NothingTyped DEF NodeTyped, PagerTyped, Tick
<1>2. clock' \in [Nodes -> 0 .. LastTick]
  <2>1. clock[n] + 1 \in 0 .. LastTick
    BY MeshPagerAssumption DEF NodeTyped, PagerTyped, FixedTyped, Tick
  <2> QED
    BY <2>1 DEF NodeTyped, PagerTyped, FixedTyped, Tick
<1> QED
  BY <1>1, <1>2
  DEF Tick, NodeTyped, PagerTyped, FixedTyped, ListsTyped, MemoryTyped, BoxFilled

\* The orders that Cleanup leaves are orders of the list, each at most once
\* more than before.
LEMMA CleanupLists ==
  ASSUME PagerTyped, NEW n \in Nodes, Cleanup(n)
  PROVE  \E list \in Seq(Orders) :
           /\ Lists(n, list) /\ Len(list) <= MaxOrders
           /\ IdsOf(list) \subseteq IdsOf(orders[n])
           /\ OneEach(orders[n]) => OneEach(list)
<1> DEFINE old == orders[n]
           K == {k \in DOMAIN old : ~(clock[n] > old[k].expiry /\ old[k].status = "pending")}
<1>1. PICK kept \in Ascending(K) : Lists(n, [k \in DOMAIN kept |-> old[kept[k]]])
  BY DEF Cleanup
<1>2. old \in Seq(Orders) /\ Len(old) \in Nat /\ DOMAIN old = 1 .. Len(old)
      /\ Len(old) <= MaxOrders
  BY LenProperties DEF PagerTyped, ListsTyped
<1>3. K \subseteq 1 .. Len(old)
  BY <1>2
<1> HIDE DEF K, old
<1>4. Cardinality(K) \in Nat /\ Cardinality(K) <= Len(old)
  <2>1. IsFiniteSet(1 .. Len(old)) /\ Cardinality(1 .. Len(old)) = Len(old)
    BY <1>2, FS_Interval
  <2>2. IsFiniteSet(K) /\ Cardinality(K) <= Len(old)
    BY <1>3, <2>1, FS_Subset
  <2> QED
    BY <2>2, FS_CardinalityType
<1>5. /\ DOMAIN kept = 1 .. Cardinality(K)
      /\ \A k \in DOMAIN kept : kept[k] \in DOMAIN old
      /\ \A j, k \in DOMAIN kept : kept[j] = kept[k] => j = k
  <2>1. /\ kept \in [1 .. Cardinality(K) -> K]
        /\ \A j, k \in DOMAIN kept : j < k => kept[j] < kept[k]
    BY DEF Ascending
  <2>2. DOMAIN kept = 1 .. Cardinality(K) /\ \A k \in DOMAIN kept : kept[k] \in 1 .. Len(old)
    BY <1>3, <2>1
  <2>3. \A j, k \in DOMAIN kept : kept[j] = kept[k] => j = k
    <3> SUFFICES ASSUME NEW j \in DOMAIN kept, NEW k \in DOMAIN kept, kept[j] = kept[k], j # k
                 PROVE  FALSE
      OBVIOUS
    <3>1. j < k \/ k < j
      BY <1>4, <2>2
    <3> QED
      BY <1>2, <2>1, <2>2, <3>1
  <2> QED
    BY <1>2, <2>2, <2>3
<1> DEFINE list == [k \in DOMAIN kept |-> old[kept[k]]]
<1>6. list \in Seq(Orders) /\ Len(list) <= MaxOrders
  <2>1. \A k \in DOMAIN kept : old[kept[k]] \in Orders
    BY <1>2, <1>5
  <2>2. list \in Seq(Orders) /\ Len(list) = Cardinality(K)
    BY <1>4, <1>5, <2>1
  <2> QED
    BY <1>2, <1>4, <2>2, MeshPagerAssumption
<1>7. IdsOf(list) \subseteq IdsOf(old)
  BY <1>5 DEF IdsOf
<1>8. OneEach(old) => OneEach(list)
  BY <1>5 DEF OneEach
<1> HIDE DEF list
<1> QED
  BY <1>1, <1>6, <1>7, <1>8 DEF list, old

LEMMA RebootTyped ==
  ASSUME NodeTyped, NEW n \in Nodes, Reboot(n),
         prefs' \in [Nodes -> [mode : Modes, zone : PagerZones]]
  PROVE  NodeTyped'
<1>1. AirTyped'
  BY NothingTyped DEF NodeTyped, PagerTyped, Reboot
<1>2. FixedTyped'
  <2>1. prefs'[n].mode \in Modes
    OBVIOUS
  <2>2. 0 \in 0 .. LastTick
    BY MeshPagerAssumption
  <2> QED
    BY <2>1, <2>2 DEF NodeTyped, PagerTyped, FixedTyped, Reboot
<1>3. ListsTyped'
  <2> DEFINE list == Restored(box[n])
  <2>1. list \in Seq(Orders) /\ Len(list) <= MaxOrders
    BY RestoredTyped DEF NodeTyped, PagerTyped, ListsTyped, BoxFilled
  <2>2. orders' = [orders EXCEPT ![n] = list] /\ sel' = [sel EXCEPT ![n] = 0] /\ box' = box
    BY DEF Reboot, Lists
  <2>3. 0 \in 0 .. MaxOrders - 1
    BY MeshPagerAssumption
  <2> HIDE DEF list
  <2> QED
    BY <2>1, <2>2, <2>3 DEF NodeTyped, PagerTyped, ListsTyped
<1>4. MemoryTyped'
  <2>1. PICK none : none = <<>>
    OBVIOUS
  <2>2. none \in Seq(Ids) /\ none \in Seq(Requests) /\ Len(none) = 0
    BY <2>1, EmptySeq
  <2>3. seen' = [seen EXCEPT ![n] = none] /\ requests' = [requests EXCEPT ![n] = none]
    BY <2>1, Zenon DEF Reboot
  <2> QED
    BY <2>2, <2>3, MeshPagerAssumption DEF NodeTyped, PagerTyped, MemoryTyped
<1> QED
  BY <1>1, <1>2, <1>3, <1>4 DEF NodeTyped, PagerTyped, BoxFilled, Reboot

\* A save fills the slots it counts.
LEMMA SaveFills ==
  ASSUME NodeTyped, NEW n \in Nodes, NEW list \in Seq(Orders),
         box' = [box EXCEPT ![n] = Saved(box[n], list)]
  PROVE  BoxFilled' /\ Restored(box'[n]) = FirstOf(list)
<1>1. box[n] \in Boxes /\ box \in [Nodes -> Boxes]
  BY DEF NodeTyped, PagerTyped, ListsTyped
<1>2. box'[n] = Saved(box[n], list) /\ \A m \in Nodes : m # n => box'[m] = box[m]
  BY <1>1
<1>3. /\ Restored(Saved(box[n], list)) = FirstOf(list)
      /\ \A k \in 1 .. BoxSize : k <= Saved(box[n], list).cnt => Saved(box[n], list).slot[k] # <<>>
  BY <1>1, RestoredSaved
<1> QED
  BY <1>2, <1>3 DEF NodeTyped, BoxFilled

LEMMA HeardTyped == Heard \subseteq AirPackets
BY DEF Heard, Packets, AirPackets

LEMMA ProcessFills ==
  ASSUME NodeTyped, NEW n \in Nodes, NEW p \in AirPackets, Process(n, p)
  PROVE  NodeTyped'
<1>1. PagerTyped'
  BY ProcessTyped DEF NodeTyped
<1>2. BoxFilled'
  <2>1. CASE TakesOrder(n, p)
    <3>1. PICK order \in Orders : box' = [box EXCEPT ![n] = Saved(box[n], Append(orders[n], order))]
      BY <2>1 DEF TakesOrder
    <3>2. Append(orders[n], order) \in Seq(Orders)
      BY TypedEnds DEF NodeTyped, PagerTyped, ListsTyped
    <3> QED
      BY <3>1, <3>2, SaveFills
  <2>2. CASE box' = box
    BY <2>2 DEF NodeTyped, BoxFilled
  <2> QED
    BY <2>1, <2>2, ProcessLists DEF NodeTyped
<1> QED
  BY <1>1, <1>2 DEF NodeTyped

LEMMA DriveFills ==
  ASSUME NodeTyped, NEW n \in Nodes, AckSelected(n) \/ ClearSelected(n)
  PROVE  NodeTyped'
<1>1. PagerTyped'
  BY DriveTyped DEF NodeTyped
<1>2. PICK list \in Seq(Orders) : Saves(n, list)
  BY AckLists, ClearLists DEF NodeTyped
<1>3. BoxFilled'
  BY <1>2, SaveFills DEF Saves
<1> QED
  BY <1>1, <1>3 DEF NodeTyped

LEMMA NodeTypedStep ==
  ASSUME NodeTyped, NEW n \in Nodes, MemoryStep(n) \/ MemoryRestart(n)
  PROVE  NodeTyped'
<1>1. CASE \E p \in Heard : Process(n, p)
  BY <1>1, HeardTyped, ProcessFills
<1>2. CASE AckSelected(n) \/ ClearSelected(n)
  BY <1>2, DriveFills
<1>3. CASE Cleanup(n)
  <2>1. PICK list \in Seq(Orders) : Lists(n, list) /\ Len(list) <= MaxOrders
    BY <1>3, CleanupLists DEF NodeTyped
  <2>2. mode' \in [Nodes -> Modes]
    BY <1>3 DEF Cleanup, NodeTyped, PagerTyped, FixedTyped
  <2> QED
    BY <1>3, <2>1, <2>2, ListTyped DEF Cleanup
<1>4. CASE \E m \in Modes : SwitchMode(n, m)
  <2>1. PICK none : none = <<>>
    OBVIOUS
  <2>2. none \in Seq(Orders) /\ Len(none) <= MaxOrders
    BY <2>1, EmptySeq, MeshPagerAssumption
  <2>3. PICK m \in Modes : SwitchMode(n, m)
    BY <1>4
  <2>4. Lists(n, none)
    BY <2>1, <2>3, Zenon DEF SwitchMode
  <2>5. mode' \in [Nodes -> Modes]
    BY <2>3 DEF SwitchMode, NodeTyped, PagerTyped, FixedTyped
  <2> QED
    BY <2>2, <2>3, <2>4, <2>5, ListTyped DEF SwitchMode
<1>5. CASE \E up \in BOOLEAN : Select(n, up)
  BY <1>5, SelectTyped
<1>6. CASE SendBoot(n)
  BY <1>6, BootTyped DEF NodeTyped, BoxFilled, SendBoot
<1>7. CASE Tick(n)
  BY <1>7, TickTyped
<1>8. CASE Restart(n) \/ \E m \in Modes, z \in PagerZones : Configure(n, m, z)
  <2>1. Reboot(n)
    BY <1>8 DEF Restart, Configure
  <2>2. prefs' \in [Nodes -> [mode : Modes, zone : PagerZones]]
    BY <1>8 DEF Restart, Configure, NodeTyped, PagerTyped, FixedTyped
  <2> QED
    BY <2>1, <2>2, RebootTyped
<1> QED
  BY <1>1, <1>2, <1>3, <1>4, <1>5, <1>6, <1>7, <1>8 DEF MemoryStep, MemoryRestart

-----------------------------------------------------------------------------
(* What is listed and what is in the black box. *)

FirstIds(list) == {list[k].id : k \in 1 .. Min({Len(list), BoxSize})}

\* Of one list, the black box below it, whether an expiry went unsaved, and the
\* orders cleared.
ListOK(list, stored, dirty, gone) ==
  /\ OneEach(list) /\ OneEach(stored)
  /\ dirty \/ FirstIds(list) \subseteq IdsOf(stored)
  /\ gone \cap IdsOf(list) = {} /\ gone \cap IdsOf(stored) = {}

BoxInv ==
  /\ HistoryTyped
  /\ \A n \in Nodes : ListOK(orders[n], Restored(box[n]), unsaved[n], cleared[n])

\* Every way a list changes keeps this.
LEMMA SavedOK ==
  ASSUME NEW list \in Seq(Orders), OneEach(list), NEW gone, gone \cap IdsOf(list) = {},
         NEW dirty
  PROVE  ListOK(list, FirstOf(list), dirty, gone)
BY FirstOfList DEF ListOK, FirstIds

LEMMA RestartOK ==
  ASSUME NEW stored \in Seq(Orders), NEW list, NEW gone, NEW dirty, NEW dirty2,
         ListOK(list, stored, dirty, gone)
  PROVE  ListOK(stored, stored, dirty2, gone)
<1>1. 1 .. Min({Len(stored), BoxSize}) \subseteq DOMAIN stored
  BY FirstOfList
<1>2. FirstIds(stored) \subseteq IdsOf(stored)
  BY <1>1 DEF FirstIds, IdsOf
<1> QED
  BY <1>2 DEF ListOK

LEMMA SameOK ==
  ASSUME NEW s \in Seq(Orders), NEW t \in Seq(Orders), SameIds(s, t),
         NEW stored, NEW dirty, NEW gone, ListOK(s, stored, dirty, gone)
  PROVE  ListOK(t, stored, dirty, gone)
<1>1. IdsOf(t) = IdsOf(s) /\ OneEach(t)
  BY SameIdsKept DEF ListOK
<1>2. Len(t) = Len(s)
  BY LenProperties DEF SameIds
<1>3. 1 .. Min({Len(s), BoxSize}) \subseteq DOMAIN s
  BY FirstOfList
<1>4. FirstIds(t) = FirstIds(s)
  BY <1>2, <1>3 DEF FirstIds, SameIds
<1> QED
  BY <1>1, <1>4 DEF ListOK

LEMMA ShrunkOK ==
  ASSUME NEW s, NEW t, IdsOf(t) \subseteq IdsOf(s), OneEach(s) => OneEach(t),
         NEW stored, NEW dirty, NEW gone, ListOK(s, stored, dirty, gone)
  PROVE  ListOK(t, stored, TRUE, gone)
BY DEF ListOK

\* A step of one pager is a step of its list only.
LEMMA BoxLocal ==
  ASSUME NodeTyped, BoxInv, HistoryTyped', NEW n \in Nodes,
         ListOK(orders'[n], Restored(box'[n]), unsaved'[n], cleared'[n]),
         \A m \in Nodes \ {n} : ListOK(orders'[m], Restored(box'[m]), unsaved'[m], cleared'[m])
  PROVE  BoxInv'
BY DEF BoxInv

LEMMA BoxProcess ==
  ASSUME NodeTyped, BoxInv, NEW n \in Nodes, NEW p \in Heard, Process(n, p),
         taken' = [taken EXCEPT ![n] = taken[n] \cup (IdsOf(orders'[n]) \ IdsOf(orders[n]))],
         cleared' = [cleared EXCEPT ![n] = cleared[n] \ (IdsOf(orders'[n]) \ IdsOf(orders[n]))],
         unsaved' = [unsaved EXCEPT ![n] =
                       unsaved[n] /\ IdsOf(orders'[n]) \ IdsOf(orders[n]) = {}],
         heard' = [heard EXCEPT ![n] = heard[n] \cup ({p.id} \ {0})]
  PROVE  BoxInv'
<1> DEFINE new == IdsOf(orders'[n]) \ IdsOf(orders[n])
<1>0. p \in AirPackets
  BY HeardTyped
<1>1. /\ orders \in [Nodes -> Seq(Orders)] /\ orders' \in [Nodes -> Seq(Orders)]
      /\ box \in [Nodes -> Boxes] /\ HistoryTyped
  BY <1>0, ProcessTyped DEF NodeTyped, PagerTyped, ListsTyped, BoxInv
<1>2. new \subseteq Ids
  BY <1>1, IdsTyped
<1>3. {p.id} \ {0} \subseteq Ids
  BY DEF Heard, Packets
<1>4. HistoryTyped'
  <2> HIDE DEF new
  <2>1. /\ taken' = [taken EXCEPT ![n] = taken[n] \cup new]
        /\ cleared' = [cleared EXCEPT ![n] = cleared[n] \ new]
        /\ unsaved' = [unsaved EXCEPT ![n] = unsaved[n] /\ new = {}]
    BY DEF new
  <2>2. taken' \in [Nodes -> SUBSET Ids] /\ cleared' \in [Nodes -> SUBSET Ids]
    BY <1>1, <1>2, <2>1 DEF HistoryTyped
  <2>3. unsaved' \in [Nodes -> BOOLEAN]
    <3>1. (unsaved[n] /\ new = {}) \in BOOLEAN
      OBVIOUS
    <3> QED
      BY <1>1, <2>1, <3>1, Zenon DEF HistoryTyped
  <2>4. heard' \in [Nodes -> SUBSET Ids]
    BY <1>1, <1>3 DEF HistoryTyped
  <2> QED
    BY <2>2, <2>3, <2>4 DEF HistoryTyped
<1>5. /\ cleared'[n] = cleared[n] \ new
      /\ \A m \in Nodes \ {n} : unsaved'[m] = unsaved[m] /\ cleared'[m] = cleared[m]
  BY <1>1 DEF HistoryTyped
<1>6. CASE TakesOrder(n, p)
  <2>1. PICK order \in Orders :
          /\ order.id = p.id /\ p.id \notin IdsOf(orders[n])
          /\ orders' = [orders EXCEPT ![n] = Append(orders[n], order)]
          /\ box' = [box EXCEPT ![n] = Saved(box[n], Append(orders[n], order))]
    BY <1>6 DEF TakesOrder
  <2> DEFINE list == Append(orders[n], order)
  <2>2. list \in Seq(Orders) /\ OneEach(list) /\ IdsOf(list) = IdsOf(orders[n]) \cup {p.id}
    BY <1>1, <2>1, AppendIds, TypedEnds DEF BoxInv, ListOK
  <2>3. Restored(box'[n]) = FirstOf(list)
    BY <2>1, <2>2, SaveFills
  <2> HIDE DEF list
  <2>4. /\ orders'[n] = list
        /\ \A m \in Nodes \ {n} : orders'[m] = orders[m] /\ box'[m] = box[m]
    BY <1>1, <2>1 DEF list
  <2>5. cleared'[n] \cap IdsOf(list) = {}
    BY <1>5, <2>2, <2>4 DEF BoxInv, ListOK
  <2>6. ListOK(orders'[n], Restored(box'[n]), unsaved'[n], cleared'[n])
    BY <2>2, <2>3, <2>4, <2>5, SavedOK
  <2> QED
    BY <1>4, <1>5, <2>4, <2>6, BoxLocal DEF BoxInv
<1>7. CASE box' = box /\ \A m \in Nodes : SameIds(orders[m], orders'[m])
  <2>1. new = {}
    BY <1>7, SameIdsKept
  <2>2. cleared'[n] = cleared[n]
    BY <1>5, <2>1
  <2>3. unsaved'[n] = unsaved[n]
    BY <1>1, <2>1, Zenon DEF HistoryTyped
  <2>4. ASSUME NEW m \in Nodes
        PROVE  ListOK(orders'[m], Restored(box'[m]), unsaved'[m], cleared'[m])
    <3>1. unsaved'[m] = unsaved[m] /\ cleared'[m] = cleared[m] /\ box'[m] = box[m]
      BY <1>5, <1>7, <2>2, <2>3
    <3> QED
      BY <1>1, <1>7, <3>1, SameOK DEF BoxInv
  <2> QED
    BY <1>4, <2>4 DEF BoxInv
<1> QED
  BY <1>0, <1>6, <1>7, ProcessLists DEF NodeTyped

LEMMA BoxAck ==
  ASSUME NodeTyped, BoxInv, NEW n \in Nodes, AckSelected(n),
         unsaved' = [unsaved EXCEPT ![n] = FALSE], UNCHANGED <<heard, taken, cleared>>
  PROVE  BoxInv'
<1>1. PICK list \in Seq(Orders) : SameIds(orders[n], list) /\ Saves(n, list)
  BY AckLists DEF NodeTyped
<1>2. /\ orders \in [Nodes -> Seq(Orders)] /\ box \in [Nodes -> Boxes] /\ HistoryTyped
  BY DEF NodeTyped, PagerTyped, ListsTyped, BoxInv
<1>3. /\ orders'[n] = list /\ Restored(box'[n]) = FirstOf(list)
      /\ \A m \in Nodes \ {n} : orders'[m] = orders[m] /\ box'[m] = box[m]
  BY <1>1, <1>2, SaveFills DEF Saves, Lists
<1>4. HistoryTyped' /\ \A m \in Nodes \ {n} : unsaved'[m] = unsaved[m] /\ cleared'[m] = cleared[m]
  BY <1>2 DEF HistoryTyped
<1>5. OneEach(list) /\ cleared'[n] \cap IdsOf(list) = {}
  BY <1>1, SameIdsKept DEF BoxInv, ListOK
<1>6. ListOK(orders'[n], Restored(box'[n]), unsaved'[n], cleared'[n])
  BY <1>3, <1>5, SavedOK
<1> QED
  BY <1>3, <1>4, <1>6, BoxLocal DEF BoxInv

LEMMA BoxClear ==
  ASSUME NodeTyped, BoxInv, NEW n \in Nodes, ClearSelected(n),
         cleared' = [cleared EXCEPT ![n] = cleared[n] \cup {orders[n][sel[n] + 1].id}],
         unsaved' = [unsaved EXCEPT ![n] = FALSE], UNCHANGED <<heard, taken>>
  PROVE  BoxInv'
<1> DEFINE k == sel[n] + 1
           list == RemoveAt(orders[n], k)
<1>1. k \in 1 .. Len(orders[n]) /\ list \in Seq(Orders) /\ Saves(n, list)
  BY ClearLists DEF NodeTyped
<1>2. /\ orders \in [Nodes -> Seq(Orders)] /\ box \in [Nodes -> Boxes] /\ HistoryTyped
      /\ OneEach(orders[n]) /\ cleared[n] \cap IdsOf(orders[n]) = {}
  BY DEF NodeTyped, PagerTyped, ListsTyped, BoxInv, ListOK
<1>3. /\ IdsOf(list) \subseteq IdsOf(orders[n]) /\ OneEach(list)
      /\ orders[n][k].id \notin IdsOf(list)
  BY <1>1, <1>2, RemoveIds
<1>4. orders[n][k].id \in Ids
  <2>1. orders[n][k] \in Orders
    BY <1>1, <1>2, ElementOfSeq
  <2> QED
    BY <2>1 DEF Orders
<1> HIDE DEF list, k
<1>5. /\ orders'[n] = list /\ Restored(box'[n]) = FirstOf(list)
      /\ \A m \in Nodes \ {n} : orders'[m] = orders[m] /\ box'[m] = box[m]
  BY <1>1, <1>2, SaveFills DEF Saves, Lists
<1>6. cleared' = [cleared EXCEPT ![n] = cleared[n] \cup {orders[n][k].id}]
  BY DEF k
<1>7. /\ cleared'[n] = cleared[n] \cup {orders[n][k].id}
      /\ \A m \in Nodes \ {n} : unsaved'[m] = unsaved[m] /\ cleared'[m] = cleared[m]
  BY <1>2, <1>6 DEF HistoryTyped
<1>8. HistoryTyped'
  BY <1>2, <1>4, <1>6 DEF HistoryTyped
<1>9. cleared'[n] \cap IdsOf(list) = {}
  BY <1>2, <1>3, <1>7
<1>10. ListOK(orders'[n], Restored(box'[n]), unsaved'[n], cleared'[n])
  BY <1>1, <1>3, <1>5, <1>9, SavedOK
<1> QED
  BY <1>5, <1>7, <1>8, <1>10, BoxLocal DEF BoxInv

LEMMA BoxCleanup ==
  ASSUME NodeTyped, BoxInv, NEW n \in Nodes, Cleanup(n),
         unsaved' = [unsaved EXCEPT ![n] = unsaved[n] \/ orders'[n] # orders[n]],
         UNCHANGED <<heard, taken, cleared>>
  PROVE  BoxInv'
<1>1. PICK list \in Seq(Orders) :
        /\ Lists(n, list) /\ IdsOf(list) \subseteq IdsOf(orders[n])
        /\ OneEach(orders[n]) => OneEach(list)
  BY CleanupLists DEF NodeTyped
<1>2. orders \in [Nodes -> Seq(Orders)] /\ HistoryTyped /\ box' = box
  BY DEF NodeTyped, PagerTyped, ListsTyped, BoxInv, Cleanup
<1>3. orders'[n] = list /\ \A m \in Nodes \ {n} : orders'[m] = orders[m]
  BY <1>1, <1>2 DEF Lists
<1>4. HistoryTyped' /\ \A m \in Nodes \ {n} : unsaved'[m] = unsaved[m]
  <2>1. (unsaved[n] \/ orders'[n] # orders[n]) \in BOOLEAN
    BY <1>2 DEF HistoryTyped
  <2> QED
    BY <1>2, <2>1 DEF HistoryTyped
<1>5. ListOK(list, Restored(box[n]), TRUE, cleared[n])
  BY <1>1, ShrunkOK DEF BoxInv
<1>6. CASE orders'[n] = orders[n]
  <2>1. unsaved'[n] = unsaved[n]
    BY <1>2, <1>6, Zenon DEF HistoryTyped
  <2> QED
    BY <1>2, <1>3, <1>4, <1>6, <2>1, BoxLocal DEF BoxInv
<1>7. CASE orders'[n] # orders[n]
  <2>1. unsaved'[n] = TRUE
    BY <1>2, <1>7, Zenon DEF HistoryTyped
  <2> QED
    BY <1>2, <1>3, <1>4, <1>5, <2>1, BoxLocal DEF BoxInv
<1> QED
  BY <1>6, <1>7

LEMMA BoxSwitch ==
  ASSUME NodeTyped, BoxInv, NEW n \in Nodes, NEW m \in Modes, SwitchMode(n, m),
         UNCHANGED memory
  PROVE  BoxInv'
<1>1. PICK none : none = <<>>
  OBVIOUS
<1>2. none \in Seq(Orders) /\ DOMAIN none = {} /\ Len(none) = 0
  BY <1>1, EmptySeq
<1>3. orders \in [Nodes -> Seq(Orders)] /\ UNCHANGED <<box, heard, taken, cleared, unsaved>>
  BY DEF NodeTyped, PagerTyped, ListsTyped, SwitchMode, memory
<1>4. orders' = [orders EXCEPT ![n] = none]
  BY <1>1, Zenon DEF SwitchMode, Lists
<1>5. OneEach(none) /\ IdsOf(none) = {}
  BY <1>2 DEF OneEach, IdsOf
<1>6. FirstIds(none) = {}
  <2>1. Min({0, BoxSize}) = 0 /\ 1 .. 0 = {}
    BY MinOfTwo, MeshPagerAssumption
  <2> QED
    BY <1>2, <2>1 DEF FirstIds
<1>7. ListOK(none, Restored(box[n]), unsaved[n], cleared[n])
  BY <1>5, <1>6 DEF BoxInv, ListOK
<1>8. orders'[n] = none /\ \A l \in Nodes \ {n} : orders'[l] = orders[l]
  BY <1>3, <1>4
<1> QED
  BY <1>3, <1>7, <1>8 DEF BoxInv, HistoryTyped

LEMMA BoxRestart ==
  ASSUME NodeTyped, BoxInv, NEW n \in Nodes, MemoryRestart(n)
  PROVE  BoxInv'
<1>1. orders' = [orders EXCEPT ![n] = Restored(box[n])] /\ UNCHANGED <<box, cleared>>
  BY DEF MemoryRestart, Restart, Configure, Reboot, Lists
<1>2. /\ heard' = [heard EXCEPT ![n] = {}] /\ taken' = [taken EXCEPT ![n] = {}]
      /\ unsaved' = [unsaved EXCEPT ![n] = FALSE]
  BY DEF MemoryRestart
<1>3. orders \in [Nodes -> Seq(Orders)] /\ HistoryTyped /\ Restored(box[n]) \in Seq(Orders)
  BY RestoredTyped DEF NodeTyped, PagerTyped, ListsTyped, BoxInv, BoxFilled
<1>4. HistoryTyped'
  BY <1>1, <1>2, <1>3 DEF HistoryTyped
<1>5. \A m \in Nodes \ {n} : orders'[m] = orders[m] /\ unsaved'[m] = unsaved[m]
  BY <1>1, <1>2, <1>3 DEF HistoryTyped
<1>6. orders'[n] = Restored(box[n])
  BY <1>1, <1>3
<1>7. ListOK(Restored(box[n]), Restored(box[n]), unsaved'[n], cleared[n])
  BY <1>3, RestartOK DEF BoxInv
<1> QED
  BY <1>1, <1>4, <1>5, <1>6, <1>7 DEF BoxInv

LEMMA BoxStep ==
  ASSUME NodeTyped, BoxInv, NEW n \in Nodes, MemoryStep(n) \/ MemoryRestart(n)
  PROVE  BoxInv'
<1>1. CASE MemoryRestart(n)
  BY <1>1, BoxRestart
<1>2. CASE \E p \in Heard :
             /\ Process(n, p)
             /\ LET new == IdsOf(orders'[n]) \ IdsOf(orders[n]) IN
                  /\ taken' = [taken EXCEPT ![n] = @ \cup new]
                  /\ cleared' = [cleared EXCEPT ![n] = @ \ new]
                  /\ unsaved' = [unsaved EXCEPT ![n] = @ /\ new = {}]
             /\ heard' = [heard EXCEPT ![n] = @ \cup ({p.id} \ {0})]
  BY <1>2, BoxProcess
<1>3. CASE ClearSelected(n) /\ MemoryStep(n)
        /\ cleared' = [cleared EXCEPT ![n] = @ \cup {orders[n][sel[n] + 1].id}]
        /\ unsaved' = [unsaved EXCEPT ![n] = FALSE] /\ UNCHANGED <<heard, taken>>
  BY <1>3, BoxClear
<1>4. CASE AckSelected(n) /\ unsaved' = [unsaved EXCEPT ![n] = FALSE]
             /\ UNCHANGED <<heard, taken, cleared>>
  BY <1>4, BoxAck
<1>5. CASE Cleanup(n) /\ unsaved' = [unsaved EXCEPT ![n] = @ \/ orders'[n] # orders[n]]
             /\ UNCHANGED <<heard, taken, cleared>>
  BY <1>5, BoxCleanup
<1>6. CASE (\E m \in Modes : SwitchMode(n, m)) /\ UNCHANGED memory
  BY <1>6, BoxSwitch
<1>7. CASE ((\E up \in BOOLEAN : Select(n, up)) \/ SendBoot(n) \/ Tick(n)) /\ UNCHANGED memory
  BY <1>7 DEF Select, SendBoot, Tick, memory, BoxInv, HistoryTyped
<1> QED
  BY <1>1, <1>2, <1>3, <1>4, <1>5, <1>6, <1>7 DEF MemoryStep

MemoryTypedInv == NodeTyped /\ BoxInv

LEMMA MemoryInvariant == MemorySpec => []MemoryTypedInv
<1>1. MemoryInit => MemoryTypedInv
  <2> SUFFICES ASSUME MemoryInit PROVE MemoryTypedInv
    OBVIOUS
  <2>1. PICK modes \in [Nodes -> Modes], zones \in [Nodes -> PagerZones] :
          PagerInit(modes, zones)
    BY DEF MemoryInit
  <2>2. PagerTyped
    BY <2>1, InitTyped
  <2>3. /\ heard = [n \in Nodes |-> {}] /\ taken = [n \in Nodes |-> {}]
        /\ cleared = [n \in Nodes |-> {}] /\ unsaved = [n \in Nodes |-> FALSE]
    BY DEF MemoryInit
  <2>4. HistoryTyped
    BY <2>3 DEF HistoryTyped
  <2>5. PICK none : none = <<>>
    OBVIOUS
  <2>6. none \in Seq(Orders) /\ DOMAIN none = {} /\ Len(none) = 0
    BY <2>5, EmptySeq
  <2>7. \A n \in Nodes : orders[n] = none /\ box[n].cnt = 0
    <3>1. orders = [n \in Nodes |-> none]
      BY <2>1, <2>5, Zenon DEF PagerInit
    <3>2. \A n \in Nodes : box[n].cnt = 0
      BY <2>1 DEF PagerInit
    <3> QED
      BY <3>1, <3>2
  <2>8. BoxFilled
    BY <2>7 DEF BoxFilled
  <2>9. ASSUME NEW n \in Nodes
        PROVE  ListOK(orders[n], Restored(box[n]), unsaved[n], cleared[n])
    <3>1. Min({0, BoxSize}) = 0
      BY MinOfTwo, MeshPagerAssumption
    <3>2. 1 .. 0 = {}
      OBVIOUS
    <3>3. DOMAIN Restored(box[n]) = {}
      BY <2>7, <3>1, <3>2 DEF Restored
    <3>4. FirstIds(none) = {}
      BY <2>6, <3>1, <3>2 DEF FirstIds
    <3> QED
      BY <2>6, <2>7, <3>3, <3>4 DEF ListOK, OneEach, IdsOf
  <2> QED
    BY <2>2, <2>4, <2>8, <2>9 DEF MemoryTypedInv, NodeTyped, BoxInv
<1>2. MemoryTypedInv /\ [MemoryNext]_<<pagerVars, memory>> => MemoryTypedInv'
  <2> SUFFICES ASSUME MemoryTypedInv, [MemoryNext]_<<pagerVars, memory>>
               PROVE  MemoryTypedInv'
    OBVIOUS
  <2>1. CASE MemoryNext
    BY <2>1, NodeTypedStep, BoxStep DEF MemoryNext, MemoryTypedInv
  <2>2. CASE UNCHANGED <<pagerVars, memory>>
    BY <2>2 DEF pagerVars, memory, MemoryTypedInv, NodeTyped, PagerTyped, FixedTyped,
                ListsTyped, MemoryTyped, AirTyped, BoxFilled, BoxInv, HistoryTyped
  <2> QED
    BY <2>1, <2>2
<1> QED
  BY <1>1, <1>2, PTL DEF MemorySpec

\* No order is ever listed twice, in RAM or in the black box, whatever is heard
\* again, cleared, dropped, expired or restored.
THEOREM NoOrderTwice == MemorySpec => []ListsDistinct
<1>1. MemoryTypedInv => ListsDistinct
  BY DEF MemoryTypedInv, BoxInv, ListOK, OneEach, ListsDistinct, Distinct
<1> QED
  BY <1>1, MemoryInvariant, PTL

\* The next restart restores the beginning of the list, unless an expiry has
\* not been saved yet.
THEOREM BoxFollowsList == MemorySpec => []BoxHasList
<1>1. MemoryTypedInv => BoxHasList
  BY DEF MemoryTypedInv, BoxInv, ListOK, FirstIds, BoxHasList
<1> QED
  BY <1>1, MemoryInvariant, PTL

\* What the driver cleared never comes back with a restart.
THEOREM ClearedStaysAway == MemorySpec => []BoxForgetsCleared
<1>1. MemoryTypedInv => BoxForgetsCleared
  BY DEF MemoryTypedInv, BoxInv, ListOK, BoxForgetsCleared
<1> QED
  BY <1>1, MemoryInvariant, PTL

\* The variables of a pager have their types, whatever it hears.
THEOREM PagerKeepsTypes == MemorySpec => []PagerTypeOK
<1>1. MemoryTypedInv => PagerTypeOK
  BY PagerTypedOK DEF MemoryTypedInv, NodeTyped
<1> QED
  BY <1>1, MemoryInvariant, PTL

-----------------------------------------------------------------------------
(* No order is listed anew while a pager can remember it. *)

\* The memory of packets holds different ids that were heard of; until it is
\* full it holds them all.  What was listed was heard of.
SeenInv ==
  \A n \in Nodes :
    /\ Different(seen[n]) /\ seen[n] \in Seq(heard[n])
    /\ IsFiniteSet(heard[n]) /\ taken[n] \subseteq heard[n]
    /\ \A id \in heard[n] : Contains(seen[n], id) \/ Len(seen[n]) >= SeenSize

\* What Mark does to one memory: s becomes t when id is heard.
LEMMA MarkSeen ==
  ASSUME NEW H, NEW s \in Seq(H), Different(s), Len(s) <= SeenSize,
         \A i \in H : Contains(s, i) \/ Len(s) >= SeenSize,
         NEW id, ~Contains(s, id)
  PROVE  LET t == LastOf(Append(s, id), SeenSize)
             G == H \cup {id}
         IN /\ t \in Seq(G) /\ Different(t)
            /\ \A i \in G : Contains(t, i) \/ Len(t) >= SeenSize
<1> DEFINE G == H \cup {id}
           a == Append(s, id)
           t == LastOf(a, SeenSize)
<1>1. s \in Seq(G) /\ id \in G
  BY SeqMonotonic
<1>2. /\ a \in Seq(G) /\ Len(a) = Len(s) + 1 /\ Len(s) \in Nat /\ SeenSize \in Nat
      /\ \A k \in 1 .. Len(s) : a[k] = s[k]
      /\ a[Len(a)] = id
  BY <1>1, AppendProperties, LenProperties, MeshPagerAssumption
<1> HIDE DEF a
<1>3. Different(a)
  <2>1. \A k \in 1 .. Len(s) : s[k] # id
    BY DEF Contains
  <2>2. \A k \in 1 .. Len(a) : k \in 1 .. Len(s) \/ k = Len(a)
    BY <1>2
  <2> QED
    BY <1>2, <2>1, <2>2 DEF Different
<1>4. CASE Len(s) < SeenSize
  <2>1. t = a
    BY <1>2, <1>4 DEF LastOf
  <2>2. ASSUME NEW i \in G PROVE Contains(a, i)
    <3>1. CASE i = id
      <4>1. Len(a) \in 1 .. Len(a)
        BY <1>2
      <4> QED
        BY <1>2, <3>1, <4>1 DEF Contains
    <3>2. CASE i # id
      <4>1. PICK k \in 1 .. Len(s) : s[k] = i
        BY <1>4, <3>2, <1>2 DEF Contains
      <4>2. k \in 1 .. Len(a)
        BY <1>2
      <4> QED
        BY <1>2, <4>1, <4>2 DEF Contains
    <3> QED
      BY <3>1, <3>2
  <2> QED
    BY <1>2, <1>3, <2>1, <2>2 DEF a
<1>5. CASE ~(Len(s) < SeenSize)
  <2>1. t = Tail(a) /\ a # <<>>
    BY <1>2, <1>5, EmptySeq DEF LastOf
  <2>2. /\ Tail(a) \in Seq(G) /\ Len(Tail(a)) = Len(s)
        /\ \A k \in 1 .. Len(s) : Tail(a)[k] = a[k + 1]
    BY <1>2, <2>1, HeadTailProperties
  <2>3. Different(Tail(a))
    BY <1>2, <1>3, <2>2 DEF Different
  <2>4. Len(Tail(a)) >= SeenSize
    BY <1>2, <1>5, <2>2
  <2> QED
    BY <2>1, <2>2, <2>3, <2>4 DEF a
<1> QED
  BY <1>4, <1>5

LEMMA SeenProcess ==
  ASSUME NodeTyped, HistoryTyped, SeenInv, NEW n \in Nodes, NEW p \in Heard, Process(n, p),
         taken' = [taken EXCEPT ![n] = taken[n] \cup (IdsOf(orders'[n]) \ IdsOf(orders[n]))],
         heard' = [heard EXCEPT ![n] = heard[n] \cup ({p.id} \ {0})]
  PROVE  SeenInv'
<1> DEFINE new == IdsOf(orders'[n]) \ IdsOf(orders[n])
<1>0. p \in AirPackets
  BY HeardTyped
<1>1. /\ heard'[n] = heard[n] \cup ({p.id} \ {0}) /\ taken'[n] = taken[n] \cup new
      /\ \A m \in Nodes \ {n} : heard'[m] = heard[m] /\ taken'[m] = taken[m]
  BY DEF HistoryTyped
<1>2. seen \in [Nodes -> Seq(Ids)] /\ seen[n] \in Seq(heard[n]) /\ Len(seen[n]) <= SeenSize
  BY DEF NodeTyped, PagerTyped, MemoryTyped, SeenInv
<1>3. new \subseteq {p.id} \ {0}
  <2>1. CASE TakesOrder(n, p)
    <3>1. PICK order \in Orders :
            order.id = p.id /\ orders' = [orders EXCEPT ![n] = Append(orders[n], order)]
      BY <2>1 DEF TakesOrder
    <3>2. orders[n] \in Seq(Orders) /\ orders'[n] = Append(orders[n], order)
      BY <3>1 DEF NodeTyped, PagerTyped, ListsTyped
    <3>3. IdsOf(orders'[n]) = IdsOf(orders[n]) \cup {p.id}
      BY <3>1, <3>2, AppendIds
    <3>4. p.id # 0
      BY <2>1 DEF TakesOrder, ForUs, Heard
    <3> QED
      BY <3>3, <3>4
  <2>2. CASE \A m \in Nodes : SameIds(orders[m], orders'[m])
    BY <2>2, SameIdsKept
  <2> QED
    BY <1>0, <2>1, <2>2, ProcessLists DEF NodeTyped
<1> HIDE DEF new
<1>4. IsFiniteSet(heard'[n]) /\ taken'[n] \subseteq heard'[n]
  <2>1. IsFiniteSet({p.id} \ {0})
    BY FS_Singleton, FS_Subset
  <2>2. IsFiniteSet(heard[n] \cup ({p.id} \ {0}))
    BY <2>1, FS_Union DEF SeenInv
  <2> QED
    BY <1>1, <1>3, <2>2 DEF SeenInv
<1>5. CASE DropSeen(n, p)
  <2>1. seen' = seen /\ Contains(seen[n], p.id) /\ p.type # "boot"
    BY <1>5 DEF DropSeen, Fresh
  <2>2. heard'[n] = heard[n]
    <3>1. p.id \in heard[n]
      BY <1>2, <2>1, LenProperties DEF Contains
    <3> QED
      BY <1>1, <3>1
  <2> QED
    BY <1>1, <1>4, <2>1, <2>2 DEF SeenInv
<1>6. CASE ~DropSeen(n, p)
  <2>1. Fresh(n, p) /\ Mark(n, p)
    BY <1>6 DEF Process, TakeOrder, NoteStatus, NoteDelivered, PassOn
  <2>2. CASE p.type = "boot"
    <3>1. seen' = seen /\ heard'[n] = heard[n]
      BY <1>1, <2>1, <2>2 DEF Mark, Heard
    <3> QED
      BY <1>1, <1>4, <3>1 DEF SeenInv
  <2>3. CASE p.type # "boot"
    <3> DEFINE t == LastOf(Append(seen[n], p.id), SeenSize)
    <3>1. ~Contains(seen[n], p.id) /\ heard'[n] = heard[n] \cup {p.id}
      BY <1>1, <2>1, <2>3 DEF Fresh, Heard
    <3>2. /\ t \in Seq(heard[n] \cup {p.id}) /\ Different(t)
          /\ \A i \in heard[n] \cup {p.id} : Contains(t, i) \/ Len(t) >= SeenSize
      BY <1>2, <3>1, MarkSeen DEF SeenInv
    <3>3. seen' = [seen EXCEPT ![n] = t]
      BY <2>1, <2>3 DEF Mark
    <3> HIDE DEF t
    <3>4. seen'[n] = t /\ \A m \in Nodes \ {n} : seen'[m] = seen[m]
      BY <1>2, <3>3
    <3> QED
      BY <1>1, <1>4, <3>1, <3>2, <3>4 DEF SeenInv
  <2> QED
    BY <2>2, <2>3
<1> QED
  BY <1>5, <1>6

LEMMA SeenRestart ==
  ASSUME NodeTyped, HistoryTyped, SeenInv, NEW n \in Nodes, MemoryRestart(n)
  PROVE  SeenInv'
<1>1. PICK none : none = <<>>
  OBVIOUS
<1>2. seen' = [seen EXCEPT ![n] = none]
  BY <1>1, Zenon DEF MemoryRestart, Restart, Configure, Reboot
<1>3. /\ heard' = [heard EXCEPT ![n] = {}] /\ taken' = [taken EXCEPT ![n] = {}]
  BY DEF MemoryRestart
<1>4. /\ seen'[n] = none /\ heard'[n] = {} /\ taken'[n] = {}
      /\ \A m \in Nodes \ {n} : seen'[m] = seen[m] /\ heard'[m] = heard[m] /\ taken'[m] = taken[m]
  BY <1>2, <1>3 DEF NodeTyped, PagerTyped, MemoryTyped, HistoryTyped
<1>5. none \in Seq({}) /\ Different(none) /\ IsFiniteSet({})
  BY <1>1, EmptySeq, FS_EmptySet DEF Different
<1> QED
  BY <1>4, <1>5 DEF SeenInv

LEMMA SeenStep ==
  ASSUME NodeTyped, HistoryTyped, SeenInv, NEW n \in Nodes, MemoryStep(n) \/ MemoryRestart(n)
  PROVE  SeenInv'
<1>1. CASE MemoryRestart(n)
  BY <1>1, SeenRestart
<1>2. CASE \E p \in Heard :
             /\ Process(n, p)
             /\ taken' = [taken EXCEPT ![n] = @ \cup (IdsOf(orders'[n]) \ IdsOf(orders[n]))]
             /\ heard' = [heard EXCEPT ![n] = @ \cup ({p.id} \ {0})]
  BY <1>2, SeenProcess
<1>3. CASE /\ \/ ClearSelected(n) \/ AckSelected(n) \/ Cleanup(n) \/ SendBoot(n) \/ Tick(n)
              \/ (\E m \in Modes : SwitchMode(n, m)) \/ \E up \in BOOLEAN : Select(n, up)
           /\ UNCHANGED <<heard, taken>>
  <2>1. UNCHANGED <<seen, heard, taken>>
    BY <1>3 DEF ClearSelected, AckSelected, Cleanup, SwitchMode, Select, SendBoot, Tick
  <2> QED
    BY <2>1 DEF SeenInv
<1> QED
  BY <1>1, <1>2, <1>3 DEF MemoryStep, memory

\* A step that lists an order anew is the taking of a packet that is not
\* remembered: the memory is then full of others.
LEMMA RelistStep ==
  ASSUME MemoryTypedInv, SeenInv, NEW n \in Nodes, MemoryStep(n) \/ MemoryRestart(n),
         NEW m \in Nodes,
         (IdsOf(orders'[m]) \ IdsOf(orders[m])) \cap taken[m] # {}, taken'[m] # {}
  PROVE  Cardinality(heard'[m]) > SeenSize
<1> DEFINE new == IdsOf(orders'[m]) \ IdsOf(orders[m])
<1>0. /\ orders \in [Nodes -> Seq(Orders)] /\ HistoryTyped /\ NodeTyped /\ PagerTyped
  BY DEF MemoryTypedInv, NodeTyped, PagerTyped, ListsTyped, BoxInv
<1>1. CASE MemoryRestart(n)
  <2>1. orders' = [orders EXCEPT ![n] = Restored(box[n])] /\ taken' = [taken EXCEPT ![n] = {}]
    BY <1>1 DEF MemoryRestart, Restart, Configure, Reboot, Lists
  <2> QED
    BY <1>0, <2>1 DEF HistoryTyped
<1>2. CASE \E p \in Heard : /\ Process(n, p)
                            /\ heard' = [heard EXCEPT ![n] = @ \cup ({p.id} \ {0})]
  <2>1. PICK p \in Heard : /\ Process(n, p)
                           /\ heard' = [heard EXCEPT ![n] = heard[n] \cup ({p.id} \ {0})]
    BY <1>2
  <2>2. p \in AirPackets
    BY HeardTyped
  <2>3. CASE \A l \in Nodes : SameIds(orders[l], orders'[l])
    BY <2>3, SameIdsKept
  <2>4. CASE TakesOrder(n, p)
    <3>1. PICK order \in Orders :
            /\ order.id = p.id /\ Fresh(n, p) /\ ForUs(n, p)
            /\ orders' = [orders EXCEPT ![n] = Append(orders[n], order)]
      BY <2>4 DEF TakesOrder
    <3>2. m = n
      BY <1>0, <3>1
    <3>3. orders'[n] = Append(orders[n], order) /\ orders[n] \in Seq(Orders)
      BY <1>0, <3>1
    <3>4. new = {p.id}
      <4>1. IdsOf(orders'[n]) = IdsOf(orders[n]) \cup {p.id}
        BY <3>1, <3>3, AppendIds
      <4> QED
        BY <3>2, <4>1
    <3>5. p.id \in heard[n] /\ ~Contains(seen[n], p.id)
      <4>1. p.id \in taken[n]
        BY <3>2, <3>4
      <4>2. ~Contains(seen[n], p.id)
        BY <3>1 DEF Fresh, ForUs
      <4> QED
        BY <4>1, <4>2 DEF SeenInv
    <3>6. Len(seen[n]) >= SeenSize /\ Len(seen[n]) < Cardinality(heard[n])
      BY <3>5, RoomForFresh DEF SeenInv
    <3>7. heard'[m] = heard[m]
      BY <1>0, <2>1, <3>2, <3>5 DEF HistoryTyped
    <3>8. Len(seen[n]) \in Nat /\ Cardinality(heard[n]) \in Nat /\ SeenSize \in Nat
      BY <1>0, LenProperties, FS_CardinalityType, MeshPagerAssumption
      DEF SeenInv, PagerTyped, MemoryTyped
    <3> QED
      BY <3>2, <3>6, <3>7, <3>8
  <2> QED
    BY <1>0, <2>1, <2>2, <2>3, <2>4, ProcessLists
<1>3. CASE AckSelected(n) \/ ClearSelected(n) \/ Cleanup(n)
  <2>1. PICK list \in Seq(Orders) : Lists(n, list) /\ IdsOf(list) \subseteq IdsOf(orders[n])
    <3>1. CASE AckSelected(n)
      BY <1>0, <3>1, AckLists, SameIdsKept DEF Saves
    <3>2. CASE ClearSelected(n)
      <4>1. orders[n] \in Seq(Orders)
        BY <1>0
      <4> QED
        BY <1>0, <3>2, <4>1, ClearLists, RemoveIds DEF Saves
    <3>3. CASE Cleanup(n)
      BY <1>0, <3>3, CleanupLists
    <3> QED
      BY <1>3, <3>1, <3>2, <3>3
  <2> QED
    BY <1>0, <2>1 DEF Lists
<1>4. CASE \E l \in Modes : SwitchMode(n, l)
  <2>1. PICK none : none = <<>>
    OBVIOUS
  <2>2. orders' = [orders EXCEPT ![n] = none]
    BY <1>4, <2>1, Zenon DEF SwitchMode, Lists
  <2>3. IdsOf(none) = {}
    BY <2>1 DEF IdsOf
  <2> QED
    BY <1>0, <2>2, <2>3
<1>5. CASE (\E up \in BOOLEAN : Select(n, up)) \/ SendBoot(n) \/ Tick(n)
  BY <1>5 DEF Select, SendBoot, Tick
<1> QED
  BY <1>1, <1>2, <1>3, <1>4, <1>5 DEF MemoryStep

\* No late copy of a packet lists an order a second time while the pager is up,
\* cleared, expired or dropped as it may be, unless the pager has heard of more
\* orders than it remembers packets.
THEOREM LateCopiesAreDropped == MemorySpec => ListedOncePerBoot
<1> DEFINE Once == \A n \in Nodes :
             (IdsOf(orders'[n]) \ IdsOf(orders[n])) \cap taken[n] # {} /\ taken'[n] # {}
               => Cardinality(heard'[n]) > SeenSize
<1>1. MemoryInit => SeenInv
  <2> SUFFICES ASSUME MemoryInit PROVE SeenInv
    OBVIOUS
  <2>1. PICK none : none = <<>>
    OBVIOUS
  <2>2. none \in Seq({}) /\ Different(none) /\ IsFiniteSet({})
    BY <2>1, EmptySeq, FS_EmptySet DEF Different
  <2>3. /\ seen = [n \in Nodes |-> none]
        /\ heard = [n \in Nodes |-> {}] /\ taken = [n \in Nodes |-> {}]
    BY <2>1, Zenon DEF MemoryInit, PagerInit
  <2> QED
    BY <2>2, <2>3 DEF SeenInv
<1>2. MemoryTypedInv /\ SeenInv /\ [MemoryNext]_<<pagerVars, memory>> => SeenInv'
  <2> SUFFICES ASSUME MemoryTypedInv, SeenInv, [MemoryNext]_<<pagerVars, memory>>
               PROVE  SeenInv'
    OBVIOUS
  <2>1. CASE MemoryNext
    BY <2>1, SeenStep DEF MemoryNext, MemoryTypedInv, BoxInv
  <2>2. CASE UNCHANGED <<pagerVars, memory>>
    BY <2>2 DEF pagerVars, memory, SeenInv
  <2> QED
    BY <2>1, <2>2
<1>3. MemoryTypedInv /\ SeenInv /\ [MemoryNext]_<<pagerVars, memory>>
        => [Once]_<<pagerVars, memory>>
  BY RelistStep DEF MemoryNext
<1>4. MemorySpec => [][Once]_<<pagerVars, memory>>
  <2> HIDE DEF Once
  <2> QED
    BY <1>1, <1>2, <1>3, MemoryInvariant, PTL DEF MemorySpec
<1> QED
  BY <1>4 DEF ListedOncePerBoot
================================================================================
