-------------------------- MODULE TuggerStoreProofs --------------------------
(***************************************************************************)
(* Proofs about TuggerStore for every size of the ring and of the table,   *)
(* every set of ids, every clock and every timeout: its invariants, and    *)
(* that it implements the bounded queue of OrderQueue when power fails     *)
(* only between saves and no order is served over whose bucket the walk    *)
(* for another one leads; when one is, the index loses the other.          *)
(***************************************************************************)
EXTENDS TuggerStore, SequenceTheorems, FiniteSetTheorems, WellFoundedInduction, TLAPS

-----------------------------------------------------------------------------
(* Type correctness. *)

\* The scan stays inside the window while it saves what it has marked.
ScanInWindow == pc = "saveScan" => scan < count

TypeInv == TypeOK /\ ScanInWindow

\* The successor of a slot is a slot, and so is the slot before the tail.
LEMMA SlotArithmetic ==
  /\ \A s \in Slots : Succ(s) \in Slots
  /\ \A s \in Slots : (s + MaxOrders - 1) % MaxOrders \in Slots
  /\ \A s \in Slots, k \in Nat : (s + k) % MaxOrders \in Slots
  /\ 0 \in Slots
BY TuggerStoreAssumption DEF Slots, Succ

\* The boot code's empty slot and what a save stores are orders.
LEMMA StoredOrders ==
  /\ Blank \in Orders
  /\ \A order \in Orders : Saved(order) \in Orders
BY TuggerStoreAssumption DEF Blank, Saved, Orders, Times

\* The table operations keep the type of the table.
LEMMA TableType ==
  ASSUME NEW t \in [Buckets -> Slots \cup {Null}], NEW ids, NEW id, NEW s \in Slots
  PROVE  /\ AddToTable(t, ids, id, s) \in [Buckets -> Slots \cup {Null}]
         /\ RemoveFromTable(t, ids, id) \in [Buckets -> Slots \cup {Null}]
         /\ EmptyTable \in [Buckets -> Slots \cup {Null}]
BY DEF AddToTable, RemoveFromTable, EmptyTable

LEMMA TypeInit == Init => TypeInv
BY StoredOrders, SlotArithmetic, TableType, TuggerStoreAssumption
DEF Init, TypeInv, TypeOK, ScanInWindow, PCs, Zones, Times, EmptyTable, Null

LEMMA TypeStep == TypeInv /\ [Next]_vars => TypeInv'
<1> SUFFICES ASSUME TypeInv, [Next]_vars PROVE TypeInv'
  OBVIOUS
<1> USE TuggerStoreAssumption DEF TypeInv, TypeOK, ScanInWindow, PCs
<1>1. CASE Restart
  BY <1>1, StoredOrders, TableType DEF Restart, Zones, Times
<1>2. CASE LoadSlot
  <2>1. idx \in Slots /\ nvs.slot[idx] \in Orders
    BY <1>2 DEF LoadSlot, Slots
  <2>2. fifo' \in [Slots -> Orders] /\ table' \in [Buckets -> Slots \cup {Null}]
    BY <1>2, <2>1, TableType DEF LoadSlot
  <2>3. idx' \in 0 .. MaxOrders + 3 /\ idx' <= MaxOrders
    BY <1>2 DEF LoadSlot
  <2> QED
    BY <1>2, <2>2, <2>3 DEF LoadSlot
<1>3. CASE EndLoad
  BY <1>3 DEF EndLoad, ram
<1>4. CASE NextZone
  BY <1>4 DEF NextZone, Zones
<1>5. CASE LockZone
  <2>1. zone' \in Zones
    BY <1>5 DEF LockZone, Zones
  <2> QED
    BY <1>5, <2>1 DEF LockZone
<1>6. ASSUME NEW d \in PassTimes, BeginPass(d) PROVE TypeInv'
  <2>1. clock' \in Times
    BY <1>6 DEF BeginPass, Times
  <2> QED
    BY <1>6, <2>1 DEF BeginPass, ram
<1>7. ASSUME NEW id \in Ids, NEW z \in 1 .. LastZone, Receive(id, z) PROVE TypeInv'
  <2>1. out' \subseteq ([type : {"ack", "clear", "timeout"}, id : Ids \cup {NoId}]
                        \cup [type : {"order"}, id : Ids \cup {NoId}, zone : Zones])
    BY <1>7 DEF Receive, Report
  <2>2. CASE Exists(table, IdAt(fifo), id)
    BY <1>7, <2>1, <2>2 DEF Receive
  <2>3. CASE ~Exists(table, IdAt(fifo), id)
    <3>1. fifo' \in [Slots -> Orders]
      <4>1. [id |-> id, created |-> clock, timedOut |-> FALSE, active |-> TRUE]
              \in Orders
        BY DEF Orders
      <4> QED
        BY <1>7, <2>3, <4>1 DEF Receive
    <3>2. table' \in [Buckets -> Slots \cup {Null}]
      BY <1>7, <2>3, TableType DEF Receive
    <3>3. tail' \in Slots /\ count' \in 0 .. MaxOrders
      BY <1>7, <2>3, SlotArithmetic DEF Receive, Room
    <3> QED
      BY <1>7, <2>1, <2>3, <3>1, <3>2, <3>3 DEF Receive
  <2> QED
    BY <2>2, <2>3
<1>8. ASSUME NEW id \in Ids, NEW z \in 1 .. LastZone, Refuse(id, z) PROVE TypeInv'
  BY <1>8 DEF Refuse, ram
<1>9. CASE NoPacket
  BY <1>9 DEF NoPacket, ram
<1>10. CASE SaveStep
  <2>1. nvs' \in [zone : Zones, head : Slots, tail : Slots, count : 0 .. MaxOrders,
                  slot : [Slots -> Orders]]
    <3>1. CASE idx \in {0, 1, 2}
      BY <1>10, <3>1 DEF SaveStep
    <3>2. CASE idx \notin {0, 1, 2}
      <4>0. idx < MaxOrders + 3
        BY <1>10 DEF SaveStep
      <4>1. idx - 3 \in Slots
        BY <4>0, <3>2 DEF Slots
      <4>3. Saved(fifo[idx - 3]) \in Orders
        BY <4>1, StoredOrders
      <4>2. nvs' = [nvs EXCEPT !.slot[idx - 3] = Saved(fifo[idx - 3])]
        BY <1>10, <3>2 DEF SaveStep
      <4> QED
        BY <4>1, <4>2, <4>3
    <3> QED
      BY <3>1, <3>2
  <2> QED
    BY <1>10, <2>1 DEF SaveStep, Saving, ram
<1>11. CASE EndSaveAdd
  <2>1. out' \subseteq [type : {"order"}, id : Ids \cup {NoId}, zone : Zones]
    BY <1>11, SlotArithmetic DEF EndSaveAdd, OrderPacket, Orders
  <2> QED
    BY <1>11, <2>1 DEF EndSaveAdd, ram
<1>12. CASE EndSaveScan
  BY <1>12 DEF EndSaveScan, ram
<1>13. CASE EndSaveClear
  BY <1>13 DEF EndSaveClear, ram
<1>14. CASE Expire
  <2>1. At(scan) \in Slots
    <3>1. scan \in Nat /\ head \in Nat
      BY DEF Slots
    <3> QED
      BY <3>1, SlotArithmetic DEF At
  <2>2. fifo' \in [Slots -> Orders]
    BY <1>14, <2>1 DEF Expire, Orders
  <2>3. out' \subseteq [type : {"ack", "clear", "timeout"}, id : Ids \cup {NoId}]
    BY <1>14, <2>1 DEF Expire, Report, Orders
  <2> QED
    BY <1>14, <2>2, <2>3 DEF Expire
<1>15. CASE PassOver
  BY <1>15 DEF PassOver, ram
<1>16. CASE EndScan
  BY <1>16 DEF EndScan, ram
<1>17. CASE Serve
  <2>1. fifo' \in [Slots -> Orders]
    BY <1>17 DEF Serve, Orders
  <2>2. out' \subseteq [type : {"ack", "clear", "timeout"}, id : Ids \cup {NoId}]
    BY <1>17 DEF Serve, Report, Orders
  <2>3. table' \in [Buckets -> Slots \cup {Null}]
    BY <1>17, TableType DEF Serve
  <2>4. head' \in Slots
    BY <1>17, SlotArithmetic DEF Serve
  <2>5. count' \in 0 .. MaxOrders
    BY <1>17 DEF Serve
  <2> QED
    BY <1>17, <2>1, <2>2, <2>3, <2>4, <2>5 DEF Serve
<1>18. CASE NoServe
  BY <1>18 DEF NoServe, ram
<1>19. CASE UNCHANGED vars
  BY <1>19 DEF vars, ram
<1> QED
  BY <1>1, <1>2, <1>3, <1>4, <1>5, <1>6, <1>7, <1>8, <1>9, <1>10, <1>11, <1>12,
     <1>13, <1>14, <1>15, <1>16, <1>17, <1>18, <1>19
  DEF Next, Boot, Loop, Save

\* Every variable keeps its type, and the tugger sends only packets it knows.
THEOREM TypeCorrect == Spec => []TypeOK
<1>1. Spec => []TypeInv
  BY TypeInit, TypeStep, PTL DEF Spec
<1> QED
  BY <1>1, PTL DEF TypeInv

-----------------------------------------------------------------------------
(* NVS follows RAM, with or without torn saves. *)

\* While the ring is loaded the counters are NVS's, the slots before idx are
\* NVS's and the others are blank.
LoadInv ==
  pc = "load" =>
    /\ zone = nvs.zone /\ head = nvs.head /\ tail = nvs.tail /\ count = nvs.count
    /\ \A s \in Slots : fifo[s] = IF s < idx THEN nvs.slot[s] ELSE Blank

\* NVS never holds an order that is not active.
NvsForm == \A s \in Slots : Saved(nvs.slot[s]) = nvs.slot[s]

SyncInv == NvsInSync /\ LoadInv /\ NvsForm

\* The places of loop() where no load and no save is in progress.
Calm == {"zone", "hung", "loop", "rx", "scan", "button"}

\* The steps that leave RAM and NVS alone, and neither load nor save.
Quiet == pc \in Calm /\ pc' \in Calm /\ UNCHANGED <<ram, nvs>>

LEMMA QuietSteps ==
  \/ \E d \in PassTimes : BeginPass(d)
  \/ \E id \in Ids, z \in 1 .. LastZone : Refuse(id, z)
  \/ NoPacket \/ PassOver \/ EndScan \/ NoServe
  => Quiet
BY DEF BeginPass, Refuse, NoPacket, PassOver, EndScan, NoServe, Quiet, Calm

LEMMA SyncInit == Init => SyncInv
BY TuggerStoreAssumption
DEF Init, SyncInv, NvsInSync, LoadInv, NvsForm, Saved, Blank, Slots

LEMMA SyncStep == TypeInv /\ SyncInv /\ [Next]_vars => SyncInv'
<1> SUFFICES ASSUME TypeInv, SyncInv, [Next]_vars PROVE SyncInv'
  OBVIOUS
<1> USE TuggerStoreAssumption
<1>1. CASE Restart
  <2>1. \A s \in Slots : ~(s < 0)
    BY DEF Slots
  <2> QED
    BY <1>1, <2>1 DEF Restart, SyncInv, NvsInSync, LoadInv, NvsForm
<1>2. CASE LoadSlot
  <2>1. idx \in Slots /\ idx' = idx + 1 /\ pc = "load" /\ pc' = "load"
    BY <1>2 DEF LoadSlot, Slots, TypeInv, TypeOK
  <2>2. \A s \in Slots : fifo'[s] = IF s < idx' THEN nvs.slot[s] ELSE Blank
    <3> TAKE s \in Slots
    <3>1. fifo' = [fifo EXCEPT ![idx] = nvs.slot[idx]]
      BY <1>2 DEF LoadSlot
    <3>2. fifo[s] = IF s < idx THEN nvs.slot[s] ELSE Blank
      BY <2>1 DEF SyncInv, LoadInv
    <3>3. s < idx + 1 <=> s < idx \/ s = idx
      BY <2>1 DEF Slots
    <3> QED
      BY <2>1, <3>1, <3>2, <3>3 DEF TypeInv, TypeOK
  <2> QED
    BY <1>2, <2>1, <2>2 DEF LoadSlot, SyncInv, NvsInSync, LoadInv, NvsForm
<1>3. CASE EndLoad
  <2>1. \A s \in Slots : fifo[s] = nvs.slot[s]
    BY <1>3 DEF EndLoad, SyncInv, LoadInv, Slots
  <2>2. pc' # "load"
    BY <1>3 DEF EndLoad
  <2> QED
    BY <1>3, <2>1, <2>2
    DEF EndLoad, SyncInv, NvsInSync, LoadInv, NvsForm, Written, Saving, ram
<1>4. CASE NextZone
  BY <1>4 DEF NextZone, SyncInv, NvsInSync, LoadInv, NvsForm, Written, Saving
<1>5. CASE LockZone
  BY <1>5 DEF LockZone, SyncInv, NvsInSync, LoadInv, NvsForm, Written, Saving,
              TypeInv, TypeOK
<1>6. ASSUME NEW id \in Ids, NEW z \in 1 .. LastZone, Receive(id, z) PROVE SyncInv'
  <2>1. CASE pc' = "scan"
    BY <1>6, <2>1 DEF Receive, SyncInv, NvsInSync, LoadInv, NvsForm, Written, Saving
  <2>2. CASE pc' = "saveAdd" /\ idx' = 0
    BY <1>6, <2>2 DEF Receive, SyncInv, NvsInSync, LoadInv, NvsForm, Written, Saving, Slots
  <2> QED
    BY <1>6, <2>1, <2>2 DEF Receive
<1>7. CASE Quiet
  BY <1>7 DEF Quiet, Calm, ram, SyncInv, NvsInSync, LoadInv, NvsForm, Written, Saving
<1>8. CASE SaveStep
  <2>1. /\ Saving /\ pc' = pc /\ idx' = idx + 1 /\ idx < MaxOrders + 3
        /\ UNCHANGED <<zone, fifo, head, tail, count>>
        /\ pc # "load" /\ Saving'
    BY <1>8 DEF SaveStep, Saving, ram
  <2>2. CASE idx \in {0, 1, 2}
    <3>1. nvs'.slot = nvs.slot /\ nvs'.zone = nvs.zone
      BY <1>8, <2>2 DEF SaveStep, TypeInv, TypeOK
    <3>2. /\ idx = 0 => nvs' = [nvs EXCEPT !.head = head]
          /\ idx = 1 => nvs' = [nvs EXCEPT !.tail = tail]
          /\ idx = 2 => nvs' = [nvs EXCEPT !.count = count]
      BY <1>8, <2>2 DEF SaveStep
    <3>3. /\ 0 < idx + 1 => nvs'.head = head
          /\ 1 < idx + 1 => nvs'.tail = tail
          /\ 2 < idx + 1 => nvs'.count = count
      BY <2>1, <2>2, <3>2 DEF SyncInv, NvsInSync, Written, TypeInv, TypeOK
    <3>4. \A s \in Slots : ~(s + 3 < idx + 1)
      BY <2>2 DEF Slots
    <3> QED
      BY <2>1, <3>1, <3>3, <3>4 DEF SyncInv, NvsInSync, LoadInv, NvsForm, Written
  <2>3. CASE idx \notin {0, 1, 2}
    <3>0. idx \in Int /\ idx > 2
      BY <2>3 DEF TypeInv, TypeOK
    <3>1. idx - 3 \in Slots
      BY <2>1, <3>0 DEF Slots
    <3>2. nvs' = [nvs EXCEPT !.slot[idx - 3] = Saved(fifo[idx - 3])]
      BY <1>8, <2>3 DEF SaveStep
    <3>3. /\ nvs'.zone = nvs.zone /\ nvs'.head = nvs.head
          /\ nvs'.tail = nvs.tail /\ nvs'.count = nvs.count
      BY <3>2 DEF TypeInv, TypeOK
    <3>4. \A s \in Slots : nvs'.slot[s] = IF s = idx - 3 THEN Saved(fifo[s])
                                          ELSE nvs.slot[s]
      BY <3>1, <3>2 DEF TypeInv, TypeOK
    <3>5. \A s \in Slots : s + 3 < idx + 1 => s = idx - 3 \/ s + 3 < idx
      BY <3>0 DEF Slots
    <3>6. \A s \in Slots : s + 3 < idx + 1 => nvs'.slot[s] = Saved(fifo[s])
      BY <2>1, <3>4, <3>5 DEF SyncInv, NvsInSync, Written
    <3>7. NvsForm'
      BY <3>4 DEF SyncInv, NvsForm, Saved
    <3>8. nvs.zone = zone /\ nvs.head = head /\ nvs.tail = tail /\ nvs.count = count
      BY <2>1, <3>0 DEF SyncInv, NvsInSync, Written
    <3> QED
      BY <2>1, <3>3, <3>6, <3>7, <3>8 DEF SyncInv, NvsInSync, LoadInv, Written
  <2> QED
    BY <2>2, <2>3
<1>9. CASE EndSaveAdd \/ EndSaveScan \/ EndSaveClear
  <2>1. /\ Saving /\ ~Saving' /\ idx = MaxOrders + 3 /\ UNCHANGED <<ram, nvs>>
        /\ pc # "load" /\ pc' # "load"
    BY <1>9 DEF EndSaveAdd, EndSaveScan, EndSaveClear, Saving
  <2>2. \A s \in Slots : s + 3 < idx
    BY <2>1 DEF Slots
  <2> QED
    BY <2>1, <2>2 DEF SyncInv, NvsInSync, LoadInv, NvsForm, Written, ram
<1>10. CASE Expire \/ Serve
  <2>1. /\ Saving' /\ idx' = 0 /\ UNCHANGED <<nvs, zone>>
        /\ pc # "load" /\ pc' # "load" /\ ~Saving
    BY <1>10 DEF Expire, Serve, Saving
  <2>2. \A s \in Slots : ~(s + 3 < 0)
    BY DEF Slots
  <2> QED
    BY <2>1, <2>2 DEF SyncInv, NvsInSync, LoadInv, NvsForm, Written
<1>11. CASE UNCHANGED vars
  BY <1>11 DEF vars, ram, SyncInv, NvsInSync, LoadInv, NvsForm, Written, Saving
<1> QED
  BY <1>1, <1>2, <1>3, <1>4, <1>5, <1>6, <1>7, <1>8, <1>9, <1>10, <1>11, QuietSteps
  DEF Next, Boot, Loop, Save

LEMMA TypeAndSync == Spec => [](TypeInv /\ SyncInv)
<1>1. Init => TypeInv /\ SyncInv
  BY TypeInit, SyncInit
<1>2. (TypeInv /\ SyncInv) /\ [Next]_vars => (TypeInv /\ SyncInv)'
  BY TypeStep, SyncStep
<1> QED
  BY <1>1, <1>2, PTL DEF Spec

\* When no save is in progress NVS holds what RAM holds, and a save writes its
\* keys in order; no crash, at any point of a save, breaks this.
THEOREM NvsFollowsRam == Spec => []NvsInSync
<1>1. TypeInv /\ SyncInv => NvsInSync
  BY DEF SyncInv
<1> QED
  BY <1>1, TypeAndSync, PTL

-----------------------------------------------------------------------------
(* The window of the ring, when power fails only between saves. *)

\* How a step of the ring moves the distances from the head.
LEMMA RingArithmetic ==
  ASSUME NEW h \in Slots, NEW s \in Slots, NEW n \in 0 .. MaxOrders
  PROVE
    LET D(x) == IF s >= x THEN s - x ELSE s - x + MaxOrders
        next == (h + 1) % MaxOrders
    IN /\ n < MaxOrders => (s = (h + n) % MaxOrders <=> D(h) = n)
       /\ n < MaxOrders => (((h + n) % MaxOrders) + 1) % MaxOrders
                            = (h + (n + 1)) % MaxOrders
       /\ n > 0 => (D(next) < n - 1 <=> D(h) < n /\ s # h)
       /\ n > 0 => (h + n) % MaxOrders = (next + (n - 1)) % MaxOrders
       /\ D(h) \in 0 .. MaxOrders - 1
<1>1. MaxOrders \in Nat \ {0} /\ h \in 0 .. MaxOrders - 1 /\ s \in 0 .. MaxOrders - 1
  BY TuggerStoreAssumption DEF Slots
<1>2. (h + 1) % MaxOrders = IF h = MaxOrders - 1 THEN 0 ELSE h + 1
  BY <1>1
<1>3. (h + n) % MaxOrders = IF h + n < MaxOrders THEN h + n ELSE h + n - MaxOrders
  BY <1>1
<1>4. n < MaxOrders =>
        (h + (n + 1)) % MaxOrders
          = IF h + n + 1 < MaxOrders THEN h + n + 1 ELSE h + n + 1 - MaxOrders
  BY <1>1
<1>5. \A x \in Slots : (x + 1) % MaxOrders = IF x = MaxOrders - 1 THEN 0 ELSE x + 1
  BY <1>1 DEF Slots
<1>6. n < MaxOrders => (h + n) % MaxOrders \in Slots
  BY <1>1, <1>3 DEF Slots
<1>7. n > 0 => (((h + 1) % MaxOrders) + (n - 1)) % MaxOrders
              = IF ((h + 1) % MaxOrders) + n - 1 < MaxOrders
                THEN ((h + 1) % MaxOrders) + n - 1
                ELSE ((h + 1) % MaxOrders) + n - 1 - MaxOrders
  BY <1>1, <1>2
<1> QED
  BY <1>1, <1>2, <1>3, <1>4, <1>5, <1>6, <1>7

\* Steps that change neither the counters nor which stored orders are active.
LEMMA RingSame ==
  ASSUME RingWindow, UNCHANGED <<head, tail, count>>,
         \A s \in Slots : Stored(s)'.active = Stored(s).active
  PROVE  RingWindow'
BY DEF RingWindow, Dist

LEMMA RingInit == Init => RingWindow
<1> SUFFICES ASSUME Init PROVE RingWindow
  OBVIOUS
<1>1. (0 + 0) % MaxOrders = 0
  BY TuggerStoreAssumption
<1>2. \A s \in Slots : ~(Dist(s) < 0)
  BY TuggerStoreAssumption DEF Init, Dist, Slots
<1> QED
  BY <1>1, <1>2 DEF Init, RingWindow, Stored, Blank

\* The steps of setup() and loop() keep the window, torn saves or not.
LEMMA RingRuns == TypeInv /\ SyncInv /\ RingWindow /\ [Boot \/ Loop]_vars => RingWindow'
<1> SUFFICES ASSUME TypeInv, SyncInv, RingWindow, [Boot \/ Loop]_vars
             PROVE  RingWindow'
  OBVIOUS
<1>2. CASE LoadSlot
  BY <1>2, RingSame DEF LoadSlot, Stored
<1>3. CASE EndLoad
  <2>1. \A s \in Slots : fifo[s] = nvs.slot[s]
    BY <1>3, TuggerStoreAssumption DEF EndLoad, SyncInv, LoadInv, Slots
  <2>2. pc = "load" /\ pc' # "load" /\ UNCHANGED ram
    BY <1>3 DEF EndLoad
  <2> QED
    BY <2>1, <2>2, RingSame DEF Stored, ram
<1>4. CASE NextZone
  BY <1>4, RingSame DEF NextZone, Stored
<1>5. CASE LockZone
  BY <1>5, RingSame DEF LockZone, Stored
<1>6. ASSUME NEW id \in Ids, NEW z \in 1 .. LastZone, Receive(id, z) PROVE RingWindow'
  <2>1. CASE Exists(table, IdAt(fifo), id)
    BY <1>6, <2>1, RingSame DEF Receive, Stored
  <2>2. CASE ~Exists(table, IdAt(fifo), id)
    <3>1. /\ count < MaxOrders /\ pc # "load" /\ pc' # "load"
          /\ head' = head /\ count' = count + 1 /\ tail' = (tail + 1) % MaxOrders
          /\ fifo' = [fifo EXCEPT ![tail] = [id |-> id, created |-> clock,
                                             timedOut |-> FALSE, active |-> TRUE]]
      BY <1>6, <2>2 DEF Receive, Room, Succ
    <3>2. head \in Slots /\ tail \in Slots /\ count \in 0 .. MaxOrders
      BY DEF TypeInv, TypeOK
    <3>3. tail = (head + count) % MaxOrders
      BY DEF RingWindow
    <3>4. tail' = (head' + count') % MaxOrders
      BY <3>1, <3>2, <3>3, RingArithmetic
    <3>5. ASSUME NEW s \in Slots PROVE Stored(s)'.active <=> Dist(s)' < count'
      <4>1. fifo'[s].active <=> s = tail \/ fifo[s].active
        BY <3>1, <3>2 DEF TypeInv, TypeOK
      <4>2. fifo[s].active <=> Dist(s) < count
        BY <3>1 DEF RingWindow, Stored
      <4>3. s = tail <=> Dist(s) = count
        BY <3>1, <3>2, <3>3, RingArithmetic DEF Dist
      <4>4. Dist(s) \in Int /\ count \in Int
        BY <3>2, RingArithmetic DEF Dist
      <4>5. Dist(s)' = Dist(s)
        BY <3>1 DEF Dist
      <4>6. Dist(s) < count + 1 <=> Dist(s) < count \/ Dist(s) = count
        BY <4>4
      <4> QED
        BY <3>1, <4>1, <4>2, <4>3, <4>5, <4>6 DEF Stored
    <3> QED
      BY <3>4, <3>5 DEF RingWindow
  <2> QED
    BY <2>1, <2>2
<1>7. CASE Quiet
  BY <1>7, RingSame DEF Quiet, Calm, ram, Stored
<1>8. CASE SaveStep
  BY <1>8, RingSame DEF SaveStep, Saving, Stored, ram
<1>9. CASE EndSaveAdd \/ EndSaveScan \/ EndSaveClear
  BY <1>9, RingSame DEF EndSaveAdd, EndSaveScan, EndSaveClear, Stored, ram
<1>10. CASE Expire
  <2>1. PICK t : fifo' = [fifo EXCEPT ![t].timedOut = TRUE]
    BY <1>10 DEF Expire
  <2>3. \A s \in Slots : fifo'[s].active = fifo[s].active
    BY <2>1 DEF TypeInv, TypeOK, Orders
  <2> QED
    BY <1>10, <2>3, RingSame DEF Expire, Stored
<1>11. CASE Serve
  <2>1. /\ count > 0 /\ pc # "load" /\ pc' # "load"
        /\ head' = (head + 1) % MaxOrders /\ count' = count - 1 /\ tail' = tail
        /\ fifo' = [fifo EXCEPT ![head].active = FALSE]
    BY <1>11 DEF Serve, Succ
  <2>2. head \in Slots /\ count \in 0 .. MaxOrders
    BY DEF TypeInv, TypeOK
  <2>3. tail' = (head' + count') % MaxOrders
    BY <2>1, <2>2, RingArithmetic DEF RingWindow
  <2>4. ASSUME NEW s \in Slots PROVE Stored(s)'.active <=> Dist(s)' < count'
    <3>1. fifo'[s].active <=> s # head /\ fifo[s].active
      BY <2>1, <2>2 DEF TypeInv, TypeOK, Orders
    <3>2. fifo[s].active <=> Dist(s) < count
      BY <2>1 DEF RingWindow, Stored
    <3>3. Dist(s)' < count - 1 <=> Dist(s) < count /\ s # head
      BY <2>1, <2>2, RingArithmetic DEF Dist
    <3> QED
      BY <2>1, <3>1, <3>2, <3>3 DEF Stored
  <2> QED
    BY <2>3, <2>4 DEF RingWindow
<1>12. CASE UNCHANGED vars
  BY <1>12, RingSame DEF vars, ram, Stored
<1> QED
  BY <1>2, <1>3, <1>4, <1>5, <1>6, <1>7, <1>8, <1>9, <1>10, <1>11, <1>12, QuietSteps
  DEF Boot, Loop, Save

LEMMA RingStep ==
  ASSUME ~TornSaves
  PROVE  TypeInv /\ SyncInv /\ RingWindow /\ [Next]_vars => RingWindow'
<1> SUFFICES ASSUME TypeInv, SyncInv, RingWindow, [Next]_vars PROVE RingWindow'
  OBVIOUS
<1>1. CASE Restart
  <2>1. CASE pc = "load"
    BY <1>1, <2>1, RingSame DEF Restart, SyncInv, LoadInv, Stored
  <2>2. CASE pc # "load"
    <3>1. /\ nvs.head = head /\ nvs.tail = tail /\ nvs.count = count
          /\ \A s \in Slots : nvs.slot[s] = Saved(fifo[s])
      BY <1>1, <2>2 DEF Restart, SyncInv, NvsInSync, Written
    <3>2. \A s \in Slots : nvs.slot[s].active = fifo[s].active
      BY <3>1 DEF Saved, Blank, TypeInv, TypeOK, Orders
    <3> QED
      BY <1>1, <2>2, <3>1, <3>2, RingSame DEF Restart, Stored
  <2> QED
    BY <2>1, <2>2
<1> QED
  BY <1>1, RingRuns DEF Next

\* When power fails only between saves, the counters and the active flags
\* always describe the same window, so that an active head can be served.
THEOREM WindowIsWhole ==
  ASSUME ~TornSaves PROVE Spec => []RingWindow
<1>1. TypeInv /\ SyncInv /\ RingWindow /\ [Next]_vars => RingWindow'
  BY RingStep
<1> QED
  BY <1>1, RingInit, TypeAndSync, PTL DEF Spec

-----------------------------------------------------------------------------
(* The index.  The walk for an order starts at its home bucket and goes    *)
(* over those of others to its own.  Serving an order empties its bucket,  *)
(* which would cut a walk that leads over it.                              *)

\* The walk for the order in slot s finds it at its k-th bucket.
WalkTo(s, k) ==
  /\ table[Probe(fifo[s].id, k)] = s
  /\ \A j \in 0 .. k - 1 : table[Probe(fifo[s].id, j)] # Null

\* An order is served only when no walk for another one leads over its bucket.
ServesApart ==
  Serve => \A s \in Slots \ {head} : fifo[s].active =>
             \E k \in Buckets : /\ WalkTo(s, k)
                                /\ \A j \in 0 .. k - 1 : table[Probe(fifo[s].id, j)] # head

\* Every bucket that is not empty has an active order of its own, and every
\* active order is found by its walk.
ChainInv ==
  /\ \A b \in Buckets : table[b] # Null => fifo[table[b]].active
  /\ \A b, c \in Buckets : table[b] # Null /\ table[b] = table[c] => b = c
  /\ \A s \in Slots : fifo[s].active =>
       fifo[s].id \in Ids /\ \E k \in Buckets : WalkTo(s, k)

\* The stored orders have ids, and no id twice.
StoredInv ==
  /\ \A s \in Slots : Stored(s).active => Stored(s).id \in Ids
  /\ NoDuplicateOrders

\* A walk looks at every bucket, at the home bucket first.
LEMMA ProbeIs ==
  ASSUME NEW id \in Ids
  PROVE  /\ Hash[id] \in Buckets /\ 0 \in Buckets /\ Probe(id, 0) = Hash[id]
         /\ \A k \in Buckets : Probe(id, k) \in Buckets
         /\ \A b \in Buckets : \E k \in Buckets : Probe(id, k) = b
<1> DEFINE h == Hash[id]
<1>1. TableSize \in Nat \ {0} /\ h \in 0 .. TableSize - 1
  BY ProbeTableAssumption
<1>2. \A k \in Buckets : Probe(id, k) = IF h + k < TableSize THEN h + k ELSE h + k - TableSize
  <2> TAKE k \in Buckets
  <2>1. (h + k) % TableSize = IF h + k < TableSize THEN h + k ELSE h + k - TableSize
    BY <1>1 DEF Buckets
  <2> QED
    BY <2>1 DEF Probe
<1> HIDE DEF h
<1>3. \A k \in Buckets : Probe(id, k) \in Buckets
  BY <1>1, <1>2 DEF Buckets
<1>4. ASSUME NEW b \in Buckets PROVE \E k \in Buckets : Probe(id, k) = b
  <2> DEFINE k == IF b >= h THEN b - h ELSE b - h + TableSize
  <2>1. k \in Buckets
    BY <1>1 DEF Buckets
  <2>2. (IF h + k < TableSize THEN h + k ELSE h + k - TableSize) = b
    BY <1>1 DEF Buckets
  <2> HIDE DEF k
  <2> QED
    BY <1>2, <2>1, <2>2
<1>5. 0 \in Buckets /\ Probe(id, 0) = h
  BY <1>1, <1>2 DEF Buckets
<1> QED
  BY <1>1, <1>3, <1>4, <1>5 DEF h, Buckets

\* A set of numbers has a least one.
Below == {p \in Nat \X Nat : p[1] < p[2]}

LEMMA LeastOf ==
  ASSUME NEW T \in SUBSET Nat, T # {}
  PROVE  \E x \in T : \A y \in T : x <= y
<1>1. Below = OpToRel(<, Nat)
  BY DEF Below, OpToRel
<1>2. IsWellFoundedOn(Below, Nat)
  BY <1>1, NatLessThanWellFounded
<1>3. PICK x \in T : \A y \in T : <<y, x>> \notin Below
  BY <1>2, WFMin
<1>4. \A y \in T : ~(y < x)
  BY <1>3 DEF Below
<1> QED
  BY <1>4

\* A walk that stops somewhere has a first stop, ...
LEMMA FirstStops ==
  ASSUME NEW t, NEW ids, NEW id, NEW k \in Buckets, Stops(t, ids, id, k)
  PROVE  \E j \in Buckets : j <= k /\ FirstStop(t, ids, id, j)
<1> DEFINE S == {j \in Buckets : Stops(t, ids, id, j)}
<1>1. S \subseteq Nat /\ k \in S
  BY ProbeTableAssumption DEF Buckets
<1>2. PICK j \in S : \A i \in S : j <= i
  <2> HIDE DEF S
  <2> QED
    BY <1>1, LeastOf
<1> QED
  BY <1>1, <1>2 DEF FirstStop

\* ... which is the only one ...
LEMMA OneStop ==
  ASSUME NEW t, NEW ids, NEW id, NEW k \in Buckets, FirstStop(t, ids, id, k)
  PROVE  /\ \A j \in Buckets : FirstStop(t, ids, id, j) <=> j = k
         /\ \A b : (\E j \in Buckets : b = Probe(id, j) /\ FirstStop(t, ids, id, j))
                   <=> b = Probe(id, k)
<1>1. \A i, j \in Buckets : i <= j /\ j <= i => i = j
  BY ProbeTableAssumption DEF Buckets
<1> QED
  BY <1>1 DEF FirstStop

\* ... and all that the table operations look at.
LEMMA StopAdds ==
  ASSUME NEW t, NEW ids, NEW id, NEW slot, NEW k \in Buckets, FirstStop(t, ids, id, k),
         NEW b \in Buckets
  PROVE  AddToTable(t, ids, id, slot)[b]
           = IF t[b] = Null /\ b = Probe(id, k) THEN slot ELSE t[b]
BY OneStop DEF AddToTable

LEMMA StopRemoves ==
  ASSUME NEW t, NEW ids, NEW id, NEW k \in Buckets, FirstStop(t, ids, id, k),
         NEW b \in Buckets
  PROVE  RemoveFromTable(t, ids, id)[b] = IF b = Probe(id, k) THEN Null ELSE t[b]
BY OneStop DEF RemoveFromTable

\* The walk for an id finds it when an active order has it, and only then.
LEMMA WalkFinds ==
  ASSUME TypeInv, ChainInv, NEW id \in Ids
  PROVE  Exists(table, IdAt(fifo), id)
           <=> \E s \in Slots : fifo[s].active /\ fifo[s].id = id
<1>1. \A b \in Buckets : table[b] # Null => table[b] \in Slots
  BY DEF TypeInv, TypeOK
<1>2. ASSUME NEW k \in Buckets, FirstStop(table, IdAt(fifo), id, k),
             table[Probe(id, k)] # Null
      PROVE  \E s \in Slots : fifo[s].active /\ fifo[s].id = id
  <2>1. PICK s \in Slots : s = table[Probe(id, k)]
    BY <1>1, <1>2, ProbeIs
  <2>2. IdAt(fifo)[s] = id
    BY <1>2, <2>1 DEF FirstStop, Stops
  <2>3. fifo[s].active
    BY <1>2, <2>1, ProbeIs DEF ChainInv
  <2> QED
    BY <2>2, <2>3 DEF IdAt
<1>3. ASSUME NEW s \in Slots, fifo[s].active, fifo[s].id = id
      PROVE  Exists(table, IdAt(fifo), id)
  <2>1. PICK k \in Buckets : WalkTo(s, k)
    BY <1>3 DEF ChainInv
  <2>2. table[Probe(id, k)] = s /\ IdAt(fifo)[s] = id
    BY <1>3, <2>1 DEF WalkTo, IdAt
  <2>3. PICK j \in Buckets : j <= k /\ FirstStop(table, IdAt(fifo), id, j)
    BY <2>2, FirstStops DEF Stops
  <2>4. table[Probe(id, j)] # Null
    <3>1. CASE j = k
      BY <2>2, <3>1, TuggerStoreAssumption DEF Slots, Null
    <3>2. CASE j # k
      <4>1. j \in 0 .. k - 1
        BY <2>3, <3>2, ProbeTableAssumption DEF Buckets
      <4> QED
        BY <1>3, <2>1, <4>1 DEF WalkTo
    <3> QED
      BY <3>1, <3>2
  <2> QED
    BY <2>3, <2>4 DEF Exists
<1> QED
  BY <1>2, <1>3 DEF Exists

\* A table with a bucket for every slot is not full while a slot is free.
LEMMA EmptyBucket ==
  ASSUME MaxOrders <= TableSize, TypeInv, ChainInv, NEW s \in Slots, ~fifo[s].active
  PROVE  \E b \in Buckets : table[b] = Null
<1> SUFFICES ASSUME \A b \in Buckets : table[b] # Null PROVE FALSE
  OBVIOUS
<1> DEFINE Others == Slots \ {s}
<1>1. table \in [Buckets -> Others]
  <2>1. \A b \in Buckets : table[b] \in Others
    BY DEF TypeInv, TypeOK, ChainInv
  <2>2. table = [b \in Buckets |-> table[b]]
    BY DEF TypeInv, TypeOK
  <2> HIDE DEF Others
  <2> QED
    BY <2>1, <2>2
<1>2. /\ TableSize \in Nat \ {0} /\ MaxOrders \in Nat \ {0}
      /\ 0 <= TableSize - 1 /\ 0 <= MaxOrders - 1
  BY ProbeTableAssumption, TuggerStoreAssumption
<1>3. IsFiniteSet(Buckets) /\ Cardinality(Buckets) = TableSize
  BY <1>2, FS_Interval DEF Buckets
<1>4. IsFiniteSet(Slots) /\ Cardinality(Slots) = MaxOrders
  BY <1>2, FS_Interval DEF Slots
<1>5. IsFiniteSet(Others) /\ Cardinality(Others) = MaxOrders - 1
  BY <1>4, FS_RemoveElement
<1>6. Cardinality(Others) < Cardinality(Buckets)
  BY <1>2, <1>3, <1>5
<1> HIDE DEF Others
<1>7. \E b, c \in Buckets : b # c /\ table[b] = table[c]
  BY <1>1, <1>3, <1>5, <1>6, FS_PigeonHole
<1> QED
  BY <1>7 DEF ChainInv

\* Steps that change neither table nor ids nor active flags.
LEMMA ChainSame ==
  ASSUME TypeInv, ChainInv, UNCHANGED table,
         \A s \in Slots : fifo'[s].active = fifo[s].active /\ fifo'[s].id = fifo[s].id
  PROVE  ChainInv'
<1>1. \A b \in Buckets : table[b] # Null => table[b] \in Slots
  BY DEF TypeInv, TypeOK
<1>2. \A s \in Slots, k \in Buckets : WalkTo(s, k) => WalkTo(s, k)'
  BY DEF WalkTo
<1> QED
  BY <1>1, <1>2 DEF ChainInv

LEMMA StoredSame ==
  ASSUME StoredInv,
         \A s \in Slots : Stored(s)'.active =>
            Stored(s).active /\ Stored(s)'.id = Stored(s).id
  PROVE  StoredInv'
BY DEF StoredInv, NoDuplicateOrders

\* An order that is not in the index is put into an inactive slot.
LEMMA ChainAdd ==
  ASSUME MaxOrders <= TableSize, TypeInv, ChainInv, NEW s \in Slots, NEW order \in Orders,
         ~fifo[s].active, order.active, order.id \in Ids,
         \A t \in Slots : fifo[t].active => fifo[t].id # order.id,
         fifo' = [fifo EXCEPT ![s] = order],
         table' = AddToTable(table, IdAt(fifo'), order.id, s)
  PROVE  ChainInv'
<1> DEFINE id  == order.id
           ids == IdAt(fifo')
<1>1. \A t \in Slots : fifo'[t] = IF t = s THEN order ELSE fifo[t]
  BY DEF TypeInv, TypeOK
<1>2. \A b \in Buckets : table[b] # Null =>
        table[b] \in Slots \ {s} /\ fifo[table[b]].active
  BY DEF TypeInv, TypeOK, ChainInv
<1>3. s # Null
  BY TuggerStoreAssumption DEF Slots, Null
<1>4. \A k \in Buckets : Stops(table, ids, id, k) <=> table[Probe(id, k)] = Null
  <2> TAKE k \in Buckets
  <2>1. SUFFICES ASSUME table[Probe(id, k)] # Null PROVE ids[table[Probe(id, k)]] # id
    BY DEF Stops
  <2>2. PICK t \in Slots : t = table[Probe(id, k)] /\ t # s /\ fifo[t].active
    BY <1>2, <2>1, ProbeIs
  <2>3. ids[t] = fifo[t].id
    BY <1>1, <2>2 DEF IdAt
  <2> QED
    BY <2>2, <2>3
<1>5. PICK k \in Buckets : FirstStop(table, ids, id, k)
  <2>1. PICK b \in Buckets : table[b] = Null
    BY EmptyBucket
  <2>2. PICK j \in Buckets : Probe(id, j) = b
    BY ProbeIs
  <2>3. Stops(table, ids, id, j)
    BY <1>4, <2>1, <2>2
  <2> HIDE DEF ids, id
  <2> QED
    BY <2>3, FirstStops
<1> DEFINE h == Probe(id, k)
<1>6. h \in Buckets /\ table[h] = Null
  BY <1>4, <1>5, ProbeIs DEF FirstStop
<1>7. \A b \in Buckets : table'[b] = IF table[b] = Null /\ b = h THEN s ELSE table[b]
  <2>1. table' = AddToTable(table, ids, id, s)
    OBVIOUS
  <2> HIDE DEF ids, id, h
  <2>2. \A b \in Buckets : AddToTable(table, ids, id, s)[b]
                             = IF table[b] = Null /\ b = h THEN s ELSE table[b]
    BY <1>5, StopAdds DEF h
  <2> QED
    BY <2>1, <2>2
<1>8. \A b \in Buckets : table'[b] = IF b = h THEN s ELSE table[b]
  BY <1>6, <1>7
<1>9. \A j \in 0 .. k - 1 : j \in Buckets /\ table[Probe(id, j)] # Null
  <2> TAKE j \in 0 .. k - 1
  <2>1. j \in Buckets /\ ~(k <= j)
    BY ProbeTableAssumption DEF Buckets
  <2> QED
    BY <1>4, <1>5, <2>1 DEF FirstStop
<1> HIDE DEF ids, h
<1>10. ASSUME NEW b \in Buckets, table'[b] # Null
       PROVE  fifo'[table'[b]].active
  <2>1. CASE b = h
    BY <1>1, <1>8, <2>1
  <2>2. CASE b # h
    BY <1>1, <1>2, <1>8, <1>10, <2>2
  <2> QED
    BY <2>1, <2>2
<1>11. ASSUME NEW b \in Buckets, NEW c \in Buckets, table'[b] # Null, table'[b] = table'[c]
       PROVE  b = c
  <2>1. CASE b = h \/ c = h
    BY <1>2, <1>3, <1>8, <1>11, <2>1
  <2>2. CASE b # h /\ c # h
    <3>1. table[b] # Null /\ table[b] = table[c]
      BY <1>8, <1>11, <2>2
    <3> QED
      BY <3>1 DEF ChainInv
  <2> QED
    BY <2>1, <2>2
<1>12. ASSUME NEW t \in Slots, fifo'[t].active
       PROVE  fifo'[t].id \in Ids /\ \E i \in Buckets : WalkTo(t, i)'
  <2>1. CASE t = s
    <3>1. fifo'[t].id = id
      BY <1>1, <2>1
    <3>2. table'[Probe(id, k)] = t
      BY <1>6, <1>8, <2>1 DEF h
    <3>3. \A j \in 0 .. k - 1 : table'[Probe(id, j)] # Null
      BY <1>3, <1>8, <1>9, ProbeIs
    <3>4. WalkTo(t, k)'
      BY <3>1, <3>2, <3>3 DEF WalkTo
    <3> QED
      BY <3>1, <3>4
  <2>2. CASE t # s
    <3>1. fifo'[t] = fifo[t] /\ fifo[t].active /\ fifo[t].id \in Ids
      BY <1>1, <1>12, <2>2 DEF ChainInv
    <3>2. PICK i \in Buckets : WalkTo(t, i)
      BY <3>1 DEF ChainInv
    <3>3. \A j \in Buckets : /\ Probe(fifo[t].id, j) \in Buckets
                             /\ table[Probe(fifo[t].id, j)] # Null =>
                                  table'[Probe(fifo[t].id, j)] = table[Probe(fifo[t].id, j)]
      BY <1>6, <1>8, <3>1, ProbeIs
    <3>4. \A j \in 0 .. i - 1 : j \in Buckets
      BY ProbeTableAssumption DEF Buckets
    <3>5. t # Null
      BY TuggerStoreAssumption DEF Slots, Null
    <3>6. table'[Probe(fifo[t].id, i)] = t
      BY <3>2, <3>3, <3>5 DEF WalkTo
    <3>7. \A j \in 0 .. i - 1 : table'[Probe(fifo[t].id, j)] # Null
      BY <3>2, <3>3, <3>4 DEF WalkTo
    <3>8. WalkTo(t, i)'
      BY <3>1, <3>6, <3>7 DEF WalkTo
    <3> QED
      BY <3>1, <3>8
  <2> QED
    BY <2>1, <2>2
<1> QED
  BY <1>10, <1>11, <1>12 DEF ChainInv

\* The order at the head leaves; no walk for another one leads over its bucket.
LEMMA ChainServe ==
  ASSUME TypeInv, ChainInv, fifo[head].active,
         \A s, t \in Slots :
           fifo[s].active /\ fifo[t].active /\ fifo[s].id = fifo[t].id => s = t,
         \A s \in Slots \ {head} : fifo[s].active =>
           \E k \in Buckets : /\ WalkTo(s, k)
                              /\ \A j \in 0 .. k - 1 : table[Probe(fifo[s].id, j)] # head,
         fifo' = [fifo EXCEPT ![head].active = FALSE],
         table' = RemoveFromTable(table, IdAt(fifo), fifo[head].id)
  PROVE  ChainInv'
<1> DEFINE id  == fifo[head].id
           ids == IdAt(fifo)
<1>1. head \in Slots /\ head # Null /\ id \in Ids
  BY TuggerStoreAssumption DEF TypeInv, TypeOK, ChainInv, Slots, Null
<1>2. \A s \in Slots : /\ fifo'[s].id = fifo[s].id
                       /\ fifo'[s].active <=> fifo[s].active /\ s # head
  BY <1>1 DEF TypeInv, TypeOK, Orders
<1>3. \A b \in Buckets : table[b] # Null => table[b] \in Slots /\ fifo[table[b]].active
  BY DEF TypeInv, TypeOK, ChainInv
<1>4. Exists(table, ids, id)
  BY <1>1, WalkFinds
<1>5. PICK k \in Buckets : FirstStop(table, ids, id, k) /\ table[Probe(id, k)] # Null
  BY <1>4 DEF Exists
<1> DEFINE h == Probe(id, k)
<1>6. h \in Buckets /\ table[h] = head
  <2>1. h \in Buckets
    BY <1>1, ProbeIs
  <2>2. PICK t \in Slots : t = table[h] /\ fifo[t].active
    BY <1>3, <1>5, <2>1
  <2>3. ids[t] = id
    BY <1>5, <2>2 DEF FirstStop, Stops
  <2>4. fifo[t].id = id
    BY <2>3 DEF IdAt
  <2> QED
    BY <1>1, <2>1, <2>2, <2>4
<1>7. \A b \in Buckets : table'[b] = IF b = h THEN Null ELSE table[b]
  <2>1. table' = RemoveFromTable(table, ids, id)
    OBVIOUS
  <2> HIDE DEF ids, id
  <2> QED
    BY <1>1, <1>5, <2>1, StopRemoves
<1>8. \A b \in Buckets : table[b] = head => b = h
  BY <1>1, <1>6 DEF ChainInv
<1> HIDE DEF ids, id, h
<1>10. ASSUME NEW b \in Buckets, table'[b] # Null
       PROVE  fifo'[table'[b]].active
  BY <1>2, <1>3, <1>7, <1>8, <1>10
<1>11. ASSUME NEW b \in Buckets, NEW c \in Buckets, table'[b] # Null, table'[b] = table'[c]
       PROVE  b = c
  BY <1>7, <1>11 DEF ChainInv
<1>12. ASSUME NEW s \in Slots, fifo'[s].active
       PROVE  fifo'[s].id \in Ids /\ \E i \in Buckets : WalkTo(s, i)'
  <2>1. fifo[s].active /\ s # head /\ fifo'[s].id = fifo[s].id /\ fifo[s].id \in Ids
    BY <1>2, <1>12 DEF ChainInv
  <2>2. PICK i \in Buckets : /\ WalkTo(s, i)
                             /\ \A j \in 0 .. i - 1 : table[Probe(fifo[s].id, j)] # head
    BY <2>1
  <2>3. \A j \in Buckets : /\ Probe(fifo[s].id, j) \in Buckets
                           /\ table[Probe(fifo[s].id, j)] # head =>
                                table'[Probe(fifo[s].id, j)] = table[Probe(fifo[s].id, j)]
    BY <1>6, <1>7, <2>1, ProbeIs
  <2>4. \A j \in 0 .. i - 1 : j \in Buckets
    BY ProbeTableAssumption DEF Buckets
  <2>5. WalkTo(s, i)'
    BY <2>1, <2>2, <2>3, <2>4 DEF WalkTo
  <2> QED
    BY <2>1, <2>5
<1> QED
  BY <1>10, <1>11, <1>12 DEF ChainInv

\* The slot after the window is free.
LEMMA FreeTail ==
  ASSUME TypeInv, RingWindow, count < MaxOrders, pc # "load"
  PROVE  ~fifo[tail].active
<1>1. head \in Slots /\ tail \in Slots /\ count \in 0 .. MaxOrders
  BY DEF TypeInv, TypeOK
<1>2. tail = (head + count) % MaxOrders
  BY DEF RingWindow
<1>3. ASSUME NEW s \in Slots PROVE s = tail <=> Dist(s) = count
  BY <1>1, <1>2, RingArithmetic DEF Dist
<1>4. Dist(tail) = count
  BY <1>1, <1>3
<1>5. ~(Dist(tail) < count)
  BY <1>1, <1>4
<1> QED
  BY <1>1, <1>5 DEF RingWindow, Stored

LEMMA ChainInit == Init => ChainInv /\ StoredInv
BY DEF Init, ChainInv, StoredInv, NoDuplicateOrders, Stored, Blank, EmptyTable

LEMMA ChainStep ==
  ASSUME ~TornSaves, MaxOrders <= TableSize
  PROVE  /\ TypeInv /\ SyncInv /\ RingWindow /\ ChainInv /\ StoredInv
         /\ [ServesApart]_vars /\ [Next]_vars
         => ChainInv' /\ StoredInv'
<1> SUFFICES ASSUME TypeInv, SyncInv, RingWindow, ChainInv, StoredInv,
                    [ServesApart]_vars, [Next]_vars
             PROVE  ChainInv' /\ StoredInv'
  OBVIOUS
<1> USE TuggerStoreAssumption
<1>1. CASE Restart
  <2>1. ChainInv'
    BY <1>1 DEF Restart, ChainInv, EmptyTable, Blank
  <2>2. CASE pc = "load"
    BY <1>1, <2>1, <2>2, StoredSame DEF Restart, Stored
  <2>3. CASE pc # "load"
    <3>1. \A s \in Slots : nvs.slot[s] = Saved(fifo[s])
      BY <1>1, <2>3 DEF Restart, SyncInv, NvsInSync, Written
    <3>2. \A s \in Slots : nvs.slot[s].active =>
             fifo[s].active /\ nvs.slot[s].id = fifo[s].id
      BY <3>1 DEF Saved, Blank
    <3> QED
      BY <1>1, <2>1, <2>3, <3>2, StoredSame DEF Restart, Stored
  <2> QED
    BY <2>2, <2>3
<1>2. CASE LoadSlot
  <2> DEFINE order == nvs.slot[idx]
  <2>1. /\ pc = "load" /\ pc' = "load" /\ idx \in Slots /\ nvs' = nvs
        /\ fifo' = [fifo EXCEPT ![idx] = order]
        /\ table' = IF order.active THEN AddToTable(table, IdAt(fifo'), order.id, idx)
                    ELSE table
    BY <1>2 DEF LoadSlot, TypeInv, TypeOK, Slots
  <2>2. StoredInv'
    BY <2>1, StoredSame DEF Stored
  <2>3. order \in Orders /\ Saved(order) = order
    BY <2>1 DEF TypeInv, TypeOK, SyncInv, NvsForm
  <2>4. fifo[idx] = Blank
    BY <2>1 DEF SyncInv, LoadInv, Slots
  <2>5. CASE ~order.active
    <3>1. order = Blank
      BY <2>3, <2>5 DEF Saved
    <3>2. fifo' = fifo
      BY <2>1, <2>4, <3>1 DEF TypeInv, TypeOK
    <3> QED
      BY <2>1, <2>2, <2>5, <3>2, ChainSame
  <2>6. CASE order.active
    <3>1. order.id \in Ids
      BY <2>1, <2>6 DEF StoredInv, Stored
    <3>2. ASSUME NEW t \in Slots, fifo[t].active PROVE fifo[t].id # order.id
      <4>1. fifo[t] = IF t < idx THEN nvs.slot[t] ELSE Blank
        BY <2>1, <3>2 DEF SyncInv, LoadInv
      <4>2. t < idx /\ fifo[t] = nvs.slot[t]
        BY <3>2, <4>1 DEF Blank
      <4>3. t # idx
        BY <2>1, <4>2 DEF Slots
      <4> QED
        BY <2>1, <2>6, <3>2, <4>2, <4>3 DEF StoredInv, NoDuplicateOrders, Stored
    <3>3. ~fifo[idx].active
      BY <2>4 DEF Blank
    <3>4. ChainInv'
      BY <2>1, <2>3, <2>6, <3>1, <3>2, <3>3, ChainAdd
    <3> QED
      BY <2>2, <3>4
  <2> QED
    BY <2>5, <2>6
<1>3. CASE EndLoad
  <2>1. \A s \in Slots : fifo[s] = nvs.slot[s]
    BY <1>3 DEF EndLoad, SyncInv, LoadInv, Slots
  <2>2. pc = "load" /\ pc' # "load" /\ UNCHANGED ram
    BY <1>3 DEF EndLoad
  <2> QED
    BY <2>1, <2>2, ChainSame, StoredSame DEF Stored, ram
<1>4. CASE NextZone \/ LockZone
  BY <1>4, ChainSame, StoredSame DEF NextZone, LockZone, Stored
<1>6. ASSUME NEW id \in Ids, NEW z \in 1 .. LastZone, Receive(id, z)
      PROVE  ChainInv' /\ StoredInv'
  <2>1. CASE Exists(table, IdAt(fifo), id)
    BY <1>6, <2>1, ChainSame, StoredSame DEF Receive, Stored
  <2>2. CASE ~Exists(table, IdAt(fifo), id)
    <3> DEFINE order == [id |-> id, created |-> clock,
                         timedOut |-> FALSE, active |-> TRUE]
    <3>1. /\ count < MaxOrders /\ pc # "load" /\ pc' # "load"
          /\ fifo' = [fifo EXCEPT ![tail] = order]
          /\ table' = AddToTable(table, IdAt(fifo'), id, tail)
      BY <1>6, <2>2 DEF Receive, Room
    <3>2. order \in Orders /\ tail \in Slots
      BY DEF TypeInv, TypeOK, Orders
    <3>3. ~fifo[tail].active
      BY <3>1, FreeTail
    <3>4. \A s \in Slots : fifo'[s] = IF s = tail THEN order ELSE fifo[s]
      BY <3>1 DEF TypeInv, TypeOK
    <3>5. \A s \in Slots : fifo[s].active => fifo[s].id # id
      BY <2>2, WalkFinds
    <3>6. ChainInv'
      BY <3>1, <3>2, <3>3, <3>5, ChainAdd
    <3>7. StoredInv'
      BY <3>1, <3>4, <3>5 DEF StoredInv, NoDuplicateOrders, Stored
    <3> QED
      BY <3>6, <3>7
  <2> QED
    BY <2>1, <2>2
<1>7. CASE Quiet
  BY <1>7, ChainSame, StoredSame DEF Quiet, Calm, ram, Stored
<1>8. CASE SaveStep
  BY <1>8, ChainSame, StoredSame DEF SaveStep, Saving, Stored, ram
<1>9. CASE EndSaveAdd \/ EndSaveScan \/ EndSaveClear
  BY <1>9, ChainSame, StoredSame DEF EndSaveAdd, EndSaveScan, EndSaveClear, Stored, ram
<1>10. CASE Expire
  <2>1. PICK t : fifo' = [fifo EXCEPT ![t].timedOut = TRUE]
    BY <1>10 DEF Expire
  <2>2. \A s \in Slots : fifo'[s].active = fifo[s].active /\ fifo'[s].id = fifo[s].id
    BY <2>1 DEF TypeInv, TypeOK, Orders
  <2> QED
    BY <1>10, <2>2, ChainSame, StoredSame DEF Expire, Stored
<1>11. CASE Serve
  <2>1. /\ pc # "load" /\ pc' # "load" /\ fifo[head].active
        /\ fifo' = [fifo EXCEPT ![head].active = FALSE]
        /\ table' = RemoveFromTable(table, IdAt(fifo), fifo[head].id)
    BY <1>11 DEF Serve
  <2>2. head \in Slots
    BY DEF TypeInv, TypeOK
  <2>3. \A s \in Slots : /\ fifo'[s].id = fifo[s].id
                         /\ fifo'[s].active <=> fifo[s].active /\ s # head
    BY <2>1, <2>2 DEF TypeInv, TypeOK, Orders
  <2>4. StoredInv'
    BY <2>1, <2>3, StoredSame DEF Stored
  <2>5. \A s, t \in Slots :
          fifo[s].active /\ fifo[t].active /\ fifo[s].id = fifo[t].id => s = t
    BY <2>1 DEF StoredInv, NoDuplicateOrders, Stored
  <2>6. ServesApart
    <3>1. fifo' # fifo
      BY <2>1, <2>2, <2>3
    <3> QED
      BY <3>1 DEF vars, ram
  <2>7. ChainInv'
    BY <1>11, <2>1, <2>5, <2>6, ChainServe DEF ServesApart
  <2> QED
    BY <2>4, <2>7
<1>12. CASE UNCHANGED vars
  BY <1>12, ChainSame, StoredSame DEF vars, ram, Stored
<1> QED
  BY <1>1, <1>2, <1>3, <1>4, <1>6, <1>7, <1>8, <1>9, <1>10, <1>11, <1>12, QuietSteps
  DEF Next, Boot, Loop, Save

StoreInv == TypeInv /\ SyncInv /\ RingWindow /\ ChainInv /\ StoredInv

LEMMA StoreInvariant ==
  ASSUME ~TornSaves, MaxOrders <= TableSize
  PROVE  Spec /\ [][ServesApart]_vars => []StoreInv
<1>1. Init => StoreInv
  BY TypeInit, SyncInit, RingInit, ChainInit DEF StoreInv
<1>2. StoreInv /\ [ServesApart]_vars /\ [Next]_vars => StoreInv'
  BY TypeStep, SyncStep, RingStep, ChainStep DEF StoreInv
<1> QED
  BY <1>1, <1>2, PTL DEF Spec

\* No order is ever queued twice, however often it is received and wherever in
\* its life the tugger restarts, if power fails only between saves, the table has
\* a bucket for every slot, and no order is served whose bucket another one's
\* walk leads over.
THEOREM NoDuplicates ==
  ASSUME ~TornSaves, MaxOrders <= TableSize
  PROVE  Spec /\ [][ServesApart]_vars => []NoDuplicateOrders
<1>1. StoreInv => NoDuplicateOrders
  BY DEF StoreInv, StoredInv
<1> QED
  BY <1>1, StoreInvariant, PTL

-----------------------------------------------------------------------------
(* When no two queued orders share a home bucket, every walk is one bucket *)
(* long and none leads over another order's.                               *)

HomesApart ==
  \A i, j \in Ids : Queued(i) /\ Queued(j) /\ Hash[i] = Hash[j] => i = j

\* Every active order is in its home bucket.
HomeInv == \A s \in Slots : fifo[s].active => WalkTo(s, 0)

\* A home bucket that is not empty has an active order whose home it is.
LEMMA HomeHolds ==
  ASSUME TypeInv, ChainInv, HomeInv, NEW id \in Ids, table[Hash[id]] # Null
  PROVE  \E t \in Slots : fifo[t].active /\ fifo[t].id \in Ids /\ Hash[fifo[t].id] = Hash[id]
<1>1. PICK t \in Slots : t = table[Hash[id]] /\ fifo[t].active /\ fifo[t].id \in Ids
  BY ProbeIs DEF TypeInv, TypeOK, ChainInv
<1>2. table[Hash[fifo[t].id]] = t
  BY <1>1, ProbeIs DEF HomeInv, WalkTo
<1>3. Hash[fifo[t].id] = Hash[id]
  BY <1>1, <1>2, ProbeIs DEF ChainInv
<1> QED
  BY <1>1, <1>3

\* An order is put into its empty home bucket.
LEMMA HomeAdd ==
  ASSUME TypeInv, HomeInv, NEW s \in Slots, NEW order, ~fifo[s].active, order.id \in Ids,
         \A t \in Slots : fifo[t].active => fifo[t].id \in Ids,
         table[Hash[order.id]] = Null,
         fifo' = [fifo EXCEPT ![s] = order],
         table' = AddToTable(table, IdAt(fifo'), order.id, s)
  PROVE  HomeInv'
<1> DEFINE id  == order.id
           ids == IdAt(fifo')
<1>1. FirstStop(table, ids, id, 0)
  <2>1. Stops(table, ids, id, 0)
    BY ProbeIs DEF Stops
  <2>2. \A j \in Buckets : 0 <= j
    BY ProbeTableAssumption DEF Buckets
  <2> HIDE DEF ids, id
  <2> QED
    BY <2>1, <2>2 DEF FirstStop
<1>2. \A b \in Buckets :
        table'[b] = IF table[b] = Null /\ b = Probe(id, 0) THEN s ELSE table[b]
  <2>1. table' = AddToTable(table, ids, id, s) /\ id \in Ids /\ 0 \in Buckets
    BY ProbeIs
  <2> HIDE DEF ids, id
  <2>2. \A b \in Buckets : AddToTable(table, ids, id, s)[b]
          = IF table[b] = Null /\ b = Probe(id, 0) THEN s ELSE table[b]
    BY <1>1, <2>1, StopAdds
  <2> QED
    BY <2>1, <2>2
<1>3. /\ table'[Hash[id]] = s
      /\ \A b \in Buckets : table[b] # Null => table'[b] = table[b]
  BY <1>2, ProbeIs
<1>4. \A t \in Slots : fifo'[t] = IF t = s THEN order ELSE fifo[t]
  BY DEF TypeInv, TypeOK
<1>5. ASSUME NEW t \in Slots, fifo'[t].active PROVE WalkTo(t, 0)'
  <2>1. table'[Probe(fifo'[t].id, 0)] = t
    <3>1. CASE t = s
      BY <1>3, <1>4, <3>1, ProbeIs
    <3>2. CASE t # s
      <4>1. fifo'[t] = fifo[t] /\ fifo[t].active /\ fifo[t].id \in Ids
        BY <1>4, <1>5, <3>2
      <4>2. table[Hash[fifo[t].id]] = t /\ Hash[fifo[t].id] \in Buckets
        BY <4>1, ProbeIs DEF HomeInv, WalkTo
      <4>3. t # Null
        BY TuggerStoreAssumption DEF Slots, Null
      <4>4. table'[Hash[fifo[t].id]] = t
        BY <1>3, <4>2, <4>3
      <4> QED
        BY <4>1, <4>4, ProbeIs
    <3> QED
      BY <3>1, <3>2
  <2> QED
    BY <2>1 DEF WalkTo
<1> QED
  BY <1>5 DEF HomeInv

LEMMA HomeSame ==
  ASSUME HomeInv, UNCHANGED table,
         \A s \in Slots : fifo'[s].active = fifo[s].active /\ fifo'[s].id = fifo[s].id
  PROVE  HomeInv'
BY DEF HomeInv, WalkTo

LEMMA HomeServes == HomeInv => ServesApart
<1> SUFFICES ASSUME HomeInv, NEW s \in Slots \ {head}, fifo[s].active
             PROVE  \E k \in Buckets :
                      /\ WalkTo(s, k)
                      /\ \A j \in 0 .. k - 1 : table[Probe(fifo[s].id, j)] # head
  BY DEF ServesApart
<1>1. 0 \in Buckets /\ 0 .. 0 - 1 = {}
  BY ProbeTableAssumption DEF Buckets
<1> QED
  BY <1>1 DEF HomeInv

LEMMA HomeStep ==
  StoreInv /\ HomeInv /\ HomesApart /\ HomesApart' /\ [Next]_vars => HomeInv'
<1> SUFFICES ASSUME StoreInv, HomeInv, HomesApart, HomesApart', [Next]_vars
             PROVE  HomeInv'
  OBVIOUS
<1> USE TuggerStoreAssumption DEF StoreInv
<1>0. \A s \in Slots : fifo[s].active => fifo[s].id \in Ids
  BY DEF ChainInv
<1>1. CASE Restart
  BY <1>1 DEF Restart, HomeInv, Blank
<1>2. CASE LoadSlot
  <2> DEFINE order == nvs.slot[idx]
  <2>1. /\ pc = "load" /\ idx \in Slots
        /\ fifo' = [fifo EXCEPT ![idx] = order]
        /\ table' = IF order.active THEN AddToTable(table, IdAt(fifo'), order.id, idx)
                    ELSE table
    BY <1>2 DEF LoadSlot, TypeInv, TypeOK, Slots
  <2>2. fifo[idx] = Blank /\ Saved(order) = order
    BY <2>1 DEF SyncInv, LoadInv, NvsForm, Slots
  <2>3. CASE ~order.active
    <3>1. fifo' = fifo
      BY <2>1, <2>2, <2>3 DEF Saved, TypeInv, TypeOK
    <3> QED
      BY <2>1, <2>3, <3>1, HomeSame
  <2>4. CASE order.active
    <3>1. order.id \in Ids
      BY <2>1, <2>4 DEF StoredInv, Stored
    <3>2. table[Hash[order.id]] = Null
      <4> SUFFICES ASSUME table[Hash[order.id]] # Null PROVE FALSE
        OBVIOUS
      <4>1. PICK t \in Slots : /\ fifo[t].active /\ fifo[t].id \in Ids
                               /\ Hash[fifo[t].id] = Hash[order.id]
        BY <3>1, HomeHolds
      <4>2. fifo[t] = IF t < idx THEN nvs.slot[t] ELSE Blank
        BY <2>1 DEF SyncInv, LoadInv
      <4>3. t < idx /\ fifo[t] = nvs.slot[t]
        BY <4>1, <4>2 DEF Blank
      <4>4. Queued(fifo[t].id) /\ Queued(order.id)
        BY <2>1, <2>4, <4>1, <4>3 DEF Queued, Stored
      <4>5. fifo[t].id = order.id
        BY <3>1, <4>1, <4>4 DEF HomesApart
      <4>6. t = idx
        BY <2>1, <2>4, <4>1, <4>3, <4>5 DEF StoredInv, NoDuplicateOrders, Stored
      <4> QED
        BY <2>1, <4>3, <4>6 DEF Slots
    <3>3. ~fifo[idx].active
      BY <2>2 DEF Blank
    <3> QED
      BY <1>0, <2>1, <2>4, <3>1, <3>2, <3>3, HomeAdd
  <2> QED
    BY <2>3, <2>4
<1>3. ASSUME NEW id \in Ids, NEW z \in 1 .. LastZone, Receive(id, z) PROVE HomeInv'
  <2>1. CASE Exists(table, IdAt(fifo), id)
    BY <1>3, <2>1, HomeSame DEF Receive
  <2>2. CASE ~Exists(table, IdAt(fifo), id)
    <3> DEFINE order == [id |-> id, created |-> clock,
                         timedOut |-> FALSE, active |-> TRUE]
    <3>1. /\ count < MaxOrders /\ pc # "load" /\ pc' # "load" /\ tail \in Slots
          /\ fifo' = [fifo EXCEPT ![tail] = order]
          /\ table' = AddToTable(table, IdAt(fifo'), id, tail)
      BY <1>3, <2>2 DEF Receive, Room, TypeInv, TypeOK
    <3>2. ~fifo[tail].active
      BY <3>1, FreeTail
    <3>3. \A s \in Slots : fifo'[s] = IF s = tail THEN order ELSE fifo[s]
      BY <3>1 DEF TypeInv, TypeOK
    <3>4. table[Hash[id]] = Null
      <4> SUFFICES ASSUME table[Hash[id]] # Null PROVE FALSE
        OBVIOUS
      <4>1. PICK t \in Slots : /\ fifo[t].active /\ fifo[t].id \in Ids
                               /\ Hash[fifo[t].id] = Hash[id]
        BY HomeHolds
      <4>2. fifo'[t].active /\ fifo'[t].id = fifo[t].id
        BY <3>2, <3>3, <4>1
      <4>3. fifo'[tail].active /\ fifo'[tail].id = id
        BY <3>1, <3>3
      <4>4. PICK i \in Ids : i = fifo[t].id
        BY <4>1
      <4>5. Queued(i)' /\ Queued(id)'
        BY <3>1, <4>2, <4>3, <4>4 DEF Queued, Stored
      <4>6. i = id
        BY <4>1, <4>4, <4>5 DEF HomesApart
      <4> QED
        BY <2>2, <4>1, <4>4, <4>6, WalkFinds
    <3> QED
      BY <1>0, <3>1, <3>2, <3>4, HomeAdd
  <2> QED
    BY <2>1, <2>2
<1>4. CASE Serve
  <2> DEFINE id == fifo[head].id
  <2>1. /\ fifo[head].active /\ head \in Slots /\ id \in Ids
        /\ fifo' = [fifo EXCEPT ![head].active = FALSE]
        /\ table' = RemoveFromTable(table, IdAt(fifo), id)
    BY <1>0, <1>4 DEF Serve, TypeInv, TypeOK
  <2>2. table[Hash[id]] = head
    BY <2>1, ProbeIs DEF HomeInv, WalkTo
  <2>3. FirstStop(table, IdAt(fifo), id, 0)
    <3>1. Stops(table, IdAt(fifo), id, 0)
      BY <2>1, <2>2, ProbeIs DEF Stops, IdAt
    <3>2. \A j \in Buckets : 0 <= j
      BY ProbeTableAssumption DEF Buckets
    <3> QED
      BY <3>1, <3>2 DEF FirstStop
  <2>4. \A b \in Buckets : b # Hash[id] => table'[b] = table[b]
    <3>1. 0 \in Buckets /\ Probe(id, 0) = Hash[id]
      BY <2>1, ProbeIs
    <3> HIDE DEF id
    <3> QED
      BY <2>1, <2>3, <3>1, StopRemoves
  <2>5. \A s \in Slots : /\ fifo'[s].id = fifo[s].id
                         /\ fifo'[s].active <=> fifo[s].active /\ s # head
    BY <2>1 DEF TypeInv, TypeOK, Orders
  <2>6. ASSUME NEW s \in Slots, fifo'[s].active PROVE WalkTo(s, 0)'
    <3>1. fifo[s].active /\ s # head /\ fifo'[s].id = fifo[s].id /\ fifo[s].id \in Ids
      BY <1>0, <2>5, <2>6
    <3>2. table[Hash[fifo[s].id]] = s /\ Hash[fifo[s].id] \in Buckets
      BY <3>1, ProbeIs DEF HomeInv, WalkTo
    <3>3. table'[Probe(fifo'[s].id, 0)] = s
      BY <2>2, <2>4, <3>1, <3>2, ProbeIs
    <3> QED
      BY <3>3 DEF WalkTo
  <2> QED
    BY <2>6 DEF HomeInv
<1>5. CASE Expire
  <2>1. PICK t : fifo' = [fifo EXCEPT ![t].timedOut = TRUE]
    BY <1>5 DEF Expire
  <2>2. \A s \in Slots : fifo'[s].active = fifo[s].active /\ fifo'[s].id = fifo[s].id
    BY <2>1 DEF TypeInv, TypeOK, Orders
  <2> QED
    BY <1>5, <2>2, HomeSame DEF Expire
<1>6. CASE UNCHANGED <<fifo, table>>
  BY <1>6, HomeSame
<1>7. CASE EndLoad \/ NextZone \/ LockZone \/ Save \/ Quiet \/ UNCHANGED vars
  BY <1>6, <1>7
  DEF EndLoad, NextZone, LockZone, Save, SaveStep, EndSaveAdd, EndSaveScan, EndSaveClear,
      Quiet, Calm, ram, vars
<1> QED
  BY <1>1, <1>2, <1>3, <1>4, <1>5, <1>7, QuietSteps DEF Next, Boot, Loop, Save

\* So the condition of the theorems holds while different queued orders have
\* different home buckets, ...
LEMMA HomesServe ==
  ASSUME ~TornSaves, MaxOrders <= TableSize
  PROVE  Spec /\ []HomesApart => [][ServesApart]_vars
<1>1. Init => StoreInv /\ HomeInv
  BY TypeInit, SyncInit, RingInit, ChainInit DEF StoreInv, Init, HomeInv, Blank
<1>2. StoreInv /\ HomeInv /\ HomesApart /\ HomesApart' /\ [Next]_vars
      => StoreInv' /\ HomeInv'
  BY TypeStep, SyncStep, RingStep, ChainStep, HomeStep, HomeServes DEF StoreInv
<1> QED
  BY <1>1, <1>2, HomeServes, PTL DEF Spec

\* ... and for ever if all ids in play have.
LEMMA AllHomesApart ==
  ASSUME ~TornSaves, MaxOrders <= TableSize, \A i, j \in Ids : Hash[i] = Hash[j] => i = j
  PROVE  Spec => [][ServesApart]_vars
<1>1. HomesApart
  BY DEF HomesApart
<1> QED
  BY <1>1, HomesServe, PTL

-----------------------------------------------------------------------------
(* The condition is exact. *)

\* The first stop decides what the duplicate test says.
LEMMA StopFinds ==
  ASSUME NEW t, NEW ids, NEW id, NEW k \in Buckets, FirstStop(t, ids, id, k)
  PROVE  Exists(t, ids, id) <=> t[Probe(id, k)] # Null
BY OneStop DEF Exists

\* A walk looks at no bucket twice.
LEMMA ProbeOnce ==
  ASSUME NEW id \in Ids, NEW j \in Buckets, NEW k \in Buckets, Probe(id, j) = Probe(id, k)
  PROVE  j = k
<1>1. PICK h \in 0 .. TableSize - 1 : h = Hash[id]
  BY ProbeTableAssumption
<1>2. \A i \in Buckets : Probe(id, i) = IF h + i < TableSize THEN h + i ELSE h + i - TableSize
  <2> TAKE i \in Buckets
  <2>1. (h + i) % TableSize = IF h + i < TableSize THEN h + i ELSE h + i - TableSize
    BY <1>1, ProbeTableAssumption DEF Buckets
  <2> QED
    BY <1>1, <2>1 DEF Probe
<1>3. Probe(id, j) = Probe(id, k)
  OBVIOUS
<1> QED
  BY <1>2, <1>3, ProbeTableAssumption DEF Buckets

\* When an order is served over whose bucket another one's walk leads, the index
\* has lost that other one: it is queued, and the duplicate test does not find it,
\* so that a copy of its packet that came now would be queued a second time.
THEOREM CutWalkLosesOrder ==
  ASSUME StoreInv, Serve, ~ServesApart
  PROVE  \E s \in Slots : /\ fifo'[s].active /\ fifo'[s].id \in Ids
                          /\ ~Exists(table', IdAt(fifo'), fifo'[s].id)
<1> USE DEF StoreInv
<1> DEFINE cut == fifo[head].id
<1>1. /\ pc # "load" /\ fifo[head].active /\ head \in Slots /\ cut \in Ids
      /\ fifo' = [fifo EXCEPT ![head].active = FALSE]
      /\ table' = RemoveFromTable(table, IdAt(fifo), cut)
  BY DEF Serve, TypeInv, TypeOK, ChainInv
<1>2. PICK s \in Slots \ {head} :
        /\ fifo[s].active
        /\ \A k \in Buckets : WalkTo(s, k) =>
             \E j \in 0 .. k - 1 : table[Probe(fifo[s].id, j)] = head
  BY DEF ServesApart
<1>3. PICK id \in Ids : id = fifo[s].id
  BY <1>2 DEF ChainInv
<1>4. PICK k \in Buckets : WalkTo(s, k)
  BY <1>2 DEF ChainInv
<1>5. PICK j \in 0 .. k - 1 : table[Probe(id, j)] = head
  BY <1>2, <1>3, <1>4
<1>6. \A t \in Slots : /\ fifo'[t].id = fifo[t].id
                       /\ fifo'[t].active <=> fifo[t].active /\ t # head
  BY <1>1 DEF TypeInv, TypeOK, Orders
<1>7. \A t \in Slots : fifo[t].active /\ fifo[t].id = id => t = s
  BY <1>1, <1>2, <1>3 DEF StoredInv, NoDuplicateOrders, Stored
<1>8. j \in Buckets /\ j < k
  BY ProbeTableAssumption DEF Buckets
<1>9. /\ table'[Probe(id, j)] = Null
      /\ \A b \in Buckets : table'[b] # Null => table'[b] = table[b]
  <2>1. PICK i \in Buckets : /\ FirstStop(table, IdAt(fifo), cut, i)
                             /\ table[Probe(cut, i)] # Null
    <3>1. Exists(table, IdAt(fifo), cut)
      BY <1>1, WalkFinds
    <3> QED
      BY <3>1 DEF Exists
  <2>2. Probe(cut, i) \in Buckets
    BY <1>1, ProbeIs
  <2>3. PICK t \in Slots : t = table[Probe(cut, i)] /\ fifo[t].active
    BY <2>1, <2>2 DEF TypeInv, TypeOK, ChainInv
  <2>4. fifo[t].id = cut
    BY <2>1, <2>3 DEF FirstStop, Stops, IdAt
  <2>5. t = head
    BY <1>1, <2>3, <2>4 DEF StoredInv, NoDuplicateOrders, Stored
  <2>6. Probe(id, j) \in Buckets /\ Probe(cut, i) = Probe(id, j)
    <3>1. Probe(id, j) \in Buckets
      BY <1>8, ProbeIs
    <3>2. table[Probe(cut, i)] # Null /\ table[Probe(cut, i)] = table[Probe(id, j)]
      BY <1>5, <2>1, <2>3, <2>5
    <3> QED
      BY <2>2, <3>1, <3>2 DEF ChainInv
  <2> HIDE DEF cut
  <2>7. \A b \in Buckets : table'[b] = IF b = Probe(cut, i) THEN Null ELSE table[b]
    BY <1>1, <2>1, StopRemoves
  <2> QED
    BY <2>6, <2>7
<1> HIDE DEF cut
<1> DEFINE ids == IdAt(fifo')
<1>10. PICK i \in Buckets : i <= j /\ FirstStop(table', ids, id, i)
  <2>1. Stops(table', ids, id, j)
    BY <1>9 DEF Stops
  <2> HIDE DEF ids
  <2> QED
    BY <1>8, <2>1, FirstStops
<1>11. table'[Probe(id, i)] = Null
  <2> SUFFICES ASSUME table'[Probe(id, i)] # Null PROVE FALSE
    OBVIOUS
  <2>1. Probe(id, i) \in Buckets /\ Probe(id, k) \in Buckets
    BY ProbeIs
  <2>2. PICK t \in Slots : t = table'[Probe(id, i)] /\ t = table[Probe(id, i)] /\ fifo[t].active
    BY <1>9, <2>1 DEF TypeInv, TypeOK, ChainInv
  <2>3. ids[t] = id
    BY <1>10, <2>2 DEF FirstStop, Stops
  <2>4. fifo[t].id = id
    BY <1>6, <2>2, <2>3 DEF IdAt
  <2>5. t = s
    BY <1>7, <2>2, <2>4
  <2>6. Probe(id, i) = Probe(id, k)
    BY <1>3, <1>4, <2>1, <2>2, <2>5, TuggerStoreAssumption DEF ChainInv, WalkTo, Slots, Null
  <2>7. i = k
    BY <2>6, ProbeOnce
  <2> QED
    BY <1>8, <1>10, <2>7 DEF Buckets
<1>12. ~Exists(table', ids, id)
  <2> HIDE DEF ids
  <2> QED
    BY <1>10, <1>11, StopFinds
<1> QED
  BY <1>2, <1>3, <1>6, <1>12

-----------------------------------------------------------------------------
(* Acks. *)

LEMMA AckStep == StoreInv /\ AckedIsQueued /\ [Next]_vars => AckedIsQueued'
<1> SUFFICES ASSUME StoreInv, AckedIsQueued, [Next]_vars PROVE AckedIsQueued'
  OBVIOUS
<1>1. ASSUME NEW id \in Ids, NEW z \in 1 .. LastZone, Receive(id, z)
      PROVE  AckedIsQueued'
  <2>1. out' = {Report("ack", id)} /\ pc' # "load"
    BY <1>1 DEF Receive
  <2>2. PICK s \in Slots : fifo'[s].active /\ fifo'[s].id = id
    <3>1. CASE Exists(table, IdAt(fifo), id)
      <4>1. fifo' = fifo
        BY <1>1, <3>1 DEF Receive
      <4> QED
        BY <3>1, <4>1, WalkFinds DEF StoreInv
    <3>2. CASE ~Exists(table, IdAt(fifo), id)
      <4>1. /\ tail \in Slots
            /\ fifo'[tail] = [id |-> id, created |-> clock,
                              timedOut |-> FALSE, active |-> TRUE]
        BY <1>1, <3>2 DEF Receive, StoreInv, TypeInv, TypeOK
      <4> QED
        BY <4>1
    <3> QED
      BY <3>1, <3>2
  <2>3. Queued(id)'
    BY <2>1, <2>2 DEF Queued, Stored
  <2> QED
    BY <2>1, <2>3 DEF AckedIsQueued, Report
<1>2. CASE \/ Restart \/ LoadSlot \/ EndLoad \/ NextZone \/ LockZone
           \/ \E d \in PassTimes : BeginPass(d)
           \/ \E id \in Ids, z \in 1 .. LastZone : Refuse(id, z)
           \/ NoPacket \/ SaveStep \/ EndSaveScan \/ EndSaveClear
           \/ PassOver \/ EndScan \/ NoServe
  <2>1. out' = {}
    BY <1>2 DEF Restart, LoadSlot, EndLoad, NextZone, LockZone, BeginPass, Refuse,
         NoPacket, SaveStep, EndSaveScan, EndSaveClear, PassOver, EndScan, NoServe
  <2> QED
    BY <2>1 DEF AckedIsQueued
<1>3. CASE EndSaveAdd \/ Expire \/ Serve
  <2>1. \A p \in out' : p.type \in {"order", "timeout", "clear"}
    BY <1>3 DEF EndSaveAdd, Expire, Serve, Report, OrderPacket
  <2> QED
    BY <2>1 DEF AckedIsQueued
<1>4. CASE UNCHANGED vars
  BY <1>4 DEF vars, ram, AckedIsQueued, Queued, Stored
<1> QED
  BY <1>1, <1>2, <1>3, <1>4 DEF Next, Boot, Loop, Save

\* Under the same conditions an order is in the queue when its ack goes out.
THEOREM AcksAreHonest ==
  ASSUME ~TornSaves, MaxOrders <= TableSize
  PROVE  Spec /\ [][ServesApart]_vars => []AckedIsQueued
<1>1. Init => AckedIsQueued
  BY DEF Init, AckedIsQueued
<1> QED
  BY <1>1, StoreInvariant, AckStep, PTL DEF Spec

-----------------------------------------------------------------------------
(* The bounded queue. *)

Entry(order) == [id |-> order.id, late |-> order.timedOut]

LEMMA QueueIs ==
  /\ PromisedQueue = [k \in 1 .. count |-> Entry(Stored(At(k - 1)))]
  /\ PromisedQueue' = [k \in 1 .. count' |-> Entry(Stored(At(k - 1))')]
BY DEF PromisedQueue, Entry, At

\* The first MaxOrders slots from the head on are all different.
LEMMA AtDiffers ==
  ASSUME TypeInv, NEW j \in 0 .. MaxOrders - 1, NEW k \in 0 .. MaxOrders - 1
  PROVE  /\ At(j) \in Slots
         /\ Dist(At(j)) = j
         /\ At(j) = At(k) => j = k
<1> USE TuggerStoreAssumption
<1>1. head \in Slots /\ head \in Nat
  BY DEF TypeInv, TypeOK, Slots
<1>2. ASSUME NEW n \in 0 .. MaxOrders - 1
      PROVE  At(n) \in Slots /\ Dist(At(n)) = n
  <2>1. n \in Nat /\ n \in 0 .. MaxOrders /\ n < MaxOrders
    OBVIOUS
  <2>2. At(n) \in Slots
    BY <1>1, <2>1, SlotArithmetic DEF At
  <2>3. ASSUME NEW s \in Slots PROVE s = At(n) <=> Dist(s) = n
    BY <1>1, <2>1, RingArithmetic DEF At, Dist
  <2> QED
    BY <2>2, <2>3
<1> QED
  BY <1>2

\* The slots of the window hold active orders.
LEMMA WindowActive ==
  ASSUME TypeInv, RingWindow, NEW k \in 1 .. count
  PROVE  At(k - 1) \in Slots /\ Stored(At(k - 1)).active
<1>1. k - 1 \in 0 .. MaxOrders - 1 /\ k - 1 < count
  BY TuggerStoreAssumption DEF TypeInv, TypeOK
<1>2. At(k - 1) \in Slots /\ Dist(At(k - 1)) = k - 1
  BY <1>1, AtDiffers
<1> QED
  BY <1>1, <1>2 DEF RingWindow

\* A step that leaves the window where it is and its orders what they are.
LEMMA SameQueue ==
  ASSUME TypeInv, UNCHANGED <<head, count>>,
         \A k \in 1 .. count : Stored(At(k - 1))' = Stored(At(k - 1))
  PROVE  UNCHANGED PromisedQueue
BY QueueIs

\* Steps of RAM and NVS that neither load nor change an order.
LEMMA SameOrders ==
  ASSUME TypeInv, UNCHANGED <<head, count, fifo>>, pc # "load", pc' # "load"
  PROVE  UNCHANGED PromisedQueue
<1>1. \A k \in 1 .. count : Stored(At(k - 1))' = Stored(At(k - 1))
  BY DEF Stored, At
<1> QED
  BY <1>1, SameQueue

-----------------------------------------------------------------------------
LEMMA RestartStutters ==
  ASSUME ~TornSaves, StoreInv, Restart
  PROVE  UNCHANGED PromisedQueue
<1> USE DEF StoreInv
<1>1. pc' = "load" /\ nvs' = nvs /\ head' = nvs.head /\ count' = nvs.count /\ ~Saving
  BY DEF Restart
<1>2. CASE pc = "load"
  <2>1. head' = head /\ count' = count
    BY <1>1, <1>2 DEF SyncInv, LoadInv
  <2>2. \A k \in 1 .. count : Stored(At(k - 1))' = Stored(At(k - 1))
    BY <1>1, <1>2, <2>1 DEF Stored, At
  <2> QED
    BY <2>1, <2>2, SameQueue
<1>3. CASE pc # "load"
  <2>1. head' = head /\ count' = count /\ \A s \in Slots : nvs.slot[s] = Saved(fifo[s])
    BY <1>1, <1>3 DEF SyncInv, NvsInSync, Written
  <2>2. ASSUME NEW k \in 1 .. count
        PROVE  Stored(At(k - 1))' = Stored(At(k - 1))
    <3>1. At(k - 1) \in Slots /\ fifo[At(k - 1)].active
      BY <1>3, WindowActive DEF Stored
    <3>2. nvs.slot[At(k - 1)] = fifo[At(k - 1)]
      BY <2>1, <3>1 DEF Saved
    <3>3. At(k - 1)' = At(k - 1)
      BY <2>1 DEF At
    <3> QED
      BY <1>1, <1>3, <3>2, <3>3 DEF Stored
  <2> QED
    BY <2>1, <2>2, SameQueue
<1> QED
  BY <1>2, <1>3

LEMMA LoadStutters ==
  ASSUME StoreInv, LoadSlot \/ EndLoad
  PROVE  UNCHANGED PromisedQueue
<1> USE DEF StoreInv
<1>1. pc = "load" /\ UNCHANGED <<head, count, nvs>>
  BY DEF LoadSlot, EndLoad, ram
<1>2. CASE LoadSlot
  <2>1. \A k \in 1 .. count : Stored(At(k - 1))' = Stored(At(k - 1))
    BY <1>1, <1>2 DEF LoadSlot, Stored, At
  <2> QED
    BY <1>1, <2>1, SameQueue
<1>3. CASE EndLoad
  <2>0. \A s \in Slots : fifo[s] = nvs.slot[s]
    BY <1>3, TuggerStoreAssumption DEF EndLoad, SyncInv, LoadInv, Slots
  <2>1. pc' # "load" /\ \A s \in Slots : fifo'[s] = nvs.slot[s]
    BY <1>3, <2>0 DEF EndLoad, ram
  <2>2. ASSUME NEW k \in 1 .. count
        PROVE  Stored(At(k - 1))' = Stored(At(k - 1))
    <3>1. At(k - 1) \in Slots /\ At(k - 1)' = At(k - 1)
      BY <1>1, WindowActive DEF At
    <3> QED
      BY <1>1, <2>1, <3>1 DEF Stored
  <2> QED
    BY <1>1, <2>2, SameQueue
<1> QED
  BY <1>2, <1>3

-----------------------------------------------------------------------------
\* The promised queue is a sequence of count entries.
LEMMA QueueSeq ==
  ASSUME TypeInv
  PROVE  /\ PromisedQueue \in Seq({Entry(Stored(At(k - 1))) : k \in 1 .. count})
         /\ Len(PromisedQueue) = count
         /\ DOMAIN PromisedQueue = 1 .. count
         /\ \A k \in 1 .. count : PromisedQueue[k] = Entry(Stored(At(k - 1)))
<1>1. count \in Nat
  BY TuggerStoreAssumption DEF TypeInv, TypeOK
<1> DEFINE T == {Entry(Stored(At(k - 1))) : k \in 1 .. count}
           Q == [k \in 1 .. count |-> Entry(Stored(At(k - 1)))]
<1>2. Q \in [1 .. count -> T]
  OBVIOUS
<1>3. Q \in Seq(T) /\ Len(Q) = count /\ DOMAIN Q = 1 .. count
  <2> HIDE DEF T, Q
  <2> QED
    BY <1>1, <1>2
<1>4. \A k \in 1 .. count : Q[k] = Entry(Stored(At(k - 1)))
  OBVIOUS
<1> QED
  BY <1>3, <1>4, QueueIs

\* Two entries with the same fields are the same.
LEMMA MarkIs ==
  ASSUME NEW S, NEW i \in S, NEW l \in BOOLEAN
  PROVE  [[id |-> i, late |-> l] EXCEPT !.late = TRUE] = [id |-> i, late |-> TRUE]
<1> DEFINE r == [id |-> i, late |-> l]
           q == [r EXCEPT !.late = TRUE]
           p == [id |-> i, late |-> TRUE]
           Marked == [id : S, late : BOOLEAN]
<1>1. r \in Marked /\ p \in Marked
  OBVIOUS
<1>2. q \in Marked
  <2> HIDE DEF r
  <2> QED
    BY <1>1
<1>3. q.id = p.id /\ q.late = p.late
  OBVIOUS
<1>4. ASSUME NEW a \in Marked, NEW b \in Marked, a.id = b.id, a.late = b.late
      PROVE  a = b
  BY <1>4
<1>5. q = p
  <2> HIDE DEF p, q
  <2> QED
    BY <1>1, <1>2, <1>3, <1>4
<1> QED
  BY <1>5

LEMMA TailIs ==
  ASSUME NEW S, NEW s \in Seq(S), s # <<>>
  PROVE  Tail(s) = [k \in 1 .. Len(s) - 1 |-> s[k + 1]]
<1>1. /\ Len(Tail(s)) = Len(s) - 1 /\ Tail(s) \in Seq(S)
      /\ \A k \in 1 .. Len(Tail(s)) : Tail(s)[k] = s[k + 1]
  BY HeadTailProperties
<1> DEFINE T == Tail(s)
<1>2. T = [k \in 1 .. Len(T) |-> T[k]]
  <2>1. T \in Seq(S)
    BY <1>1
  <2> HIDE DEF T
  <2> QED
    BY <2>1
<1> QED
  BY <1>1, <1>2

\* A new order becomes the last entry; an id that is queued is not taken again.
LEMMA ReceiveAccepts ==
  ASSUME StoreInv, StoreInv', NEW id \in Ids, NEW z \in 1 .. LastZone,
         Receive(id, z)
  PROVE  Promise!Accept(id) \/ UNCHANGED PromisedQueue
<1> USE DEF StoreInv
<1>1. CASE Exists(table, IdAt(fifo), id)
  <2>1. UNCHANGED <<head, count, fifo>> /\ pc # "load" /\ pc' # "load"
    BY <1>1 DEF Receive
  <2> QED
    BY <2>1, SameOrders
<1>2. CASE ~Exists(table, IdAt(fifo), id)
  <2> DEFINE order == [id |-> id, created |-> clock,
                       timedOut |-> FALSE, active |-> TRUE]
  <2>1. /\ count < MaxOrders /\ pc # "load" /\ pc' # "load"
        /\ head' = head /\ count' = count + 1
        /\ fifo' = [fifo EXCEPT ![tail] = order]
    BY <1>2 DEF Receive, Room
  <2>2. count \in Nat /\ tail = At(count) /\ tail \in Slots
    BY TuggerStoreAssumption DEF TypeInv, TypeOK, RingWindow, At
  <2>0. PICK n \in Nat : n = count
    BY <2>2
  <2>3. Stored(At(n))' = order
    <3>1. At(n)' = tail
      BY <2>0, <2>1, <2>2 DEF At
    <3>2. fifo'[tail] = order
      BY <2>1, <2>2 DEF TypeInv, TypeOK
    <3> QED
      BY <2>1, <3>1, <3>2 DEF Stored
  <2>4. ASSUME NEW k \in 1 .. count
        PROVE  Stored(At(k - 1))' = Stored(At(k - 1))
    <3>1. k - 1 \in 0 .. MaxOrders - 1 /\ count \in 0 .. MaxOrders - 1 /\ k - 1 # count
      BY <2>1, <2>2, TuggerStoreAssumption
    <3>2. At(k - 1) # At(count) /\ At(k - 1) \in Slots
      BY <3>1, AtDiffers
    <3>3. fifo'[At(k - 1)] = fifo[At(k - 1)]
      BY <2>1, <2>2, <3>2 DEF TypeInv, TypeOK
    <3>4. At(k - 1)' = At(k - 1)
      BY <2>1 DEF At
    <3> QED
      BY <2>1, <3>3, <3>4 DEF Stored
  <2>5. ~Promise!Holds(id)
    <3>2. \A s \in Slots : fifo[s].active => fifo[s].id # id
      BY <1>2, WalkFinds
    <3>3. ASSUME NEW k \in 1 .. count PROVE PromisedQueue[k].id # id
      <4>1. At(k - 1) \in Slots /\ Stored(At(k - 1)).active
        BY WindowActive
      <4>2. Stored(At(k - 1)).id # id
        BY <2>1, <3>2, <4>1 DEF Stored
      <4>3. PromisedQueue[k] = Entry(Stored(At(k - 1)))
        BY QueueSeq
      <4> QED
        BY <4>2, <4>3 DEF Entry
    <3> QED
      BY <3>3, QueueSeq DEF Promise!Holds
  <2>6. PromisedQueue' = Append(PromisedQueue, [id |-> id, late |-> FALSE])
    <3> DEFINE Q == PromisedQueue
               e == [id |-> id, late |-> FALSE]
    <3>1. \A k \in 1 .. count : Entry(Stored(At(k - 1))') = Q[k]
      BY <2>4, QueueSeq DEF Entry
    <3>2. Entry(Stored(At(n))') = e
      BY <2>3 DEF Entry
    <3>3. PromisedQueue' = [k \in 1 .. count + 1 |-> Entry(Stored(At(k - 1))')]
      BY <2>1, QueueIs
    <3>4. \A k \in 1 .. count + 1 :
            Entry(Stored(At(k - 1))') = IF k = count + 1 THEN e ELSE Q[k]
      <4> TAKE k \in 1 .. count + 1
      <4>1. CASE k = count + 1
        <5>1. k - 1 = n
          BY <2>0, <4>1
        <5> QED
          BY <3>2, <4>1, <5>1
      <4>2. CASE k # count + 1
        <5>1. k \in 1 .. count
          BY <2>2, <4>2
        <5> QED
          BY <3>1, <4>2, <5>1
      <4> QED
        BY <4>1, <4>2
    <3>5. PromisedQueue' = [k \in 1 .. count + 1 |-> IF k = count + 1 THEN e ELSE Q[k]]
      BY <3>3, <3>4
    <3>6. Len(Q) = count
      BY QueueSeq
    <3>7. Append(Q, e) = [k \in 1 .. Len(Q) + 1 |-> IF k = Len(Q) + 1 THEN e ELSE Q[k]]
      BY QueueSeq
    <3> QED
      BY <3>5, <3>6, <3>7
  <2> QED
    BY <2>1, <2>5, <2>6, QueueSeq DEF Promise!Accept
<1> QED
  BY <1>1, <1>2

\* The scan marks the entry it stands at.
LEMMA ExpireMarks ==
  ASSUME StoreInv, Expire
  PROVE  \E k \in DOMAIN PromisedQueue : Promise!MarkLate(k)
<1> USE DEF StoreInv
<1> DEFINE n == scan + 1
<1>1. /\ n \in 1 .. count /\ scan \in 0 .. MaxOrders - 1 /\ count \in Nat
      /\ pc # "load" /\ pc' # "load" /\ head' = head /\ count' = count
      /\ ~fifo[At(scan)].timedOut
      /\ fifo' = [fifo EXCEPT ![At(scan)].timedOut = TRUE]
  BY TuggerStoreAssumption DEF Expire, TypeInv, TypeOK
<1>2. At(scan) \in Slots
  BY <1>1, AtDiffers
<1>3. ASSUME NEW k \in 1 .. count
      PROVE  Entry(Stored(At(k - 1))')
               = IF k = n THEN [PromisedQueue[k] EXCEPT !.late = TRUE]
                 ELSE PromisedQueue[k]
  <2>1. At(k - 1)' = At(k - 1) /\ PromisedQueue[k] = Entry(fifo[At(k - 1)])
    BY <1>1, QueueSeq DEF At, Stored
  <2>2. CASE k = n
    <3>1. At(k - 1) = At(scan)
      BY <1>1, <2>2
    <3>2. /\ fifo'[At(scan)].id = fifo[At(scan)].id
          /\ fifo'[At(scan)].timedOut = TRUE
      BY <1>1, <1>2 DEF TypeInv, TypeOK, Orders
    <3>3. Entry(Stored(At(k - 1))') = [id |-> fifo[At(scan)].id, late |-> TRUE]
      BY <1>1, <2>1, <3>1, <3>2 DEF Entry, Stored
    <3>4. PromisedQueue[k] = [id |-> fifo[At(scan)].id, late |-> fifo[At(scan)].timedOut]
      BY <2>1, <3>1 DEF Entry
    <3>5. [PromisedQueue[k] EXCEPT !.late = TRUE]
            = [id |-> fifo[At(scan)].id, late |-> TRUE]
      <4>1. fifo[At(scan)].timedOut \in BOOLEAN /\ fifo[At(scan)].id \in Ids \cup {NoId}
        BY <1>2 DEF TypeInv, TypeOK, Orders
      <4> QED
        BY <3>4, <4>1, MarkIs
    <3> QED
      BY <2>2, <3>3, <3>5
  <2>3. CASE k # n
    <3>1. k - 1 \in 0 .. MaxOrders - 1 /\ k - 1 # scan
      BY <1>1, <2>3, TuggerStoreAssumption DEF TypeInv, TypeOK
    <3>2. At(k - 1) # At(scan) /\ At(k - 1) \in Slots
      BY <1>1, <3>1, AtDiffers
    <3>3. fifo'[At(k - 1)] = fifo[At(k - 1)]
      BY <1>1, <3>2 DEF TypeInv, TypeOK
    <3> QED
      BY <1>1, <2>1, <2>3, <3>3 DEF Stored
  <2> QED
    BY <2>2, <2>3
<1>4. PromisedQueue' = [PromisedQueue EXCEPT ![n].late = TRUE]
  <2>1. PromisedQueue' = [k \in 1 .. count |-> Entry(Stored(At(k - 1))')]
    BY <1>1, QueueIs
  <2>2. PromisedQueue' = [k \in 1 .. count |->
           IF k = n THEN [PromisedQueue[k] EXCEPT !.late = TRUE] ELSE PromisedQueue[k]]
    BY <1>3, <2>1
  <2>3. DOMAIN PromisedQueue = 1 .. count
    BY QueueSeq
  <2>4. PromisedQueue = [k \in 1 .. count |-> PromisedQueue[k]]
    BY QueueIs, <2>3
  <2> QED
    BY <1>1, <2>2, <2>3, <2>4
<1>5. ~PromisedQueue[n].late
  BY <1>1, QueueSeq DEF Entry, Stored
<1> QED
  BY <1>1, <1>4, <1>5, QueueSeq DEF Promise!MarkLate

\* SELECT takes the first entry away.
LEMMA ServeTakesFirst ==
  ASSUME StoreInv, Serve
  PROVE  Promise!Serve
<1> USE DEF StoreInv
<1>1. /\ count > 0 /\ count \in 0 .. MaxOrders /\ head \in Slots
      /\ pc # "load" /\ pc' # "load"
      /\ head' = (head + 1) % MaxOrders /\ count' = count - 1
      /\ fifo' = [fifo EXCEPT ![head].active = FALSE]
  BY DEF Serve, Succ, TypeInv, TypeOK
<1>2. ASSUME NEW k \in 1 .. count - 1
      PROVE  Entry(Stored(At(k - 1))') = PromisedQueue[k + 1]
  <2>1. k \in 1 .. MaxOrders - 1 /\ k \in 0 .. MaxOrders /\ k > 0 /\ k + 1 \in 1 .. count
    BY <1>1, TuggerStoreAssumption
  <2>2. At(k - 1)' = At(k)
    BY <1>1, <2>1, RingArithmetic DEF At
  <2>3. At(k) \in Slots
    BY <2>1, AtDiffers
  <2>4. fifo'[At(k)].id = fifo[At(k)].id /\ fifo'[At(k)].timedOut = fifo[At(k)].timedOut
    BY <1>1, <2>3 DEF TypeInv, TypeOK, Orders
  <2>5. PromisedQueue[k + 1] = Entry(fifo[At(k)])
    <3>1. (k + 1) - 1 = k
      BY <2>1
    <3> QED
      BY <1>1, <2>1, <3>1, QueueSeq DEF Stored
  <2> QED
    BY <1>1, <2>2, <2>4, <2>5 DEF Entry, Stored
<1>3. PromisedQueue' = [k \in 1 .. count - 1 |-> PromisedQueue[k + 1]]
  BY <1>1, <1>2, QueueIs
<1>4. Tail(PromisedQueue) = [k \in 1 .. count - 1 |-> PromisedQueue[k + 1]]
  <2>1. Len(PromisedQueue) = count /\ PromisedQueue # <<>>
    BY <1>1, QueueSeq
  <2> QED
    BY <2>1, QueueSeq, TailIs
<1>5. PromisedQueue # <<>>
  BY <1>1, QueueSeq
<1> QED
  BY <1>3, <1>4, <1>5 DEF Promise!Serve

-----------------------------------------------------------------------------
LEMMA QueueInit == Init => Promise!Init
<1> SUFFICES ASSUME Init PROVE PromisedQueue = <<>>
  BY DEF Promise!Init
<1>1. count = 0
  BY DEF Init
<1> QED
  BY <1>1, QueueIs

LEMMA QueueStep ==
  ASSUME ~TornSaves
  PROVE  StoreInv /\ StoreInv' /\ [Next]_vars => [Promise!Next]_PromisedQueue
<1> SUFFICES ASSUME StoreInv, StoreInv', [Next]_vars
             PROVE  Promise!Next \/ UNCHANGED PromisedQueue
  OBVIOUS
<1>1. CASE Restart
  BY <1>1, RestartStutters
<1>2. CASE LoadSlot \/ EndLoad
  BY <1>2, LoadStutters
<1>3. CASE NextZone \/ LockZone
  BY <1>3, SameOrders DEF NextZone, LockZone, StoreInv
<1>4. ASSUME NEW id \in Ids, NEW z \in 1 .. LastZone, Receive(id, z)
      PROVE  Promise!Next \/ UNCHANGED PromisedQueue
  BY <1>4, ReceiveAccepts DEF Promise!Next
<1>5. CASE Quiet
  BY <1>5, SameOrders DEF Quiet, Calm, ram, StoreInv
<1>6. CASE Save
  BY <1>6, SameOrders
  DEF Save, SaveStep, EndSaveAdd, EndSaveScan, EndSaveClear, Saving, ram, StoreInv
<1>7. CASE Expire
  BY <1>7, ExpireMarks DEF Promise!Next
<1>8. CASE Serve
  BY <1>8, ServeTakesFirst DEF Promise!Next
<1>9. CASE UNCHANGED vars
  <2>1. \A k \in 1 .. count : Stored(At(k - 1))' = Stored(At(k - 1))
    BY <1>9 DEF vars, ram, Stored, At
  <2> QED
    BY <1>9, <2>1, SameQueue DEF vars, ram, StoreInv
<1> QED
  BY <1>1, <1>2, <1>3, <1>4, <1>5, <1>6, <1>7, <1>8, <1>9, QuietSteps
  DEF Next, Boot, Loop

\* The tugger is a bounded first-in-first-out queue without duplicates: every
\* step of receiving, marking, serving, saving, restarting and loading is one
\* operation of the queue or does not show, when power fails only between
\* saves, and under the conditions of NoDuplicates on the index.
THEOREM StoreKeepsPromise ==
  ASSUME ~TornSaves, MaxOrders <= TableSize
  PROVE  Spec /\ [][ServesApart]_vars => QueuePromise
<1>1. StoreInv /\ StoreInv' /\ [Next]_vars => [Promise!Next]_PromisedQueue
  BY QueueStep
<1> QED
  BY <1>1, QueueInit, StoreInvariant, PTL DEF Spec, QueuePromise, Promise!Spec
=============================================================================
