---------------------------- MODULE DeliveryProofs ----------------------------
(***************************************************************************)
(* The line stores and the tugger together keep the promise of OrderLedger,*)
(* for every number of stations, parts, rows, orders and slots, when the   *)
(* tugger loses power only between saves and serves no order over whose    *)
(* bucket another one's walk leads.  A line store may lose power at any    *)
(* time, and any transmission may be lost.                                 *)
(***************************************************************************)
EXTENDS OrderDelivery, TuggerStoreProofs

-----------------------------------------------------------------------------
(* The menu of a line store. *)

Menus == [sel : Parts, scroll : Parts]

\* The highlighted part of menu m is on the screen.
OnScreen(m) == m.scroll <= m.sel /\ m.sel < m.scroll + Rows

LEMMA MenuStart ==
  [sel |-> 0, scroll |-> 0] \in Menus /\ OnScreen([sel |-> 0, scroll |-> 0])
BY LineStoreAssumption DEF Menus, Parts, OnScreen

LEMMA MenuMoves ==
  ASSUME NEW m \in Menus, OnScreen(m)
  PROVE  /\ MoveUp(m) \in Menus /\ OnScreen(MoveUp(m))
         /\ MoveDown(m) \in Menus /\ OnScreen(MoveDown(m))
<1> USE LineStoreAssumption DEF Menus, Parts, OnScreen
<1>1. MoveUp(m) \in Menus /\ OnScreen(MoveUp(m))
  BY DEF MoveUp
<1>2. MoveDown(m) \in Menus /\ OnScreen(MoveDown(m))
  BY DEF MoveDown
<1> QED
  BY <1>1, <1>2

-----------------------------------------------------------------------------
(* The state of the line stores. *)

\* A station's pending order is one that it made.
OwnOrder ==
  \A st \in Stations : pending[st].active =>
    /\ pending[st].id \in OrderIds
    /\ pending[st].id[1] = st /\ pending[st].id[2] <= stamp[st]

LineInv == LineTypeOK /\ CursorVisible /\ OwnOrder

\* The orders that have been made.
Placed == {id \in Ids : id[2] <= stamp[id[1]]}

LEMMA LineStart == LineInit => LineInv
<1> SUFFICES ASSUME LineInit PROVE LineInv
  OBVIOUS
<1>1. LineTypeOK
  BY MenuStart, LineStoreAssumption
  DEF LineInit, LineTypeOK, NoOrder, Parts, Menus
<1>2. CursorVisible
  BY MenuStart DEF LineInit, CursorVisible, OnScreen
<1> QED
  BY <1>1, <1>2 DEF LineInv, LineInit, OwnOrder, NoOrder

\* The buttons: the menu moves, and SELECT makes a new order.
LEMMA KeysStep ==
  ASSUME LineInv, NEW st \in Stations, NEW up \in BOOLEAN, NEW down \in BOOLEAN,
         NEW select \in BOOLEAN, Keys(st, up, down, select)
  PROVE  LineInv'
<1> DEFINE m1 == IF up THEN MoveUp(menu[st]) ELSE menu[st]
           m2 == IF down THEN MoveDown(m1) ELSE m1
           order == [active |-> TRUE, id |-> <<st, stamp[st] + 1>>, part |-> m2.sel]
<1>1. menu[st] \in Menus /\ OnScreen(menu[st])
  BY DEF LineInv, LineTypeOK, CursorVisible, Menus, OnScreen
<1>2. m2 \in Menus /\ OnScreen(m2)
  <2>1. m1 \in Menus /\ OnScreen(m1)
    BY <1>1, MenuMoves
  <2> HIDE DEF m1
  <2> QED
    BY <2>1, MenuMoves
<1>3. /\ menu' = [menu EXCEPT ![st] = m2] /\ sent' = {}
      /\ lpc' = [lpc EXCEPT ![st] = "listen"]
      /\ \/ /\ stamp[st] < LastStamp
            /\ stamp' = [stamp EXCEPT ![st] = @ + 1]
            /\ pending' = [pending EXCEPT ![st] = order]
         \/ UNCHANGED <<pending, stamp>>
  BY DEF Keys, Goto
<1> HIDE DEF m2
<1>4. menu' \in [Stations -> Menus]
  BY <1>2, <1>3 DEF LineInv, LineTypeOK, Menus
<1>5. CursorVisible'
  <2> SUFFICES ASSUME NEW t \in Stations PROVE OnScreen(menu'[t])
    BY DEF CursorVisible, OnScreen
  <2>1. menu'[t] = IF t = st THEN m2 ELSE menu[t]
    BY <1>3 DEF LineInv, LineTypeOK
  <2> QED
    BY <1>2, <2>1 DEF LineInv, CursorVisible, OnScreen
<1>7. CASE UNCHANGED <<pending, stamp>>
  BY <1>3, <1>4, <1>5, <1>7 DEF LineInv, LineTypeOK, OwnOrder, Menus
<1>8. CASE /\ stamp[st] < LastStamp
           /\ stamp' = [stamp EXCEPT ![st] = @ + 1]
           /\ pending' = [pending EXCEPT ![st] = order]
  <2>1. <<st, stamp[st] + 1>> \in OrderIds
    BY <1>8, LineStoreAssumption DEF LineInv, LineTypeOK, OrderIds
  <2>2. order \in [active : BOOLEAN, id : OrderIds \cup {<<>>}, part : Parts]
    BY <1>2, <2>1 DEF Menus
  <2>3. pending' \in [Stations -> [active : BOOLEAN, id : OrderIds \cup {<<>>}, part : Parts]]
    BY <1>8, <2>2 DEF LineInv, LineTypeOK
  <2>4. ASSUME NEW t \in Stations, pending'[t].active
        PROVE  /\ pending'[t].id \in OrderIds
               /\ pending'[t].id[1] = t /\ pending'[t].id[2] <= stamp'[t]
    <3>1. CASE t = st
      <4>1. pending'[t] = order /\ stamp'[t] = stamp[st] + 1 /\ stamp[st] \in Nat
        BY <1>8, <3>1 DEF LineInv, LineTypeOK
      <4> QED
        BY <2>1, <3>1, <4>1
    <3>2. CASE t # st
      <4>1. pending'[t] = pending[t] /\ stamp'[t] = stamp[t]
        BY <1>8, <3>2 DEF LineInv, LineTypeOK
      <4> QED
        BY <2>4, <4>1 DEF LineInv, OwnOrder
    <3> QED
      BY <3>1, <3>2
  <2>0. stamp' \in [Stations -> 0 .. LastStamp]
    <3>1. stamp[st] + 1 \in 0 .. LastStamp
      BY <1>8, LineStoreAssumption DEF LineInv, LineTypeOK
    <3> QED
      BY <1>8, <3>1 DEF LineInv, LineTypeOK
  <2>5. LineTypeOK'
    BY <1>3, <1>4, <2>0, <2>3 DEF LineInv, LineTypeOK, Menus
  <2> QED
    BY <1>5, <2>4, <2>5 DEF LineInv, OwnOrder
<1> QED
  BY <1>3, <1>7, <1>8

\* The steps of a station that do not touch its menu, or blank it.
LEMMA RetryStep ==
  ASSUME LineInv, NEW st \in Stations, Retry(st)
  PROVE  LineInv' /\ sent' \subseteq [type : {"order"}, id : Placed, zone : {1}]
<1>1. pending[st].active /\ sent' = {Request(pending[st])} /\ UNCHANGED <<pending, menu, stamp>>
  BY DEF Retry
<1>2. pending[st].id \in OrderIds /\ pending[st].id[1] = st /\ pending[st].id[2] <= stamp[st]
  BY <1>1 DEF LineInv, OwnOrder
<1>3. sent' \subseteq [type : {"order"}, id : OrderIds, zone : {1}]
  BY <1>1, <1>2 DEF Request
<1>4. lpc' \in [Stations -> {"retry", "keys", "listen"}]
  BY DEF Retry, Goto, LineInv, LineTypeOK
<1>5. pending[st].id \in Placed
  BY <1>2, OrderDeliveryAssumption DEF Placed
<1> QED
  BY <1>1, <1>3, <1>4, <1>5
  DEF LineInv, LineTypeOK, CursorVisible, OwnOrder, Request

LEMMA ListenStep ==
  ASSUME LineInv, NEW st \in Stations,
         \/ NoRetry(st) \/ HearNothing(st)
         \/ \E packet : HearAck(st, packet) \/ HearOther(st, packet)
  PROVE  LineInv' /\ UNCHANGED stamp
<1>1. /\ UNCHANGED <<menu, stamp>> /\ sent' = {}
      /\ lpc' \in [Stations -> {"retry", "keys", "listen"}]
  BY DEF NoRetry, HearNothing, HearAck, HearOther, Goto, LineInv, LineTypeOK
<1>2. \/ pending' = pending
      \/ pending' = [pending EXCEPT ![st].active = FALSE]
  BY DEF NoRetry, HearNothing, HearAck, HearOther
<1>3. /\ pending' \in [Stations -> [active : BOOLEAN, id : OrderIds \cup {<<>>}, part : Parts]]
      /\ \A t \in Stations : /\ pending'[t].active => pending[t].active
                             /\ pending'[t].id = pending[t].id
  <2> DEFINE Pending == [active : BOOLEAN, id : OrderIds \cup {<<>>}, part : Parts]
  <2>1. pending \in [Stations -> Pending]
    BY DEF LineInv, LineTypeOK
  <2>2. [pending[st] EXCEPT !.active = FALSE] \in Pending
    BY <2>1
  <2>3. [pending[st] EXCEPT !.active = FALSE].id = pending[st].id
    BY <2>1
  <2>4. [pending[st] EXCEPT !.active = FALSE].active = FALSE
    BY <2>1
  <2>5. CASE pending' = [pending EXCEPT ![st].active = FALSE]
    <3>1. \A t \in Stations : pending'[t] = IF t = st THEN [pending[st] EXCEPT !.active = FALSE]
                                                     ELSE pending[t]
      BY <2>1, <2>5
    <3>2. pending' \in [Stations -> Pending]
      BY <2>1, <2>2, <2>5
    <3> QED
      BY <2>3, <2>4, <3>1, <3>2
  <2> QED
    BY <1>2, <2>1, <2>5
<1> QED
  BY <1>1, <1>3 DEF LineInv, LineTypeOK, CursorVisible, OwnOrder

LEMMA ResetStep ==
  ASSUME LineInv, NEW st \in Stations, Reset(st)
  PROVE  LineInv' /\ UNCHANGED stamp
<1>1. NoOrder \in [active : BOOLEAN, id : OrderIds \cup {<<>>}, part : Parts]
  BY LineStoreAssumption DEF NoOrder, Parts
<1>2. LineTypeOK'
  <2>1. pending' \in [Stations -> [active : BOOLEAN, id : OrderIds \cup {<<>>}, part : Parts]]
    BY <1>1 DEF Reset, LineInv, LineTypeOK
  <2>2. menu' \in [Stations -> [sel : Parts, scroll : Parts]]
    BY MenuStart DEF Reset, LineInv, LineTypeOK, Menus
  <2> QED
    BY <2>1, <2>2 DEF Reset, LineInv, LineTypeOK
<1>3. CursorVisible'
  <2> SUFFICES ASSUME NEW t \in Stations PROVE OnScreen(menu'[t])
    BY DEF CursorVisible, OnScreen
  <2>1. menu'[t] = IF t = st THEN [sel |-> 0, scroll |-> 0] ELSE menu[t]
    BY DEF Reset, LineInv, LineTypeOK
  <2> QED
    BY <2>1, MenuStart DEF LineInv, CursorVisible, OnScreen
<1>4. OwnOrder'
  <2>1. \A t \in Stations : pending'[t] = IF t = st THEN NoOrder ELSE pending[t]
    BY DEF Reset, LineInv, LineTypeOK
  <2> QED
    BY <2>1 DEF Reset, LineInv, OwnOrder, NoOrder
<1> QED
  BY <1>2, <1>3, <1>4 DEF LineInv, Reset

-----------------------------------------------------------------------------
(* The orders the tugger has. *)

\* Steps that leave the stored orders alone leave the queued ids alone.
LEMMA SameQueued ==
  ASSUME \A s \in Slots : /\ Stored(s)'.active = Stored(s).active
                          /\ Stored(s).active => Stored(s)'.id = Stored(s).id
  PROVE  \A id : Queued(id)' <=> Queued(id)
<1> TAKE id
<1>1. ASSUME Queued(id)' PROVE Queued(id)
  <2>1. PICK s \in Slots : Stored(s)'.active /\ Stored(s)'.id = id
    BY <1>1 DEF Queued
  <2>2. Stored(s).active /\ Stored(s).id = id
    BY <2>1
  <2> QED
    BY <2>2 DEF Queued
<1>2. ASSUME Queued(id) PROVE Queued(id)'
  <2>1. PICK s \in Slots : Stored(s).active /\ Stored(s).id = id
    BY <1>2 DEF Queued
  <2>2. Stored(s)'.active /\ Stored(s)'.id = id
    BY <2>1
  <2> QED
    BY <2>2 DEF Queued
<1> QED
  BY <1>1, <1>2

\* Starting, saving, scanning and losing power between saves leave the orders
\* of the tugger what they are.
LEMMA QueuedStays ==
  ASSUME ~TornSaves, StoreInv,
         \/ Boot \/ Save \/ Expire \/ Quiet \/ Restart \/ UNCHANGED vars
  PROVE  \A id : Queued(id)' <=> Queued(id)
<1> USE DEF StoreInv
<1>1. CASE Restart
  <2>1. CASE pc = "load"
    BY <1>1, <2>1, SameQueued DEF Restart, Stored
  <2>2. CASE pc # "load"
    <3>1. \A s \in Slots : nvs.slot[s] = Saved(fifo[s])
      BY <1>1, <2>2 DEF Restart, SyncInv, NvsInSync, Written
    <3>2. \A s \in Slots : /\ nvs.slot[s].active = fifo[s].active
                           /\ fifo[s].active => nvs.slot[s] = fifo[s]
      BY <3>1 DEF Saved, Blank, TypeInv, TypeOK, Orders
    <3> QED
      BY <1>1, <2>2, <3>2, SameQueued DEF Restart, Stored
  <2> QED
    BY <2>1, <2>2
<1>2. CASE LoadSlot
  BY <1>2, SameQueued DEF LoadSlot, Stored
<1>3. CASE EndLoad
  <2>1. \A s \in Slots : fifo[s] = nvs.slot[s]
    BY <1>3, TuggerStoreAssumption DEF EndLoad, SyncInv, LoadInv, Slots
  <2>2. pc = "load" /\ pc' # "load" /\ UNCHANGED ram
    BY <1>3 DEF EndLoad
  <2> QED
    BY <2>1, <2>2, SameQueued DEF Stored, ram
<1>4. CASE NextZone \/ LockZone
  BY <1>4, SameQueued DEF NextZone, LockZone, Stored
<1>5. CASE Save
  BY <1>5, SameQueued
  DEF Save, SaveStep, EndSaveAdd, EndSaveScan, EndSaveClear, Saving, Stored, ram
<1>6. CASE Expire
  <2>1. PICK t : fifo' = [fifo EXCEPT ![t].timedOut = TRUE]
    BY <1>6 DEF Expire
  <2>2. \A s \in Slots : fifo'[s].active = fifo[s].active /\ fifo'[s].id = fifo[s].id
    BY <2>1 DEF TypeInv, TypeOK, Orders
  <2> QED
    BY <1>6, <2>2, SameQueued DEF Expire, Stored
<1>7. CASE Quiet
  BY <1>7, SameQueued DEF Quiet, Calm, ram, Stored
<1>8. CASE UNCHANGED vars
  BY <1>8, SameQueued DEF vars, ram, Stored
<1> HIDE DEF StoreInv
<1>9. CASE Boot
  BY <1>2, <1>3, <1>4, <1>9 DEF Boot
<1> QED
  BY <1>1, <1>5, <1>6, <1>7, <1>8, <1>9

\* A received order is queued, and the others stay.
LEMMA QueuedAdds ==
  ASSUME StoreInv, NEW id \in Ids, NEW z \in 1 .. LastZone, Receive(id, z)
  PROVE  \A i : Queued(i)' <=> Queued(i) \/ i = id
<1> USE DEF StoreInv
<1>1. CASE Exists(table, IdAt(fifo), id)
  <2>1. \A s \in Slots : Stored(s)' = Stored(s)
    BY <1>1 DEF Receive, Stored
  <2>2. Queued(id)
    <3>1. pc # "load"
      BY DEF Receive
    <3> QED
      BY <1>1, <3>1, WalkFinds DEF Queued, Stored
  <2> QED
    BY <2>1, <2>2 DEF Queued
<1>2. CASE ~Exists(table, IdAt(fifo), id)
  <2> DEFINE order == [id |-> id, created |-> clock, timedOut |-> FALSE, active |-> TRUE]
  <2>1. /\ pc # "load" /\ pc' # "load" /\ count < MaxOrders
        /\ fifo' = [fifo EXCEPT ![tail] = order]
    BY <1>2 DEF Receive, Room
  <2>2. head \in Slots /\ tail \in Slots /\ count \in 0 .. MaxOrders
    BY DEF TypeInv, TypeOK
  <2>3. ~fifo[tail].active
    <3>1. tail = (head + count) % MaxOrders
      BY DEF RingWindow
    <3>2. ASSUME NEW s \in Slots PROVE s = tail <=> Dist(s) = count
      BY <2>1, <2>2, <3>1, RingArithmetic DEF Dist
    <3>3. Dist(tail) = count
      BY <2>2, <3>2
    <3> QED
      BY <2>1, <2>2, <3>3 DEF RingWindow, Stored
  <2>4. \A s \in Slots : fifo'[s] = IF s = tail THEN order ELSE fifo[s]
    BY <2>1 DEF TypeInv, TypeOK
  <2> QED
    BY <2>1, <2>2, <2>3, <2>4 DEF Queued, Stored
<1> QED
  BY <1>1, <1>2

\* SELECT serves the order at the head, which is queued once, and no other.
LEMMA QueuedServes ==
  ASSUME StoreInv, Serve
  PROVE  /\ Queued(fifo[head].id) /\ fifo[head].id \in Ids
         /\ \A i : Queued(i)' <=> Queued(i) /\ i # fifo[head].id
<1> USE DEF StoreInv
<1>1. /\ pc # "load" /\ pc' # "load" /\ head \in Slots /\ fifo[head].active
      /\ fifo' = [fifo EXCEPT ![head].active = FALSE]
  BY DEF Serve, TypeInv, TypeOK
<1>2. \A s \in Slots : /\ fifo'[s].id = fifo[s].id
                       /\ fifo'[s].active <=> fifo[s].active /\ s # head
  BY <1>1 DEF TypeInv, TypeOK, Orders
<1>3. \A s \in Slots : fifo[s].active /\ fifo[s].id = fifo[head].id => s = head
  BY <1>1 DEF StoredInv, NoDuplicateOrders, Stored
<1> QED
  BY <1>1, <1>2, <1>3 DEF Queued, Stored, StoredInv

-----------------------------------------------------------------------------
(* The composed system. *)

Packets == [type : {"ack", "clear", "timeout"}, id : Ids \cup {NoId}]
           \cup [type : {"order"}, id : Ids \cup {NoId}, zone : Zones]

Kept(id) == Queued(id) \/ id \in served

\* What the radios hold has its type, and the tugger's radio holds an order
\* that a station made.
RadioType ==
  /\ tuggerRadio \subseteq [type : {"order"}, id : Placed, zone : {1}]
  /\ lineRadio \in [Stations -> SUBSET Packets]

\* The tugger has only orders that a station made.
TakenPlaced == \A id \in Ids : Queued(id) => id \in Placed

\* An ack on its way to a station is of an order that is kept.
AcksKept ==
  \A st \in Stations : \A packet \in lineRadio[st] :
    packet.type = "ack" => Kept(packet.id)

AirInv == RadioType /\ TakenPlaced /\ AcksKept /\ ReceivedIsKept

DeliveryInv == StoreInv /\ AckedIsQueued /\ LineInv /\ AirInv

LEMMA DeliveryStart == DeliveryInit => DeliveryInv
<1> SUFFICES ASSUME DeliveryInit PROVE DeliveryInv
  OBVIOUS
<1>1. StoreInv
  BY TypeInit, SyncInit, RingInit, ChainInit DEF DeliveryInit, StoreInv
<1>2. \A id : ~Queued(id)
  BY DEF DeliveryInit, Init, Queued, Stored, Blank
<1>3. AckedIsQueued
  BY DEF DeliveryInit, Init, AckedIsQueued
<1>4. LineInv
  BY LineStart DEF DeliveryInit
<1>5. AirInv
  BY <1>2 DEF DeliveryInit, AirInv, RadioType, TakenPlaced, AcksKept, ReceivedIsKept
<1> QED
  BY <1>1, <1>3, <1>4, <1>5 DEF DeliveryInv

\* While the lines step, the tugger keeps what it has.
LEMMA IdleTugger ==
  ASSUME StoreInv, TuggerIdle
  PROVE  StoreInv' /\ AckedIsQueued' /\ \A id : Queued(id)' <=> Queued(id)
<1> USE DEF TuggerIdle, tuggerState, ram, StoreInv
<1>1. TypeInv'
  BY DEF TypeInv, TypeOK, ScanInWindow
<1>2. SyncInv'
  BY DEF SyncInv, NvsInSync, LoadInv, NvsForm, Written, Saving
<1>3. \A s \in Slots : Stored(s)' = Stored(s)
  BY DEF Stored
<1>4. RingWindow' /\ StoredInv'
  BY <1>3 DEF RingWindow, Dist, StoredInv, NoDuplicateOrders
<1>5. ChainInv'
  BY DEF ChainInv, WalkTo
<1>6. \A id : Queued(id)' <=> Queued(id)
  BY <1>3 DEF Queued
<1> QED
  BY <1>1, <1>2, <1>4, <1>5, <1>6 DEF AckedIsQueued

\* While the tugger steps, the lines keep what they have.
LEMMA IdleLines ==
  ASSUME LineInv, LinesIdle
  PROVE  LineInv' /\ UNCHANGED stamp
BY DEF LinesIdle, lineState, LineInv, LineTypeOK, CursorVisible, OwnOrder

\* Every step of the tugger is one of the four ways its orders can change.
LEMMA TuggerKinds ==
  ASSUME DeliveryInv, NEW hearers \in SUBSET Stations, TuggerStep(hearers)
  PROVE  /\ Next
         /\ \/ /\ Boot \/ Save \/ Expire \/ Quiet
               /\ UNCHANGED served
            \/ \E packet \in tuggerRadio :
                 Receive(packet.id, packet.zone) /\ UNCHANGED served
            \/ Serve /\ served' = served \cup {fifo[head].id}
         /\ \/ UNCHANGED tuggerRadio
            \/ tuggerRadio' = {}
<1>1. \A packet \in tuggerRadio : packet.id \in Ids /\ packet.zone \in 1 .. LastZone
  BY TuggerStoreAssumption DEF DeliveryInv, AirInv, RadioType, Placed
<1>2. CASE TuggerReads /\ UNCHANGED served
  <2>1. CASE NoPacket /\ UNCHANGED tuggerRadio
    BY <1>2, <2>1, QuietSteps DEF Next, Loop
  <2>2. ASSUME NEW packet \in tuggerRadio, tuggerRadio' = {},
               Refuse(packet.id, packet.zone)
        PROVE  Next /\ Quiet
    BY <1>1, <2>2, QuietSteps DEF Next, Loop
  <2>3. ASSUME NEW packet \in tuggerRadio, Receive(packet.id, packet.zone)
        PROVE  Next
    BY <1>1, <2>3 DEF Next, Loop
  <2> QED
    BY <1>2, <2>1, <2>2, <2>3 DEF TuggerReads
<1>3. CASE TuggerWorks /\ UNCHANGED served
  BY <1>3, QuietSteps DEF TuggerWorks, Next, Loop
<1>4. CASE TuggerServes /\ served' = served \cup {fifo[head].id}
  BY <1>4 DEF TuggerServes, Next, Loop
<1> QED
  BY <1>2, <1>3, <1>4 DEF TuggerStep

\* What a step of the tugger does to the kept orders: none is lost, and what
\* it newly queues was placed.
LEMMA TuggerKeeps ==
  ASSUME ~TornSaves, DeliveryInv,
         NEW hearers \in SUBSET Stations, TuggerStep(hearers)
  PROVE  /\ \A id : Kept(id) => Kept(id)'
         /\ \A id \in Ids : Queued(id)' => id \in Placed
<1>0. StoreInv /\ TakenPlaced
  BY DEF DeliveryInv, AirInv
<1>1. CASE (Boot \/ Save \/ Expire \/ Quiet) /\ UNCHANGED served
  <2>1. \A id : Queued(id)' <=> Queued(id)
    BY <1>0, <1>1, QueuedStays
  <2> QED
    BY <1>0, <1>1, <2>1 DEF Kept, TakenPlaced
<1>2. ASSUME NEW packet \in tuggerRadio,
             Receive(packet.id, packet.zone), UNCHANGED served
      PROVE  /\ \A id : Kept(id) => Kept(id)'
             /\ \A id \in Ids : Queued(id)' => id \in Placed
  <2>1. packet.id \in Placed /\ packet.id \in Ids /\ packet.zone \in 1 .. LastZone
    BY TuggerStoreAssumption DEF DeliveryInv, AirInv, RadioType, Placed
  <2>2. \A i : Queued(i)' <=> Queued(i) \/ i = packet.id
    BY <1>0, <1>2, <2>1, QueuedAdds
  <2> QED
    BY <1>0, <1>2, <2>1, <2>2 DEF Kept, TakenPlaced
<1>3. CASE Serve /\ served' = served \cup {fifo[head].id}
  <2>1. \A i : Queued(i)' <=> Queued(i) /\ i # fifo[head].id
    BY <1>0, <1>3, QueuedServes
  <2> QED
    BY <1>0, <1>3, <2>1 DEF Kept, TakenPlaced
<1> QED
  BY <1>1, <1>2, <1>3, TuggerKinds

\* A step of the tugger: an ack that a station may hear is of a kept order.
LEMMA TuggerStepKeeps ==
  ASSUME ~TornSaves, MaxOrders <= TableSize, DeliveryInv, [ServesApart]_vars,
         NEW hearers \in SUBSET Stations, TuggerStep(hearers)
  PROVE  DeliveryInv'
<1>1. Next /\ (tuggerRadio' = tuggerRadio \/ tuggerRadio' = {})
  BY TuggerKinds
<1>2. StoreInv' /\ AckedIsQueued'
  BY <1>1, TypeStep, SyncStep, RingStep, ChainStep, AckStep DEF StoreInv, DeliveryInv
<1>3. LineInv' /\ UNCHANGED stamp
  BY IdleLines DEF TuggerStep, DeliveryInv
<1>4. \A id : Kept(id) => Kept(id)'
  BY TuggerKeeps
<1>5. /\ lineRadio' = [st \in Stations |->
                         IF st \in hearers THEN out' ELSE lineRadio[st]]
      /\ UNCHANGED received
  BY DEF TuggerStep, LinesHear
<1>6. RadioType'
  <2>1. out' \subseteq Packets
    BY <1>2 DEF StoreInv, TypeInv, TypeOK, Packets
  <2>2. Placed' = Placed
    BY <1>3 DEF Placed
  <2> QED
    BY <1>1, <1>5, <2>1, <2>2 DEF DeliveryInv, AirInv, RadioType
<1>7. TakenPlaced'
  BY <1>3, TuggerKeeps DEF TakenPlaced, Placed
<1>8. AcksKept'
  <2> SUFFICES ASSUME NEW st \in Stations, NEW packet \in lineRadio'[st],
                      packet.type = "ack"
               PROVE  Kept(packet.id)'
    BY DEF AcksKept
  <2>1. CASE packet \in out'
    BY <1>2, <2>1 DEF AckedIsQueued, Kept
  <2>2. CASE packet \in lineRadio[st]
    BY <1>4, <2>2 DEF DeliveryInv, AirInv, AcksKept
  <2> QED
    BY <1>5, <2>1, <2>2
<1>9. ReceivedIsKept'
  BY <1>4, <1>5 DEF DeliveryInv, AirInv, ReceivedIsKept, Kept
<1> QED
  BY <1>2, <1>3, <1>6, <1>7, <1>8, <1>9 DEF DeliveryInv, AirInv

\* The tugger loses power: its radio forgets, its orders do not.
LEMMA TuggerFailsKeeps ==
  ASSUME ~TornSaves, MaxOrders <= TableSize, DeliveryInv, [ServesApart]_vars, TuggerFails
  PROVE  DeliveryInv' /\ \A id : Queued(id)' <=> Queued(id)
<1>1. /\ Restart /\ Next /\ tuggerRadio' = {}
      /\ UNCHANGED <<lineRadio, received, served>>
  BY DEF TuggerFails, Next
<1>2. StoreInv' /\ AckedIsQueued'
  BY <1>1, TypeStep, SyncStep, RingStep, ChainStep, AckStep DEF StoreInv, DeliveryInv
<1>3. LineInv' /\ UNCHANGED stamp
  BY IdleLines DEF TuggerFails, DeliveryInv
<1>4. \A id : Queued(id)' <=> Queued(id)
  BY <1>1, QueuedStays DEF DeliveryInv
<1> QED
  BY <1>1, <1>2, <1>3, <1>4
  DEF DeliveryInv, AirInv, RadioType, TakenPlaced, AcksKept, ReceivedIsKept, Kept, Placed

\* What the steps of a line store do to the composed state.
LEMMA LinesKeep ==
  ASSUME DeliveryInv, TuggerIdle, LineInv', UNCHANGED served,
         Placed \subseteq Placed',
         tuggerRadio' \subseteq [type : {"order"}, id : Placed', zone : {1}],
         lineRadio' \in [Stations -> SUBSET Packets],
         \A st \in Stations : lineRadio'[st] \subseteq lineRadio[st],
         \A id \in received' : id \in received \/ Kept(id)
  PROVE  DeliveryInv'
<1>1. StoreInv' /\ AckedIsQueued' /\ \A id : Queued(id)' <=> Queued(id)
  BY IdleTugger DEF DeliveryInv
<1>2. \A id : Kept(id)' <=> Kept(id)
  BY <1>1 DEF Kept
<1>3. RadioType' /\ TakenPlaced'
  BY <1>1 DEF DeliveryInv, AirInv, RadioType, TakenPlaced
<1>4. AcksKept'
  BY <1>2 DEF DeliveryInv, AirInv, AcksKept
<1>5. ReceivedIsKept'
  BY <1>2 DEF DeliveryInv, AirInv, ReceivedIsKept, Kept
<1> QED
  BY <1>1, <1>3, <1>4, <1>5 DEF DeliveryInv, AirInv

\* SELECT adds one order to those placed; no other step of a station does.
LEMMA KeysPlaces ==
  ASSUME LineInv, NEW st \in Stations, NEW up \in BOOLEAN, NEW down \in BOOLEAN,
         NEW select \in BOOLEAN, Keys(st, up, down, select)
  PROVE  \/ UNCHANGED Placed
         \/ \E id \in Ids : id \notin Placed /\ Placed' = Placed \cup {id}
<1>1. CASE UNCHANGED stamp
  BY <1>1 DEF Placed
<1>2. CASE stamp[st] < LastStamp /\ stamp' = [stamp EXCEPT ![st] = @ + 1]
  <2> DEFINE id == <<st, stamp[st] + 1>>
  <2>1. stamp \in [Stations -> Nat] /\ stamp[st] \in Nat
    BY LineStoreAssumption DEF LineInv, LineTypeOK
  <2>2. id \in Ids /\ id[1] = st /\ id[2] = stamp[st] + 1
    BY <1>2, <2>1, LineStoreAssumption, OrderDeliveryAssumption DEF OrderIds
  <2>3. id \notin Placed
    BY <2>1, <2>2 DEF Placed
  <2>4. ASSUME NEW i \in Ids
        PROVE  i[2] <= stamp'[i[1]] <=> i[2] <= stamp[i[1]] \/ i = id
    <3>1. i[1] \in Stations /\ i[2] \in Nat /\ i = <<i[1], i[2]>>
      BY LineStoreAssumption, OrderDeliveryAssumption DEF OrderIds
    <3>2. CASE i[1] = st
      <4>1. stamp'[i[1]] = stamp[st] + 1
        BY <1>2, <2>1, <3>2
      <4>2. i = id <=> i[2] = stamp[st] + 1
        BY <3>1, <3>2
      <4> QED
        BY <2>1, <3>1, <3>2, <4>1, <4>2
    <3>3. CASE i[1] # st
      BY <1>2, <2>1, <2>2, <3>1, <3>3
    <3> QED
      BY <3>2, <3>3
  <2>5. Placed' = Placed \cup {id}
    BY <2>2, <2>4 DEF Placed
  <2> QED
    BY <2>2, <2>3, <2>5
<1> QED
  BY <1>1, <1>2 DEF Keys

\* A station that hears an ack of its pending order is told of a kept order.
LEMMA HeardIsKept ==
  ASSUME AirInv, NEW st \in Stations, NEW packet \in lineRadio[st], HearAck(st, packet)
  PROVE  Kept(pending[st].id)
BY DEF AirInv, AcksKept, HearAck

\* The three kinds of steps of a line store, and its reset.
LEMMA LineStepKinds ==
  ASSUME LineInv, NEW st \in Stations, LineStep(st) \/ LineFails(st)
  PROVE  /\ LineInv' /\ TuggerIdle /\ UNCHANGED served
         /\ \/ UNCHANGED Placed
            \/ \E id \in Ids : id \notin Placed /\ Placed' = Placed \cup {id}
         /\ \/ UNCHANGED tuggerRadio
            \/ tuggerRadio' \subseteq [type : {"order"}, id : Placed, zone : {1}]
         /\ \/ UNCHANGED lineRadio
            \/ lineRadio' = [lineRadio EXCEPT ![st] = {}]
         /\ \/ UNCHANGED received
            \/ \E packet \in lineRadio[st] :
                 /\ HearAck(st, packet)
                 /\ received' = received \cup {pending[st].id}
                 /\ UNCHANGED Placed
<1>1. ASSUME NEW tuggerHears \in BOOLEAN, LineTransmits(st, tuggerHears)
      PROVE  /\ LineInv' /\ UNCHANGED <<Placed, lineRadio, received>>
             /\ \/ UNCHANGED tuggerRadio
                \/ tuggerRadio' \subseteq [type : {"order"}, id : Placed, zone : {1}]
  <2>1. Retry(st) /\ UNCHANGED <<lineRadio, received>>
    BY <1>1 DEF LineTransmits
  <2>2. LineInv' /\ sent' \subseteq [type : {"order"}, id : Placed, zone : {1}]
    BY <2>1, RetryStep
  <2>3. UNCHANGED Placed
    BY <2>1 DEF Retry, Placed
  <2> QED
    BY <1>1, <2>1, <2>2, <2>3 DEF LineTransmits
<1>2. ASSUME LineOrders(st)
      PROVE  /\ LineInv' /\ UNCHANGED <<tuggerRadio, lineRadio, received>>
             /\ \/ UNCHANGED Placed
                \/ \E id \in Ids : id \notin Placed /\ Placed' = Placed \cup {id}
  <2>1. CASE NoRetry(st)
    <3>1. LineInv' /\ UNCHANGED stamp
      BY <2>1, ListenStep
    <3> QED
      BY <1>2, <3>1 DEF LineOrders, Placed
  <2>2. ASSUME NEW up \in BOOLEAN, NEW down \in BOOLEAN, NEW select \in BOOLEAN,
               Keys(st, up, down, select)
        PROVE  /\ LineInv'
               /\ \/ UNCHANGED Placed
                  \/ \E id \in Ids : id \notin Placed /\ Placed' = Placed \cup {id}
    BY <2>2, KeysStep, KeysPlaces
  <2> QED
    BY <1>2, <2>1, <2>2 DEF LineOrders
<1>3. ASSUME LineReads(st)
      PROVE  /\ LineInv' /\ UNCHANGED <<Placed, tuggerRadio>>
             /\ lineRadio' = [lineRadio EXCEPT ![st] = {}]
             /\ \/ UNCHANGED received
                \/ \E packet \in lineRadio[st] :
                     /\ HearAck(st, packet)
                     /\ received' = received \cup {pending[st].id}
  <2>1. \/ HearNothing(st)
        \/ \E packet : HearAck(st, packet) \/ HearOther(st, packet)
    BY <1>3 DEF LineReads
  <2>2. LineInv' /\ UNCHANGED stamp
    BY <2>1, ListenStep
  <2> QED
    BY <1>3, <2>2 DEF LineReads, Placed
<1>4. CASE LineFails(st)
  <2>1. LineInv' /\ UNCHANGED stamp
    BY <1>4, ResetStep DEF LineFails
  <2> QED
    BY <1>4, <2>1 DEF LineFails, Placed
<1> QED
  BY <1>1, <1>2, <1>3, <1>4 DEF LineStep

LEMMA LineStepKeeps ==
  ASSUME DeliveryInv, NEW st \in Stations, LineStep(st) \/ LineFails(st)
  PROVE  DeliveryInv'
<1>0. LineInv /\ AirInv
  BY DEF DeliveryInv
<1>1. LineInv' /\ TuggerIdle /\ UNCHANGED served
  BY <1>0, LineStepKinds
<1>2. Placed \subseteq Placed'
  <2>1. \/ UNCHANGED Placed
        \/ \E id \in Ids : id \notin Placed /\ Placed' = Placed \cup {id}
    BY <1>0, LineStepKinds
  <2> QED
    BY <2>1
<1>3. tuggerRadio' \subseteq [type : {"order"}, id : Placed', zone : {1}]
  <2>1. tuggerRadio' \subseteq [type : {"order"}, id : Placed, zone : {1}]
    BY <1>0, LineStepKinds DEF AirInv, RadioType
  <2> QED
    BY <1>2, <2>1
<1>4. /\ lineRadio' \in [Stations -> SUBSET Packets]
      /\ \A t \in Stations : lineRadio'[t] \subseteq lineRadio[t]
  <2>1. lineRadio' = lineRadio \/ lineRadio' = [lineRadio EXCEPT ![st] = {}]
    BY <1>0, LineStepKinds
  <2>2. lineRadio \in [Stations -> SUBSET Packets]
    BY <1>0 DEF AirInv, RadioType
  <2> QED
    BY <2>1, <2>2
<1>5. \A id \in received' : id \in received \/ Kept(id)
  <2>1. \/ UNCHANGED received
        \/ \E packet \in lineRadio[st] :
             HearAck(st, packet) /\ received' = received \cup {pending[st].id}
    BY <1>0, LineStepKinds
  <2> QED
    BY <1>0, <2>1, HeardIsKept
<1> QED
  BY <1>1, <1>2, <1>3, <1>4, <1>5, LinesKeep

LEMMA IdleKeeps == DeliveryInv /\ UNCHANGED allVars => DeliveryInv'
<1> SUFFICES ASSUME DeliveryInv, UNCHANGED allVars PROVE DeliveryInv'
  OBVIOUS
<1>1. /\ UNCHANGED vars /\ UNCHANGED stamp
      /\ UNCHANGED <<pending, menu, lpc, sent, tuggerRadio, lineRadio, received, served>>
  BY DEF allVars, lineState
<1>2. StoreInv' /\ AckedIsQueued' /\ \A id : Queued(id)' <=> Queued(id)
  <2>1. StoreInv' /\ \A s \in Slots : Stored(s)' = Stored(s)
    BY <1>1
    DEF vars, ram, DeliveryInv, StoreInv, TypeInv, TypeOK, ScanInWindow, SyncInv, NvsInSync,
        LoadInv, NvsForm, Written, Saving, RingWindow, Dist, StoredInv, NoDuplicateOrders,
        Stored, ChainInv, WalkTo
  <2> QED
    BY <1>1, <2>1 DEF vars, Queued, DeliveryInv, AckedIsQueued
<1>3. LineInv'
  BY <1>1 DEF DeliveryInv, LineInv, LineTypeOK, CursorVisible, OwnOrder
<1>4. AirInv'
  BY <1>1, <1>2
  DEF DeliveryInv, AirInv, RadioType, TakenPlaced, AcksKept, ReceivedIsKept, Kept, Placed
<1> QED
  BY <1>2, <1>3, <1>4 DEF DeliveryInv

LEMMA DeliveryInvariant ==
  ASSUME ~TornSaves, MaxOrders <= TableSize
  PROVE  DeliverySpec /\ [][ServesApart]_vars => []DeliveryInv
<1>1. DeliveryInv /\ [ServesApart]_vars /\ [DeliveryNext]_allVars => DeliveryInv'
  <2> SUFFICES ASSUME DeliveryInv, [ServesApart]_vars, [DeliveryNext]_allVars
               PROVE  DeliveryInv'
    OBVIOUS
  <2>1. ASSUME NEW hearers \in SUBSET Stations, TuggerStep(hearers) PROVE DeliveryInv'
    BY <2>1, TuggerStepKeeps
  <2>2. CASE TuggerFails
    BY <2>2, TuggerFailsKeeps
  <2>3. ASSUME NEW st \in Stations, LineStep(st) \/ LineFails(st) PROVE DeliveryInv'
    BY <2>3, LineStepKeeps
  <2>4. CASE UNCHANGED allVars
    BY <2>4, IdleKeeps
  <2> QED
    BY <2>1, <2>2, <2>3, <2>4 DEF DeliveryNext
<1> QED
  BY <1>1, DeliveryStart, PTL DEF DeliverySpec

\* An order whose line was told "Tugger: Received!" is queued or was served:
\* the ack goes out before the order is queued and saved, any transmission may
\* be lost or heard again, and either side may lose power.
THEOREM ReceivedOrdersAreKept ==
  ASSUME ~TornSaves, MaxOrders <= TableSize
  PROVE  DeliverySpec /\ [][ServesApart]_vars => []ReceivedIsKept
<1>1. DeliveryInv => ReceivedIsKept
  BY DEF DeliveryInv, AirInv
<1> QED
  BY <1>1, DeliveryInvariant, PTL

-----------------------------------------------------------------------------
(* The menu does not depend on the tugger. *)

LEMMA LineInvStep == LineInv /\ [DeliveryNext]_allVars => LineInv'
<1> SUFFICES ASSUME LineInv, [DeliveryNext]_allVars PROVE LineInv'
  OBVIOUS
<1>1. ASSUME NEW hearers \in SUBSET Stations, TuggerStep(hearers) PROVE LineInv'
  BY <1>1, IdleLines DEF TuggerStep
<1>2. CASE TuggerFails
  BY <1>2, IdleLines DEF TuggerFails
<1>3. ASSUME NEW st \in Stations, LineStep(st) \/ LineFails(st) PROVE LineInv'
  BY <1>3, LineStepKinds
<1>4. CASE UNCHANGED allVars
  BY <1>4 DEF allVars, lineState, LineInv, LineTypeOK, CursorVisible, OwnOrder
<1> QED
  BY <1>1, <1>2, <1>3, <1>4 DEF DeliveryNext

\* The part that SELECT orders is always on the screen, for every menu length
\* and every number of rows, whatever UP, DOWN and resets do.
THEOREM CursorStaysVisible == DeliverySpec => []CursorVisible
<1>1. DeliveryInit => LineInv
  BY LineStart DEF DeliveryInit
<1>2. LineInv => CursorVisible
  BY DEF LineInv
<1> QED
  BY <1>1, <1>2, LineInvStep, PTL DEF DeliverySpec

-----------------------------------------------------------------------------
(* The ledger. *)

Taken == {id \in Ids : Queued(id)}

\* The ledger's steps, and its variables, in terms of the composed state.
LEMMA LedgerIs ==
  /\ Ledger!Init <=> Placed = {} /\ Taken = {} /\ served = {} /\ received = {}
  /\ \A id : Ledger!Place(id) <=> /\ id \notin Placed /\ Placed' = Placed \cup {id}
                                 /\ UNCHANGED <<Taken, served, received>>
  /\ \A id : Ledger!Take(id) <=> /\ id \in Placed \ Taken /\ Taken' = Taken \cup {id}
                                /\ UNCHANGED <<Placed, served, received>>
  /\ \A id : Ledger!Serve(id) <=> /\ id \in Taken /\ Taken' = Taken \ {id}
                                 /\ served' = served \cup {id}
                                 /\ UNCHANGED <<Placed, received>>
  /\ \A id : Ledger!Tell(id) <=> /\ id \in Taken \cup served
                                /\ received' = received \cup {id}
                                /\ UNCHANGED <<Placed, Taken, served>>
  /\ UNCHANGED Ledger!ledger <=> UNCHANGED <<Placed, Taken, served, received>>
BY DEF Ledger!Init, Ledger!Place, Ledger!Take, Ledger!Serve, Ledger!Tell, Ledger!ledger,
       Placed, Taken

LEMMA LedgerStart == DeliveryInit => Ledger!Init
<1> SUFFICES ASSUME DeliveryInit PROVE Ledger!Init
  OBVIOUS
<1>1. Taken = {}
  BY DEF DeliveryInit, Init, Taken, Queued, Stored, Blank
<1>2. Placed = {}
  BY OrderDeliveryAssumption, LineStoreAssumption
  DEF DeliveryInit, LineInit, Placed, OrderIds
<1> QED
  BY <1>1, <1>2, LedgerIs DEF DeliveryInit

\* A step of the tugger takes an order, serves one, or does not show.
LEMMA TuggerLedger ==
  ASSUME ~TornSaves, DeliveryInv,
         NEW hearers \in SUBSET Stations, TuggerStep(hearers)
  PROVE  [Ledger!Next]_(Ledger!ledger)
<1>0. StoreInv /\ AirInv /\ UNCHANGED received
  BY DEF DeliveryInv, TuggerStep
<1>1. UNCHANGED Placed
  BY IdleLines DEF TuggerStep, DeliveryInv, Placed
<1>2. CASE (Boot \/ Save \/ Expire \/ Quiet) /\ UNCHANGED served
  <2>1. \A id : Queued(id)' <=> Queued(id)
    BY <1>0, <1>2, QueuedStays
  <2>2. UNCHANGED Taken
    BY <2>1 DEF Taken
  <2> QED
    BY <1>0, <1>1, <1>2, <2>2, LedgerIs
<1>3. ASSUME NEW packet \in tuggerRadio,
             Receive(packet.id, packet.zone), UNCHANGED served
      PROVE  [Ledger!Next]_(Ledger!ledger)
  <2>1. packet.id \in Placed /\ packet.id \in Ids /\ packet.zone \in 1 .. LastZone
    BY <1>0, TuggerStoreAssumption DEF AirInv, RadioType, Placed
  <2>2. \A i : Queued(i)' <=> Queued(i) \/ i = packet.id
    BY <1>0, <1>3, <2>1, QueuedAdds
  <2>3. Taken' = Taken \cup {packet.id}
    BY <2>1, <2>2 DEF Taken
  <2>4. CASE packet.id \in Taken
    BY <1>0, <1>1, <1>3, <2>3, <2>4, LedgerIs
  <2>5. CASE packet.id \notin Taken
    <3>1. Ledger!Take(packet.id)
      BY <1>0, <1>1, <1>3, <2>1, <2>3, <2>5, LedgerIs
    <3> QED
      BY <2>1, <3>1 DEF Ledger!Next
  <2> QED
    BY <2>4, <2>5
<1>4. CASE Serve /\ served' = served \cup {fifo[head].id}
  <2>1. /\ Queued(fifo[head].id) /\ fifo[head].id \in Ids
        /\ \A i : Queued(i)' <=> Queued(i) /\ i # fifo[head].id
    BY <1>0, <1>4, QueuedServes
  <2>2. fifo[head].id \in Taken /\ Taken' = Taken \ {fifo[head].id}
    BY <2>1 DEF Taken
  <2>3. Ledger!Serve(fifo[head].id)
    BY <1>0, <1>1, <1>4, <2>2, LedgerIs
  <2> QED
    BY <2>1, <2>3 DEF Ledger!Next
<1> QED
  BY <1>2, <1>3, <1>4, TuggerKinds

\* A step of a line store places an order, is told of one, or does not show.
LEMMA LineLedger ==
  ASSUME DeliveryInv, NEW st \in Stations, LineStep(st) \/ LineFails(st)
  PROVE  [Ledger!Next]_(Ledger!ledger)
<1>0. StoreInv /\ LineInv /\ AirInv
  BY DEF DeliveryInv
<1>1. UNCHANGED <<Taken, served>>
  <2>1. TuggerIdle /\ UNCHANGED served
    BY <1>0, LineStepKinds
  <2>2. \A id : Queued(id)' <=> Queued(id)
    BY <1>0, <2>1, IdleTugger
  <2> QED
    BY <2>1, <2>2 DEF Taken
<1>2. CASE UNCHANGED <<Placed, received>>
  BY <1>1, <1>2, LedgerIs
<1>3. ASSUME NEW packet \in lineRadio[st], HearAck(st, packet), UNCHANGED Placed,
             received' = received \cup {pending[st].id}
      PROVE  [Ledger!Next]_(Ledger!ledger)
  <2>1. pending[st].id \in Ids
    BY <1>0, <1>3, OrderDeliveryAssumption DEF HearAck, LineInv, OwnOrder
  <2>2. pending[st].id \in Taken \cup served
    BY <1>0, <1>3, <2>1, HeardIsKept DEF Kept, Taken
  <2>3. Ledger!Tell(pending[st].id)
    BY <1>1, <1>3, <2>2, LedgerIs
  <2> QED
    BY <2>1, <2>3 DEF Ledger!Next
<1>4. ASSUME NEW id \in Ids, id \notin Placed, Placed' = Placed \cup {id},
             UNCHANGED received
      PROVE  [Ledger!Next]_(Ledger!ledger)
  <2>1. Ledger!Place(id)
    BY <1>1, <1>4, LedgerIs
  <2> QED
    BY <2>1 DEF Ledger!Next
<1> QED
  <2>1. \/ UNCHANGED received
        \/ \E packet \in lineRadio[st] :
             /\ HearAck(st, packet)
             /\ received' = received \cup {pending[st].id}
             /\ UNCHANGED Placed
    BY <1>0, LineStepKinds
  <2>2. \/ UNCHANGED Placed
        \/ \E id \in Ids : id \notin Placed /\ Placed' = Placed \cup {id}
    BY <1>0, LineStepKinds
  <2> QED
    BY <1>2, <1>3, <1>4, <2>1, <2>2

\* The line stores and the tugger keep the promise of the ledger: an order is
\* placed once, only placed orders are taken, an order leaves the tugger only
\* by being served, and a line is told "Received" only of an order that the
\* tugger has or has served.
THEOREM LedgerIsKept ==
  ASSUME ~TornSaves, MaxOrders <= TableSize
  PROVE  DeliverySpec /\ [][ServesApart]_vars => LedgerPromise
<1>1. DeliveryInv /\ [DeliveryNext]_allVars => [Ledger!Next]_(Ledger!ledger)
  <2> SUFFICES ASSUME DeliveryInv, [DeliveryNext]_allVars
               PROVE  [Ledger!Next]_(Ledger!ledger)
    OBVIOUS
  <2>1. ASSUME NEW hearers \in SUBSET Stations, TuggerStep(hearers)
        PROVE  [Ledger!Next]_(Ledger!ledger)
    BY <2>1, TuggerLedger
  <2>2. CASE TuggerFails
    <3>1. UNCHANGED <<received, served, stamp>> /\ \A id : Queued(id)' <=> Queued(id)
      BY <2>2, QueuedStays, IdleLines DEF TuggerFails, DeliveryInv
    <3>2. UNCHANGED <<Placed, Taken>>
      BY <3>1 DEF Placed, Taken
    <3> QED
      BY <3>1, <3>2, LedgerIs
  <2>3. ASSUME NEW st \in Stations, LineStep(st) \/ LineFails(st)
        PROVE  [Ledger!Next]_(Ledger!ledger)
    BY <2>3, LineLedger
  <2>4. CASE UNCHANGED allVars
    <3>1. UNCHANGED <<vars, stamp, received, served>>
      BY <2>4 DEF allVars, lineState
    <3>2. \A id : Queued(id)' <=> Queued(id)
      BY <3>1 DEF vars, ram, Queued, Stored
    <3>3. UNCHANGED <<Placed, Taken>>
      BY <3>1, <3>2 DEF Placed, Taken
    <3> QED
      BY <3>1, <3>3, LedgerIs
  <2> QED
    BY <2>1, <2>2, <2>3, <2>4 DEF DeliveryNext
<1> QED
  BY <1>1, LedgerStart, DeliveryInvariant, PTL DEF DeliverySpec, LedgerPromise, Ledger!Spec
=============================================================================
