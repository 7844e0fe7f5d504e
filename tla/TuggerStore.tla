----------------------------- MODULE TuggerStore -----------------------------
(***************************************************************************)
(* The tugger of sketch_nov19a.ino: a ring of orders in RAM, an index on   *)
(* their ids, a copy of the ring in non-volatile storage (NVS), and the    *)
(* loop that receives orders, scans for late ones and serves the oldest.   *)
(* A save or a load writes or reads one NVS key per step.                  *)
(***************************************************************************)
EXTENDS ProbeTable

CONSTANTS NoId,       \* the empty String of a slot never used
          MaxOrders,  \* MAX_ORDERS
          LastZone,   \* zones are 1 .. LastZone, 0 means "not chosen"
          Timeout,    \* ORDER_TIMEOUT_MS
          ClockMod,   \* millis() counts modulo ClockMod
          PassTimes,  \* what one pass of loop() may add to millis()
          TornSaves   \* may power fail between two NVS writes of one save?

ASSUME TuggerStoreAssumption ==
  /\ NoId \notin Ids
  /\ MaxOrders \in Nat \ {0}
  /\ LastZone \in Nat \ {0}
  /\ Timeout \in Nat
  /\ ClockMod \in Nat \ {0}
  /\ PassTimes \subseteq Nat
  /\ TornSaves \in BOOLEAN

VARIABLES zone,      \* currentZone
          tempZone,  \* the zone shown while setup() waits for a choice
          fifo,      \* orderFIFO
          head, tail, count,
          table,     \* hashTable
          nvs,       \* the "tugger" preferences namespace
          clock,     \* millis()
          pc,        \* where setup() or loop() is
          idx,       \* the next NVS key of the save or load in progress
          scan,      \* how many orders the timeout scan has passed
          out        \* the packets the last step transmitted

ram  == <<zone, tempZone, fifo, head, tail, count, table>>
vars == <<ram, nvs, clock, pc, idx, scan, out>>

Slots  == 0 .. MaxOrders - 1
Zones  == 0 .. LastZone
Times  == 0 .. ClockMod - 1

Orders == [id : Ids \cup {NoId}, created : Times,
           timedOut : BOOLEAN, active : BOOLEAN]

\* A slot as the boot code zeroes it; in NVS, an absent key.
Blank == [id |-> NoId, created |-> 0, timedOut |-> FALSE, active |-> FALSE]

\* A packet on the air: an order for a zone, or a report about an order.
OrderPacket(id, z) == [type |-> "order", id |-> id, zone |-> z]
Report(type, id)   == [type |-> type, id |-> id]

\* Mutants, here and below: a mistake the code could have made, for the
\* definition that comes next.  The ring wraps one slot late, or takes one
\* order too many; the save forgets the mark of a late order; the scan compares
\* signed numbers, or marks an order a tick early.
SuccLate(s)        == (s + 1) % (MaxOrders + 1)
RoomForOneMore     == count <= MaxOrders
SavedUnmarked(order) ==
  IF order.active THEN [order EXCEPT !.timedOut = FALSE] ELSE Blank
LateSigned(order)  == clock - order.created > Timeout
LateEarly(order)   == (clock - order.created) % ClockMod >= Timeout

\* The ring operations.
Succ(s)   == (s + 1) % MaxOrders
At(k)     == (head + k) % MaxOrders
Room      == count < MaxOrders
IdAt(f)   == [s \in Slots |-> f[s].id]

\* What a save puts under a slot's key: the order, or nothing.
Saved(order) == IF order.active THEN order ELSE Blank

\* The unsigned 32-bit comparison of the scan.
Late(order) == (clock - order.created) % ClockMod > Timeout

Saving == pc \in {"saveAdd", "saveScan", "saveClear"}

-----------------------------------------------------------------------------
Init ==
  /\ nvs = [zone |-> 0, head |-> 0, tail |-> 0, count |-> 0,
            slot |-> [s \in Slots |-> Blank]]
  /\ zone = 0 /\ tempZone = 1
  /\ fifo = [s \in Slots |-> Blank]
  /\ head = 0 /\ tail = 0 /\ count = 0
  /\ table = EmptyTable
  /\ clock = 0 /\ pc = "load" /\ idx = 0 /\ scan = 0 /\ out = {}

\* Power is lost and comes back: RAM is blank, the clock starts again, and
\* setup() has read the zone and the three counters from NVS.
Restart ==
  /\ Saving => TornSaves
  /\ zone' = nvs.zone /\ tempZone' = 1
  /\ fifo' = [s \in Slots |-> Blank]
  /\ head' = nvs.head /\ tail' = nvs.tail /\ count' = nvs.count
  /\ table' = EmptyTable
  /\ clock' = 0 /\ pc' = "load" /\ idx' = 0 /\ scan' = 0 /\ out' = {}
  /\ UNCHANGED nvs

\* Mutant: the load does not rebuild the index.
LoadSlotUnindexed ==
  /\ pc = "load" /\ idx < MaxOrders
  /\ fifo' = [fifo EXCEPT ![idx] = nvs.slot[idx]]
  /\ idx' = idx + 1
  /\ out' = {}
  /\ UNCHANGED <<zone, tempZone, head, tail, count, table, nvs, clock, pc, scan>>

\* loadOrdersFromNVS, the order of slot idx.
LoadSlot ==
  /\ pc = "load" /\ idx < MaxOrders
  /\ LET order == nvs.slot[idx] IN
       /\ fifo' = [fifo EXCEPT ![idx] = order]
       /\ table' = IF order.active
                   THEN AddToTable(table, IdAt(fifo'), order.id, idx)
                   ELSE table
  /\ idx' = idx + 1
  /\ out' = {}
  /\ UNCHANGED <<zone, tempZone, head, tail, count, nvs, clock, pc, scan>>

\* The rest of setup(): the radio comes up, and the zone is known or must be
\* chosen; or the radio fails and setup() never returns.
EndLoad ==
  /\ pc = "load" /\ idx = MaxOrders
  /\ \/ pc' = IF zone = 0 THEN "zone" ELSE "loop"
     \/ pc' = "hung"
  /\ idx' = 0 /\ out' = {}
  /\ UNCHANGED <<ram, nvs, clock, scan>>

NextZone ==
  /\ pc = "zone"
  /\ tempZone' = IF tempZone + 1 > LastZone THEN 1 ELSE tempZone + 1
  /\ out' = {}
  /\ UNCHANGED <<zone, fifo, head, tail, count, table, nvs, clock, pc, idx, scan>>

LockZone ==
  /\ pc = "zone"
  /\ zone' = tempZone
  /\ nvs' = [nvs EXCEPT !.zone = tempZone]
  /\ pc' = "loop"
  /\ out' = {}
  /\ UNCHANGED <<tempZone, fifo, head, tail, count, table, clock, idx, scan>>

\* loop() starts a pass; the previous one took d milliseconds.
BeginPass(d) ==
  /\ pc = "loop"
  /\ clock' = (clock + d) % ClockMod
  /\ pc' = "rx"
  /\ out' = {}
  /\ UNCHANGED <<ram, nvs, idx, scan>>

\* No packet, or one that loop() drops without looking at the ring.
NoPacket ==
  /\ pc = "rx"
  /\ pc' = "scan"
  /\ out' = {}
  /\ UNCHANGED <<ram, nvs, clock, idx, scan>>

\* Mutant: a new order is queued and not saved.
ReceiveUnsaved(id, z) ==
  /\ pc = "rx" /\ z = zone /\ Room
  /\ out' = {Report("ack", id)}
  /\ IF Exists(table, IdAt(fifo), id)
     THEN UNCHANGED <<fifo, tail, count, table>>
     ELSE /\ fifo' = [fifo EXCEPT ![tail] = [id |-> id, created |-> clock,
                                            timedOut |-> FALSE, active |-> TRUE]]
          /\ table' = AddToTable(table, IdAt(fifo'), id, tail)
          /\ tail' = Succ(tail) /\ count' = count + 1
  /\ pc' = "scan"
  /\ UNCHANGED <<zone, tempZone, head, nvs, clock, idx, scan>>

\* An order packet for this zone finds room: it is acknowledged at once, and
\* queued and saved unless the index says that it is queued already.
Receive(id, z) ==
  /\ pc = "rx"
  /\ z = zone /\ Room
  /\ out' = {Report("ack", id)}
  /\ IF Exists(table, IdAt(fifo), id)
     THEN /\ pc' = "scan"
          /\ UNCHANGED <<fifo, tail, count, table, idx>>
     ELSE /\ fifo' = [fifo EXCEPT ![tail] =
                        [id |-> id, created |-> clock,
                         timedOut |-> FALSE, active |-> TRUE]]
          /\ table' = AddToTable(table, IdAt(fifo'), id, tail)
          /\ tail' = Succ(tail)
          /\ count' = count + 1
          /\ pc' = "saveAdd" /\ idx' = 0
  /\ UNCHANGED <<zone, tempZone, head, nvs, clock, scan>>

\* An order packet that is dropped: another zone's, or the ring is full.
Refuse(id, z) ==
  /\ pc = "rx"
  /\ ~(z = zone /\ Room)
  /\ pc' = "scan"
  /\ out' = {}
  /\ UNCHANGED <<ram, nvs, clock, idx, scan>>

\* saveOrdersToNVS, the key idx: head, tail, count, then one key per slot.
SaveStep ==
  /\ Saving /\ idx < MaxOrders + 3
  /\ nvs' = CASE idx = 0 -> [nvs EXCEPT !.head = head]
              [] idx = 1 -> [nvs EXCEPT !.tail = tail]
              [] idx = 2 -> [nvs EXCEPT !.count = count]
              [] OTHER   -> [nvs EXCEPT !.slot[idx - 3] = Saved(fifo[idx - 3])]
  /\ idx' = idx + 1
  /\ out' = {}
  /\ UNCHANGED <<ram, clock, pc, scan>>

\* The save is complete.  After a new order: forward it to the collector and
\* go on to the scan.
EndSaveAdd ==
  /\ pc = "saveAdd" /\ idx = MaxOrders + 3
  /\ out' = {OrderPacket(fifo[(tail + MaxOrders - 1) % MaxOrders].id, zone)}
  /\ pc' = "scan" /\ idx' = 0
  /\ UNCHANGED <<ram, nvs, clock, scan>>

EndSaveScan ==
  /\ pc = "saveScan" /\ idx = MaxOrders + 3
  /\ pc' = "scan" /\ scan' = scan + 1 /\ idx' = 0
  /\ out' = {}
  /\ UNCHANGED <<ram, nvs, clock>>

EndSaveClear ==
  /\ pc = "saveClear" /\ idx = MaxOrders + 3
  /\ pc' = "loop" /\ idx' = 0
  /\ out' = {}
  /\ UNCHANGED <<ram, nvs, clock, scan>>

\* Mutant: a late order is marked and not saved.
ExpireUnsaved ==
  /\ pc = "scan" /\ scan < count
  /\ LET s == At(scan) IN
       /\ fifo[s].active /\ ~fifo[s].timedOut /\ Late(fifo[s])
       /\ fifo' = [fifo EXCEPT ![s].timedOut = TRUE]
       /\ out' = {Report("timeout", fifo[s].id)}
  /\ scan' = scan + 1
  /\ UNCHANGED <<zone, tempZone, head, tail, count, table, nvs, clock, pc, idx>>

\* The timeout scan meets an order that has just become late: mark it, report
\* it, save.
Expire ==
  /\ pc = "scan" /\ scan < count
  /\ LET s == At(scan) IN
       /\ fifo[s].active /\ ~fifo[s].timedOut /\ Late(fifo[s])
       /\ fifo' = [fifo EXCEPT ![s].timedOut = TRUE]
       /\ out' = {Report("timeout", fifo[s].id)}
  /\ pc' = "saveScan" /\ idx' = 0
  /\ UNCHANGED <<zone, tempZone, head, tail, count, table, nvs, clock, scan>>

PassOver ==
  /\ pc = "scan" /\ scan < count
  /\ LET s == At(scan) IN ~(fifo[s].active /\ ~fifo[s].timedOut /\ Late(fifo[s]))
  /\ scan' = scan + 1
  /\ out' = {}
  /\ UNCHANGED <<ram, nvs, clock, pc, idx>>

EndScan ==
  /\ pc = "scan" /\ scan >= count
  /\ pc' = "button" /\ scan' = 0
  /\ out' = {}
  /\ UNCHANGED <<ram, nvs, clock, idx>>

\* Mutant: the served order stays at the head.
ServeKeepsHead ==
  /\ pc = "button"
  /\ count > 0 /\ fifo[head].active
  /\ out' = {Report("clear", fifo[head].id)}
  /\ table' = RemoveFromTable(table, IdAt(fifo), fifo[head].id)
  /\ fifo' = [fifo EXCEPT ![head].active = FALSE]
  /\ count' = count - 1
  /\ pc' = "saveClear" /\ idx' = 0
  /\ UNCHANGED <<zone, tempZone, head, tail, nvs, clock, scan>>

\* SELECT is pressed and the oldest order is served: sendClear and the copy
\* for the collector are one packet here, both say "clear" of the same id.
Serve ==
  /\ pc = "button"
  /\ count > 0 /\ fifo[head].active
  /\ out' = {Report("clear", fifo[head].id)}
  /\ table' = RemoveFromTable(table, IdAt(fifo), fifo[head].id)
  /\ fifo' = [fifo EXCEPT ![head].active = FALSE]
  /\ head' = Succ(head)
  /\ count' = count - 1
  /\ pc' = "saveClear" /\ idx' = 0
  /\ UNCHANGED <<zone, tempZone, tail, nvs, clock, scan>>

\* No press, or a press with nothing to serve.
NoServe ==
  /\ pc = "button"
  /\ pc' = "loop"
  /\ out' = {}
  /\ UNCHANGED <<ram, nvs, clock, idx, scan>>

Boot == LoadSlot \/ EndLoad \/ NextZone \/ LockZone
Save == SaveStep \/ EndSaveAdd \/ EndSaveScan \/ EndSaveClear
Loop == \/ \E d \in PassTimes : BeginPass(d)
        \/ \E id \in Ids, z \in 1 .. LastZone : Receive(id, z) \/ Refuse(id, z)
        \/ NoPacket \/ Save \/ Expire \/ PassOver \/ EndScan \/ Serve \/ NoServe

Next == Boot \/ Loop \/ Restart

Spec == Init /\ [][Next]_vars

\* The processor keeps running setup() and loop(), and a zone is chosen.  The
\* driver may ignore the orders for ever.
Running  == WF_vars(Boot \/ Loop) /\ WF_vars(LockZone)
FairSpec == Spec /\ Running

-----------------------------------------------------------------------------
\* The window of the ring: how far slot s is behind the head, and the orders
\* that are queued.  While the ring is being loaded they are the saved ones.
Dist(s)   == IF s >= head THEN s - head ELSE s - head + MaxOrders
Stored(s) == IF pc = "load" THEN nvs.slot[s] ELSE fifo[s]
Queued(id) == \E s \in Slots : Stored(s).active /\ Stored(s).id = id

PCs == {"load", "hung", "zone", "loop", "rx", "scan", "button",
        "saveAdd", "saveScan", "saveClear"}

\* Every variable has its type, and the packet in out is one the tugger sends.
TypeOK ==
  /\ zone \in Zones /\ tempZone \in 1 .. LastZone
  /\ fifo \in [Slots -> Orders]
  /\ head \in Slots /\ tail \in Slots /\ count \in 0 .. MaxOrders
  /\ table \in [Buckets -> Slots \cup {Null}]
  /\ nvs \in [zone : Zones, head : Slots, tail : Slots, count : 0 .. MaxOrders,
              slot : [Slots -> Orders]]
  /\ clock \in Times /\ pc \in PCs
  /\ idx \in 0 .. MaxOrders + 3 /\ (pc = "load" => idx <= MaxOrders)
  /\ scan \in 0 .. MaxOrders
  /\ out \subseteq ([type : {"ack", "clear", "timeout"}, id : Ids \cup {NoId}]
                    \cup [type : {"order"}, id : Ids \cup {NoId}, zone : Zones])

\* The three counters and the active flags always describe the same run of
\* slots: the active slots are the count slots from head on, and tail is the
\* slot after them.  SELECT serves only an active head, so a hole in the
\* window would stop serving for good.
RingWindow ==
  /\ tail = (head + count) % MaxOrders
  /\ \A s \in Slots : Stored(s).active <=> Dist(s) < count

\* When no save is in progress NVS holds exactly the zone and the orders in
\* RAM, and a save in progress has written the keys before idx: no path through
\* loop() changes an order and forgets to save it, or saves half of a change.
Written(key) == Saving => key < idx
NvsInSync ==
    pc # "load" =>
      /\ nvs.zone = zone
      /\ Written(0) => nvs.head = head
      /\ Written(1) => nvs.tail = tail
      /\ Written(2) => nvs.count = count
      /\ \A s \in Slots : Written(s + 3) => nvs.slot[s] = Saved(fifo[s])

\* No order is queued twice, however often its packet is received, across
\* timeouts, serving, restarts and reloads.
NoDuplicateOrders ==
  \A s, t \in Slots :
    Stored(s).active /\ Stored(t).active /\ Stored(s).id = Stored(t).id => s = t

\* An order that is acknowledged is in the queue when its ack goes out.
AckedIsQueued ==
  \A p \in out : p.type = "ack" => Queued(p.id)

\* Where no order can make progress: power has just been lost, or the radio
\* did not come up.
Down == pc \in {"load", "hung"}

\* While the tugger stays up every queued order reaches the head and is served,
\* if the driver is not idle: when loop() can serve an order again and again,
\* some pass sees SELECT pressed.
QueueDrains ==
  SF_vars(Serve)
    => \A id \in Ids : (Queued(id) /\ ~Down) ~> (~Queued(id) \/ Down)

\* While the tugger stays up every queued order is marked late, if the driver,
\* who may be idle, does not serve it first: neither a clock that wraps or restarts nor a long
\* queue hides an order for ever.
LateIsSeen ==
  \A id \in Ids :
    (Queued(id) /\ ~Down)
      ~> (\/ Down
          \/ \A s \in Slots :
               fifo[s].active /\ fifo[s].id = id => fifo[s].timedOut)

\* What the tugger promises: a bounded queue without duplicates, served oldest
\* first, that survives power failures.
PromisedQueue ==
  [k \in 1 .. count |-> LET order == Stored(At(k - 1))
                        IN [id |-> order.id, late |-> order.timedOut]]
Promise == INSTANCE OrderQueue WITH queue <- PromisedQueue, Capacity <- MaxOrders
QueuePromise == Promise!Spec
=============================================================================
