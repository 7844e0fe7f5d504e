------------------------------ MODULE MeshPager ------------------------------
(***************************************************************************)
(* The pagers of TuggerRouteE213Final_withhash.ino.  Each is a tugger, a   *)
(* collector or a line station; it keeps a list of orders, a "black box"   *)
(* copy of the list's beginning in NVS, the ids of the packets it has      *)
(* lately seen, and the requests its own line made.  A step is one whole   *)
(* handler of loop(): loop() is the only thread, the radio interrupt only  *)
(* sets a flag.  The device table, the display, the web pages and the      *)
(* dashboard are left out; no power is lost in the middle of a save.       *)
(***************************************************************************)
EXTENDS Integers, SequencesExt

CONSTANTS Nodes,        \* the pagers
          Ids,          \* order ids, not 0
          PagerZones,   \* the zones of pagers; 0 is the all-call
          Modes,        \* the modes a pager is ever switched to
          MaxOrders,    \* MAX_ORDERS
          BoxSize,      \* how many orders saveState() writes
          SeenSize,     \* MAX_SEEN_PACKETS
          MaxRequests,  \* MAX_LOCAL_REQS
          MaxHops,      \* MAX_HOPS
          Timeout,      \* ORDER_TIMEOUT_MS
          LastTick      \* bound: millis() stops here

ASSUME MeshPagerAssumption ==
  /\ 0 \notin PagerZones /\ PagerZones # {}
  /\ Modes \subseteq {"tugger", "collector", "line"} /\ Modes # {}
  /\ MaxOrders \in Nat \ {0} /\ BoxSize \in Nat /\ BoxSize <= MaxOrders
  /\ SeenSize \in Nat \ {0} /\ MaxRequests \in Nat \ {0} /\ MaxHops \in Nat
  /\ Timeout \in Nat /\ LastTick \in Nat

VARIABLES prefs,     \* mode and zone in the "pager" preferences
          box,       \* cnt and the orders in the "state" preferences
          mode,      \* deviceMode
          orders,    \* orders[0 .. orderCount - 1]
          sel,       \* selectedOrderIdx
          seen,      \* seenPackets, the oldest first
          requests,  \* activeRequests
          clock,     \* millis()
          tx         \* what the last handler transmits, in order

pagerVars == <<prefs, box, mode, orders, sel, seen, requests, clock, tx>>

Status  == {"pending", "ack", "completed"}
Orders  == [id : Ids, zone : PagerZones \cup {0},
            expiry : 0 .. LastTick + Timeout, status : Status]
Packets == [type : {"boot", "order", "ack", "clear", "delivered"},
            id : Ids \cup {0}, zone : PagerZones \cup {0}, hop : 0 .. MaxHops]

\* Mutants, here and below: a mistake the code could have made, for a definition
\* that comes later.  A ring that forgets a packet too early; a save that comes
\* before the list's count is raised, or never overwrites a slot.
KeepLess(s, n)  == IF Len(s) >= n THEN Tail(s) ELSE s
SavedShort(b, list) ==
  [cnt  |-> IF list = <<>> THEN 0 ELSE Len(list) - 1,
   slot |-> [k \in 1 .. BoxSize |-> IF k < Len(list) THEN <<list[k]>> ELSE b.slot[k]]]
SavedOnce(b, list) ==
  [cnt |-> Len(list), slot |-> [k \in 1 .. BoxSize |->
     IF k <= Len(list) /\ b.slot[k] = <<>> THEN <<list[k]>> ELSE b.slot[k]]]

Packet(type, id, zone) == [type |-> type, id |-> id, zone |-> zone, hop |-> 0]
IdsOf(list)  == {list[k].id : k \in DOMAIN list}
LastOf(s, n) == IF Len(s) > n THEN Tail(s) ELSE s

\* saveState writes the count and at most BoxSize orders; what lies beyond
\* stays in the box.  loadState takes no more than it could have written.
Saved(b, list) ==
  [cnt |-> Len(list), slot |-> [k \in 1 .. BoxSize |->
                                  IF k <= Len(list) THEN <<list[k]>> ELSE b.slot[k]]]
Restored(b) == [k \in 1 .. Min({b.cnt, BoxSize}) |-> b.slot[k][1]]

PagerInit(modes, zones) ==
  /\ prefs = [n \in Nodes |-> [mode |-> modes[n], zone |-> zones[n]]]
  /\ mode = modes
  /\ box = [n \in Nodes |-> [cnt |-> 0, slot |-> [k \in 1 .. BoxSize |-> <<>>]]]
  /\ orders = [n \in Nodes |-> <<>>]
  /\ sel = [n \in Nodes |-> 0]
  /\ seen = [n \in Nodes |-> <<>>]
  /\ requests = [n \in Nodes |-> <<>>]
  /\ clock = [n \in Nodes |-> 0]
  /\ tx = [n \in Nodes |-> <<>>]

Transmits(n, packets) == tx' = [tx EXCEPT ![n] = packets]
Lists(n, list) == orders' = [orders EXCEPT ![n] = list]
Saves(n, list) == Lists(n, list) /\ box' = [box EXCEPT ![n] = Saved(@, list)]

-----------------------------------------------------------------------------
\* setup(): everything that is not in NVS is forgotten.
Reboot(n) ==
  /\ mode' = [mode EXCEPT ![n] = prefs'[n].mode]
  /\ Lists(n, Restored(box[n]))
  /\ sel' = [sel EXCEPT ![n] = 0]
  /\ seen' = [seen EXCEPT ![n] = <<>>]
  /\ requests' = [requests EXCEPT ![n] = <<>>]
  /\ clock' = [clock EXCEPT ![n] = 0]
  /\ Transmits(n, <<>>)
  /\ UNCHANGED box

Restart(n) == UNCHANGED prefs /\ Reboot(n)

\* The configuration page saves mode and zone and restarts the pager.
Configure(n, m, z) ==
  /\ prefs' = [prefs EXCEPT ![n] = [mode |-> m, zone |-> z]]
  /\ Reboot(n)

-----------------------------------------------------------------------------
\* Mutants: only orders are deduplicated; the hop limit is one too low, or is
\* never reached; every mode takes orders; no order is known.
FreshOrders(n, p)  == p.type # "order" \/ ~Contains(seen[n], p.id)
RelayShort(p)      == IF p.hop + 1 < MaxHops THEN <<[p EXCEPT !.hop = @ + 1]>> ELSE <<>>
RelaySameHop(p)    == IF p.hop < MaxHops THEN <<p>> ELSE <<>>
ForUsAnyMode(n, p) == p.type = "order" /\ p.zone \in {prefs[n].zone, 0}
NeverExists(n, id) == FALSE

\* processPacketData.  Every packet but a boot beacon is dropped if its order
\* id has been seen, whatever its type.
Fresh(n, p) == p.type = "boot" \/ ~Contains(seen[n], p.id)

Mark(n, p) ==
  seen' = IF p.type = "boot" THEN seen
          ELSE [seen EXCEPT ![n] = LastOf(Append(@, p.id), SeenSize)]

Relay(p) == IF p.hop < MaxHops THEN <<[p EXCEPT !.hop = @ + 1]>> ELSE <<>>

ForUs(n, p) == p.type = "order" /\ p.zone \in {prefs[n].zone, 0} /\ mode[n] = "tugger"

\* The scan of the list for the order's id.
Exists(n, id) == id \in IdsOf(orders[n])

DropSeen(n, p) ==
  /\ ~Fresh(n, p)
  /\ Transmits(n, <<>>)
  /\ UNCHANGED <<prefs, box, mode, orders, sel, seen, requests, clock>>

\* An order for this tugger is reported delivered, unless it is an all-call,
\* and listed and saved if it is new and there is room; then it is relayed.
TakeOrder(n, p) ==
  /\ Fresh(n, p) /\ ForUs(n, p)
  /\ Mark(n, p)
  /\ LET reply == IF p.zone = 0 THEN <<>> ELSE <<Packet("delivered", p.id, p.zone)>>
     IN Transmits(n, reply \o Relay(p))
  /\ IF ~Exists(n, p.id) /\ Len(orders[n]) < MaxOrders
     THEN Saves(n, Append(orders[n], [id |-> p.id, zone |-> p.zone,
                            expiry |-> clock[n] + Timeout, status |-> "pending"]))
     ELSE UNCHANGED <<orders, box>>
  /\ UNCHANGED <<prefs, mode, sel, requests, clock>>

\* Another tugger's ack or clear: the order's status changes, in RAM.  (The
\* scan stops at the first order with the id; there is never a second one.)
NoteStatus(n, p) ==
  /\ Fresh(n, p) /\ p.type \in {"ack", "clear"}
  /\ Mark(n, p)
  /\ Transmits(n, Relay(p))
  /\ LET status == IF p.type = "ack" THEN "ack" ELSE "completed"
     IN Lists(n, [k \in DOMAIN orders[n] |->
                    IF orders[n][k].id = p.id
                    THEN [orders[n][k] EXCEPT !.status = status] ELSE orders[n][k]])
  /\ UNCHANGED <<prefs, box, mode, sel, requests, clock>>

\* A line station learns that a tugger has its order.
NoteDelivered(n, p) ==
  /\ Fresh(n, p) /\ p.type = "delivered" /\ mode[n] = "line"
  /\ Mark(n, p)
  /\ Transmits(n, Relay(p))
  /\ LET mine == requests[n] IN
       requests' = [requests EXCEPT ![n] = [k \in DOMAIN mine |->
         [mine[k] EXCEPT !.acked = mine[k].acked \/ mine[k].id = p.id]]]
  /\ UNCHANGED <<prefs, box, mode, orders, sel, clock>>

\* Anything else that is new is only relayed.
PassOn(n, p) ==
  /\ Fresh(n, p)
  /\ ~ForUs(n, p) /\ p.type \notin {"ack", "clear"}
  /\ ~(p.type = "delivered" /\ mode[n] = "line")
  /\ Mark(n, p)
  /\ Transmits(n, Relay(p))
  /\ UNCHANGED <<prefs, box, mode, orders, sel, requests, clock>>

Process(n, p) ==
  \/ DropSeen(n, p) \/ TakeOrder(n, p) \/ NoteStatus(n, p)
  \/ NoteDelivered(n, p) \/ PassOn(n, p)

-----------------------------------------------------------------------------
\* The mode button goes to the next mode, MODE:SET on the serial line to any.
\* The list is dropped; neither preferences nor black box are written.
SwitchMode(n, m) ==
  /\ m \in Modes
  /\ mode' = [mode EXCEPT ![n] = m]
  /\ Lists(n, <<>>)
  /\ Transmits(n, <<>>)
  /\ UNCHANGED <<prefs, box, sel, seen, requests, clock>>

\* Mutant: the selection runs past the end of the list.
SelectPastEnd(n, up) ==
  /\ orders[n] # <<>>
  /\ sel' = [sel EXCEPT ![n] = IF up /\ @ > 0 THEN @ - 1 ELSE @ + 1]
  /\ Transmits(n, <<>>)
  /\ UNCHANGED <<prefs, box, mode, orders, seen, requests, clock>>

\* UP and DOWN.
Select(n, up) ==
  /\ orders[n] # <<>>
  /\ LET count == Len(orders[n]) IN
       sel' = [sel EXCEPT ![n] = (IF up THEN @ - 1 + count ELSE @ + 1) % count]
  /\ Transmits(n, <<>>)
  /\ UNCHANGED <<prefs, box, mode, orders, seen, requests, clock>>

\* SELECT on a tugger: the driver accepts the selected order.
AckSelected(n) ==
  /\ mode[n] = "tugger"
  /\ sel[n] < Len(orders[n])
  /\ LET k == sel[n] + 1
         order == orders[n][k]
     IN /\ order.status = "pending"
        /\ Transmits(n, <<Packet("ack", order.id, order.zone)>>)
        /\ Saves(n, [orders[n] EXCEPT ![k].status = "ack"])
  /\ UNCHANGED <<prefs, mode, sel, seen, requests, clock>>

\* CLEAR, in any mode: the selected order leaves the list.
ClearSelected(n) ==
  /\ sel[n] < Len(orders[n])
  /\ LET order == orders[n][sel[n] + 1]
         rest == RemoveAt(orders[n], sel[n] + 1)
     IN /\ Transmits(n, <<Packet("clear", order.id, order.zone)>>)
        /\ Saves(n, rest)
        /\ sel' = [sel EXCEPT ![n] = IF @ >= Len(rest) /\ rest # <<>>
                                     THEN Len(rest) - 1 ELSE @]
  /\ UNCHANGED <<prefs, mode, seen, requests, clock>>

\* A part button of a line station: the request is remembered, the oldest one
\* forgotten if there is no room, and the order is transmitted once.  The id
\* is the station's and the last 16 bits of millis().
CreateOrder(n, id) ==
  /\ mode[n] = "line"
  /\ requests' = [requests EXCEPT ![n] =
       LastOf(Append(@, [id |-> id, acked |-> FALSE]), MaxRequests)]
  /\ Transmits(n, <<Packet("order", id, prefs[n].zone)>>)
  /\ UNCHANGED <<prefs, box, mode, orders, sel, seen, clock>>

\* Every 30 s: a beacon, which no pager takes for a duplicate.
SendBoot(n) ==
  /\ Transmits(n, <<Packet("boot", 0, prefs[n].zone)>>)
  /\ UNCHANGED <<prefs, box, mode, orders, sel, seen, requests, clock>>

\* Every 30 s: the orders that expired before the driver accepted them leave
\* the list, the others close up; the black box is not written.
Ascending(K) ==
  {f \in [1 .. Cardinality(K) -> K] : \A i, j \in DOMAIN f : i < j => f[i] < f[j]}

Cleanup(n) ==
  /\ LET Expired(order) == clock[n] > order.expiry /\ order.status = "pending"
     IN \E kept \in Ascending({k \in DOMAIN orders[n] : ~Expired(orders[n][k])}) :
          Lists(n, [k \in DOMAIN kept |-> orders[n][kept[k]]])
  /\ Transmits(n, <<>>)
  /\ UNCHANGED <<prefs, box, mode, sel, seen, requests, clock>>

Tick(n) ==
  /\ clock[n] < LastTick
  /\ clock' = [clock EXCEPT ![n] = @ + 1]
  /\ Transmits(n, <<>>)
  /\ UNCHANGED <<prefs, box, mode, orders, sel, seen, requests>>

-----------------------------------------------------------------------------
\* The variables have their types, and no list outgrows its array.
PagerTypeOK ==
  /\ prefs \in [Nodes -> [mode : Modes, zone : PagerZones]]
  /\ mode \in [Nodes -> Modes]
  /\ \A n \in Nodes :
       /\ orders[n] \in Seq(Orders) /\ Len(orders[n]) <= MaxOrders
       /\ box[n].cnt \in 0 .. MaxOrders
       /\ box[n].slot \in [1 .. BoxSize -> {<<>>} \cup {<<order>> : order \in Orders}]
       /\ sel[n] \in 0 .. MaxOrders - 1
       /\ seen[n] \in Seq(Ids) /\ Len(seen[n]) <= SeenSize
       /\ requests[n] \in Seq([id : Ids, acked : BOOLEAN])
       /\ Len(requests[n]) <= MaxRequests
       /\ clock[n] \in 0 .. LastTick
       /\ tx[n] \in Seq(Packets) /\ Len(tx[n]) <= 2
=============================================================================
