-------------------------------- MODULE Mesh --------------------------------
(***************************************************************************)
(* Pagers on the air: line stations order, tuggers take orders, and every  *)
(* pager relays what it has not seen, up to MaxHops times.  Links says who *)
(* can hear whom.  A radio keeps the packets it heard until its pager      *)
(* reads them; a pager that has something to transmit does nothing else.   *)
(* Modes and zones are fixed, time does not pass and no power is lost.     *)
(***************************************************************************)
EXTENDS MeshPager

CONSTANTS Links,       \* the pagers that can hear a pager
          Roles,       \* the mode of each pager
          Zone,        \* the zone of each pager
          Makes,       \* the ids of the orders each line station makes
          Beacons,     \* the pagers that send one boot beacon
          Lossy,       \* may a pager in reach miss a packet?
          RadioKeeps   \* how many unread packets a radio keeps

ASSUME MeshAssumption ==
  /\ Links \in [Nodes -> SUBSET Nodes] /\ \A n \in Nodes : n \notin Links[n]
  /\ Roles \in [Nodes -> Modes] /\ Zone \in [Nodes -> PagerZones]
  /\ Makes \in [Nodes -> SUBSET Ids] /\ Beacons \subseteq Nodes
  /\ Lossy \in BOOLEAN /\ RadioKeeps \in Nat \ {0}

VARIABLES rx,       \* the unread packets in each radio
          made,     \* history: the orders made
          taken,    \* history: the orders each pager has listed
          beacons,  \* the beacons still to be sent
          relays    \* history: how often a pager relayed an order id, up to 2

meshVars == <<pagerVars, rx, made, taken, beacons, relays>>

MeshInit ==
  /\ PagerInit(Roles, Zone)
  /\ rx = [n \in Nodes |-> <<>>]
  /\ made = {}
  /\ taken = [n \in Nodes |-> {}]
  /\ beacons = Beacons
  /\ relays = [n \in Nodes |-> [id \in Ids |-> 0]]

-----------------------------------------------------------------------------
Idle(n) == tx[n] = <<>>

\* A radio that is full loses the last packet it kept.
Keep(queue, p) ==
  IF Len(queue) < RadioKeeps THEN Append(queue, p)
  ELSE Append(Front(queue), p)

\* The next packet goes on the air.
Transmit(n, hearers) ==
  /\ ~Idle(n)
  /\ hearers \subseteq Links[n] /\ (Lossy \/ hearers = Links[n])
  /\ rx' = [m \in Nodes |-> IF m \in hearers THEN Keep(rx[m], Head(tx[n])) ELSE rx[m]]
  /\ Transmits(n, Tail(tx[n]))
  /\ UNCHANGED <<prefs, box, mode, orders, sel, seen, requests, clock>>
  /\ UNCHANGED <<made, taken, beacons, relays>>

\* processPacket: the next packet is read and processed.
Hear(n) ==
  /\ Idle(n) /\ rx[n] # <<>>
  /\ LET p == Head(rx[n]) IN
       /\ Process(n, p)
       /\ relays' = IF p.type # "boot" /\ \E k \in DOMAIN tx'[n] : tx'[n][k].hop > 0
                    THEN [relays EXCEPT ![n][p.id] = Min({@ + 1, 2})] ELSE relays
  /\ rx' = [rx EXCEPT ![n] = Tail(@)]
  /\ taken' = [taken EXCEPT ![n] = @ \cup IdsOf(orders'[n])]
  /\ UNCHANGED <<made, beacons>>

Order(n, id) ==
  /\ Idle(n) /\ id \in Makes[n] \ made
  /\ CreateOrder(n, id)
  /\ made' = made \cup {id}
  /\ UNCHANGED <<rx, taken, beacons, relays>>

Drive(n) ==
  /\ Idle(n)
  /\ AckSelected(n) \/ ClearSelected(n)
  /\ UNCHANGED <<rx, made, taken, beacons, relays>>

Beacon(n) ==
  /\ Idle(n) /\ n \in beacons
  /\ SendBoot(n)
  /\ beacons' = beacons \ {n}
  /\ UNCHANGED <<rx, made, taken, relays>>

Flood(n) == Hear(n) \/ \E hearers \in SUBSET Nodes : Transmit(n, hearers)

MeshNext ==
  \E n \in Nodes : \/ Flood(n) \/ Drive(n) \/ Beacon(n)
                   \/ \E id \in Ids : Order(n, id)

MeshSpec == MeshInit /\ [][MeshNext]_meshVars

\* Every pager keeps running.
FairMesh == MeshSpec /\ \A n \in Nodes : WF_meshVars(Flood(n))

-----------------------------------------------------------------------------
Quiet == \A n \in Nodes : Idle(n) /\ rx[n] = <<>>

\* No pager relays an order's packets more than once, whatever copies reach it:
\* order, delivery report, ack and clear share the id, and share the one relay.
RelayedOnce == \A n \in Nodes, id \in Ids : relays[n][id] < 2

\* "[ACK]" on a line station is true: a tugger has listed the order (as long as
\* its list has room: a full one reports the delivery all the same).
AckIsTrue ==
  \A n \in Nodes : \A k \in DOMAIN requests[n] :
    requests[n][k].acked =>
      \E m \in Nodes : Roles[m] = "tugger" /\ requests[n][k].id \in taken[m]

\* The air falls quiet between the operators' actions: no packet, and no
\* beacon, which nobody takes for a duplicate, is relayed for ever.
AirFallsQuiet == []<>Quiet

\* When the air is quiet, every order made has been listed by the tuggers of its
\* zone.  In a row of pagers only three things stop an order that is not lost: the
\* hop limit, a full list, and a tugger of the zone on the way, whose report of
\* the order goes out before the order and is all that those behind it take.
OrderSettles ==
  Quiet =>
    \A n, m \in Nodes, id \in Ids :
      (id \in Makes[n] \cap made /\ Roles[m] = "tugger" /\ Zone[m] = Zone[n])
        => id \in taken[m]

\* When the air is quiet, a line station whose order was listed shows "[ACK]".
LineLearns ==
  Quiet =>
    \A n, m \in Nodes : \A k \in DOMAIN requests[n] :
      requests[n][k].id \in taken[m] => requests[n][k].acked
=============================================================================
