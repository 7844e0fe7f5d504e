------------------------------- MODULE MeshProofs -------------------------------
(***************************************************************************)
(* Proofs about Mesh for every set of pagers, every map of who hears whom, *)
(* every zone, hop limit, list size and radio: the types, that no pager    *)
(* relays the packets of one order twice, that what a line station shows   *)
(* as acknowledged has been listed by a tugger, and that an order reaches  *)
(* the tuggers of its zone when nothing is lost on its way.                *)
(***************************************************************************)
EXTENDS Mesh, PagerProofs, WellFoundedInduction

MeshTyped == PagerTyped /\ rx \in [Nodes -> Seq(AirPackets)]

LEMMA TransmitTyped ==
  ASSUME MeshTyped, NEW n \in Nodes, NEW hearers, Transmit(n, hearers)
  PROVE  MeshTyped'
<1> USE DEF MeshTyped, PagerTyped
<1>1. tx[n] # <<>> /\ tx[n] \in Seq(AirPackets) /\ Len(tx[n]) <= 2
  BY DEF Transmit, Idle, AirTyped
<1> DEFINE first == Head(tx[n])
           rest  == Tail(tx[n])
<1>2. first \in AirPackets /\ rest \in Seq(AirPackets) /\ Len(rest) <= 2
  BY <1>1, TypedEnds
<1>3. AirTyped'
  <2>1. Transmits(n, rest)
    BY DEF Transmit
  <2> HIDE DEF rest
  <2> QED
    BY <1>2, <2>1, TransmitsTyped
<1>4. rx' \in [Nodes -> Seq(AirPackets)]
  <2>1. ASSUME NEW m \in Nodes PROVE Keep(rx[m], first) \in Seq(AirPackets)
    <3>1. rx[m] \in Seq(AirPackets)
      BY DEF AirTyped
    <3>2. ASSUME NEW q \in Seq(AirPackets) PROVE Append(q, first) \in Seq(AirPackets)
      <4> HIDE DEF first
      <4> QED
        BY <1>2, TypedEnds
    <3>3. ~(Len(rx[m]) < RadioKeeps) => rx[m] # <<>>
      BY <3>1, EmptySeq, MeshAssumption
    <3>4. rx[m] # <<>> => Front(rx[m]) \in Seq(AirPackets)
      BY <3>1, TypedEnds
    <3> HIDE DEF first
    <3> QED
      BY <3>1, <3>2, <3>3, <3>4 DEF Keep
  <2>2. rx' = [m \in Nodes |-> IF m \in hearers THEN Keep(rx[m], first) ELSE rx[m]]
    BY DEF Transmit
  <2> HIDE DEF first
  <2> QED
    BY <2>1, <2>2 DEF AirTyped
<1> QED
  BY <1>3, <1>4 DEF Transmit, FixedTyped, ListsTyped, MemoryTyped, AirTyped

LEMMA HearTyped ==
  ASSUME MeshTyped, NEW n \in Nodes, Hear(n)
  PROVE  MeshTyped' /\ rx[n] # <<>> /\ Head(rx[n]) \in AirPackets
<1>1. rx[n] # <<>> /\ rx[n] \in Seq(AirPackets)
  BY DEF Hear, MeshTyped, AirTyped
<1>2. Head(rx[n]) \in AirPackets /\ Tail(rx[n]) \in Seq(AirPackets)
  BY <1>1, TypedEnds
<1>3. Process(n, Head(rx[n]))
  BY DEF Hear
<1>4. PagerTyped'
  BY <1>2, <1>3, ProcessTyped DEF MeshTyped
<1>5. rx' \in [Nodes -> Seq(AirPackets)]
  <2>1. rx' = [rx EXCEPT ![n] = Tail(rx[n])]
    BY DEF Hear
  <2> QED
    BY <1>2, <2>1 DEF MeshTyped
<1> QED
  BY <1>1, <1>2, <1>4, <1>5 DEF MeshTyped

LEMMA MeshTypedInit == MeshInit => MeshTyped
<1> SUFFICES ASSUME MeshInit PROVE MeshTyped
  OBVIOUS
<1>1. PagerTyped
  BY InitTyped, MeshAssumption DEF MeshInit
<1>2. rx \in [Nodes -> Seq(AirPackets)]
  <2>1. PICK none : none = <<>>
    OBVIOUS
  <2>2. none \in Seq(AirPackets)
    BY <2>1, EmptySeq
  <2>3. rx = [n \in Nodes |-> none]
    BY <2>1, Zenon DEF MeshInit
  <2> QED
    BY <2>2, <2>3
<1> QED
  BY <1>1, <1>2 DEF MeshTyped

LEMMA MeshTypedStep == MeshTyped /\ [MeshNext]_meshVars => MeshTyped'
<1> SUFFICES ASSUME MeshTyped, [MeshNext]_meshVars PROVE MeshTyped'
  OBVIOUS
<1>1. CASE UNCHANGED meshVars
  BY <1>1
  DEF meshVars, pagerVars, MeshTyped, PagerTyped, FixedTyped, ListsTyped, MemoryTyped, AirTyped
<1>2. CASE MeshNext
  <2>1. PICK n \in Nodes : \/ Flood(n) \/ Drive(n) \/ Beacon(n)
                           \/ \E id \in Ids : Order(n, id)
    BY <1>2 DEF MeshNext
  <2>2. CASE Flood(n)
    BY <2>2, HearTyped, TransmitTyped DEF Flood
  <2>3. CASE Drive(n)
    BY <2>3, DriveTyped DEF Drive, MeshTyped
  <2>4. CASE Beacon(n)
    BY <2>4, BootTyped DEF Beacon, MeshTyped
  <2>5. CASE \E id \in Ids : Order(n, id)
    BY <2>5, CreateTyped DEF Order, MeshTyped
  <2> QED
    BY <2>1, <2>2, <2>3, <2>4, <2>5
<1> QED
  BY <1>1, <1>2

LEMMA MeshTypedInvariant == MeshSpec => []MeshTyped
BY MeshTypedInit, MeshTypedStep, PTL DEF MeshSpec

\* The variables of the pagers have their types in every reachable state, and
\* no list, memory of packets or queue of requests outgrows its array.
THEOREM PagersTyped == MeshSpec => []PagerTypeOK
BY MeshTypedInvariant, PagerTypedOK, PTL DEF MeshTyped

-----------------------------------------------------------------------------
(* What is said about an order. *)

\* Packets are about an order, and a queue of packets says something about it;
\* an order is over when it was made and no queue and no list says anything
\* about it any more.
IsAbout(p, id) == p.type # "boot" /\ p.id = id
About(q, id)   == \E k \in DOMAIN q : IsAbout(q[k], id)
Said(id) == \E n \in Nodes : About(tx[n], id) \/ About(rx[n], id) \/ id \in IdsOf(orders[n])
Over(id) == id \in made /\ ~Said(id)

\* Packets about an order arrive at the end of a queue ...
LEMMA AboutAppend ==
  ASSUME NEW q \in Seq(AirPackets), NEW p \in AirPackets, NEW id
  PROVE  About(Append(q, p), id) <=> About(q, id) \/ IsAbout(p, id)
<1> DEFINE r == Append(q, p)
<1>1. /\ Len(q) \in Nat /\ DOMAIN q = 1 .. Len(q) /\ DOMAIN r = 1 .. Len(q) + 1
      /\ \A k \in 1 .. Len(q) : r[k] = q[k]
      /\ r[Len(q) + 1] = p
  BY LenProperties, AppendProperties
<1> HIDE DEF r
<1>2. \A k \in DOMAIN r : k \in DOMAIN q \/ k = Len(q) + 1
  BY <1>1
<1>3. DOMAIN q \subseteq DOMAIN r /\ Len(q) + 1 \in DOMAIN r
  BY <1>1
<1>4. About(r, id) <=> About(q, id) \/ IsAbout(p, id)
  BY <1>1, <1>2, <1>3 DEF About
<1> QED
  BY <1>4 DEF r

\* ... and leave it at its front.
LEMMA AboutTail ==
  ASSUME NEW q \in Seq(AirPackets), q # <<>>, NEW id
  PROVE  /\ About(Tail(q), id) => About(q, id)
         /\ IsAbout(Head(q), id) => About(q, id)
BY TailElements DEF About

LEMMA AboutKeep ==
  ASSUME NEW q \in Seq(AirPackets), NEW p \in AirPackets, NEW id, About(Keep(q, p), id)
  PROVE  About(q, id) \/ IsAbout(p, id)
<1>1. CASE Len(q) < RadioKeeps
  BY <1>1, AboutAppend DEF Keep
<1>2. CASE ~(Len(q) < RadioKeeps)
  <2> DEFINE kept == Front(q)
  <2>1. q # <<>> /\ About(Append(kept, p), id)
    BY <1>2, EmptySeq, MeshAssumption DEF Keep
  <2>2. kept \in Seq(AirPackets) /\ \A k \in DOMAIN kept : k \in DOMAIN q /\ kept[k] = q[k]
    BY <2>1, TypedEnds, FrontElements
  <2> HIDE DEF kept
  <2>3. About(kept, id) \/ IsAbout(p, id)
    BY <2>1, <2>2, AboutAppend
  <2> QED
    BY <2>2, <2>3 DEF About
<1> QED
  BY <1>1, <1>2

LEMMA NothingAbout ==
  ASSUME NEW q, q = <<>> PROVE \A id : ~About(q, id)
BY DEF About

LEMMA OneAbout ==
  ASSUME NEW p PROVE \A id : About(<<p>>, id) <=> IsAbout(p, id)
<1>1. PICK q : q = <<p>>
  OBVIOUS
<1>2. DOMAIN q = {1} /\ q[1] = p
  BY <1>1
<1>3. \A id : About(q, id) <=> IsAbout(p, id)
  BY <1>2 DEF About
<1> QED
  BY <1>1, <1>3

\* What a pager transmits when it has processed a packet is about the same
\* order; an order that is not for it is all it transmits, one hop further.
LEMMA HearAir ==
  ASSUME MeshTyped, NEW n \in Nodes, NEW p \in AirPackets, Process(n, p)
  PROVE  /\ \A m \in Nodes \ {n} : tx'[m] = tx[m]
         /\ \A id : About(tx'[n], id) => IsAbout(p, id)
         /\ Fresh(n, p) /\ p.type = "order" /\ ~ForUs(n, p) => tx'[n] = Relay(p)
<1>0. tx \in [Nodes -> Seq(AirPackets)]
  BY DEF MeshTyped, PagerTyped, AirTyped
<1>1. \A m \in Nodes \ {n} : tx'[m] = tx[m]
  BY <1>0 DEF Process, DropSeen, TakeOrder, NoteStatus, NoteDelivered, PassOn, Transmits
<1>2. Fresh(n, p) /\ p.type = "order" /\ ~ForUs(n, p) => tx'[n] = Relay(p)
  BY <1>0 DEF Process, DropSeen, TakeOrder, NoteStatus, NoteDelivered, PassOn, Transmits
<1>3. \A k \in DOMAIN Relay(p) : Relay(p)[k].type = p.type /\ Relay(p)[k].id = p.id
  <2>1. CASE p.hop < MaxHops
    <3>1. Relay(p) = <<[p EXCEPT !.hop = p.hop + 1]>>
      BY <2>1 DEF Relay
    <3>2. /\ [p EXCEPT !.hop = p.hop + 1].type = p.type
          /\ [p EXCEPT !.hop = p.hop + 1].id = p.id
      BY DEF AirPackets, Packets
    <3> QED
      BY <3>1, <3>2, SingleElement
  <2>2. CASE ~(p.hop < MaxHops)
    BY <2>2 DEF Relay
  <2> QED
    BY <2>1, <2>2
<1>4. ASSUME NEW k \in DOMAIN tx'[n], tx'[n][k].type # "boot"
      PROVE  p.type # "boot" /\ tx'[n][k].id = p.id
  <2>1. CASE DropSeen(n, p)
    BY <1>0, <1>4, <2>1 DEF DropSeen, Transmits
  <2>2. CASE TakeOrder(n, p)
    <3> DEFINE reply == IF p.zone = 0 THEN <<>> ELSE <<Packet("delivered", p.id, p.zone)>>
    <3>1. tx'[n] = reply \o Relay(p)
      BY <1>0, <2>2 DEF TakeOrder, Transmits
    <3>2. p.id \in Ids /\ p.zone \in PagerZones \cup {0} /\ p.type = "order"
      BY <2>2 DEF TakeOrder, ForUs, AirPackets, Packets
    <3>3. reply \in Seq(AirPackets) /\ Relay(p) \in Seq(AirPackets)
      <4>1. Packet("delivered", p.id, p.zone) \in AirPackets
        BY <3>2, PacketTyped
      <4> QED
        BY <4>1, SingleTyped, EmptySeq, RelayTyped
    <3>4. \A j \in DOMAIN reply : reply[j].id = p.id
      <4>1. Packet("delivered", p.id, p.zone).id = p.id
        BY DEF Packet
      <4> QED
        BY <4>1, SingleElement
    <3> HIDE DEF reply
    <3>5. tx'[n][k].id = p.id
      BY <1>3, <1>4, <3>1, <3>3, <3>4, ConcatElements
    <3> QED
      BY <3>2, <3>5
  <2>3. CASE NoteStatus(n, p) \/ NoteDelivered(n, p) \/ PassOn(n, p)
    <3>1. tx'[n] = Relay(p)
      BY <1>0, <2>3 DEF NoteStatus, NoteDelivered, PassOn, Transmits
    <3> QED
      BY <1>3, <1>4, <3>1
  <2> QED
    BY <2>1, <2>2, <2>3 DEF Process
<1>5. \A id : About(tx'[n], id) => IsAbout(p, id)
  BY <1>4 DEF About, IsAbout
<1> QED
  BY <1>1, <1>2, <1>5

\* A pager lists nothing but the order that it has just heard of.
LEMMA HearLists ==
  ASSUME MeshTyped, NEW n \in Nodes, NEW p \in AirPackets, Process(n, p),
         NEW id, NEW m \in Nodes, id \in IdsOf(orders'[m])
  PROVE  id \in IdsOf(orders[m]) \/ (m = n /\ IsAbout(p, id))
<1>1. CASE TakesOrder(n, p)
  <2>1. PICK order \in Orders : /\ order.id = p.id /\ ForUs(n, p)
                                /\ orders' = [orders EXCEPT ![n] = Append(orders[n], order)]
    BY <1>1 DEF TakesOrder
  <2>2. orders \in [Nodes -> Seq(Orders)]
    BY DEF MeshTyped, PagerTyped, ListsTyped
  <2>3. IdsOf(Append(orders[n], order)) = IdsOf(orders[n]) \cup {p.id}
    BY <2>1, <2>2, AppendIds
  <2>4. orders'[m] = IF m = n THEN Append(orders[n], order) ELSE orders[m]
    BY <2>1, <2>2
  <2> QED
    BY <2>1, <2>3, <2>4 DEF ForUs, IsAbout
<1>2. CASE \A l \in Nodes : SameIds(orders[l], orders'[l])
  BY <1>2, SameIdsKept
<1> QED
  BY <1>1, <1>2, ProcessLists DEF MeshTyped

\* A driver's packet is about an order that he has listed.
LEMMA DriveSends ==
  ASSUME MeshTyped, NEW n \in Nodes, Drive(n)
  PROVE  /\ \A m \in Nodes : IdsOf(orders'[m]) \subseteq IdsOf(orders[m])
         /\ \E p : Transmits(n, <<p>>) /\ p.id \in IdsOf(orders[n])
<1>0. orders \in [Nodes -> Seq(Orders)]
  BY DEF MeshTyped, PagerTyped, ListsTyped
<1>1. CASE AckSelected(n)
  <2> DEFINE k == sel[n] + 1
             order == orders[n][k]
             p == Packet("ack", order.id, order.zone)
  <2>1. Transmits(n, <<p>>) /\ p.id = order.id
    BY <1>1 DEF AckSelected, Packet
  <2>2. k \in DOMAIN orders[n]
    <3>1. Len(orders[n]) \in Nat /\ DOMAIN orders[n] = 1 .. Len(orders[n]) /\ sel[n] \in Nat
      BY <1>0, LenProperties, MeshPagerAssumption DEF MeshTyped, PagerTyped, ListsTyped
    <3> QED
      BY <1>1, <3>1 DEF AckSelected
  <2>3. order.id \in IdsOf(orders[n])
    BY <2>2 DEF IdsOf
  <2>4. PICK list \in Seq(Orders) : SameIds(orders[n], list) /\ Saves(n, list)
    BY <1>1, AckLists DEF MeshTyped
  <2>5. \A m \in Nodes : orders'[m] = IF m = n THEN list ELSE orders[m]
    BY <1>0, <2>4 DEF Saves, Lists
  <2>6. IdsOf(list) = IdsOf(orders[n])
    BY <2>4, SameIdsKept
  <2> HIDE DEF k, order, p
  <2> QED
    BY <2>1, <2>3, <2>5, <2>6
<1>2. CASE ClearSelected(n)
  <2> DEFINE order == orders[n][sel[n] + 1]
             list == RemoveAt(orders[n], sel[n] + 1)
             p == Packet("clear", order.id, order.zone)
  <2>1. Transmits(n, <<p>>) /\ p.id = order.id
    BY <1>2 DEF ClearSelected, Packet
  <2>2. /\ sel[n] + 1 \in 1 .. Len(orders[n]) /\ Saves(n, list)
    BY <1>2, ClearLists DEF MeshTyped
  <2>3. order.id \in IdsOf(orders[n])
    <3>1. sel[n] + 1 \in DOMAIN orders[n]
      BY <1>0, <2>2, LenProperties
    <3> QED
      BY <3>1 DEF IdsOf
  <2>4. IdsOf(list) \subseteq IdsOf(orders[n])
    BY <1>0, <2>2, RemoveIds
  <2> HIDE DEF order, list, p
  <2>5. \A m \in Nodes : orders'[m] = IF m = n THEN list ELSE orders[m]
    BY <1>0, <2>2 DEF Saves, Lists
  <2> QED
    BY <2>1, <2>3, <2>4, <2>5
<1> QED
  BY <1>1, <1>2 DEF Drive

\* A pager that sends one packet says nothing else.
LEMMA SendsOne ==
  ASSUME MeshTyped, NEW n \in Nodes, NEW p, Transmits(n, <<p>>)
  PROVE  /\ \A m \in Nodes \ {n} : tx'[m] = tx[m]
         /\ \A id : About(tx'[n], id) <=> IsAbout(p, id)
<1>1. PICK one : one = <<p>>
  OBVIOUS
<1>2. tx' = [tx EXCEPT ![n] = one]
  BY <1>1, Zenon DEF Transmits
<1>3. tx'[n] = one /\ \A m \in Nodes \ {n} : tx'[m] = tx[m]
  BY <1>2 DEF MeshTyped, PagerTyped, AirTyped
<1> QED
  BY <1>1, <1>3, OneAbout

\* Nobody speaks first of an order but the line station that makes it.
LEMMA NothingNewSaid ==
  ASSUME MeshTyped, [MeshNext]_meshVars, NEW id, Said(id)', ~\E n \in Nodes : Order(n, id)
  PROVE  Said(id)
<1>0. /\ tx \in [Nodes -> Seq(AirPackets)] /\ rx \in [Nodes -> Seq(AirPackets)]
  BY DEF MeshTyped, PagerTyped, AirTyped
<1>1. CASE UNCHANGED meshVars
  BY <1>1 DEF meshVars, pagerVars, Said
<1>2. ASSUME NEW n \in Nodes, Hear(n) PROVE Said(id)
  <2> DEFINE p == Head(rx[n])
  <2>1. /\ p \in AirPackets /\ Process(n, p) /\ rx[n] # <<>>
        /\ rx' = [rx EXCEPT ![n] = Tail(rx[n])]
    BY <1>2, HearTyped DEF Hear
  <2>2. /\ IsAbout(p, id) => About(rx[n], id)
        /\ About(Tail(rx[n]), id) => About(rx[n], id)
    BY <1>0, <2>1, AboutTail
  <2>3. rx'[n] = Tail(rx[n]) /\ \A m \in Nodes \ {n} : rx'[m] = rx[m]
    BY <1>0, <2>1
  <2> HIDE DEF p
  <2>4. \A m \in Nodes : id \in IdsOf(orders'[m]) => id \in IdsOf(orders[m]) \/ IsAbout(p, id)
    BY <2>1, HearLists
  <2>5. \A m \in Nodes : About(tx'[m], id) => About(tx[m], id) \/ IsAbout(p, id)
    BY <2>1, HearAir
  <2> QED
    BY <2>2, <2>3, <2>4, <2>5 DEF Said
<1>3. ASSUME NEW n \in Nodes, NEW hearers, Transmit(n, hearers) PROVE Said(id)
  <2> DEFINE first == Head(tx[n])
             rest  == Tail(tx[n])
  <2>1. /\ tx[n] # <<>> /\ first \in AirPackets /\ orders' = orders
        /\ IsAbout(first, id) => About(tx[n], id)
        /\ About(rest, id) => About(tx[n], id)
    <3>1. tx[n] # <<>> /\ orders' = orders
      BY <1>3 DEF Transmit, Idle
    <3> QED
      BY <1>0, <3>1, TypedEnds, AboutTail
  <2>2. tx'[n] = rest /\ \A m \in Nodes \ {n} : tx'[m] = tx[m]
    <3>1. tx' = [tx EXCEPT ![n] = rest]
      BY <1>3 DEF Transmit, Transmits
    <3> HIDE DEF rest
    <3> QED
      BY <1>0, <3>1
  <2>3. \A m \in Nodes : rx'[m] = Keep(rx[m], first) \/ rx'[m] = rx[m]
    BY <1>3 DEF Transmit
  <2> HIDE DEF first, rest
  <2>4. \A m \in Nodes : About(rx'[m], id) => About(rx[m], id) \/ IsAbout(first, id)
    BY <1>0, <2>1, <2>3, AboutKeep
  <2> QED
    BY <2>1, <2>2, <2>4 DEF Said
<1>4. ASSUME NEW n \in Nodes, NEW p, Transmits(n, <<p>>), rx' = rx,
             IsAbout(p, id) => id \in IdsOf(orders[n]),
             \A m \in Nodes : IdsOf(orders'[m]) \subseteq IdsOf(orders[m])
      PROVE  Said(id)
  <2>1. \A m \in Nodes : About(tx'[m], id) => About(tx[m], id) \/ id \in IdsOf(orders[m])
    BY <1>4, SendsOne
  <2> QED
    BY <1>4, <2>1 DEF Said
<1>5. ASSUME NEW n \in Nodes, Drive(n) PROVE Said(id)
  <2>1. PICK p : Transmits(n, <<p>>) /\ p.id \in IdsOf(orders[n])
    BY <1>5, DriveSends
  <2>2. \A m \in Nodes : IdsOf(orders'[m]) \subseteq IdsOf(orders[m])
    BY <1>5, DriveSends
  <2>3. rx' = rx
    BY <1>5 DEF Drive
  <2> QED
    BY <1>4, <2>1, <2>2, <2>3 DEF IsAbout
<1>6. ASSUME NEW n \in Nodes, Beacon(n) PROVE Said(id)
  <2> DEFINE p == Packet("boot", 0, prefs[n].zone)
  <2>1. Transmits(n, <<p>>) /\ UNCHANGED <<rx, orders>> /\ ~IsAbout(p, id)
    BY <1>6 DEF Beacon, SendBoot, IsAbout, Packet
  <2> HIDE DEF p
  <2> QED
    BY <1>4, <2>1
<1>7. ASSUME NEW n \in Nodes, NEW i \in Ids, Order(n, i) PROVE Said(id)
  <2> DEFINE p == Packet("order", i, prefs[n].zone)
  <2>1. i # id
    BY <1>7
  <2>2. Transmits(n, <<p>>) /\ UNCHANGED <<rx, orders>> /\ ~IsAbout(p, id)
    BY <1>7, <2>1 DEF Order, CreateOrder, IsAbout, Packet
  <2> HIDE DEF p
  <2> QED
    BY <1>4, <2>2
<1> QED
  BY <1>1, <1>2, <1>3, <1>5, <1>6, <1>7 DEF MeshNext, Flood

\* An order that is over stays so.
LEMMA OverStays ==
  ASSUME MeshTyped, [MeshNext]_meshVars, NEW id, Over(id) PROVE Over(id)'
<1>1. ~\E n \in Nodes : Order(n, id)
  BY DEF Order, Over
<1>2. id \in made'
  BY DEF MeshNext, Flood, Hear, Transmit, Drive, Beacon, Order, meshVars, Over
<1> QED
  BY <1>1, <1>2, NothingNewSaid DEF Over

-----------------------------------------------------------------------------
(* What a pager remembers of the packets it has seen. *)

\* Forgetting the oldest leaves different ids.
LEMMA TailDifferent ==
  ASSUME NEW S, NEW s \in Seq(S), s # <<>>, Different(s)
  PROVE  Different(Tail(s))
<1>1. /\ Tail(s) \in Seq(S) /\ Len(Tail(s)) = Len(s) - 1 /\ Len(s) \in Nat
      /\ \A k \in 1 .. Len(Tail(s)) : Tail(s)[k] = s[k + 1]
  BY HeadTailProperties, LenProperties
<1>2. \A k \in 1 .. Len(Tail(s)) : k + 1 \in 1 .. Len(s) /\ Tail(s)[k] = s[k + 1]
  BY <1>1
<1>3. \A k \in 1 .. Len(Tail(s)) : k \in Int
  OBVIOUS
<1> QED
  BY <1>2, <1>3 DEF Different

\* There are no more orders about than a pager remembers packets.
FewOrders == IsFiniteSet(Ids) /\ Cardinality(Ids) <= SeenSize

\* A pager remembers the packet it has just processed, and no id twice.
LEMMA SeenChange ==
  ASSUME MeshTyped, NEW n \in Nodes, Different(seen[n]), NEW p \in AirPackets, Process(n, p)
  PROVE  /\ \A m \in Nodes \ {n} : seen'[m] = seen[m]
         /\ Different(seen'[n])
         /\ \A id : IsAbout(p, id) => Contains(seen'[n], id)
         /\ \A id : Contains(seen'[n], id) => Contains(seen[n], id) \/ IsAbout(p, id)
         /\ FewOrders => \A id : Contains(seen[n], id) => Contains(seen'[n], id)
<1>0. seen \in [Nodes -> Seq(Ids)] /\ Len(seen[n]) <= SeenSize
  BY DEF MeshTyped, PagerTyped, MemoryTyped
<1>1. CASE DropSeen(n, p)
  BY <1>1 DEF DropSeen, Fresh, IsAbout
<1>2. CASE ~DropSeen(n, p) /\ p.type = "boot"
  <2>1. seen' = seen
    BY <1>2 DEF Process, TakeOrder, NoteStatus, NoteDelivered, PassOn, Mark
  <2> QED
    BY <1>2, <2>1 DEF IsAbout
<1>3. CASE ~DropSeen(n, p) /\ p.type # "boot"
  <2>1. Fresh(n, p) /\ Mark(n, p)
    BY <1>3 DEF Process, TakeOrder, NoteStatus, NoteDelivered, PassOn
  <2> DEFINE r == Append(seen[n], p.id)
             q == LastOf(r, SeenSize)
  <2>2. p.id \in Ids /\ ~Contains(seen[n], p.id) /\ seen[n] \in Seq(Ids)
    BY <1>0, <1>3, <2>1 DEF AirPackets, Fresh
  <2>3. seen' = [seen EXCEPT ![n] = q]
    BY <1>3, <2>1 DEF Mark
  <2>4. /\ r \in Seq(Ids) /\ DOMAIN r = 1 .. Len(r) /\ DOMAIN seen[n] = 1 .. Len(seen[n])
        /\ Len(r) = Len(seen[n]) + 1 /\ Len(seen[n]) \in Nat
        /\ r[Len(r)] = p.id /\ \A k \in 1 .. Len(seen[n]) : r[k] = seen[n][k]
    BY <2>2, AppendProperties, LenProperties
  <2>5. SeenSize \in Nat /\ SeenSize >= 1
    BY MeshPagerAssumption
  <2> HIDE DEF r
  <2>6. \A k \in 1 .. Len(r) : k \in 1 .. Len(seen[n]) \/ k = Len(r)
    BY <2>4
  <2>7. /\ \A i : Contains(r, i) => Contains(seen[n], i) \/ i = p.id
        /\ \A i : Contains(seen[n], i) => Contains(r, i)
        /\ Contains(r, p.id) /\ Different(r)
    <3>1. Different(r)
      BY <1>0, <2>2, <2>4, <2>6 DEF Different, Contains
    <3>2. \A i : Contains(r, i) => Contains(seen[n], i) \/ i = p.id
      BY <2>4, <2>6 DEF Contains
    <3>3. (\A i : Contains(seen[n], i) => Contains(r, i)) /\ Contains(r, p.id)
      BY <2>4 DEF Contains
    <3> QED
      BY <3>1, <3>2, <3>3
  <2>8. /\ Different(q) /\ Contains(q, p.id)
        /\ \A i : Contains(q, i) => Contains(r, i)
    <3>1. CASE Len(r) > SeenSize
      <4>1. q = Tail(r) /\ r # <<>>
        BY <2>4, <2>5, <3>1, EmptySeq DEF LastOf
      <4>2. /\ Tail(r) \in Seq(Ids) /\ Len(Tail(r)) = Len(r) - 1
            /\ \A k \in 1 .. Len(Tail(r)) : Tail(r)[k] = r[k + 1]
        BY <2>4, <4>1, HeadTailProperties
      <4>3. \A k \in 1 .. Len(Tail(r)) : k + 1 \in 1 .. Len(r) /\ Tail(r)[k] = r[k + 1]
        BY <2>4, <4>2
      <4>4. Len(r) - 1 \in 1 .. Len(Tail(r)) /\ Tail(r)[Len(r) - 1] = p.id
        BY <2>4, <2>5, <3>1, <4>2
      <4>5. Contains(Tail(r), p.id) /\ \A i : Contains(Tail(r), i) => Contains(r, i)
        BY <4>3, <4>4 DEF Contains
      <4> QED
        BY <2>4, <2>7, <4>1, <4>5, TailDifferent
    <3>2. CASE ~(Len(r) > SeenSize)
      BY <2>7, <3>2 DEF LastOf
    <3> QED
      BY <3>1, <3>2
  <2>9. FewOrders => q = r
    <3> SUFFICES ASSUME FewOrders PROVE q = r
      OBVIOUS
    <3>1. Len(seen[n]) < Cardinality(Ids)
      BY <2>2, RoomForFresh DEF FewOrders
    <3>2. Cardinality(Ids) \in Nat /\ Cardinality(Ids) <= SeenSize
      BY FS_CardinalityType DEF FewOrders
    <3>3. ~(Len(r) > SeenSize)
      BY <2>4, <2>5, <3>1, <3>2
    <3> QED
      BY <3>3 DEF LastOf
  <2> HIDE DEF q
  <2>10. seen'[n] = q /\ \A m \in Nodes \ {n} : seen'[m] = seen[m]
    BY <1>0, <2>3
  <2>11. \A i : IsAbout(p, i) <=> i = p.id
    BY <1>3 DEF IsAbout
  <2> QED
    BY <2>7, <2>8, <2>9, <2>10, <2>11
<1> QED
  BY <1>1, <1>2, <1>3

NoneTwice == \A n \in Nodes : Different(seen[n])

LEMMA NoneTwiceInvariant == MeshSpec => []NoneTwice
<1>1. MeshInit => NoneTwice
  <2> SUFFICES ASSUME MeshInit, NEW n \in Nodes PROVE Different(seen[n])
    BY DEF NoneTwice
  <2>1. seen[n] = <<>>
    BY DEF MeshInit, PagerInit
  <2> QED
    BY <2>1, EmptySeq DEF Different
<1>2. MeshTyped /\ NoneTwice /\ [MeshNext]_meshVars => NoneTwice'
  <2> SUFFICES ASSUME MeshTyped, NoneTwice, [MeshNext]_meshVars PROVE NoneTwice'
    OBVIOUS
  <2>1. ASSUME NEW n \in Nodes, Hear(n) PROVE NoneTwice'
    BY <2>1, HearTyped, SeenChange DEF Hear, NoneTwice
  <2>2. CASE seen' = seen
    BY <2>2 DEF NoneTwice
  <2> QED
    BY <2>1, <2>2 DEF MeshNext, Flood, Transmit, Drive, AckSelected, ClearSelected,
                      Beacon, SendBoot, Order, CreateOrder, meshVars, pagerVars
<1> QED
  BY <1>1, <1>2, MeshTypedInvariant, PTL DEF MeshSpec

-----------------------------------------------------------------------------
(* One relay per order. *)

\* A pager forgets that it has seen an order's packets only when it is over.
ForgetsOver ==
  \A n \in Nodes, id \in Ids : Contains(seen[n], id) /\ ~Contains(seen'[n], id) => Over(id)

\* When there are few orders none is forgotten.
LEMMA FewForgetNone == ASSUME FewOrders PROVE MeshSpec => [][ForgetsOver]_meshVars
<1>1. MeshTyped /\ NoneTwice /\ [MeshNext]_meshVars => [ForgetsOver]_meshVars
  <2> SUFFICES ASSUME MeshTyped, NoneTwice, MeshNext PROVE ForgetsOver
    OBVIOUS
  <2>1. ASSUME NEW n \in Nodes, Hear(n) PROVE ForgetsOver
    BY <2>1, HearTyped, SeenChange DEF Hear, NoneTwice, ForgetsOver
  <2>2. CASE seen' = seen
    BY <2>2 DEF ForgetsOver
  <2> QED
    BY <2>1, <2>2 DEF MeshNext, Flood, Transmit, Drive, AckSelected, ClearSelected,
                      Beacon, SendBoot, Order, CreateOrder
<1> QED
  BY <1>1, MeshTypedInvariant, NoneTwiceInvariant, PTL DEF MeshSpec

\* A pager has relayed an id at most once, and remembers that it has as long as
\* the order is not over.
RelayInv ==
  /\ relays \in [Nodes -> [Ids -> {0, 1}]]
  /\ \A n \in Nodes, id \in Ids : relays[n][id] = 1 => Contains(seen[n], id) \/ Over(id)

LEMMA MinOne == Min({1, 2}) = 1 /\ Min({0 + 1, 2}) = 1
<1>1. \A x \in {1, 2} : (\A y \in {1, 2} : x <= y) <=> x = 1
  OBVIOUS
<1>2. Min({1, 2}) = 1
  BY <1>1 DEF Min
<1> QED
  BY <1>2

LEMMA RelayHear ==
  ASSUME MeshTyped, NoneTwice, RelayInv, ForgetsOver, NEW n \in Nodes, Hear(n), MeshNext
  PROVE  RelayInv'
<1> DEFINE p == Head(rx[n])
<1>1. p \in AirPackets /\ Process(n, p) /\ rx[n] # <<>> /\ rx[n] \in Seq(AirPackets)
  BY HearTyped DEF Hear, MeshTyped
<1>2. relays' = IF p.type # "boot" /\ \E k \in DOMAIN tx'[n] : tx'[n][k].hop > 0
                THEN [relays EXCEPT ![n][p.id] = Min({relays[n][p.id] + 1, 2})]
                ELSE relays
  BY DEF Hear
<1>3. \A id : IsAbout(p, id) => ~Over(id)
  BY <1>1, AboutTail DEF Over, Said
<1> HIDE DEF p
<1>4. /\ \A m \in Nodes \ {n} : seen'[m] = seen[m]
      /\ \A id : IsAbout(p, id) => Contains(seen'[n], id)
  BY <1>1, SeenChange DEF NoneTwice
<1>5. \A id \in Ids : Over(id) => Over(id)'
  BY OverStays
<1>6. ASSUME NEW m \in Nodes, NEW id \in Ids, Contains(seen[m], id) \/ Over(id)
      PROVE  Contains(seen'[m], id) \/ Over(id)'
  BY <1>5, <1>6 DEF ForgetsOver
<1>7. CASE relays' = relays
  BY <1>6, <1>7 DEF RelayInv
<1>8. CASE relays' # relays
  <2>1. /\ p.type # "boot" /\ \E k \in DOMAIN tx'[n] : tx'[n][k].hop > 0
        /\ relays' = [relays EXCEPT ![n][p.id] = Min({relays[n][p.id] + 1, 2})]
    BY <1>2, <1>8
  <2>2. ~DropSeen(n, p)
    BY <2>1 DEF DropSeen, Transmits, MeshTyped, PagerTyped, AirTyped
  <2>3. p.id \in Ids /\ ~Contains(seen[n], p.id) /\ IsAbout(p, p.id)
    BY <1>1, <2>1, <2>2
    DEF Process, TakeOrder, NoteStatus, NoteDelivered, PassOn, Fresh, AirPackets, IsAbout
  <2>4. relays[n][p.id] = 0
    BY <1>3, <2>3 DEF RelayInv
  <2>5. relays' = [relays EXCEPT ![n][p.id] = 1]
    BY <2>1, <2>4, MinOne
  <2>6. /\ relays' \in [Nodes -> [Ids -> {0, 1}]]
        /\ \A m \in Nodes, id \in Ids :
             relays'[m][id] = 1 => relays[m][id] = 1 \/ (m = n /\ id = p.id)
    BY <2>3, <2>5 DEF RelayInv
  <2> QED
    BY <1>4, <1>6, <2>3, <2>6 DEF RelayInv
<1> QED
  BY <1>7, <1>8

LEMMA RelayStep ==
  MeshTyped /\ NoneTwice /\ RelayInv /\ [MeshNext]_meshVars /\ [ForgetsOver]_meshVars
    => RelayInv'
<1> SUFFICES ASSUME MeshTyped, NoneTwice, RelayInv, [MeshNext]_meshVars, [ForgetsOver]_meshVars
             PROVE  RelayInv'
  OBVIOUS
<1>1. CASE UNCHANGED meshVars
  <2>1. \A id : Over(id)' <=> Over(id)
    BY <1>1 DEF meshVars, pagerVars, Over, Said
  <2> QED
    BY <1>1, <2>1 DEF meshVars, pagerVars, RelayInv
<1>2. CASE MeshNext /\ ForgetsOver
  <2>1. CASE \E n \in Nodes : Hear(n)
    BY <1>2, <2>1, RelayHear
  <2>2. CASE UNCHANGED <<seen, relays>>
    BY <2>2, OverStays DEF RelayInv
  <2> QED
    BY <1>2, <2>1, <2>2 DEF MeshNext, Flood, Transmit, Drive, AckSelected, ClearSelected,
                            Beacon, SendBoot, Order, CreateOrder
<1> QED
  BY <1>1, <1>2

LEMMA RelayInit == MeshInit => RelayInv
<1> SUFFICES ASSUME MeshInit PROVE RelayInv
  OBVIOUS
<1>1. relays = [n \in Nodes |-> [id \in Ids |-> 0]]
  BY DEF MeshInit
<1> QED
  BY <1>1 DEF RelayInv

\* No pager relays the packets of one order twice, whatever copies reach it by
\* whatever ways, in any row, ring or mesh of pagers, lossy or not: when a pager
\* forgets an order only when nobody lists it or transmits about it any more.
THEOREM OneRelay == MeshSpec /\ [][ForgetsOver]_meshVars => []RelayedOnce
<1>1. RelayInv => RelayedOnce
  BY DEF RelayInv, RelayedOnce
<1> QED
  BY <1>1, RelayInit, RelayStep, MeshTypedInvariant, NoneTwiceInvariant, PTL DEF MeshSpec

-----------------------------------------------------------------------------
(* Delivery reports. *)

\* No new order for a tugger comes to a full list, which does not take it and yet
\* reports it.
ListsHaveRoom ==
  \A n \in Nodes : rx[n] # <<>> =>
    LET p == Head(rx[n]) IN
    Fresh(n, p) /\ ForUs(n, p) => Exists(n, p.id) \/ Len(orders[n]) < MaxOrders

\* No list can be full.
RoomForAll == IsFiniteSet(Ids) /\ Cardinality(Ids) <= MaxOrders

Listed == {id \in Ids : \E m \in Nodes : Roles[m] = "tugger" /\ id \in taken[m]}

\* Every report on its way is backed, by what its tugger lists and has listed;
\* the pagers are in the modes they were given.
ReportInv ==
  /\ mode = Roles
  /\ taken \in [Nodes -> SUBSET Ids]
  /\ \A n \in Nodes : OneEach(orders[n]) /\ IdsOf(orders[n]) \subseteq taken[n]
  /\ \A n \in Nodes : \A k \in DOMAIN tx[n] :
       tx[n][k].type = "delivered" => tx[n][k].id \in Listed
  /\ \A n \in Nodes : \A k \in DOMAIN rx[n] :
       rx[n][k].type = "delivered" => rx[n][k].id \in Listed
  /\ AckIsTrue

\* What was listed stays so: all else is about lists, reports and requests.
LEMMA ReportKept ==
  ASSUME ReportInv, taken' \in [Nodes -> SUBSET Ids], mode' = mode,
         \A m \in Nodes : taken[m] \subseteq taken'[m],
         \A m \in Nodes : OneEach(orders'[m]) /\ IdsOf(orders'[m]) \subseteq taken'[m],
         \A m \in Nodes : \A k \in DOMAIN tx'[m] :
           tx'[m][k].type = "delivered" => tx'[m][k].id \in Listed',
         \A m \in Nodes : \A k \in DOMAIN rx'[m] :
           (\E l \in Nodes : \E j \in DOMAIN tx[l] : rx'[m][k] = tx[l][j])
           \/ \E j \in DOMAIN rx[m] : rx'[m][k] = rx[m][j],
         \A m \in Nodes : \A k \in DOMAIN requests'[m] :
           requests'[m][k].acked =>
             \/ requests'[m][k].id \in Listed'
             \/ \E j \in DOMAIN requests[m] :
                  requests[m][j].acked /\ requests[m][j].id = requests'[m][k].id
  PROVE  ReportInv'
<1>1. Listed \subseteq Listed'
  BY DEF Listed
<1>2. ASSUME NEW m \in Nodes, NEW k \in DOMAIN rx'[m], rx'[m][k].type = "delivered"
      PROVE  rx'[m][k].id \in Listed'
  BY <1>1, <1>2 DEF ReportInv
<1>3. AckIsTrue'
  <2> SUFFICES ASSUME NEW m \in Nodes, NEW k \in DOMAIN requests'[m], requests'[m][k].acked
               PROVE  requests'[m][k].id \in Listed'
    BY DEF AckIsTrue, Listed
  <2>1. ASSUME NEW j \in DOMAIN requests[m], requests[m][j].acked
        PROVE  requests[m][j].id \in Listed
    BY <2>1 DEF ReportInv, AckIsTrue, Listed
  <2> QED
    BY <1>1, <2>1
<1> QED
  BY <1>2, <1>3 DEF ReportInv

LEMMA ReportTransmit ==
  ASSUME MeshTyped, ReportInv, NEW n \in Nodes, NEW hearers, Transmit(n, hearers)
  PROVE  ReportInv'
<1>1. tx[n] # <<>> /\ tx[n] \in Seq(AirPackets)
  BY DEF Transmit, Idle, MeshTyped, PagerTyped, AirTyped
<1> DEFINE first == Head(tx[n])
           rest  == Tail(tx[n])
<1>2. /\ 1 \in DOMAIN tx[n] /\ first = tx[n][1] /\ first \in AirPackets
      /\ \A k \in DOMAIN rest : k + 1 \in DOMAIN tx[n] /\ rest[k] = tx[n][k + 1]
  BY <1>1, TailElements, TypedEnds
<1>3. /\ tx' = [tx EXCEPT ![n] = rest]
      /\ rx' = [m \in Nodes |-> IF m \in hearers THEN Keep(rx[m], first) ELSE rx[m]]
      /\ UNCHANGED <<mode, taken, orders, requests>>
  BY DEF Transmit, Transmits
<1> HIDE DEF first, rest
<1>4. Listed' = Listed
  BY <1>3 DEF Listed
<1>5. \A m \in Nodes : \A k \in DOMAIN tx'[m] :
        tx'[m][k].type = "delivered" => tx'[m][k].id \in Listed'
  <2>1. \A m \in Nodes : tx'[m] = IF m = n THEN rest ELSE tx[m]
    BY <1>3 DEF MeshTyped, PagerTyped, AirTyped
  <2> QED
    BY <1>2, <1>4, <2>1 DEF ReportInv
<1>6. ASSUME NEW m \in Nodes, NEW k \in DOMAIN rx'[m]
      PROVE  \/ \E l \in Nodes : \E j \in DOMAIN tx[l] : rx'[m][k] = tx[l][j]
             \/ \E j \in DOMAIN rx[m] : rx'[m][k] = rx[m][j]
  <2>1. rx[m] \in Seq(AirPackets) /\ Len(rx[m]) \in Nat
    BY LenProperties DEF MeshTyped
  <2>2. CASE m \in hearers /\ Len(rx[m]) < RadioKeeps
    <3>1. rx'[m] = Append(rx[m], first)
      BY <1>3, <2>2 DEF Keep
    <3> QED
      BY <1>2, <1>6, <2>1, <3>1, AppendElements
  <2>3. CASE m \in hearers /\ ~(Len(rx[m]) < RadioKeeps)
    <3> DEFINE kept == Front(rx[m])
    <3>1. rx'[m] = Append(kept, first)
      BY <1>3, <2>3 DEF Keep
    <3>2. rx[m] # <<>>
      BY <2>1, <2>3, EmptySeq, MeshAssumption
    <3>3. kept \in Seq(AirPackets) /\ \A i \in DOMAIN kept : i \in DOMAIN rx[m] /\ kept[i] = rx[m][i]
      BY <2>1, <3>2, TypedEnds, FrontElements
    <3> HIDE DEF kept
    <3>4. (k \in DOMAIN kept /\ rx'[m][k] = kept[k]) \/ rx'[m][k] = first
      BY <1>2, <1>6, <3>1, <3>3, AppendElements
    <3> QED
      BY <1>2, <3>3, <3>4
  <2>4. CASE m \notin hearers
    BY <1>3, <1>6, <2>4
  <2> QED
    BY <2>2, <2>3, <2>4
<1>7. \A m \in Nodes : OneEach(orders'[m]) /\ IdsOf(orders'[m]) \subseteq taken'[m]
  BY <1>3 DEF ReportInv
<1>8. \A m \in Nodes : \A k \in DOMAIN requests'[m] : requests'[m][k].acked =>
        \E j \in DOMAIN requests[m] :
          requests[m][j].acked /\ requests[m][j].id = requests'[m][k].id
  BY <1>3
<1> QED
  BY <1>3, <1>5, <1>6, <1>7, <1>8, ReportKept DEF ReportInv

\* Handlers that transmit one packet that is no report, or take an order.
LEMMA ReportOne ==
  ASSUME MeshTyped, ReportInv, NEW n \in Nodes, NEW p, p.type # "delivered",
         Transmits(n, <<p>>), UNCHANGED <<mode, taken, rx>>,
         \A m \in Nodes : OneEach(orders'[m]) /\ IdsOf(orders'[m]) \subseteq taken'[m],
         \A m \in Nodes : \A k \in DOMAIN requests'[m] :
           requests'[m][k].acked =>
             \E j \in DOMAIN requests[m] :
               requests[m][j].acked /\ requests[m][j].id = requests'[m][k].id
  PROVE  ReportInv'
<1>1. PICK one : one = <<p>>
  OBVIOUS
<1>2. \A k \in DOMAIN one : one[k] = p
  BY <1>1, SingleElement
<1>3. tx' = [tx EXCEPT ![n] = one]
  BY <1>1, Zenon DEF Transmits
<1>4. \A m \in Nodes : tx'[m] = IF m = n THEN one ELSE tx[m]
  BY <1>3 DEF MeshTyped, PagerTyped, AirTyped
<1>5. Listed' = Listed
  BY DEF Listed
<1>6. \A m \in Nodes : \A k \in DOMAIN tx'[m] :
        tx'[m][k].type = "delivered" => tx'[m][k].id \in Listed'
  BY <1>2, <1>4, <1>5 DEF ReportInv
<1> QED
  BY <1>6, ReportKept DEF ReportInv

LEMMA ReportOrder ==
  ASSUME MeshTyped, ReportInv, NEW n \in Nodes, NEW id \in Ids, Order(n, id)
  PROVE  ReportInv'
<1> DEFINE p == Packet("order", id, prefs[n].zone)
           new == [id |-> id, acked |-> FALSE]
           list == Append(requests[n], new)
<1>1. /\ Transmits(n, <<p>>) /\ UNCHANGED <<mode, taken, rx, orders>>
      /\ requests' = [requests EXCEPT ![n] = LastOf(list, MaxRequests)]
  BY DEF Order, CreateOrder
<1>2. p.type # "delivered"
  BY DEF Packet
<1>3. /\ list \in Seq(Requests)
      /\ \A k \in DOMAIN list : (k \in DOMAIN requests[n] /\ list[k] = requests[n][k])
                                \/ ~list[k].acked
  <2>1. requests[n] \in Seq(Requests) /\ new \in Requests /\ ~new.acked
    BY DEF MeshTyped, PagerTyped, MemoryTyped, Requests
  <2> HIDE DEF new
  <2> QED
    BY <2>1, AppendElements, TypedEnds
<1> HIDE DEF list
<1>4. \A k \in DOMAIN LastOf(list, MaxRequests) :
        \E j \in DOMAIN list : LastOf(list, MaxRequests)[k] = list[j]
  <2>1. CASE Len(list) > MaxRequests
    <3>1. list # <<>>
      BY <1>3, <2>1, EmptySeq, MeshPagerAssumption
    <3> QED
      BY <1>3, <2>1, <3>1, TailElements DEF LastOf
  <2>2. CASE ~(Len(list) > MaxRequests)
    BY <2>2 DEF LastOf
  <2> QED
    BY <2>1, <2>2
<1>5. ASSUME NEW m \in Nodes, NEW k \in DOMAIN requests'[m], requests'[m][k].acked
      PROVE  \E j \in DOMAIN requests[m] :
               requests[m][j].acked /\ requests[m][j].id = requests'[m][k].id
  <2>1. requests'[m] = IF m = n THEN LastOf(list, MaxRequests) ELSE requests[m]
    BY <1>1 DEF MeshTyped, PagerTyped, MemoryTyped
  <2> QED
    BY <1>3, <1>4, <1>5, <2>1
<1>6. \A m \in Nodes : OneEach(orders'[m]) /\ IdsOf(orders'[m]) \subseteq taken'[m]
  BY <1>1 DEF ReportInv
<1> HIDE DEF p
<1> QED
  BY <1>1, <1>2, <1>5, <1>6, ReportOne

LEMMA ReportDrive ==
  ASSUME MeshTyped, ReportInv, NEW n \in Nodes, Drive(n)
  PROVE  ReportInv'
<1>1. UNCHANGED <<mode, taken, rx, requests>>
  BY DEF Drive, AckSelected, ClearSelected
<1>2. PICK p : p.type # "delivered" /\ Transmits(n, <<p>>)
  <2> DEFINE order == orders[n][sel[n] + 1]
  <2>1. /\ Packet("ack", order.id, order.zone).type # "delivered"
        /\ Packet("clear", order.id, order.zone).type # "delivered"
    BY DEF Packet
  <2> QED
    BY <2>1 DEF Drive, AckSelected, ClearSelected
<1>3. \E list \in Seq(Orders) : /\ OneEach(list) /\ IdsOf(list) \subseteq IdsOf(orders[n])
                                /\ orders' = [orders EXCEPT ![n] = list]
  <2>1. CASE AckSelected(n)
    <3>1. PICK list \in Seq(Orders) : SameIds(orders[n], list) /\ Saves(n, list)
      BY <2>1, AckLists DEF MeshTyped
    <3>2. OneEach(list) /\ IdsOf(list) \subseteq IdsOf(orders[n])
      BY <3>1, SameIdsKept DEF ReportInv
    <3> QED
      BY <3>1, <3>2 DEF Saves, Lists
  <2>2. CASE ClearSelected(n)
    <3> DEFINE list == RemoveAt(orders[n], sel[n] + 1)
    <3>1. list \in Seq(Orders) /\ Saves(n, list) /\ sel[n] + 1 \in 1 .. Len(orders[n])
      BY <2>2, ClearLists DEF MeshTyped
    <3>2. orders[n] \in Seq(Orders) /\ OneEach(orders[n])
      BY DEF MeshTyped, PagerTyped, ListsTyped, ReportInv
    <3>3. OneEach(list) /\ IdsOf(list) \subseteq IdsOf(orders[n])
      BY <3>1, <3>2, RemoveIds
    <3> QED
      BY <3>1, <3>3 DEF Saves, Lists
  <2> QED
    BY <2>1, <2>2 DEF Drive
<1>4. \A m \in Nodes : OneEach(orders'[m]) /\ IdsOf(orders'[m]) \subseteq taken'[m]
  BY <1>1, <1>3 DEF ReportInv, MeshTyped, PagerTyped, ListsTyped
<1> QED
  BY <1>1, <1>2, <1>4, ReportOne

LEMMA ReportBeacon ==
  ASSUME MeshTyped, ReportInv, NEW n \in Nodes, Beacon(n)
  PROVE  ReportInv'
<1> DEFINE p == Packet("boot", 0, prefs[n].zone)
<1>1. Transmits(n, <<p>>) /\ UNCHANGED <<mode, taken, rx, orders, requests>>
  BY DEF Beacon, SendBoot
<1>2. p.type # "delivered"
  BY DEF Packet
<1>3. \A m \in Nodes : OneEach(orders'[m]) /\ IdsOf(orders'[m]) \subseteq taken'[m]
  BY <1>1 DEF ReportInv
<1> HIDE DEF p
<1> QED
  BY <1>1, <1>2, <1>3, ReportOne

\* A list with every order once has room for one that it does not hold.
LEMMA RoomSuffices ==
  ASSUME RoomForAll PROVE MeshTyped /\ ReportInv => ListsHaveRoom
<1> SUFFICES ASSUME MeshTyped, ReportInv, NEW n \in Nodes, rx[n] # <<>>,
                    NEW p, p = Head(rx[n]), ForUs(n, p), ~Exists(n, p.id)
             PROVE  Len(orders[n]) < MaxOrders
  BY DEF ListsHaveRoom
<1>1. orders[n] \in Seq(Orders) /\ Len(orders[n]) \in Nat /\ OneEach(orders[n])
  BY LenProperties DEF MeshTyped, PagerTyped, ListsTyped, ReportInv
<1>2. p \in AirPackets
  BY TypedEnds DEF MeshTyped
<1>3. p.id \in Ids /\ p.id \notin IdsOf(orders[n])
  BY <1>2 DEF ForUs, AirPackets, Exists
<1>4. Len(orders[n]) < Cardinality(Ids)
  BY <1>1, <1>3, RoomInList DEF RoomForAll
<1>5. Cardinality(Ids) \in Nat /\ MaxOrders \in Nat
  BY FS_CardinalityType, MeshPagerAssumption DEF RoomForAll
<1> QED
  BY <1>1, <1>4, <1>5 DEF RoomForAll

\* A pager that takes an order, or reports one without listing it, has it on
\* its list, for there is room.
LEMMA ReportListed ==
  ASSUME ListsHaveRoom, MeshTyped, ReportInv, NEW n \in Nodes, NEW p \in AirPackets,
         rx[n] # <<>>, p = Head(rx[n]), Process(n, p)
  PROVE  /\ \A m \in Nodes : OneEach(orders'[m])
         /\ \A m \in Nodes \ {n} : IdsOf(orders'[m]) = IdsOf(orders[m])
         /\ IdsOf(orders[n]) \subseteq IdsOf(orders'[n]) /\ IdsOf(orders'[n]) \subseteq Ids
         /\ Fresh(n, p) /\ ForUs(n, p) => p.id \in IdsOf(orders'[n])
<1>1. /\ orders[n] \in Seq(Orders) /\ Len(orders[n]) \in Nat /\ OneEach(orders[n])
      /\ orders \in [Nodes -> Seq(Orders)] /\ orders' \in [Nodes -> Seq(Orders)]
  BY ProcessTyped, LenProperties DEF MeshTyped, PagerTyped, ListsTyped, ReportInv
<1>2. CASE TakesOrder(n, p)
  <2>1. PICK order \in Orders :
          /\ order.id = p.id /\ p.id \notin IdsOf(orders[n])
          /\ orders' = [orders EXCEPT ![n] = Append(orders[n], order)]
    BY <1>2 DEF TakesOrder
  <2>2. /\ IdsOf(Append(orders[n], order)) = IdsOf(orders[n]) \cup {order.id}
        /\ OneEach(Append(orders[n], order))
    BY <1>1, <2>1, AppendIds
  <2>3. /\ orders'[n] = Append(orders[n], order)
        /\ \A m \in Nodes \ {n} : orders'[m] = orders[m]
    BY <1>1, <2>1
  <2>4. IdsOf(orders'[n]) \subseteq Ids
    BY <1>1, IdsTyped
  <2> QED
    BY <2>1, <2>2, <2>3, <2>4 DEF ReportInv
<1>3. CASE /\ \A m \in Nodes : SameIds(orders[m], orders'[m])
           /\ Fresh(n, p) /\ ForUs(n, p) =>
                p.id \in IdsOf(orders[n]) \/ ~(Len(orders[n]) < MaxOrders)
  <2>1. \A m \in Nodes : IdsOf(orders'[m]) = IdsOf(orders[m]) /\ OneEach(orders'[m])
    BY <1>3, SameIdsKept DEF ReportInv
  <2>2. ASSUME Fresh(n, p), ForUs(n, p), p.id \notin IdsOf(orders[n])
        PROVE  Len(orders[n]) < MaxOrders
    BY <2>2 DEF ListsHaveRoom, Exists
  <2>3. IdsOf(orders'[n]) \subseteq Ids
    BY <1>1, IdsTyped
  <2> QED
    BY <1>3, <2>1, <2>2, <2>3
<1> QED
  BY <1>2, <1>3, ProcessLists DEF MeshTyped

LEMMA ReportHear ==
  ASSUME ListsHaveRoom, MeshTyped, ReportInv, NEW n \in Nodes, Hear(n)
  PROVE  ReportInv'
<1> DEFINE p == Head(rx[n])
<1>1. /\ p \in AirPackets /\ Process(n, p) /\ rx[n] # <<>> /\ rx[n] \in Seq(AirPackets)
      /\ rx' = [rx EXCEPT ![n] = Tail(rx[n])]
      /\ taken' = [taken EXCEPT ![n] = taken[n] \cup IdsOf(orders'[n])]
  BY HearTyped DEF Hear, MeshTyped
<1>2. /\ p = rx[n][1] /\ 1 \in DOMAIN rx[n]
      /\ \A k \in DOMAIN Tail(rx[n]) : k + 1 \in DOMAIN rx[n] /\ Tail(rx[n])[k] = rx[n][k + 1]
  BY <1>1, TailElements
<1>3. /\ \A m \in Nodes : OneEach(orders'[m])
      /\ \A m \in Nodes \ {n} : IdsOf(orders'[m]) = IdsOf(orders[m])
      /\ IdsOf(orders[n]) \subseteq IdsOf(orders'[n]) /\ IdsOf(orders'[n]) \subseteq Ids
      /\ Fresh(n, p) /\ ForUs(n, p) => p.id \in IdsOf(orders'[n])
  BY <1>1, ReportListed
<1> HIDE DEF p
<1>4. /\ taken' \in [Nodes -> SUBSET Ids] /\ mode' = mode
      /\ \A m \in Nodes : taken[m] \subseteq taken'[m]
      /\ \A m \in Nodes : IdsOf(orders'[m]) \subseteq taken'[m]
  <2>1. mode' = mode
    BY <1>1 DEF Process, DropSeen, TakeOrder, NoteStatus, NoteDelivered, PassOn
  <2>2. taken'[n] = taken[n] \cup IdsOf(orders'[n]) /\ \A m \in Nodes \ {n} : taken'[m] = taken[m]
    BY <1>1 DEF ReportInv
  <2>3. taken' \in [Nodes -> SUBSET Ids]
    BY <1>1, <1>3 DEF ReportInv
  <2> QED
    BY <1>3, <2>1, <2>2, <2>3 DEF ReportInv
<1>5. Listed \subseteq Listed'
  BY <1>4 DEF Listed
<1>6. \A m \in Nodes : \A k \in DOMAIN rx'[m] : \E j \in DOMAIN rx[m] : rx'[m][k] = rx[m][j]
  <2>1. rx'[n] = Tail(rx[n]) /\ \A m \in Nodes \ {n} : rx'[m] = rx[m]
    BY <1>1 DEF MeshTyped
  <2> QED
    BY <1>2, <2>1
<1>7. p.type = "delivered" => p.id \in Listed
  BY <1>2 DEF ReportInv
<1>8. \A k \in DOMAIN Relay(p) : Relay(p)[k].type = p.type /\ Relay(p)[k].id = p.id
  <2>1. CASE p.hop < MaxHops
    <3>1. Relay(p) = <<[p EXCEPT !.hop = p.hop + 1]>>
      BY <2>1 DEF Relay
    <3>2. /\ [p EXCEPT !.hop = p.hop + 1].type = p.type
          /\ [p EXCEPT !.hop = p.hop + 1].id = p.id
      BY <1>1 DEF AirPackets, Packets
    <3> QED
      BY <3>1, <3>2, SingleElement
  <2>2. CASE ~(p.hop < MaxHops)
    BY <2>2 DEF Relay
  <2> QED
    BY <2>1, <2>2
<1>9. ASSUME NEW k \in DOMAIN tx'[n], tx'[n][k].type = "delivered"
      PROVE  tx'[n][k].id \in Listed'
  <2>0. tx \in [Nodes -> Seq(AirPackets)]
    BY DEF MeshTyped, PagerTyped, AirTyped
  <2>1. CASE DropSeen(n, p)
    BY <1>9, <2>0, <2>1 DEF DropSeen, Transmits
  <2>2. CASE TakeOrder(n, p)
    <3> DEFINE reply == IF p.zone = 0 THEN <<>> ELSE <<Packet("delivered", p.id, p.zone)>>
    <3>1. tx'[n] = reply \o Relay(p)
      BY <2>0, <2>2 DEF TakeOrder, Transmits
    <3>2. p.id \in Ids /\ p.zone \in PagerZones \cup {0}
      BY <1>1, <2>2 DEF TakeOrder, ForUs, AirPackets, Packets
    <3>3. reply \in Seq(AirPackets) /\ Relay(p) \in Seq(AirPackets)
      <4>1. Packet("delivered", p.id, p.zone) \in AirPackets
        BY <3>2, PacketTyped
      <4> QED
        BY <1>1, <4>1, SingleTyped, EmptySeq, RelayTyped
    <3>4. \A j \in DOMAIN reply : reply[j].id = p.id
      <4>1. Packet("delivered", p.id, p.zone).id = p.id
        BY DEF Packet
      <4> QED
        BY <4>1, SingleElement
    <3> HIDE DEF reply
    <3>5. tx'[n][k].id = p.id
      BY <1>8, <1>9, <3>1, <3>3, <3>4, ConcatElements
    <3>6. p.id \in IdsOf(orders'[n]) /\ mode[n] = "tugger"
      BY <1>3, <2>2 DEF TakeOrder, ForUs
    <3>7. p.id \in taken'[n] /\ Roles[n] = "tugger"
      BY <1>4, <3>6 DEF ReportInv
    <3> QED
      BY <3>2, <3>5, <3>7 DEF Listed
  <2>3. CASE NoteStatus(n, p) \/ NoteDelivered(n, p) \/ PassOn(n, p)
    <3>1. tx'[n] = Relay(p)
      BY <2>0, <2>3 DEF NoteStatus, NoteDelivered, PassOn, Transmits
    <3> QED
      BY <1>5, <1>7, <1>8, <1>9, <3>1
  <2> QED
    BY <1>1, <2>1, <2>2, <2>3 DEF Process
<1>10. \A m \in Nodes : \A k \in DOMAIN tx'[m] :
         tx'[m][k].type = "delivered" => tx'[m][k].id \in Listed'
  <2>1. \A m \in Nodes \ {n} : tx'[m] = tx[m]
    BY <1>1 DEF Process, DropSeen, TakeOrder, NoteStatus, NoteDelivered, PassOn, Transmits,
                MeshTyped, PagerTyped, AirTyped
  <2> QED
    BY <1>5, <1>9, <2>1 DEF ReportInv
<1>11. ASSUME NEW m \in Nodes, NEW k \in DOMAIN requests'[m], requests'[m][k].acked
       PROVE  \/ requests'[m][k].id \in Listed'
              \/ \E j \in DOMAIN requests[m] :
                   requests[m][j].acked /\ requests[m][j].id = requests'[m][k].id
  <2>1. CASE NoteDelivered(n, p) /\ m = n
    <3>1. requests \in [Nodes -> Seq(Requests)]
      BY DEF MeshTyped, PagerTyped, MemoryTyped
    <3>2. requests'[n] = [j \in DOMAIN requests[n] |-> [requests[n][j] EXCEPT
                            !.acked = requests[n][j].acked \/ requests[n][j].id = p.id]]
      BY <2>1, <3>1 DEF NoteDelivered
    <3>3. \A j \in DOMAIN requests[n] : requests[n][j] \in Requests
      BY <3>1
    <3>4. k \in DOMAIN requests[n] /\ requests[n][k] \in Requests
      BY <1>11, <2>1, <3>2, <3>3
    <3>5. /\ requests'[n][k].id = requests[n][k].id
          /\ requests[n][k].acked \/ requests[n][k].id = p.id
      BY <1>11, <2>1, <3>2, <3>4 DEF Requests
    <3>6. p.type = "delivered"
      BY <2>1 DEF NoteDelivered
    <3> QED
      BY <1>5, <1>7, <2>1, <3>4, <3>5, <3>6
  <2>2. CASE ~(NoteDelivered(n, p) /\ m = n)
    <3>1. requests'[m] = requests[m]
      BY <1>1, <2>2 DEF Process, DropSeen, TakeOrder, NoteStatus, NoteDelivered, PassOn,
                        MeshTyped, PagerTyped, MemoryTyped
    <3> QED
      BY <1>11, <3>1
  <2> QED
    BY <2>1, <2>2
<1> QED
  BY <1>3, <1>4, <1>6, <1>10, <1>11, ReportKept

LEMMA ReportStep ==
  MeshTyped /\ ReportInv /\ ListsHaveRoom /\ [MeshNext]_meshVars => ReportInv'
<1> SUFFICES ASSUME MeshTyped, ReportInv, ListsHaveRoom, [MeshNext]_meshVars
             PROVE  ReportInv'
  OBVIOUS
<1>1. CASE UNCHANGED meshVars
  BY <1>1 DEF meshVars, pagerVars, ReportInv, AckIsTrue, Listed
<1>2. CASE MeshNext
  <2>1. PICK n \in Nodes : \/ Flood(n) \/ Drive(n) \/ Beacon(n)
                           \/ \E id \in Ids : Order(n, id)
    BY <1>2 DEF MeshNext
  <2>2. CASE Flood(n)
    BY <2>2, ReportHear, ReportTransmit DEF Flood
  <2>3. CASE Drive(n)
    BY <2>3, ReportDrive
  <2>4. CASE Beacon(n)
    BY <2>4, ReportBeacon
  <2>5. CASE \E id \in Ids : Order(n, id)
    BY <2>5, ReportOrder
  <2> QED
    BY <2>1, <2>2, <2>3, <2>4, <2>5
<1> QED
  BY <1>1, <1>2

LEMMA ReportInit == MeshInit => ReportInv
<1> SUFFICES ASSUME MeshInit PROVE ReportInv
  OBVIOUS
<1>1. PICK none : none = <<>>
  OBVIOUS
<1>2. DOMAIN none = {}
  BY <1>1
<1>3. /\ mode = Roles /\ taken = [n \in Nodes |-> {}]
      /\ orders = [n \in Nodes |-> none] /\ tx = [n \in Nodes |-> none]
      /\ rx = [n \in Nodes |-> none] /\ requests = [n \in Nodes |-> none]
  BY <1>1, Zenon DEF MeshInit, PagerInit
<1>4. IdsOf(none) = {} /\ OneEach(none)
  BY <1>2 DEF IdsOf, OneEach
<1> QED
  BY <1>2, <1>3, <1>4 DEF ReportInv, AckIsTrue

\* "[ACK]" on a line station is true in every mesh, lossy or not: the tugger
\* that listed the order did so before any report of it was on the air, unless
\* an order comes to a full list.
THEOREM AcksAreTrue == MeshSpec /\ []ListsHaveRoom => []AckIsTrue
<1>1. ReportInv => AckIsTrue
  BY DEF ReportInv
<1> QED
  BY <1>1, ReportInit, ReportStep, MeshTypedInvariant, PTL DEF MeshSpec

\* No list is ever full when there are no more orders than one has room for:
\* every list holds an order once.
LEMMA RoomAlways == ASSUME RoomForAll PROVE MeshSpec => []ListsHaveRoom
BY RoomSuffices, ReportInit, ReportStep, MeshTypedInvariant, PTL DEF MeshSpec

-----------------------------------------------------------------------------
(* An order spreads over a tree of pagers. *)

\* The tuggers that an order of the line station s is for.
TuggersFor(s) == {m \in Nodes : Roles[m] = "tugger" /\ Zone[m] = Zone[s]}

\* Ways to see the pagers as a tree with the root s: how many hops each is from
\* s, and over whom it hears of s.  An open pager hears of an order before it
\* hears anything else about it: no tugger of the zone, which reports an order
\* before it relays it, is on the way, and the hop limit does not end it.
Trees(s) ==
  {t \in [dist : [Nodes -> Nat], parent : [Nodes -> Nodes], open : SUBSET Nodes] :
     /\ t.dist[s] = 0
     /\ \A m \in Nodes \ {s} : /\ m \in Links[t.parent[m]]
                               /\ t.dist[m] = t.dist[t.parent[m]] + 1
     /\ \A n \in Nodes : \A m \in Links[n] :
          (m # s /\ t.parent[m] = n) \/ (n # s /\ t.parent[n] = m)
     /\ \A m \in t.open \ {s} :
          /\ t.parent[m] \in t.open
          /\ t.parent[m] = s \/ t.parent[m] \notin TuggersFor(s)
          /\ t.dist[m] <= MaxHops + 1
     /\ TuggersFor(s) \subseteq t.open}

TreeOf(s) == CHOOSE t : t \in Trees(s)

\* The copy of an order that is on the air h hops from the line station s.
Copy(s, id, h) == [type |-> "order", id |-> id, zone |-> Zone[s], hop |-> h]

\* p comes before everything else that q says about p's order.
Carries(q, p) ==
  \E k \in DOMAIN q : /\ q[k] = p
                      /\ \A j \in DOMAIN q : j < k => ~IsAbout(q[j], p.id)

Knows(m, s, id) == IF m = s THEN id \in made ELSE Contains(seen[m], id)

LEMMA CopyTyped ==
  ASSUME NEW s \in Nodes, NEW id \in Ids, NEW h \in 0 .. MaxHops
  PROVE  Copy(s, id, h) \in AirPackets /\ IsAbout(Copy(s, id, h), id)
BY MeshAssumption, MeshPagerAssumption DEF Copy, AirPackets, Packets, IsAbout

LEMMA CarriesAppend ==
  ASSUME NEW q \in Seq(AirPackets), NEW p \in AirPackets, NEW c \in AirPackets
  PROVE  /\ Carries(q, c) => Carries(Append(q, p), c)
         /\ p = c /\ ~About(q, c.id) => Carries(Append(q, p), c)
<1> DEFINE r == Append(q, p)
<1>1. /\ Len(q) \in Nat /\ DOMAIN q = 1 .. Len(q) /\ DOMAIN r = 1 .. Len(q) + 1
      /\ \A k \in 1 .. Len(q) : r[k] = q[k]
      /\ r[Len(q) + 1] = p
  BY LenProperties, AppendProperties
<1> HIDE DEF r
<1>2. ASSUME Carries(q, c) PROVE Carries(r, c)
  <2>1. PICK k \in DOMAIN q : q[k] = c /\ \A j \in DOMAIN q : j < k => ~IsAbout(q[j], c.id)
    BY <1>2 DEF Carries
  <2>2. k \in DOMAIN r /\ r[k] = c
    BY <1>1, <2>1
  <2>3. \A j \in DOMAIN r : j < k => j \in DOMAIN q /\ r[j] = q[j]
    BY <1>1
  <2> QED
    BY <2>1, <2>2, <2>3 DEF Carries
<1>3. ASSUME p = c, ~About(q, c.id) PROVE Carries(r, c)
  <2>1. Len(q) + 1 \in DOMAIN r /\ r[Len(q) + 1] = c
    BY <1>1, <1>3
  <2>2. \A j \in DOMAIN r : j < Len(q) + 1 => j \in DOMAIN q /\ r[j] = q[j]
    BY <1>1
  <2> QED
    BY <1>3, <2>1, <2>2 DEF Carries, About
<1> QED
  BY <1>2, <1>3 DEF r

LEMMA CarriesTail ==
  ASSUME NEW q \in Seq(AirPackets), q # <<>>, NEW c \in AirPackets, c.type # "boot", Carries(q, c)
  PROVE  IF IsAbout(Head(q), c.id) THEN Head(q) = c ELSE Carries(Tail(q), c)
<1> DEFINE r == Tail(q)
<1>1. /\ Len(q) \in Nat /\ Len(q) >= 1 /\ DOMAIN q = 1 .. Len(q)
      /\ DOMAIN r = 1 .. Len(q) - 1
      /\ \A j \in 1 .. Len(q) - 1 : r[j] = q[j + 1]
      /\ Head(q) = q[1]
  <2>1. /\ Head(q) = q[1] /\ r \in Seq(AirPackets) /\ Len(r) = Len(q) - 1
        /\ \A j \in 1 .. Len(r) : r[j] = q[j + 1]
    BY HeadTailProperties
  <2>2. Len(q) \in Nat /\ Len(q) >= 1 /\ DOMAIN q = 1 .. Len(q)
    BY EmptySeq, LenProperties
  <2> HIDE DEF r
  <2> QED
    BY <2>1, <2>2, LenProperties
<1> HIDE DEF r
<1>2. PICK k \in DOMAIN q : q[k] = c /\ \A j \in DOMAIN q : j < k => ~IsAbout(q[j], c.id)
  BY DEF Carries
<1>3. CASE k = 1
  BY <1>1, <1>2, <1>3 DEF IsAbout
<1>4. CASE k # 1
  <2>1. 1 \in DOMAIN q /\ 1 < k
    BY <1>1, <1>2, <1>4
  <2>2. ~IsAbout(Head(q), c.id)
    BY <1>1, <1>2, <2>1
  <2>3. k - 1 \in DOMAIN r /\ r[k - 1] = c
    BY <1>1, <1>2, <2>1
  <2>4. \A j \in DOMAIN r : j < k - 1 => j + 1 \in DOMAIN q /\ j + 1 < k /\ r[j] = q[j + 1]
    BY <1>1, <2>1
  <2>5. Carries(r, c)
    BY <1>2, <2>3, <2>4 DEF Carries
  <2> QED
    BY <2>2, <2>5 DEF r
<1> QED
  BY <1>3, <1>4

LEMMA CarriesAbout ==
  ASSUME NEW q, NEW c, c.type # "boot", Carries(q, c)
  PROVE  About(q, c.id)
BY DEF Carries, About, IsAbout

LEMMA OneCarries == ASSUME NEW p PROVE Carries(<<p>>, p)
<1>1. PICK q : q = <<p>>
  OBVIOUS
<1>2. DOMAIN q = {1} /\ q[1] = p
  BY <1>1
<1> QED
  BY <1>1, <1>2 DEF Carries

-----------------------------------------------------------------------------
\* The pagers are in the modes and zones they were given, and remember the
\* packets they have seen; their lists hold what they have listed.
MeshBase ==
  /\ MeshTyped /\ NoneTwice /\ ReportInv
  /\ \A n \in Nodes : prefs[n].zone = Zone[n]

\* Nothing is said about an order that was not made, ...
TraceInv(s, id) ==
  /\ \A m \in Nodes : \/ Contains(seen[m], id) \/ About(tx[m], id)
                      \/ About(rx[m], id) \/ id \in IdsOf(orders[m])
                      => id \in made
  /\ id \in made => Roles[s] = "line"
\* ... nor by a pager that does not know it, ...
SourceInv(s, id) ==
  \A m \in Nodes : About(tx[m], id) \/ id \in IdsOf(orders[m]) => Knows(m, s, id)
\* ... and what a pager hears of it comes from the side of the line station.
TreeInv(s, id, t) ==
  \A m \in Nodes \ {s} :
    About(rx[m], id) \/ Knows(m, s, id) => Knows(t.parent[m], s, id)
\* An open pager whose parent knows the order and that does not know it has the
\* order coming to it, before all else that is said about it.
FrontInv(s, id, t) ==
  \A m \in t.open \ {s} :
    Knows(t.parent[m], s, id) /\ ~Knows(m, s, id) =>
      LET n == t.parent[m] IN
      \/ Carries(tx[n], Copy(s, id, t.dist[n])) /\ ~About(rx[m], id)
      \/ Carries(rx[m], Copy(s, id, t.dist[n]))
\* A tugger that knows the order has listed it.
TakenInv(s, id) ==
  \A m \in TuggersFor(s) \ {s} : Knows(m, s, id) => id \in taken[m]

FloodOf(s, id, t) ==
  /\ TraceInv(s, id) /\ SourceInv(s, id) /\ TreeInv(s, id, t)
  /\ FrontInv(s, id, t) /\ TakenInv(s, id)

\* What is so of a tree.
LEMMA TreeFacts ==
  ASSUME NEW s \in Nodes, NEW t \in Trees(s)
  PROVE  /\ t.dist \in [Nodes -> Nat] /\ t.parent \in [Nodes -> Nodes]
         /\ t.open \subseteq Nodes /\ t.dist[s] = 0
         /\ \A m \in Nodes \ {s} : /\ m \in Links[t.parent[m]] /\ t.parent[m] # m
                                   /\ t.dist[m] = t.dist[t.parent[m]] + 1
         /\ \A n \in Nodes : \A m \in Links[n] :
              (m # s /\ t.parent[m] = n) \/ (n # s /\ t.parent[n] = m)
         /\ \A m \in t.open \ {s} :
              /\ t.parent[m] \in t.open
              /\ t.parent[m] = s \/ t.parent[m] \notin TuggersFor(s)
              /\ t.dist[t.parent[m]] \in 0 .. MaxHops
         /\ TuggersFor(s) \subseteq t.open
<1> DEFINE T == [dist : [Nodes -> Nat], parent : [Nodes -> Nodes], open : SUBSET Nodes]
<1>1. t \in T
  BY DEF Trees
<1>2. t.dist \in [Nodes -> Nat] /\ t.parent \in [Nodes -> Nodes] /\ t.open \subseteq Nodes
  BY <1>1
<1> HIDE DEF T
<1>3. /\ t.dist[s] = 0
      /\ \A m \in Nodes \ {s} : m \in Links[t.parent[m]] /\ t.dist[m] = t.dist[t.parent[m]] + 1
      /\ \A n \in Nodes : \A m \in Links[n] :
           (m # s /\ t.parent[m] = n) \/ (n # s /\ t.parent[n] = m)
      /\ TuggersFor(s) \subseteq t.open
      /\ \A m \in t.open \ {s} : /\ t.parent[m] \in t.open
                                 /\ t.parent[m] = s \/ t.parent[m] \notin TuggersFor(s)
                                 /\ t.dist[m] <= MaxHops + 1
  BY DEF Trees
<1>4. \A m \in Nodes \ {s} : t.parent[m] # m
  BY <1>2, <1>3
<1>5. \A m \in t.open \ {s} : t.dist[t.parent[m]] \in 0 .. MaxHops
  BY <1>2, <1>3, MeshPagerAssumption
<1> QED
  BY <1>2, <1>3, <1>4, <1>5

LEMMA FrontTyped ==
  ASSUME NEW s \in Nodes, NEW id \in Ids, NEW t \in Trees(s), NEW m \in t.open \ {s}
  PROVE  LET c == Copy(s, id, t.dist[t.parent[m]]) IN
         c \in AirPackets /\ IsAbout(c, id) /\ c.id = id /\ c.type # "boot"
<1>1. t.dist[t.parent[m]] \in 0 .. MaxHops
  BY TreeFacts
<1> QED
  BY <1>1, CopyTyped DEF IsAbout

\* A pager sends one packet of its own, about an order only if it lists it.
LEMMA FloodSends ==
  ASSUME MeshBase, NEW s \in Nodes, NEW id \in Ids, NEW t \in Trees(s), FloodOf(s, id, t),
         NEW n \in Nodes, Idle(n), NEW p, Transmits(n, <<p>>),
         IsAbout(p, id) => id \in IdsOf(orders[n]),
         \A m \in Nodes : IdsOf(orders'[m]) \subseteq IdsOf(orders[m]),
         UNCHANGED <<seen, rx, taken>>, id \in made' <=> id \in made
  PROVE  FloodOf(s, id, t)'
<1>1. \A m \in Nodes : Knows(m, s, id)' <=> Knows(m, s, id)
  BY DEF Knows
<1>3. /\ \A m \in Nodes \ {n} : tx'[m] = tx[m]
      /\ About(tx'[n], id) => id \in IdsOf(orders[n])
  BY SendsOne DEF MeshBase
<1>5. ASSUME NEW m \in Nodes, About(tx'[m], id)
      PROVE  About(tx[m], id) \/ id \in IdsOf(orders[m])
  BY <1>3, <1>5
<1>6. TraceInv(s, id)'
  BY <1>5 DEF FloodOf, TraceInv
<1>7. SourceInv(s, id)'
  BY <1>1, <1>5 DEF FloodOf, SourceInv
<1>8. TreeInv(s, id, t)'
  BY <1>1, TreeFacts DEF FloodOf, TreeInv
<1>9. FrontInv(s, id, t)'
  <2> SUFFICES ASSUME NEW m \in t.open \ {s}, Knows(t.parent[m], s, id)', ~Knows(m, s, id)'
               PROVE  \/ Carries(tx'[t.parent[m]], Copy(s, id, t.dist[t.parent[m]]))
                         /\ ~About(rx'[m], id)
                      \/ Carries(rx'[m], Copy(s, id, t.dist[t.parent[m]]))
    BY DEF FrontInv
  <2> DEFINE q == t.parent[m]
             c == Copy(s, id, t.dist[q])
  <2>1. m \in Nodes /\ q \in Nodes
    BY TreeFacts
  <2>2. (Carries(tx[q], c) /\ ~About(rx[m], id)) \/ Carries(rx[m], c)
    BY <1>1, <2>1 DEF FloodOf, FrontInv
  <2>3. CASE q = n
    <3>1. ~Carries(tx[q], c)
      BY <2>3 DEF Idle, Carries
    <3> QED
      BY <2>2, <3>1
  <2>4. CASE q # n
    BY <1>3, <2>1, <2>2, <2>4
  <2> QED
    BY <2>3, <2>4
<1>10. TakenInv(s, id)'
  BY <1>1 DEF FloodOf, TakenInv, TuggersFor
<1> QED
  BY <1>6, <1>7, <1>8, <1>9, <1>10 DEF FloodOf

\* The line station makes the order.
LEMMA FloodStarts ==
  ASSUME MeshBase, NEW s \in Nodes, NEW id \in Ids, NEW t \in Trees(s), FloodOf(s, id, t),
         Order(s, id)
  PROVE  FloodOf(s, id, t)'
<1>1. /\ id \notin made /\ made' = made \cup {id} /\ mode[s] = "line"
      /\ UNCHANGED <<seen, rx, taken, orders>>
      /\ Transmits(s, <<Packet("order", id, prefs[s].zone)>>)
  BY DEF Order, CreateOrder
<1>2. Packet("order", id, prefs[s].zone) = Copy(s, id, t.dist[s])
  BY TreeFacts DEF MeshBase, Packet, Copy
<1> DEFINE c == Copy(s, id, t.dist[s])
<1>3. PICK one : one = <<c>>
  OBVIOUS
<1>4. \A m \in Nodes : tx'[m] = IF m = s THEN one ELSE tx[m]
  <2>1. tx' = [tx EXCEPT ![s] = one]
    BY <1>1, <1>2, <1>3, Zenon DEF Transmits
  <2> QED
    BY <2>1 DEF MeshBase, MeshTyped, PagerTyped, AirTyped
<1>5. Carries(one, c)
  BY <1>3, OneCarries
<1>6. \A m \in Nodes : /\ ~Contains(seen[m], id) /\ ~About(tx[m], id)
                       /\ ~About(rx[m], id) /\ id \notin IdsOf(orders[m])
  BY <1>1 DEF FloodOf, TraceInv
<1>7. \A m \in Nodes : Knows(m, s, id)' <=> m = s
  BY <1>1, <1>6 DEF Knows
<1>8. TraceInv(s, id)'
  BY <1>1 DEF TraceInv, MeshBase, ReportInv
<1>9. SourceInv(s, id)'
  BY <1>1, <1>4, <1>6, <1>7 DEF SourceInv
<1>10. TreeInv(s, id, t)'
  BY <1>1, <1>6, <1>7 DEF TreeInv
<1>11. FrontInv(s, id, t)'
  <2> SUFFICES ASSUME NEW m \in t.open \ {s}, Knows(t.parent[m], s, id)'
               PROVE  Carries(tx'[t.parent[m]], Copy(s, id, t.dist[t.parent[m]]))
                      /\ ~About(rx'[m], id)
    BY DEF FrontInv
  <2>1. m \in Nodes /\ t.parent[m] = s
    BY <1>7, TreeFacts
  <2> QED
    BY <1>1, <1>4, <1>5, <1>6, <2>1
<1>12. TakenInv(s, id)'
  BY <1>7 DEF TakenInv, TuggersFor
<1> QED
  BY <1>8, <1>9, <1>10, <1>11, <1>12 DEF FloodOf

\* Nothing is lost: every pager in reach keeps the packet that is on the air.
NothingLost ==
  \A n \in Nodes, hearers \in SUBSET Nodes : Transmit(n, hearers) =>
    hearers = Links[n] /\ \A m \in hearers : Len(rx[m]) < RadioKeeps

LEMMA FloodTransmit ==
  ASSUME MeshBase, NEW s \in Nodes, NEW id \in Ids, NEW t \in Trees(s), FloodOf(s, id, t),
         NEW n \in Nodes, NEW hearers \in SUBSET Nodes, Transmit(n, hearers), NothingLost
  PROVE  FloodOf(s, id, t)'
<1> DEFINE first == Head(tx[n])
           rest  == Tail(tx[n])
<1>1. /\ tx \in [Nodes -> Seq(AirPackets)] /\ rx \in [Nodes -> Seq(AirPackets)]
      /\ tx[n] # <<>> /\ first \in AirPackets /\ rest \in Seq(AirPackets)
  <2>1. tx \in [Nodes -> Seq(AirPackets)] /\ rx \in [Nodes -> Seq(AirPackets)] /\ tx[n] # <<>>
    BY DEF MeshBase, MeshTyped, PagerTyped, AirTyped, Transmit, Idle
  <2> QED
    BY <2>1, TypedEnds
<1>2. UNCHANGED <<seen, orders, taken, made>>
  BY DEF Transmit
<1>3. \A m \in Nodes : tx'[m] = IF m = n THEN rest ELSE tx[m]
  <2>1. tx' = [tx EXCEPT ![n] = rest]
    BY DEF Transmit, Transmits
  <2> HIDE DEF rest
  <2> QED
    BY <1>1, <2>1
<1>4. \A m \in Nodes : rx'[m] = IF m \in Links[n] THEN Append(rx[m], first) ELSE rx[m]
  <2>1. hearers = Links[n] /\ \A m \in hearers : Len(rx[m]) < RadioKeeps
    BY DEF NothingLost
  <2>2. \A m \in Nodes : rx'[m] = IF m \in hearers THEN Keep(rx[m], first) ELSE rx[m]
    BY DEF Transmit
  <2> HIDE DEF first
  <2> QED
    BY <2>1, <2>2 DEF Keep
<1>5. /\ About(rest, id) => About(tx[n], id)
      /\ IsAbout(first, id) => About(tx[n], id)
  BY <1>1, AboutTail
<1>6. \A c \in AirPackets : c.type # "boot" /\ Carries(tx[n], c) =>
        IF IsAbout(first, c.id) THEN first = c ELSE Carries(rest, c)
  BY <1>1, CarriesTail
<1> HIDE DEF first, rest
<1>7. \A m \in Nodes : Knows(m, s, id)' <=> Knows(m, s, id)
  BY <1>2 DEF Knows
<1>8. \A m \in Nodes : About(tx'[m], id) => About(tx[m], id)
  BY <1>3, <1>5
<1>9. \A m \in Nodes : About(rx'[m], id) =>
        About(rx[m], id) \/ (m \in Links[n] /\ IsAbout(first, id))
  <2> SUFFICES ASSUME NEW m \in Nodes, About(rx'[m], id)
               PROVE  About(rx[m], id) \/ (m \in Links[n] /\ IsAbout(first, id))
    OBVIOUS
  <2>1. rx[m] \in Seq(AirPackets)
    BY <1>1
  <2> QED
    BY <1>1, <1>4, <2>1, AboutAppend
<1>10. TraceInv(s, id)'
  BY <1>2, <1>5, <1>8, <1>9 DEF FloodOf, TraceInv
<1>11. SourceInv(s, id)'
  BY <1>2, <1>7, <1>8 DEF FloodOf, SourceInv
<1>12. TreeInv(s, id, t)'
  <2> SUFFICES ASSUME NEW m \in Nodes \ {s}, About(rx'[m], id) \/ Knows(m, s, id)
               PROVE  Knows(t.parent[m], s, id)
    BY <1>7, TreeFacts DEF TreeInv
  <2>1. CASE About(rx[m], id) \/ Knows(m, s, id)
    BY <2>1 DEF FloodOf, TreeInv
  <2>2. CASE m \in Links[n] /\ IsAbout(first, id) /\ ~Knows(m, s, id)
    <3>1. Knows(n, s, id)
      BY <1>5, <2>2 DEF FloodOf, SourceInv
    <3>2. t.parent[m] = n \/ (n # s /\ t.parent[n] = m)
      BY <2>2, TreeFacts
    <3> QED
      BY <2>2, <3>1, <3>2 DEF FloodOf, TreeInv
  <2> QED
    BY <1>9, <2>1, <2>2
<1>13. FrontInv(s, id, t)'
  <2> SUFFICES ASSUME NEW m \in t.open \ {s}, Knows(t.parent[m], s, id), ~Knows(m, s, id)
               PROVE  \/ Carries(tx'[t.parent[m]], Copy(s, id, t.dist[t.parent[m]]))
                         /\ ~About(rx'[m], id)
                      \/ Carries(rx'[m], Copy(s, id, t.dist[t.parent[m]]))
    BY <1>7, TreeFacts DEF FrontInv
  <2> DEFINE q == t.parent[m]
             c == Copy(s, id, t.dist[q])
  <2>1. /\ m \in Nodes /\ q \in Nodes /\ m \in Links[q]
        /\ c \in AirPackets /\ c.id = id /\ c.type # "boot"
        /\ rx[m] \in Seq(AirPackets)
    BY <1>1, TreeFacts, FrontTyped
  <2>2. (Carries(tx[q], c) /\ ~About(rx[m], id)) \/ Carries(rx[m], c)
    BY DEF FloodOf, FrontInv
  <2>3. Carries(rx[m], c) => Carries(rx'[m], c)
    <3> HIDE DEF c
    <3>1. Carries(rx[m], c) => Carries(Append(rx[m], first), c)
      BY <1>1, <2>1, CarriesAppend
    <3>2. rx'[m] = Append(rx[m], first) \/ rx'[m] = rx[m]
      BY <1>4, <2>1
    <3> QED
      BY <3>1, <3>2
  <2>4. CASE Carries(tx[q], c) /\ ~About(rx[m], id) /\ q = n
    <3>1. CASE IsAbout(first, id)
      <4>1. first = c /\ rx'[m] = Append(rx[m], first)
        BY <1>4, <1>6, <2>1, <2>4, <3>1
      <4> QED
        BY <1>1, <2>1, <2>4, <4>1, CarriesAppend
    <3>2. CASE ~IsAbout(first, id)
      <4>1. Carries(tx'[q], c)
        BY <1>3, <1>6, <2>1, <2>4, <3>2
      <4> QED
        BY <1>9, <2>1, <2>4, <3>2, <4>1
    <3> QED
      BY <3>1, <3>2
  <2>5. CASE Carries(tx[q], c) /\ ~About(rx[m], id) /\ q # n
    <3>1. ~(m \in Links[n] /\ IsAbout(first, id))
      <4> SUFFICES ASSUME m \in Links[n], IsAbout(first, id) PROVE FALSE
        OBVIOUS
      <4>1. n # s /\ t.parent[n] = m
        BY <2>5, TreeFacts
      <4>2. Knows(n, s, id)
        BY <1>5 DEF FloodOf, SourceInv
      <4> QED
        BY <4>1, <4>2 DEF FloodOf, TreeInv
    <3> QED
      BY <1>3, <1>9, <2>1, <2>5, <3>1
  <2> QED
    BY <2>2, <2>3, <2>4, <2>5
<1>14. TakenInv(s, id)'
  BY <1>2, <1>7 DEF FloodOf, TakenInv, TuggersFor
<1> QED
  BY <1>10, <1>11, <1>12, <1>13, <1>14 DEF FloodOf

-----------------------------------------------------------------------------
\* The order goes one hop further.
LEMMA CopyRelayed ==
  ASSUME NEW s \in Nodes, NEW id \in Ids, NEW h \in Nat, h < MaxHops
  PROVE  Relay(Copy(s, id, h)) = <<Copy(s, id, h + 1)>>
BY DEF Relay, Copy

LEMMA FloodHear ==
  ASSUME ListsHaveRoom, MeshBase, NEW s \in Nodes, NEW id \in Ids, NEW t \in Trees(s),
         FloodOf(s, id, t), NEW n \in Nodes, Hear(n),
         \A m \in Nodes : Contains(seen[m], id) => Contains(seen'[m], id)
  PROVE  FloodOf(s, id, t)'
<1> DEFINE p == Head(rx[n])
<1>1. /\ p \in AirPackets /\ Process(n, p) /\ Idle(n) /\ made' = made
      /\ rx \in [Nodes -> Seq(AirPackets)] /\ rx[n] # <<>>
      /\ rx' = [rx EXCEPT ![n] = Tail(rx[n])]
      /\ taken' = [taken EXCEPT ![n] = taken[n] \cup IdsOf(orders'[n])]
  BY HearTyped DEF Hear, MeshBase, MeshTyped
<1>2. /\ IsAbout(p, id) => About(rx[n], id)
      /\ About(Tail(rx[n]), id) => About(rx[n], id)
      /\ \A c \in AirPackets : c.type # "boot" /\ Carries(rx[n], c) =>
           IF IsAbout(p, c.id) THEN p = c ELSE Carries(Tail(rx[n]), c)
  <2>1. rx[n] \in Seq(AirPackets)
    BY <1>1
  <2> QED
    BY <1>1, <2>1, AboutTail, CarriesTail
<1>3. rx'[n] = Tail(rx[n]) /\ \A m \in Nodes \ {n} : rx'[m] = rx[m]
  BY <1>1
<1>r. Fresh(n, p) /\ ForUs(n, p) => p.id \in IdsOf(orders'[n])
  BY <1>1, ReportListed DEF MeshBase
<1> HIDE DEF p
<1>4. \A m \in Nodes : Knows(m, s, id)' <=> Knows(m, s, id) \/ (m = n /\ n # s /\ IsAbout(p, id))
  BY <1>1, SeenChange DEF Knows, MeshBase, NoneTwice
<1>5. \A m \in Nodes : Contains(seen'[m], id) => Contains(seen[m], id) \/ (m = n /\ IsAbout(p, id))
  BY <1>1, SeenChange DEF MeshBase, NoneTwice
<1>6. /\ \A m \in Nodes \ {n} : tx'[m] = tx[m]
      /\ About(tx'[n], id) => IsAbout(p, id)
      /\ Fresh(n, p) /\ p.type = "order" /\ ~ForUs(n, p) => tx'[n] = Relay(p)
  BY <1>1, HearAir DEF MeshBase
<1>7. ASSUME NEW m \in Nodes, id \in IdsOf(orders'[m])
      PROVE  id \in IdsOf(orders[m]) \/ (m = n /\ IsAbout(p, id))
  BY <1>1, <1>7, HearLists DEF MeshBase
<1>8. \A m \in Nodes : About(rx'[m], id) => About(rx[m], id)
  BY <1>2, <1>3
<1>9. \A m \in Nodes : About(tx'[m], id) => About(tx[m], id) \/ (m = n /\ IsAbout(p, id))
  BY <1>6
\* The first that an open pager hears of an order is the order.
<1>10. ASSUME n \in t.open \ {s}, IsAbout(p, id), ~Knows(n, s, id)
       PROVE  p = Copy(s, id, t.dist[t.parent[n]]) /\ Fresh(n, p)
  <2> DEFINE c == Copy(s, id, t.dist[t.parent[n]])
  <2>1. c \in AirPackets /\ c.id = id /\ c.type # "boot"
    BY <1>10, FrontTyped
  <2>2. Knows(t.parent[n], s, id)
    BY <1>2, <1>10 DEF FloodOf, TreeInv
  <2>3. Carries(rx[n], c)
    BY <1>2, <1>10, <2>2 DEF FloodOf, FrontInv
  <2> HIDE DEF c
  <2>4. p = c
    BY <1>2, <1>10, <2>1, <2>3
  <2>5. Fresh(n, p)
    BY <1>10 DEF Knows, Fresh, IsAbout
  <2> QED
    BY <2>4, <2>5 DEF c
<1>11. TraceInv(s, id)'
  BY <1>1, <1>2, <1>5, <1>7, <1>8, <1>9 DEF FloodOf, TraceInv
<1>12. SourceInv(s, id)'
  <2>1. IsAbout(p, id) => id \in made
    BY <1>2 DEF FloodOf, TraceInv
  <2>2. ASSUME IsAbout(p, id) PROVE Knows(n, s, id)'
    BY <1>1, <1>4, <2>1, <2>2 DEF Knows
  <2> QED
    BY <1>4, <1>7, <1>9, <2>2 DEF FloodOf, SourceInv
<1>13. TreeInv(s, id, t)'
  BY <1>2, <1>4, <1>8, TreeFacts DEF FloodOf, TreeInv
<1>14. FrontInv(s, id, t)'
  <2> SUFFICES ASSUME NEW m \in t.open \ {s}, Knows(t.parent[m], s, id)', ~Knows(m, s, id)'
               PROVE  \/ Carries(tx'[t.parent[m]], Copy(s, id, t.dist[t.parent[m]]))
                         /\ ~About(rx'[m], id)
                      \/ Carries(rx'[m], Copy(s, id, t.dist[t.parent[m]]))
    BY DEF FrontInv
  <2> DEFINE q == t.parent[m]
             c == Copy(s, id, t.dist[q])
  <2>1. /\ m \in Nodes /\ q \in Nodes /\ q # m /\ m # s
        /\ c \in AirPackets /\ c.id = id /\ c.type # "boot"
    BY TreeFacts, FrontTyped
  <2>2. ~Knows(m, s, id) /\ (m = n => ~IsAbout(p, id))
    BY <1>4, <2>1
  <2>3. CASE Knows(q, s, id)
    <3>1. (Carries(tx[q], c) /\ ~About(rx[m], id)) \/ Carries(rx[m], c)
      BY <2>2, <2>3 DEF FloodOf, FrontInv
    <3> HIDE DEF c
    <3>2. Carries(rx[m], c) => Carries(rx'[m], c)
      BY <1>2, <1>3, <2>1, <2>2
    <3>3. Carries(tx[q], c) => tx'[q] = tx[q]
      <4>1. CASE q = n
        BY <1>1, <4>1 DEF Idle, Carries
      <4> QED
        BY <1>6, <2>1, <4>1
    <3> QED
      BY <1>8, <2>1, <3>1, <3>2, <3>3 DEF c
  <2>4. CASE ~Knows(q, s, id)
    <3>1. q = n /\ n # s /\ IsAbout(p, id)
      BY <1>4, <2>1, <2>4
    <3>2. n \in t.open \ {s} /\ n \notin TuggersFor(s)
      BY <3>1, TreeFacts
    <3>3. p = Copy(s, id, t.dist[t.parent[n]]) /\ Fresh(n, p)
      BY <1>10, <2>4, <3>1, <3>2
    <3>4. ~ForUs(n, p) /\ p.type = "order"
      BY <3>2, <3>3, MeshAssumption, MeshPagerAssumption
      DEF ForUs, TuggersFor, Copy, MeshBase, ReportInv
    <3>5. t.dist[n] = t.dist[t.parent[n]] + 1 /\ t.dist[t.parent[n]] \in Nat /\ t.dist[n] <= MaxHops
      BY <2>1, <3>1, <3>2, TreeFacts
    <3>6. Relay(p) = <<c>>
      BY <3>1, <3>3, <3>5, CopyRelayed, MeshPagerAssumption
    <3>7. Carries(tx'[q], c)
      BY <1>6, <3>1, <3>3, <3>4, <3>6, OneCarries
    <3>8. ~About(rx[m], id)
      BY <2>1, <2>4 DEF FloodOf, TreeInv
    <3> QED
      BY <1>8, <2>1, <3>7, <3>8
  <2> QED
    BY <2>3, <2>4
<1>15. TakenInv(s, id)'
  <2> SUFFICES ASSUME NEW m \in TuggersFor(s) \ {s}, Knows(m, s, id)' PROVE id \in taken'[m]
    BY DEF TakenInv, TuggersFor
  <2>1. m \in t.open /\ m \in Nodes
    BY TreeFacts
  <2>2. taken[m] \subseteq taken'[m] /\ taken'[n] = taken[n] \cup IdsOf(orders'[n])
    BY <1>1, <2>1 DEF MeshBase, ReportInv
  <2>3. CASE Knows(m, s, id)
    BY <2>2, <2>3 DEF FloodOf, TakenInv
  <2>4. CASE ~Knows(m, s, id)
    <3>1. m = n /\ IsAbout(p, id)
      BY <1>4, <2>1, <2>4
    <3>2. p = Copy(s, id, t.dist[t.parent[n]]) /\ Fresh(n, p)
      BY <1>10, <2>1, <2>4, <3>1
    <3>3. ForUs(n, p)
      BY <3>1, <3>2 DEF ForUs, TuggersFor, Copy, MeshBase, ReportInv
    <3>4. p.id \in IdsOf(orders'[n])
      BY <1>1, <1>r, <3>2, <3>3 DEF MeshBase
    <3> QED
      BY <2>2, <3>1, <3>4 DEF IsAbout
  <2> QED
    BY <2>3, <2>4
<1> QED
  BY <1>11, <1>12, <1>13, <1>14, <1>15 DEF FloodOf

-----------------------------------------------------------------------------
\* Every line station's orders are its own, and there is a tree to spread them.
OwnOrders == \A m, n \in Nodes : Makes[m] \cap Makes[n] # {} => m = n
InReach   == \A s \in Nodes : Makes[s] # {} => Trees(s) # {}

\* An order that is over is on the list of all its tuggers, or was.
Done(s, id) == Over(id) /\ \A m \in TuggersFor(s) : id \in taken[m]

FloodInv ==
  /\ MeshBase
  /\ \A s \in Nodes : \A id \in Makes[s] : FloodOf(s, id, TreeOf(s)) \/ Done(s, id)

LEMMA TreeIs ==
  ASSUME InReach, NEW s \in Nodes, NEW id \in Makes[s]
  PROVE  TreeOf(s) \in Trees(s) /\ id \in Ids
BY MeshAssumption DEF InReach, TreeOf

LEMMA FloodInit ==
  ASSUME InReach PROVE MeshInit /\ MeshBase => FloodInv
<1> SUFFICES ASSUME MeshInit, MeshBase PROVE FloodInv
  OBVIOUS
<1>2. PICK none : none = <<>>
  OBVIOUS
<1>3. DOMAIN none = {}
  BY <1>2
<1>4. /\ orders = [n \in Nodes |-> none] /\ tx = [n \in Nodes |-> none]
      /\ rx = [n \in Nodes |-> none] /\ seen = [n \in Nodes |-> none] /\ made = {}
  BY <1>2, Zenon DEF MeshInit, PagerInit
<1>5. (\A id : ~About(none, id)) /\ IdsOf(none) = {}
  BY <1>3 DEF About, IdsOf
<1>6. \A id : ~Contains(none, id)
  BY <1>2, EmptySeq DEF Contains
<1>7. ASSUME NEW s \in Nodes, NEW id \in Makes[s]
      PROVE  FloodOf(s, id, TreeOf(s))
  <2> DEFINE t == TreeOf(s)
  <2>1. t \in Trees(s)
    BY <1>7, TreeIs
  <2>2. \A m \in Nodes : ~Knows(m, s, id)
    BY <1>4, <1>6 DEF Knows
  <2> HIDE DEF t
  <2>3. TraceInv(s, id) /\ SourceInv(s, id)
    BY <1>4, <1>5, <1>6 DEF TraceInv, SourceInv
  <2>4. TreeInv(s, id, t)
    BY <1>4, <1>5, <2>2 DEF TreeInv
  <2>5. FrontInv(s, id, t)
    <3>1. \A m \in t.open \ {s} : t.parent[m] \in Nodes
      BY <2>1, TreeFacts
    <3> QED
      BY <2>2, <3>1 DEF FrontInv
  <2>6. TakenInv(s, id)
    BY <2>2 DEF TakenInv, TuggersFor
  <2> QED
    BY <2>3, <2>4, <2>5, <2>6 DEF FloodOf, t
<1> QED
  BY <1>7 DEF FloodInv

-----------------------------------------------------------------------------
\* Every set of natural numbers that is not empty has a least member.
Below == {p \in Nat \X Nat : p[1] < p[2]}

LEMMA LeastOf ==
  ASSUME NEW T \in SUBSET Nat, T # {}
  PROVE  \E x \in T : \A y \in T : x <= y
<1>1. Below = OpToRel(<, Nat)
  BY DEF Below, OpToRel
<1>2. IsWellFoundedOn(Below, Nat)
  BY <1>1, NatLessThanWellFounded
<1>3. PICK x \in T : \A y \in T : <<y, x>> \notin Below
  BY <1>2, WFMin
<1>4. \A y \in T : ~(y < x)
  BY <1>3 DEF Below
<1> QED
  BY <1>4

\* When no packet is about an order, an open pager knows the order if its parent
\* does, so that none of them can be the first one that does not.
LEMMA AllAware ==
  ASSUME NEW s \in Nodes, NEW id \in Ids, NEW t \in Trees(s), FloodOf(s, id, t), id \in made,
         \A m \in Nodes : ~About(tx[m], id) /\ ~About(rx[m], id),
         NEW m \in TuggersFor(s)
  PROVE  id \in taken[m]
<1>1. m \in t.open \ {s}
  BY TreeFacts DEF FloodOf, TraceInv, TuggersFor
<1> DEFINE Unaware == {k \in t.open \ {s} : ~Knows(k, s, id)}
           Far     == {t.dist[k] : k \in Unaware}
<1>2. ASSUME NEW k \in Unaware PROVE t.parent[k] \in Unaware
  <2> DEFINE n == t.parent[k]
             c == Copy(s, id, t.dist[n])
  <2>1. k \in Nodes /\ n \in Nodes /\ n \in t.open
    BY TreeFacts
  <2>2. c.id = id /\ c.type # "boot"
    BY FrontTyped
  <2>3. ~Knows(n, s, id)
    <3> SUFFICES ASSUME Knows(n, s, id) PROVE FALSE
      OBVIOUS
    <3>1. Carries(tx[n], c) \/ Carries(rx[k], c)
      BY DEF FloodOf, FrontInv
    <3> HIDE DEF c
    <3> QED
      BY <2>1, <2>2, <3>1, CarriesAbout
  <2>4. n # s
    BY <2>3 DEF Knows
  <2> QED
    BY <2>1, <2>3, <2>4
<1>3. Unaware = {}
  <2> SUFFICES ASSUME Unaware # {} PROVE FALSE
    OBVIOUS
  <2>1. Far \in SUBSET Nat /\ Far # {}
    BY TreeFacts
  <2>2. PICK k \in Unaware : \A j \in Unaware : t.dist[k] <= t.dist[j]
    <3> HIDE DEF Unaware
    <3>1. PICK x \in Far : \A y \in Far : x <= y
      <4> HIDE DEF Far
      <4> QED
        BY <2>1, LeastOf
    <3> QED
      BY <3>1
  <2>3. t.dist[k] <= t.dist[t.parent[k]]
    BY <1>2, <2>2
  <2>4. t.dist[k] = t.dist[t.parent[k]] + 1 /\ t.dist[t.parent[k]] \in Nat
    BY TreeFacts
  <2> QED
    BY <2>3, <2>4
<1> QED
  BY <1>1, <1>3 DEF FloodOf, TakenInv

LEMMA FloodSettles ==
  ASSUME InReach, FloodInv PROVE OrderSettles
<1> SUFFICES ASSUME Quiet, NEW s \in Nodes, NEW m \in Nodes, NEW id \in Ids,
                    id \in Makes[s] \cap made, Roles[m] = "tugger", Zone[m] = Zone[s]
             PROVE  id \in taken[m]
  BY DEF OrderSettles
<1>1. TreeOf(s) \in Trees(s) /\ m \in TuggersFor(s)
  BY TreeIs DEF TuggersFor
<1>2. \A k \in Nodes : ~About(tx[k], id) /\ ~About(rx[k], id)
  BY NothingAbout DEF Quiet, Idle
<1>3. CASE FloodOf(s, id, TreeOf(s))
  BY <1>1, <1>2, <1>3, AllAware
<1>4. CASE Done(s, id)
  BY <1>1, <1>4 DEF Done
<1> QED
  BY <1>3, <1>4 DEF FloodInv

LEMMA DoneStays ==
  ASSUME MeshBase, [MeshNext]_meshVars, NEW s \in Nodes, NEW id \in Ids, Done(s, id)
  PROVE  Done(s, id)'
<1>1. ASSUME NEW m \in Nodes PROVE taken[m] \subseteq taken'[m]
  <2>1. ASSUME NEW n \in Nodes, Hear(n) PROVE taken[m] \subseteq taken'[m]
    BY <2>1 DEF Hear, MeshBase, ReportInv
  <2> QED
    BY <2>1 DEF MeshNext, Flood, Transmit, Drive, Beacon, Order, meshVars
<1>2. Over(id)'
  BY OverStays DEF MeshBase, Done
<1> QED
  BY <1>1, <1>2 DEF Done, TuggersFor

LEMMA FloodStep ==
  ASSUME OwnOrders, InReach
  PROVE  FloodInv /\ ListsHaveRoom /\ MeshBase' /\ [MeshNext]_meshVars
         /\ [NothingLost /\ ForgetsOver]_meshVars => FloodInv'
<1> SUFFICES ASSUME FloodInv, ListsHaveRoom, MeshBase', [MeshNext]_meshVars,
                    [NothingLost /\ ForgetsOver]_meshVars,
                    NEW s \in Nodes, NEW id \in Makes[s]
             PROVE  FloodOf(s, id, TreeOf(s))' \/ Done(s, id)'
  BY DEF FloodInv
<1> DEFINE t == TreeOf(s)
<1>0. t \in Trees(s) /\ id \in Ids /\ MeshBase /\ (FloodOf(s, id, t) \/ Done(s, id))
  BY TreeIs DEF FloodInv
<1> HIDE DEF t
<1>d. CASE Done(s, id)
  BY <1>0, <1>d, DoneStays
<1>o. CASE FloodOf(s, id, t) /\ Over(id)
  <2>1. Done(s, id)
    BY <1>0, <1>o, AllAware DEF Over, Said, Done
  <2> QED
    BY <1>d, <2>1
<1> SUFFICES ASSUME FloodOf(s, id, t), ~Over(id) PROVE FloodOf(s, id, t)'
  BY <1>0, <1>d, <1>o DEF t
<1>1. t \in Trees(s) /\ id \in Ids /\ MeshBase /\ FloodOf(s, id, t)
  BY <1>0
<1>2. CASE UNCHANGED meshVars
  BY <1>1, <1>2
  DEF meshVars, pagerVars, FloodOf, TraceInv, SourceInv, TreeInv, FrontInv, TakenInv, Knows
<1>3. CASE MeshNext /\ NothingLost /\ ForgetsOver
  <2>1. PICK n \in Nodes : \/ Flood(n) \/ Drive(n) \/ Beacon(n)
                           \/ \E i \in Ids : Order(n, i)
    BY <1>3 DEF MeshNext
  <2>2. CASE Hear(n)
    <3>1. \A m \in Nodes : Contains(seen[m], id) => Contains(seen'[m], id)
      BY <1>1, <1>3 DEF ForgetsOver
    <3> QED
      BY <1>1, <2>2, <3>1, FloodHear
  <2>3. CASE \E hearers \in SUBSET Nodes : Transmit(n, hearers)
    BY <1>1, <1>3, <2>3, FloodTransmit
  <2>4. CASE Drive(n)
    <3>1. PICK p : Transmits(n, <<p>>) /\ p.id \in IdsOf(orders[n])
      BY <1>1, <2>4, DriveSends DEF MeshBase
    <3>2. \A m \in Nodes : IdsOf(orders'[m]) \subseteq IdsOf(orders[m])
      BY <1>1, <2>4, DriveSends DEF MeshBase
    <3>3. Idle(n) /\ UNCHANGED <<seen, rx, taken, made>>
      BY <2>4 DEF Drive, AckSelected, ClearSelected
    <3>4. IsAbout(p, id) => id \in IdsOf(orders[n])
      BY <3>1 DEF IsAbout
    <3> QED
      BY <1>1, <3>1, <3>2, <3>3, <3>4, FloodSends
  <2>5. CASE Beacon(n)
    <3> DEFINE p == Packet("boot", 0, prefs[n].zone)
    <3>1. Idle(n) /\ Transmits(n, <<p>>) /\ UNCHANGED <<orders, seen, rx, taken, made>>
      BY <2>5 DEF Beacon, SendBoot
    <3>2. ~IsAbout(p, id)
      BY DEF IsAbout, Packet
    <3> HIDE DEF p
    <3> QED
      BY <1>1, <3>1, <3>2, FloodSends
  <2>6. ASSUME NEW i \in Ids, Order(n, i) PROVE FloodOf(s, id, t)'
    <3>1. CASE i = id
      <4>1. n = s
        BY <2>6, <3>1 DEF Order, OwnOrders
      <4> QED
        BY <1>1, <2>6, <3>1, <4>1, FloodStarts
    <3>2. CASE i # id
      <4> DEFINE p == Packet("order", i, prefs[n].zone)
      <4>1. /\ Idle(n) /\ Transmits(n, <<p>>) /\ UNCHANGED <<orders, seen, rx, taken>>
            /\ id \in made' <=> id \in made
        BY <2>6, <3>2 DEF Order, CreateOrder
      <4>2. ~IsAbout(p, id)
        BY <3>2 DEF IsAbout, Packet
      <4> HIDE DEF p
      <4> QED
        BY <1>1, <4>1, <4>2, FloodSends
    <3> QED
      BY <3>1, <3>2
  <2> QED
    BY <2>1, <2>2, <2>3, <2>4, <2>5, <2>6 DEF Flood
<1> QED
  BY <1>2, <1>3

LEMMA BaseInvariant == MeshSpec /\ []ListsHaveRoom => []MeshBase
<1> DEFINE Zones == \A n \in Nodes : prefs[n].zone = Zone[n]
<1>1. MeshInit => Zones
  BY DEF MeshInit, PagerInit
<1>2. Zones /\ [MeshNext]_meshVars => Zones'
  <2> SUFFICES ASSUME Zones, [MeshNext]_meshVars PROVE prefs' = prefs
    OBVIOUS
  <2> QED
    BY DEF MeshNext, Flood, Hear, Transmit, Drive, AckSelected, ClearSelected, Beacon,
           SendBoot, Order, CreateOrder, Process, DropSeen, TakeOrder, NoteStatus,
           NoteDelivered, PassOn, meshVars, pagerVars
<1>3. MeshTyped /\ NoneTwice /\ ReportInv /\ Zones => MeshBase
  BY DEF MeshBase
<1> HIDE DEF Zones
<1> QED
  BY <1>1, <1>2, <1>3, ReportInit, ReportStep, MeshTypedInvariant, NoneTwiceInvariant, PTL
  DEF MeshSpec

\* When the air is quiet, every order made has been listed by every tugger of
\* its zone: if no packet is lost on the air or to a full radio, no order comes
\* to a full list and none is forgotten before it is over, the pagers hear each
\* other along a tree, no tugger of the zone is between the line station and
\* another one, and all are within MaxHops + 1 hops.
THEOREM OrdersSettle ==
  ASSUME OwnOrders, InReach
  PROVE  MeshSpec /\ [][NothingLost /\ ForgetsOver]_meshVars /\ []ListsHaveRoom
           => []OrderSettles
<1>1. MeshInit /\ MeshBase => FloodInv
  BY FloodInit
<1>2. FloodInv /\ ListsHaveRoom /\ MeshBase' /\ [MeshNext]_meshVars
      /\ [NothingLost /\ ForgetsOver]_meshVars => FloodInv'
  BY FloodStep
<1>3. FloodInv => OrderSettles
  BY FloodSettles
<1> QED
  BY <1>1, <1>2, <1>3, BaseInvariant, PTL DEF MeshSpec

\* A row of pagers in which every line station has the tuggers of its zone at
\* its side, none behind another, and none further than the hop limit allows.
Between(m, s) == {k \in Nodes : (s < k /\ k < m) \/ (m < k /\ k < s)}
InRow ==
  /\ \E a, b \in Int : Nodes = a .. b
  /\ Links = [n \in Nodes |-> {m \in Nodes : m \in {n - 1, n + 1}}]
  /\ \A s \in Nodes : Makes[s] # {} =>
       \A m \in TuggersFor(s) : /\ Between(m, s) \cap TuggersFor(s) = {}
                                /\ m - s <= MaxHops + 1 /\ s - m <= MaxHops + 1

LEMMA RowInReach == ASSUME InRow PROVE InReach
<1> SUFFICES ASSUME NEW s \in Nodes, Makes[s] # {} PROVE Trees(s) # {}
  BY DEF InReach
<1>1. PICK a \in Int, b \in Int : Nodes = a .. b
  BY DEF InRow
<1>2. \A n \in Nodes : n \in Int /\ Links[n] = {m \in Nodes : m \in {n - 1, n + 1}}
  BY <1>1 DEF InRow
<1> DEFINE far(m) == IF m >= s THEN m - s ELSE s - m
           near(m) == IF m > s THEN m - 1 ELSE IF m < s THEN m + 1 ELSE s
           Open == {s} \cup {m \in Nodes : \E k \in TuggersFor(s) :
                               m = k \/ m \in Between(k, s)}
<1>3. \A m \in Nodes : near(m) \in Nodes /\ far(m) \in Nat
  BY <1>1
<1>4. \A m \in Nodes \ {s} : m \in Links[near(m)] /\ far(m) = far(near(m)) + 1
  <2> SUFFICES ASSUME NEW m \in Nodes \ {s}
               PROVE  m \in Links[near(m)] /\ far(m) = far(near(m)) + 1
    OBVIOUS
  <2>1. m \in {near(m) - 1, near(m) + 1} /\ far(m) = far(near(m)) + 1
    BY <1>2
  <2> HIDE DEF near, far
  <2> QED
    BY <1>2, <1>3, <2>1
<1>5. \A n \in Nodes : \A m \in Links[n] :
        (m # s /\ near(m) = n) \/ (n # s /\ near(n) = m)
  BY <1>2
<1>6. ASSUME NEW m \in Open \ {s}
      PROVE  /\ near(m) \in Open
             /\ near(m) = s \/ near(m) \notin TuggersFor(s)
             /\ far(m) <= MaxHops + 1
  <2>1. PICK k \in TuggersFor(s) : m = k \/ m \in Between(k, s)
    OBVIOUS
  <2>2. /\ k \in Nodes /\ Between(k, s) \cap TuggersFor(s) = {}
        /\ k - s <= MaxHops + 1 /\ s - k <= MaxHops + 1
    BY DEF InRow, TuggersFor
  <2>3. m \in Nodes /\ near(m) \in Nodes
    BY <1>3
  <2>4. near(m) = s \/ near(m) \in Between(k, s)
    BY <1>2, <2>1, <2>2, <2>3 DEF Between
  <2>5. far(m) <= MaxHops + 1
    BY <1>2, <2>1, <2>2, <2>3, MeshPagerAssumption DEF Between
  <2> QED
    BY <2>2, <2>3, <2>4, <2>5
<1>7. TuggersFor(s) \subseteq Open /\ Open \subseteq Nodes
  BY DEF TuggersFor
<1>8. far(s) = 0
  BY <1>2
<1> DEFINE D == [m \in Nodes |-> far(m)]
           P == [m \in Nodes |-> near(m)]
<1>9. /\ D \in [Nodes -> Nat] /\ P \in [Nodes -> Nodes]
      /\ \A m \in Nodes : D[m] = far(m) /\ P[m] = near(m)
  BY <1>3
<1> HIDE DEF far, near, Open, D, P
<1>10. PICK r \in [dist : [Nodes -> Nat], parent : [Nodes -> Nodes], open : SUBSET Nodes] :
          r.dist = D /\ r.parent = P /\ r.open = Open
  <2> DEFINE q == [dist |-> D, parent |-> P, open |-> Open]
  <2>1. q \in [dist : [Nodes -> Nat], parent : [Nodes -> Nodes], open : SUBSET Nodes]
    BY <1>7, <1>9
  <2>2. q.dist = D /\ q.parent = P /\ q.open = Open
    OBVIOUS
  <2> HIDE DEF q
  <2> QED
    BY <2>1, <2>2
<1>11. /\ D[s] = 0
       /\ \A m \in Nodes \ {s} : m \in Links[P[m]] /\ D[m] = D[P[m]] + 1
       /\ \A n \in Nodes : \A m \in Links[n] : (m # s /\ P[m] = n) \/ (n # s /\ P[n] = m)
  <2>1. \A n \in Nodes : Links[n] \subseteq Nodes
    BY MeshAssumption
  <2> QED
    BY <1>3, <1>4, <1>5, <1>8, <1>9, <2>1
<1>12. /\ \A m \in Open \ {s} : /\ P[m] \in Open
                                /\ P[m] = s \/ P[m] \notin TuggersFor(s)
                                /\ D[m] <= MaxHops + 1
  BY <1>6, <1>7, <1>9
<1>13. r \in Trees(s)
  BY <1>7, <1>10, <1>11, <1>12 DEF Trees
<1> QED
  BY <1>13

\* In such a row every order made is on the tuggers' lists when the air is quiet,
\* if no packet is lost and the lists and memories have room for all orders.
THEOREM OrdersSettleInRow ==
  ASSUME FewOrders, RoomForAll, OwnOrders, InRow
  PROVE  MeshSpec /\ [][NothingLost]_meshVars => []OrderSettles
<1>1. [NothingLost]_meshVars /\ [ForgetsOver]_meshVars
      => [NothingLost /\ ForgetsOver]_meshVars
  OBVIOUS
<1> QED
  BY <1>1, OrdersSettle, RowInReach, RoomAlways, FewForgetNone, PTL
================================================================================
