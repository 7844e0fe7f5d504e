------------------------------ MODULE PagerProofs ------------------------------
(***************************************************************************)
(* What the handlers of a pager do to the types of its variables, and the  *)
(* facts about sequences and lists that the proofs about one pager         *)
(* (MemoryProofs) and about a mesh of them (MeshProofs) both need.         *)
(***************************************************************************)
EXTENDS MeshPager, SequenceTheorems, FiniteSetTheorems, TLAPS

\* Packets that a pager can have sent: every packet but a beacon is about an
\* order.
AirPackets == {p \in Packets : p.type # "boot" => p.id \in Ids}

Slots == {<<>>} \cup {<<order>> : order \in Orders}
Boxes == [cnt : 0 .. MaxOrders, slot : [1 .. BoxSize -> Slots]]
Requests == [id : Ids, acked : BOOLEAN]

ListsTyped ==
  /\ orders \in [Nodes -> Seq(Orders)] /\ \A n \in Nodes : Len(orders[n]) <= MaxOrders
  /\ box \in [Nodes -> Boxes]
  /\ sel \in [Nodes -> 0 .. MaxOrders - 1]
MemoryTyped ==
  /\ seen \in [Nodes -> Seq(Ids)] /\ \A n \in Nodes : Len(seen[n]) <= SeenSize
  /\ requests \in [Nodes -> Seq(Requests)]
  /\ \A n \in Nodes : Len(requests[n]) <= MaxRequests
AirTyped ==
  /\ tx \in [Nodes -> Seq(AirPackets)]
  /\ \A n \in Nodes : Len(tx[n]) <= 2
FixedTyped ==
  /\ prefs \in [Nodes -> [mode : Modes, zone : PagerZones]]
  /\ mode \in [Nodes -> Modes]
  /\ clock \in [Nodes -> 0 .. LastTick]
PagerTyped == FixedTyped /\ ListsTyped /\ MemoryTyped /\ AirTyped

-----------------------------------------------------------------------------
(* Sequences. *)

LEMMA TypedEnds ==
  ASSUME NEW S, NEW s \in Seq(S)
  PROVE  /\ s # <<>> => Head(s) \in S /\ Tail(s) \in Seq(S) /\ Len(Tail(s)) = Len(s) - 1
         /\ \A e \in S : Append(s, e) \in Seq(S) /\ Len(Append(s, e)) = Len(s) + 1
         /\ s # <<>> => Front(s) \in Seq(S)
         /\ Len(s) \in Nat /\ (Len(s) = 0 <=> s = <<>>)
         /\ <<>> \in Seq(S) /\ Len(<<>>) = 0
<1>1. s # <<>> => Head(s) \in S /\ Tail(s) \in Seq(S) /\ Len(Tail(s)) = Len(s) - 1
  BY HeadTailProperties
<1>2. \A e \in S : Append(s, e) \in Seq(S) /\ Len(Append(s, e)) = Len(s) + 1
  BY AppendProperties
<1>3. Len(s) \in Nat /\ (Len(s) = 0 <=> s = <<>>) /\ <<>> \in Seq(S) /\ Len(<<>>) = 0
  BY EmptySeq, LenProperties
<1>4. s # <<>> => Front(s) \in Seq(S)
  <2>1. s # <<>> => Len(s) >= 1
    BY <1>3
  <2>2. s # <<>> => 1 \in 1 .. Len(s) + 1 /\ Len(s) - 1 \in 0 .. Len(s)
    BY <1>3, <2>1
  <2> QED
    BY <2>2, SubSeqProperties DEF Front
<1> QED
  BY <1>1, <1>2, <1>3, <1>4

\* The last n elements, when one was appended to at most n.
LEMMA LastOfTyped ==
  ASSUME NEW S, NEW s \in Seq(S), NEW e \in S, NEW n \in Nat, Len(s) <= n
  PROVE  /\ LastOf(Append(s, e), n) \in Seq(S)
         /\ Len(LastOf(Append(s, e), n)) <= n
         /\ Len(s) < n => LastOf(Append(s, e), n) = Append(s, e)
<1> DEFINE t == Append(s, e)
<1>1. t \in Seq(S) /\ Len(t) = Len(s) + 1 /\ Len(s) \in Nat
  BY TypedEnds
<1>2. Len(t) > n => t # <<>> /\ Tail(t) \in Seq(S) /\ Len(Tail(t)) = Len(t) - 1
  <2> HIDE DEF t
  <2> QED
    BY <1>1, TypedEnds
<1>3. LastOf(t, n) = IF Len(t) > n THEN Tail(t) ELSE t
  BY DEF LastOf
<1> HIDE DEF t
<1>4. LastOf(t, n) \in Seq(S) /\ Len(LastOf(t, n)) <= n /\ (Len(s) < n => LastOf(t, n) = t)
  BY <1>1, <1>2, <1>3
<1> QED
  BY <1>4 DEF t

LEMMA RemoveAtTyped ==
  ASSUME NEW S, NEW s \in Seq(S), NEW k \in 1 .. Len(s)
  PROVE  RemoveAt(s, k) \in Seq(S) /\ Len(RemoveAt(s, k)) = Len(s) - 1
<1> DEFINE a == SubSeq(s, 1, k - 1)
           b == SubSeq(s, k + 1, Len(s))
<1>0. Len(s) \in Nat
  BY LenProperties
<1>1. a \in Seq(S) /\ Len(a) = k - 1
  <2>1. 1 \in 1 .. Len(s) + 1 /\ k - 1 \in 0 .. Len(s)
    BY <1>0
  <2> QED
    BY <1>0, <2>1, SubSeqProperties
<1>2. b \in Seq(S) /\ Len(b) = Len(s) - k
  <2>1. k + 1 \in 1 .. Len(s) + 1 /\ Len(s) \in 0 .. Len(s)
    BY <1>0
  <2> QED
    BY <1>0, <2>1, SubSeqProperties
<1> HIDE DEF a, b
<1>3. a \o b \in Seq(S) /\ Len(a \o b) = Len(a) + Len(b)
  BY <1>1, <1>2, ConcatProperties
<1>4. Len(a) + Len(b) = Len(s) - 1
  BY <1>0, <1>1, <1>2
<1>5. a \o b \in Seq(S) /\ Len(a \o b) = Len(s) - 1
  BY <1>3, <1>4, Zenon
<1>6. RemoveAt(s, k) = a \o b
  BY DEF RemoveAt, a, b
<1> QED
  BY <1>5, <1>6, Zenon

LEMMA ConcatTyped ==
  ASSUME NEW S, NEW s \in Seq(S), NEW t \in Seq(S)
  PROVE  s \o t \in Seq(S) /\ Len(s \o t) = Len(s) + Len(t)
BY ConcatProperties

LEMMA SingleTyped ==
  ASSUME NEW S, NEW e \in S
  PROVE  <<e>> \in Seq(S) /\ Len(<<e>>) = 1
OBVIOUS

-----------------------------------------------------------------------------
(* The types. *)

LEMMA SavedTyped ==
  ASSUME NEW b \in Boxes, NEW list \in Seq(Orders), Len(list) <= MaxOrders
  PROVE  Saved(b, list) \in Boxes
<1>1. Len(list) \in 0 .. MaxOrders /\ \A k \in 1 .. Len(list) : list[k] \in Orders
  BY MeshPagerAssumption, LenProperties, ElementOfSeq
<1>2. \A k \in 1 .. BoxSize : k <= Len(list) => k \in 1 .. Len(list)
  BY <1>1
<1>3. [k \in 1 .. BoxSize |-> IF k <= Len(list) THEN <<list[k]>> ELSE b.slot[k]]
        \in [1 .. BoxSize -> Slots]
  <2> SUFFICES ASSUME NEW k \in 1 .. BoxSize
               PROVE  (IF k <= Len(list) THEN <<list[k]>> ELSE b.slot[k]) \in Slots
    OBVIOUS
  <2>1. k <= Len(list) => <<list[k]>> \in Slots
    BY <1>1, <1>2 DEF Slots
  <2>2. b.slot[k] \in Slots
    BY DEF Boxes
  <2> QED
    BY <2>1, <2>2
<1> QED
  BY <1>1, <1>3 DEF Saved, Boxes

LEMMA PacketTyped ==
  /\ \A type \in {"order", "ack", "clear", "delivered"},
        id \in Ids, zone \in PagerZones \cup {0} : Packet(type, id, zone) \in AirPackets
  /\ \A zone \in PagerZones : Packet("boot", 0, zone) \in AirPackets
BY MeshPagerAssumption DEF Packet, AirPackets, Packets

LEMMA RelayTyped ==
  ASSUME NEW p \in AirPackets
  PROVE  Relay(p) \in Seq(AirPackets) /\ Len(Relay(p)) <= 1
<1>1. CASE p.hop < MaxHops
  <2>1. [p EXCEPT !.hop = p.hop + 1] \in AirPackets
    BY <1>1, MeshPagerAssumption DEF AirPackets, Packets
  <2>2. Relay(p) = <<[p EXCEPT !.hop = p.hop + 1]>>
    BY <1>1 DEF Relay
  <2> QED
    BY <2>1, <2>2, SingleTyped
<1>2. CASE ~(p.hop < MaxHops)
  BY <1>2, EmptySeq DEF Relay
<1> QED
  BY <1>1, <1>2

\* One pager's list and black box, and what it transmits, change together.
LEMMA SavesTyped ==
  ASSUME ListsTyped, NEW n \in Nodes, NEW list \in Seq(Orders),
         Len(list) <= MaxOrders, Saves(n, list), sel' = sel
  PROVE  ListsTyped'
<1>1. Saved(box[n], list) \in Boxes
  BY SavedTyped DEF ListsTyped
<1> QED
  BY <1>1 DEF ListsTyped, Saves, Lists

LEMMA TransmitsTyped ==
  ASSUME AirTyped, NEW n \in Nodes, NEW packets \in Seq(AirPackets),
         Len(packets) <= 2, Transmits(n, packets)
  PROVE  AirTyped'
BY DEF Transmits, AirTyped

LEMMA NothingTyped ==
  ASSUME AirTyped, NEW n \in Nodes, Transmits(n, <<>>)
  PROVE  AirTyped'
<1>1. PICK none : none = <<>>
  OBVIOUS
<1>2. none \in Seq(AirPackets) /\ Len(none) <= 2
  BY <1>1, EmptySeq
<1>3. Transmits(n, none)
  BY <1>1, Zenon
<1> QED
  BY <1>2, <1>3, TransmitsTyped

LEMMA MarkTyped ==
  ASSUME MemoryTyped, NEW n \in Nodes, NEW p \in AirPackets, Mark(n, p),
         UNCHANGED requests
  PROVE  MemoryTyped'
<1>1. CASE p.type = "boot"
  BY <1>1 DEF Mark, MemoryTyped
<1>2. CASE p.type # "boot"
  <2> DEFINE last == LastOf(Append(seen[n], p.id), SeenSize)
  <2>1. last \in Seq(Ids) /\ Len(last) <= SeenSize
    <3>1. p.id \in Ids /\ seen[n] \in Seq(Ids) /\ Len(seen[n]) <= SeenSize
      BY <1>2 DEF AirPackets, MemoryTyped
    <3> QED
      BY <3>1, LastOfTyped, MeshPagerAssumption
  <2>2. seen' = [seen EXCEPT ![n] = last]
    BY <1>2 DEF Mark
  <2> HIDE DEF last
  <2> QED
    BY <2>1, <2>2 DEF MemoryTyped
<1> QED
  BY <1>1, <1>2

\* A list with some fields of its orders changed.
LEMMA RelistTyped ==
  ASSUME NEW s \in Seq(Orders), NEW t, DOMAIN t = DOMAIN s,
         t = [k \in DOMAIN t |-> t[k]], \A k \in DOMAIN s : t[k] \in Orders
  PROVE  t \in Seq(Orders) /\ Len(t) = Len(s)
OBVIOUS

-----------------------------------------------------------------------------
LEMMA ProcessTyped ==
  ASSUME PagerTyped, NEW n \in Nodes, NEW p \in AirPackets, Process(n, p)
  PROVE  PagerTyped'
<1> USE MeshPagerAssumption DEF PagerTyped
<1>r. Relay(p) \in Seq(AirPackets) /\ Len(Relay(p)) <= 1 /\ Len(Relay(p)) \in Nat
  BY RelayTyped, LenProperties
<1>1. CASE DropSeen(n, p)
  <2>2. AirTyped'
    BY <1>1, NothingTyped DEF DropSeen
  <2> QED
    BY <1>1, <2>2 DEF DropSeen, FixedTyped, ListsTyped, MemoryTyped
<1>2. CASE TakeOrder(n, p)
  <2> DEFINE reply == IF p.zone = 0 THEN <<>> ELSE <<Packet("delivered", p.id, p.zone)>>
             new == [id |-> p.id, zone |-> p.zone,
                     expiry |-> clock[n] + Timeout, status |-> "pending"]
  <2>1. p.id \in Ids /\ p.zone \in PagerZones \cup {0}
    BY <1>2 DEF TakeOrder, ForUs, AirPackets, Packets
  <2>2. reply \in Seq(AirPackets) /\ Len(reply) <= 1 /\ Len(reply) \in Nat
    <3>1. Packet("delivered", p.id, p.zone) \in AirPackets
      BY <2>1, PacketTyped
    <3> QED
      BY <3>1, SingleTyped, EmptySeq
  <2>3. reply \o Relay(p) \in Seq(AirPackets) /\ Len(reply \o Relay(p)) <= 2
    <3> HIDE DEF reply
    <3> QED
      BY <1>r, <2>2, ConcatTyped
  <2>4. Transmits(n, reply \o Relay(p))
    BY <1>2 DEF TakeOrder
  <2>5. AirTyped'
    <3> HIDE DEF reply
    <3> QED
      BY <2>3, <2>4, TransmitsTyped
  <2>6. MemoryTyped'
    BY <1>2, MarkTyped DEF TakeOrder
  <2>7. ListsTyped'
    <3>1. CASE ~Exists(n, p.id) /\ Len(orders[n]) < MaxOrders
      <4>1. new \in Orders
        BY <2>1 DEF Orders, Status, FixedTyped
      <4>2. Saves(n, Append(orders[n], new)) /\ sel' = sel
        BY <1>2, <3>1 DEF TakeOrder
      <4>3. orders[n] \in Seq(Orders) /\ Len(orders[n]) \in Nat
        BY LenProperties DEF ListsTyped
      <4> HIDE DEF new
      <4>4. Append(orders[n], new) \in Seq(Orders) /\ Len(Append(orders[n], new)) <= MaxOrders
        BY <3>1, <4>1, <4>3, TypedEnds
      <4> QED
        BY <4>2, <4>4, SavesTyped
    <3>2. CASE ~(~Exists(n, p.id) /\ Len(orders[n]) < MaxOrders)
      BY <1>2, <3>2 DEF TakeOrder, ListsTyped
    <3> QED
      BY <3>1, <3>2
  <2>8. FixedTyped'
    BY <1>2 DEF TakeOrder, FixedTyped
  <2> QED
    BY <2>5, <2>6, <2>7, <2>8
<1>3. CASE NoteStatus(n, p)
  <2>1. PICK status \in {"ack", "completed"} :
          Lists(n, [k \in DOMAIN orders[n] |->
                      IF orders[n][k].id = p.id
                      THEN [orders[n][k] EXCEPT !.status = status] ELSE orders[n][k]])
    BY <1>3 DEF NoteStatus
  <2> DEFINE list == [k \in DOMAIN orders[n] |->
                        IF orders[n][k].id = p.id
                        THEN [orders[n][k] EXCEPT !.status = status] ELSE orders[n][k]]
  <2>2. orders[n] \in Seq(Orders) /\ Len(orders[n]) <= MaxOrders
    BY DEF ListsTyped
  <2>3. \A k \in DOMAIN orders[n] : orders[n][k] \in Orders
    BY <2>2
  <2>4. \A k \in DOMAIN orders[n] : list[k] \in Orders
    BY <2>3 DEF Orders, Status
  <2>5. list \in Seq(Orders) /\ Len(list) <= MaxOrders
    <3>1. DOMAIN list = DOMAIN orders[n] /\ list = [k \in DOMAIN list |-> list[k]]
      OBVIOUS
    <3> HIDE DEF list
    <3> QED
      BY <2>2, <2>4, <3>1, RelistTyped
  <2>6. orders' = [orders EXCEPT ![n] = list] /\ UNCHANGED <<box, sel>>
    BY <1>3, <2>1 DEF NoteStatus, Lists
  <2>7. ListsTyped'
    <3> HIDE DEF list
    <3> QED
      BY <2>5, <2>6 DEF ListsTyped
  <2>8. AirTyped'
    BY <1>3, <1>r, TransmitsTyped DEF NoteStatus
  <2>9. MemoryTyped' /\ FixedTyped'
    BY <1>3, MarkTyped DEF NoteStatus, FixedTyped
  <2> QED
    BY <2>7, <2>8, <2>9
<1>4. CASE NoteDelivered(n, p)
  <2> DEFINE acked == [k \in DOMAIN requests[n] |->
                 [requests[n][k] EXCEPT !.acked = requests[n][k].acked \/ requests[n][k].id = p.id]]
  <2>1. requests[n] \in Seq(Requests) /\ Len(requests[n]) <= MaxRequests
    BY DEF MemoryTyped
  <2>2. \A k \in DOMAIN requests[n] : requests[n][k] \in Requests
    BY <2>1
  <2>3. \A k \in DOMAIN requests[n] : acked[k] \in Requests
    BY <2>2 DEF Requests
  <2>4. acked \in Seq(Requests) /\ Len(acked) <= MaxRequests
    <3>1. DOMAIN acked = DOMAIN requests[n] /\ acked = [k \in DOMAIN acked |-> acked[k]]
      OBVIOUS
    <3> HIDE DEF acked
    <3> QED
      BY <2>1, <2>3, <3>1
  <2>5. requests' = [requests EXCEPT ![n] = acked]
    BY <1>4 DEF NoteDelivered
  <2>6. seen' \in [Nodes -> Seq(Ids)] /\ \A m \in Nodes : Len(seen'[m]) <= SeenSize
    <3> DEFINE last == LastOf(Append(seen[n], p.id), SeenSize)
    <3>1. p.id \in Ids /\ seen[n] \in Seq(Ids) /\ Len(seen[n]) <= SeenSize
      BY <1>4 DEF NoteDelivered, AirPackets, MemoryTyped
    <3>2. last \in Seq(Ids) /\ Len(last) <= SeenSize
      BY <3>1, LastOfTyped
    <3>3. seen' = [seen EXCEPT ![n] = last]
      BY <1>4 DEF NoteDelivered, Mark
    <3> HIDE DEF last
    <3> QED
      BY <3>2, <3>3 DEF MemoryTyped
  <2>7. MemoryTyped'
    <3> HIDE DEF acked
    <3> QED
      BY <2>4, <2>5, <2>6 DEF MemoryTyped
  <2>8. AirTyped'
    BY <1>4, <1>r, TransmitsTyped DEF NoteDelivered
  <2> QED
    BY <1>4, <2>7, <2>8 DEF NoteDelivered, FixedTyped, ListsTyped
<1>5. CASE PassOn(n, p)
  <2>1. AirTyped'
    BY <1>5, <1>r, TransmitsTyped DEF PassOn
  <2>2. MemoryTyped'
    BY <1>5, MarkTyped DEF PassOn
  <2> QED
    BY <1>5, <2>1, <2>2 DEF PassOn, FixedTyped, ListsTyped
<1> QED
  BY <1>1, <1>2, <1>3, <1>4, <1>5 DEF Process

-----------------------------------------------------------------------------
LEMMA OneTyped ==
  ASSUME AirTyped, NEW n \in Nodes, NEW p \in AirPackets, Transmits(n, <<p>>)
  PROVE  AirTyped'
<1>1. PICK one : one = <<p>>
  OBVIOUS
<1>2. one \in Seq(AirPackets) /\ Len(one) <= 2
  BY <1>1, SingleTyped
<1>3. Transmits(n, one)
  BY <1>1, Zenon
<1> QED
  BY <1>2, <1>3, TransmitsTyped

LEMMA CreateTyped ==
  ASSUME PagerTyped, NEW n \in Nodes, NEW id \in Ids, CreateOrder(n, id)
  PROVE  PagerTyped'
<1> USE MeshPagerAssumption DEF PagerTyped
<1>2. Packet("order", id, prefs[n].zone) \in AirPackets
  BY PacketTyped DEF FixedTyped
<1>3. AirTyped'
  BY <1>2, OneTyped DEF CreateOrder
<1> DEFINE new == [id |-> id, acked |-> FALSE]
           last == LastOf(Append(requests[n], new), MaxRequests)
<1>4. last \in Seq(Requests) /\ Len(last) <= MaxRequests
  <2>1. new \in Requests /\ requests[n] \in Seq(Requests) /\ Len(requests[n]) <= MaxRequests
    BY DEF Requests, MemoryTyped
  <2> HIDE DEF new
  <2> QED
    BY <2>1, LastOfTyped
<1>5. requests' = [requests EXCEPT ![n] = last]
  BY DEF CreateOrder
<1>6. MemoryTyped'
  <2>1. seen' = seen
    BY DEF CreateOrder
  <2> HIDE DEF last
  <2> QED
    BY <1>4, <1>5, <2>1 DEF MemoryTyped
<1> QED
  BY <1>3, <1>6 DEF CreateOrder, FixedTyped, ListsTyped

LEMMA BootTyped ==
  ASSUME PagerTyped, NEW n \in Nodes, SendBoot(n)
  PROVE  PagerTyped'
<1>1. Packet("boot", 0, prefs[n].zone) \in AirPackets
  BY PacketTyped DEF PagerTyped, FixedTyped
<1>2. AirTyped'
  BY <1>1, OneTyped DEF SendBoot, PagerTyped
<1> QED
  BY <1>2 DEF SendBoot, PagerTyped, FixedTyped, ListsTyped, MemoryTyped

LEMMA DriveTyped ==
  ASSUME PagerTyped, NEW n \in Nodes,
         AckSelected(n) \/ ClearSelected(n)
  PROVE  PagerTyped'
<1> USE MeshPagerAssumption DEF PagerTyped
<1> DEFINE k == sel[n] + 1
           order == orders[n][k]
<1>1. /\ orders[n] \in Seq(Orders) /\ Len(orders[n]) <= MaxOrders
      /\ Len(orders[n]) \in Nat /\ sel[n] \in 0 .. MaxOrders - 1
  BY LenProperties DEF ListsTyped
<1>2. sel[n] < Len(orders[n])
  BY DEF AckSelected, ClearSelected
<1>3. k \in 1 .. Len(orders[n]) /\ order \in Orders
  <2>1. k \in 1 .. Len(orders[n])
    BY <1>1, <1>2
  <2> QED
    BY <1>1, <2>1, ElementOfSeq
<1>4. order.id \in Ids /\ order.zone \in PagerZones \cup {0}
  BY <1>3 DEF Orders
<1> HIDE DEF order
<1>5. CASE AckSelected(n)
  <2> DEFINE new == [order EXCEPT !.status = "ack"]
             list == [orders[n] EXCEPT ![k] = new]
  <2>1. new \in Orders
    BY <1>3 DEF Orders, Status
  <2>2. list \in Seq(Orders) /\ Len(list) <= MaxOrders
    <3> HIDE DEF new, k
    <3> QED
      BY <1>1, <1>3, <2>1, ExceptSeq
  <2>3. Saves(n, list)
    BY <1>5 DEF AckSelected, order
  <2>4. ListsTyped'
    <3> HIDE DEF list
    <3>1. sel' = sel
      BY <1>5 DEF AckSelected
    <3> QED
      BY <2>2, <2>3, <3>1, SavesTyped
  <2>5. AirTyped'
    <3>1. Transmits(n, <<Packet("ack", order.id, order.zone)>>)
      BY <1>5 DEF AckSelected, order
    <3> QED
      BY <1>4, <3>1, PacketTyped, OneTyped
  <2> QED
    BY <1>5, <2>4, <2>5 DEF AckSelected, FixedTyped, MemoryTyped
<1>6. CASE ClearSelected(n)
  <2> DEFINE rest == RemoveAt(orders[n], k)
  <2>1. rest \in Seq(Orders) /\ Len(rest) = Len(orders[n]) - 1
    BY <1>1, <1>3, RemoveAtTyped
  <2>2. /\ orders' = [orders EXCEPT ![n] = rest]
        /\ box' = [box EXCEPT ![n] = Saved(box[n], rest)]
        /\ sel' = [sel EXCEPT ![n] = IF sel[n] >= Len(rest) /\ rest # <<>>
                                     THEN Len(rest) - 1 ELSE sel[n]]
    BY <1>6 DEF ClearSelected, Saves, Lists
  <2>3. ListsTyped'
    <3> HIDE DEF rest
    <3>1. Len(rest) <= MaxOrders /\ Len(rest) \in Nat /\ (rest # <<>> => Len(rest) > 0)
      BY <1>1, <2>1, EmptySeq, LenProperties
    <3>2. Saved(box[n], rest) \in Boxes
      BY <2>1, <3>1, SavedTyped DEF ListsTyped
    <3>3. (IF sel[n] >= Len(rest) /\ rest # <<>> THEN Len(rest) - 1 ELSE sel[n])
            \in 0 .. MaxOrders - 1
      BY <1>1, <3>1
    <3> QED
      BY <2>1, <2>2, <3>1, <3>2, <3>3 DEF ListsTyped
  <2>4. AirTyped'
    <3>1. Transmits(n, <<Packet("clear", order.id, order.zone)>>)
      BY <1>6 DEF ClearSelected, order
    <3> QED
      BY <1>4, <3>1, PacketTyped, OneTyped
  <2> QED
    BY <1>6, <2>3, <2>4 DEF ClearSelected, FixedTyped, MemoryTyped
<1> QED
  BY <1>5, <1>6

LEMMA InitTyped ==
  ASSUME NEW modes \in [Nodes -> Modes], NEW zones \in [Nodes -> PagerZones],
         PagerInit(modes, zones)
  PROVE  PagerTyped
<1> USE MeshPagerAssumption DEF PagerInit
<1>1. PICK none : none = <<>>
  OBVIOUS
<1>2. /\ none \in Seq(Orders) /\ none \in Seq(Ids) /\ none \in Seq(Requests)
      /\ none \in Seq(AirPackets) /\ Len(none) = 0
  BY <1>1, EmptySeq
<1>3. FixedTyped
  BY DEF FixedTyped
<1>4. ListsTyped
  <2>1. orders = [n \in Nodes |-> none]
    BY <1>1, Zenon
  <2>2. box \in [Nodes -> Boxes]
    BY DEF Boxes, Slots
  <2>3. sel \in [Nodes -> 0 .. MaxOrders - 1]
    OBVIOUS
  <2>4. orders \in [Nodes -> Seq(Orders)] /\ \A n \in Nodes : orders[n] = none
    BY <1>2, <2>1
  <2>5. \A n \in Nodes : Len(orders[n]) <= MaxOrders
    BY <1>2, <2>4
  <2> QED
    BY <2>2, <2>3, <2>4, <2>5 DEF ListsTyped
<1>5. MemoryTyped
  <2>1. seen = [n \in Nodes |-> none] /\ requests = [n \in Nodes |-> none]
    BY <1>1, Zenon
  <2> QED
    BY <1>2, <2>1 DEF MemoryTyped
<1>6. AirTyped
  <2>1. tx = [n \in Nodes |-> none]
    BY <1>1, Zenon
  <2> QED
    BY <1>2, <2>1 DEF AirTyped
<1> QED
  BY <1>3, <1>4, <1>5, <1>6 DEF PagerTyped

LEMMA PagerTypedOK == PagerTyped => PagerTypeOK
<1> SUFFICES ASSUME PagerTyped, NEW n \in Nodes
             PROVE  /\ FixedTyped
                    /\ orders[n] \in Seq(Orders) /\ Len(orders[n]) <= MaxOrders
                    /\ box[n].cnt \in 0 .. MaxOrders
                    /\ box[n].slot \in [1 .. BoxSize -> Slots]
                    /\ sel[n] \in 0 .. MaxOrders - 1
                    /\ seen[n] \in Seq(Ids) /\ Len(seen[n]) <= SeenSize
                    /\ requests[n] \in Seq(Requests) /\ Len(requests[n]) <= MaxRequests
                    /\ tx[n] \in Seq(Packets) /\ Len(tx[n]) <= 2
  BY DEF PagerTypeOK, PagerTyped, FixedTyped, Slots, Requests
<1>1. tx[n] \in Seq(Packets) /\ Len(tx[n]) <= 2
  <2>1. AirPackets \subseteq Packets
    BY DEF AirPackets
  <2>2. tx[n] \in Seq(AirPackets) /\ Len(tx[n]) <= 2
    BY DEF PagerTyped, AirTyped
  <2> QED
    BY <2>1, <2>2, SeqMonotonic
<1>2. box[n].cnt \in 0 .. MaxOrders /\ box[n].slot \in [1 .. BoxSize -> Slots]
  BY DEF PagerTyped, ListsTyped, Boxes
<1> QED
  BY <1>1, <1>2 DEF PagerTyped, ListsTyped, MemoryTyped

-----------------------------------------------------------------------------
(* What a pager remembers of the packets it has seen. *)

Different(s) == \A j, k \in 1 .. Len(s) : s[j] = s[k] => j = k

\* A sequence of different members of S that lacks one of them is shorter
\* than S is large.
LEMMA RoomForFresh ==
  ASSUME NEW S, IsFiniteSet(S), NEW s \in Seq(S), Different(s),
         NEW e \in S, ~Contains(s, e)
  PROVE  /\ Len(s) < Cardinality(S)
         /\ Different(Append(s, e)) /\ Contains(Append(s, e), e)
         /\ \A i : Contains(s, i) => Contains(Append(s, e), i)
<1> DEFINE t == Append(s, e)
           D == 1 .. Len(t)
<1>1. /\ Len(s) \in Nat /\ t \in Seq(S) /\ Len(t) = Len(s) + 1
      /\ \A k \in 1 .. Len(s) : t[k] = s[k]
      /\ t[Len(t)] = e
  BY LenProperties, AppendProperties
<1> HIDE DEF t
<1>2. \A k \in D : k \in 1 .. Len(s) \/ k = Len(t)
  BY <1>1
<1>3. \A k \in 1 .. Len(s) : s[k] # e
  BY DEF Contains
<1>4. \A j, k \in D : t[j] = t[k] => j = k
  BY <1>1, <1>2, <1>3 DEF Different
<1>5. t \in [D -> S]
  BY <1>1, LenProperties
<1>6. t \in Injection(D, S)
  BY <1>4, <1>5 DEF Injection, IsInjective
<1>7. Cardinality(D) <= Cardinality(S)
  BY <1>6, FS_Injection
<1>8. Cardinality(D) = Len(s) + 1
  BY <1>1, FS_Interval
<1>9. Cardinality(S) \in Nat
  BY FS_CardinalityType
<1>10. Len(s) < Cardinality(S)
  BY <1>1, <1>7, <1>8, <1>9
<1>11. Contains(t, e)
  BY <1>1 DEF Contains
<1>12. \A i : Contains(s, i) => Contains(t, i)
  BY <1>1 DEF Contains
<1>13. Different(t)
  BY <1>4 DEF Different
<1> QED
  BY <1>10, <1>11, <1>12, <1>13 DEF t

-----------------------------------------------------------------------------
(* Lists and the ids in them. *)

OneEach(list) == \A j, k \in DOMAIN list : list[j].id = list[k].id => j = k

\* t has the orders of s at the same places, perhaps with another status.
SameIds(s, t) == DOMAIN t = DOMAIN s /\ \A k \in DOMAIN s : t[k].id = s[k].id

LEMMA SameIdsKept ==
  ASSUME NEW s, NEW t, SameIds(s, t)
  PROVE  IdsOf(t) = IdsOf(s) /\ (OneEach(s) => OneEach(t))
BY DEF SameIds, IdsOf, OneEach

LEMMA IdsTyped ==
  ASSUME NEW list \in Seq(Orders) PROVE IdsOf(list) \subseteq Ids
<1>1. \A k \in DOMAIN list : list[k] \in Orders
  OBVIOUS
<1> QED
  BY <1>1 DEF IdsOf, Orders

LEMMA AppendIds ==
  ASSUME NEW list \in Seq(Orders), NEW order \in Orders
  PROVE  /\ IdsOf(Append(list, order)) = IdsOf(list) \cup {order.id}
         /\ OneEach(list) /\ order.id \notin IdsOf(list) => OneEach(Append(list, order))
<1> DEFINE t == Append(list, order)
<1>1. /\ Len(list) \in Nat /\ Len(t) = Len(list) + 1
      /\ DOMAIN list = 1 .. Len(list) /\ DOMAIN t = 1 .. Len(t)
      /\ \A k \in 1 .. Len(list) : t[k] = list[k]
      /\ t[Len(t)] = order
  BY LenProperties, AppendProperties
<1> HIDE DEF t
<1>2. \A k \in DOMAIN t : k \in DOMAIN list \/ k = Len(t)
  BY <1>1
<1>3. \A k \in DOMAIN list : k \in DOMAIN t
  BY <1>1
<1>4. Len(t) \in DOMAIN t
  BY <1>1
<1>5. IdsOf(t) = IdsOf(list) \cup {order.id}
  <2>1. ASSUME NEW k \in DOMAIN t PROVE t[k].id \in IdsOf(list) \cup {order.id}
    BY <1>1, <1>2 DEF IdsOf
  <2>2. ASSUME NEW k \in DOMAIN list PROVE list[k].id \in IdsOf(t)
    BY <1>1, <1>3 DEF IdsOf
  <2>3. order.id \in IdsOf(t)
    BY <1>1, <1>4 DEF IdsOf
  <2> QED
    BY <2>1, <2>2, <2>3 DEF IdsOf
<1>6. ASSUME OneEach(list), order.id \notin IdsOf(list) PROVE OneEach(t)
  <2> SUFFICES ASSUME NEW j \in DOMAIN t, NEW k \in DOMAIN t, t[j].id = t[k].id
               PROVE  j = k
    BY DEF OneEach
  <2>1. \A i \in DOMAIN list : list[i].id # order.id /\ t[i] = list[i]
    BY <1>1, <1>6 DEF IdsOf
  <2> QED
    BY <1>1, <1>2, <1>6, <2>1 DEF OneEach
<1> QED
  BY <1>5, <1>6 DEF t

\* RemoveAt closes up.
LEMMA RemoveAtElements ==
  ASSUME NEW S, NEW s \in Seq(S), NEW k \in 1 .. Len(s)
  PROVE  \A j \in 1 .. Len(s) - 1 :
           RemoveAt(s, k)[j] = IF j < k THEN s[j] ELSE s[j + 1]
<1> DEFINE a == SubSeq(s, 1, k - 1)
           b == SubSeq(s, k + 1, Len(s))
<1>0. Len(s) \in Nat
  BY LenProperties
<1>1. a \in Seq(S) /\ Len(a) = k - 1 /\ \A j \in 1 .. k - 1 : a[j] = s[j]
  <2>1. 1 \in 1 .. Len(s) + 1 /\ k - 1 \in 0 .. Len(s)
    BY <1>0
  <2>2. a \in Seq(S) /\ Len(a) = k - 1 /\ \A j \in 1 .. k - 1 : a[j] = s[1 + j - 1]
    BY <1>0, <2>1, SubSeqProperties
  <2> QED
    BY <1>0, <2>2
<1>2. b \in Seq(S) /\ Len(b) = Len(s) - k /\ \A j \in 1 .. Len(s) - k : b[j] = s[k + j]
  <2>1. k + 1 \in 1 .. Len(s) + 1 /\ Len(s) \in 0 .. Len(s)
    BY <1>0
  <2>2. /\ b \in Seq(S) /\ Len(b) = Len(s) - k
        /\ \A j \in 1 .. Len(s) - (k + 1) + 1 : b[j] = s[(k + 1) + j - 1]
    BY <1>0, <2>1, SubSeqProperties
  <2>3. ASSUME NEW j \in 1 .. Len(s) - k PROVE b[j] = s[k + j]
    <3>1. j \in 1 .. Len(s) - (k + 1) + 1 /\ (k + 1) + j - 1 = k + j
      BY <1>0
    <3> QED
      BY <2>2, <3>1
  <2> QED
    BY <2>2, <2>3
<1> HIDE DEF a, b
<1>3. /\ Len(a \o b) = Len(a) + Len(b)
      /\ \A j \in 1 .. Len(a) + Len(b) :
           (a \o b)[j] = IF j <= Len(a) THEN a[j] ELSE b[j - Len(a)]
  BY <1>1, <1>2, ConcatProperties
<1>4. RemoveAt(s, k) = a \o b
  BY DEF RemoveAt, a, b
<1> SUFFICES ASSUME NEW j \in 1 .. Len(s) - 1
             PROVE  (a \o b)[j] = IF j < k THEN s[j] ELSE s[j + 1]
  BY <1>4
<1>5. j \in 1 .. Len(a) + Len(b)
  BY <1>0, <1>1, <1>2
<1>6. CASE j < k
  <2>1. j \in 1 .. k - 1 /\ j <= Len(a)
    BY <1>0, <1>1, <1>6
  <2> QED
    BY <1>1, <1>3, <1>5, <1>6, <2>1
<1>7. CASE ~(j < k)
  <2>1. j - Len(a) \in 1 .. Len(s) - k /\ ~(j <= Len(a)) /\ k + (j - Len(a)) = j + 1
    BY <1>0, <1>1, <1>7
  <2> QED
    BY <1>2, <1>3, <1>5, <1>7, <2>1
<1> QED
  BY <1>6, <1>7

LEMMA RemoveIds ==
  ASSUME NEW list \in Seq(Orders), NEW k \in 1 .. Len(list)
  PROVE  /\ IdsOf(RemoveAt(list, k)) \subseteq IdsOf(list)
         /\ OneEach(list) => /\ OneEach(RemoveAt(list, k))
                             /\ list[k].id \notin IdsOf(RemoveAt(list, k))
<1> DEFINE t == RemoveAt(list, k)
           at(j) == IF j < k THEN j ELSE j + 1
<1>1. /\ Len(list) \in Nat /\ DOMAIN list = 1 .. Len(list) /\ DOMAIN t = 1 .. Len(list) - 1
  <2>1. t \in Seq(Orders) /\ Len(t) = Len(list) - 1
    BY RemoveAtTyped
  <2> HIDE DEF t
  <2> QED
    BY <2>1, LenProperties
<1>2. \A j \in DOMAIN t : t[j] = list[at(j)]
  BY <1>1, RemoveAtElements
<1>3. \A j \in DOMAIN t : at(j) \in DOMAIN list /\ at(j) # k
  BY <1>1
<1>4. \A i, j \in DOMAIN t : at(i) = at(j) => i = j
  BY <1>1
<1> HIDE DEF t, at
<1>5. IdsOf(t) \subseteq IdsOf(list)
  BY <1>2, <1>3 DEF IdsOf
<1>6. OneEach(list) => OneEach(t)
  BY <1>2, <1>3, <1>4 DEF OneEach
<1>7. OneEach(list) => list[k].id \notin IdsOf(t)
  BY <1>1, <1>2, <1>3 DEF OneEach, IdsOf
<1> QED
  BY <1>5, <1>6, <1>7 DEF t

\* A list with each order once has room for another while it is shorter than
\* there are ids.
LEMMA RoomInList ==
  ASSUME IsFiniteSet(Ids), NEW list \in Seq(Orders), OneEach(list),
         NEW id \in Ids, id \notin IdsOf(list)
  PROVE  Len(list) < Cardinality(Ids)
<1> DEFINE s == [k \in 1 .. Len(list) |-> list[k].id]
<1>1. Len(list) \in Nat /\ DOMAIN list = 1 .. Len(list)
  BY LenProperties
<1>2. \A k \in 1 .. Len(list) : list[k].id \in Ids
  <2>1. \A k \in 1 .. Len(list) : list[k] \in Orders
    BY <1>1
  <2> QED
    BY <2>1 DEF Orders
<1>3. s \in Seq(Ids) /\ Len(s) = Len(list)
  BY <1>1, <1>2
<1>4. Different(s)
  BY <1>1, <1>3 DEF Different, OneEach
<1>5. ~Contains(s, id)
  BY <1>1, <1>3 DEF Contains, IdsOf
<1> HIDE DEF s
<1> QED
  BY <1>3, <1>4, <1>5, RoomForFresh

\* processPacketData changes no list but its pager's: an order there may change
\* its status; or the order of the packet, not listed so far, is appended and
\* the list saved.
TakesOrder(n, p) ==
  \E order \in Orders :
    /\ order.id = p.id /\ Fresh(n, p) /\ ForUs(n, p)
    /\ p.id \notin IdsOf(orders[n]) /\ Len(orders[n]) < MaxOrders
    /\ orders' = [orders EXCEPT ![n] = Append(orders[n], order)]
    /\ box' = [box EXCEPT ![n] = Saved(box[n], Append(orders[n], order))]

LEMMA ProcessLists ==
  ASSUME PagerTyped, NEW n \in Nodes, NEW p \in AirPackets, Process(n, p)
  PROVE  \/ TakesOrder(n, p)
         \/ /\ box' = box
            /\ \A m \in Nodes : SameIds(orders[m], orders'[m])
            /\ Fresh(n, p) /\ ForUs(n, p) =>
                 p.id \in IdsOf(orders[n]) \/ ~(Len(orders[n]) < MaxOrders)
<1> USE DEF PagerTyped
<1>1. CASE DropSeen(n, p)
  BY <1>1 DEF DropSeen, SameIds
<1>2. CASE TakeOrder(n, p)
  <2> DEFINE new == [id |-> p.id, zone |-> p.zone,
                     expiry |-> clock[n] + Timeout, status |-> "pending"]
  <2>1. CASE ~Exists(n, p.id) /\ Len(orders[n]) < MaxOrders
    <3>1. p.id \in Ids /\ p.zone \in PagerZones \cup {0}
      BY <1>2 DEF TakeOrder, ForUs, AirPackets, Packets
    <3>2. new \in Orders /\ new.id = p.id
      BY <3>1, MeshPagerAssumption DEF Orders, Status, FixedTyped
    <3>3. Saves(n, Append(orders[n], new))
      BY <1>2, <2>1 DEF TakeOrder
    <3> HIDE DEF new
    <3> QED
      BY <1>2, <2>1, <3>2, <3>3 DEF TakesOrder, Saves, Lists, Exists, TakeOrder
  <2>2. CASE ~(~Exists(n, p.id) /\ Len(orders[n]) < MaxOrders)
    BY <1>2, <2>2 DEF TakeOrder, SameIds, Exists
  <2> QED
    BY <2>1, <2>2
<1>3. CASE NoteStatus(n, p)
  <2>1. PICK status \in {"ack", "completed"} :
          Lists(n, [k \in DOMAIN orders[n] |->
                      IF orders[n][k].id = p.id
                      THEN [orders[n][k] EXCEPT !.status = status] ELSE orders[n][k]])
    BY <1>3 DEF NoteStatus
  <2> DEFINE list == [k \in DOMAIN orders[n] |->
                        IF orders[n][k].id = p.id
                        THEN [orders[n][k] EXCEPT !.status = status] ELSE orders[n][k]]
  <2>2. \A k \in DOMAIN orders[n] : orders[n][k] \in Orders
    BY DEF ListsTyped
  <2>3. SameIds(orders[n], list)
    BY <2>2 DEF SameIds, Orders
  <2>4. orders' = [orders EXCEPT ![n] = list]
    BY <2>1 DEF Lists
  <2> HIDE DEF list
  <2>5. \A m \in Nodes : SameIds(orders[m], orders'[m])
    BY <2>3, <2>4 DEF ListsTyped, SameIds
  <2> QED
    BY <1>3, <2>5 DEF NoteStatus, ForUs
<1>4. CASE NoteDelivered(n, p) \/ PassOn(n, p)
  BY <1>4 DEF NoteDelivered, PassOn, SameIds, ForUs
<1> QED
  BY <1>1, <1>2, <1>3, <1>4 DEF Process

\* The driver's buttons save the list: with one status changed, or without the
\* selected order.
LEMMA AckLists ==
  ASSUME PagerTyped, NEW n \in Nodes, AckSelected(n)
  PROVE  \E list \in Seq(Orders) :
           Len(list) <= MaxOrders /\ SameIds(orders[n], list) /\ Saves(n, list)
<1> DEFINE k == sel[n] + 1
           new == [orders[n][k] EXCEPT !.status = "ack"]
           list == [orders[n] EXCEPT ![k] = new]
<1>1. /\ orders[n] \in Seq(Orders) /\ Len(orders[n]) <= MaxOrders
      /\ Len(orders[n]) \in Nat /\ sel[n] \in 0 .. MaxOrders - 1 /\ MaxOrders \in Nat
      /\ DOMAIN orders[n] = 1 .. Len(orders[n])
  BY LenProperties, MeshPagerAssumption DEF PagerTyped, ListsTyped
<1>2. k \in 1 .. Len(orders[n]) /\ orders[n][k] \in Orders
  <2>1. k \in 1 .. Len(orders[n])
    BY <1>1 DEF AckSelected
  <2> QED
    BY <1>1, <2>1, ElementOfSeq
<1>3. new \in Orders /\ new.id = orders[n][k].id
  BY <1>2 DEF Orders, Status
<1>4. Saves(n, list)
  BY DEF AckSelected
<1> HIDE DEF new, k
<1>5. list \in Seq(Orders) /\ Len(list) <= MaxOrders
  BY <1>1, <1>2, <1>3, ExceptSeq
<1>6. SameIds(orders[n], list)
  BY <1>1, <1>2, <1>3 DEF SameIds
<1> HIDE DEF list
<1> QED
  BY <1>4, <1>5, <1>6

LEMMA ClearLists ==
  ASSUME PagerTyped, NEW n \in Nodes, ClearSelected(n)
  PROVE  /\ sel[n] + 1 \in 1 .. Len(orders[n])
         /\ RemoveAt(orders[n], sel[n] + 1) \in Seq(Orders)
         /\ Len(RemoveAt(orders[n], sel[n] + 1)) <= MaxOrders
         /\ Saves(n, RemoveAt(orders[n], sel[n] + 1))
<1>1. /\ orders[n] \in Seq(Orders) /\ Len(orders[n]) <= MaxOrders
      /\ Len(orders[n]) \in Nat /\ sel[n] \in 0 .. MaxOrders - 1 /\ MaxOrders \in Nat
  BY LenProperties, MeshPagerAssumption DEF PagerTyped, ListsTyped
<1>2. sel[n] + 1 \in 1 .. Len(orders[n])
  BY <1>1 DEF ClearSelected
<1>3. /\ RemoveAt(orders[n], sel[n] + 1) \in Seq(Orders)
      /\ Len(RemoveAt(orders[n], sel[n] + 1)) = Len(orders[n]) - 1
  BY <1>1, <1>2, RemoveAtTyped
<1>4. Len(RemoveAt(orders[n], sel[n] + 1)) <= MaxOrders
  BY <1>1, <1>3
<1>5. Saves(n, RemoveAt(orders[n], sel[n] + 1))
  BY DEF ClearSelected
<1> QED
  BY <1>2, <1>3, <1>4, <1>5

\* What holds of every element of two sequences holds of every element of what
\* is made of them.
LEMMA AppendElements ==
  ASSUME NEW S, NEW s \in Seq(S), NEW e \in S
  PROVE  \A k \in DOMAIN Append(s, e) :
           (k \in DOMAIN s /\ Append(s, e)[k] = s[k]) \/ Append(s, e)[k] = e
<1> DEFINE t == Append(s, e)
<1>1. /\ Len(s) \in Nat /\ Len(t) = Len(s) + 1 /\ t \in Seq(S)
      /\ DOMAIN s = 1 .. Len(s) /\ DOMAIN t = 1 .. Len(t)
      /\ \A k \in 1 .. Len(s) : t[k] = s[k]
      /\ t[Len(t)] = e
  BY LenProperties, AppendProperties
<1> HIDE DEF t
<1>2. \A k \in DOMAIN t : k \in DOMAIN s \/ k = Len(t)
  BY <1>1
<1>3. \A k \in DOMAIN t : (k \in DOMAIN s /\ t[k] = s[k]) \/ t[k] = e
  BY <1>1, <1>2
<1> QED
  BY <1>3 DEF t

LEMMA TailElements ==
  ASSUME NEW S, NEW s \in Seq(S), s # <<>>
  PROVE  /\ 1 \in DOMAIN s /\ Head(s) = s[1]
         /\ \A k \in DOMAIN Tail(s) : k + 1 \in DOMAIN s /\ Tail(s)[k] = s[k + 1]
<1>1. /\ Head(s) = s[1] /\ Tail(s) \in Seq(S) /\ Len(Tail(s)) = Len(s) - 1
      /\ \A k \in 1 .. Len(Tail(s)) : Tail(s)[k] = s[k + 1]
  BY HeadTailProperties
<1>2. Len(s) \in Nat /\ Len(s) >= 1 /\ DOMAIN s = 1 .. Len(s)
  BY EmptySeq, LenProperties
<1>3. DOMAIN Tail(s) = 1 .. Len(s) - 1
  BY <1>1, LenProperties
<1> QED
  BY <1>1, <1>2, <1>3

LEMMA FrontElements ==
  ASSUME NEW S, NEW s \in Seq(S), s # <<>>
  PROVE  \A k \in DOMAIN Front(s) : k \in DOMAIN s /\ Front(s)[k] = s[k]
<1>1. Len(s) \in Nat /\ Len(s) >= 1 /\ DOMAIN s = 1 .. Len(s)
  BY EmptySeq, LenProperties
<1>2. 1 \in 1 .. Len(s) + 1 /\ Len(s) - 1 \in 0 .. Len(s)
  BY <1>1
<1>3. /\ Front(s) \in Seq(S) /\ Len(Front(s)) = Len(s) - 1
      /\ \A k \in 1 .. Len(s) - 1 : Front(s)[k] = s[1 + k - 1]
  BY <1>1, <1>2, SubSeqProperties DEF Front
<1>4. DOMAIN Front(s) = 1 .. Len(s) - 1
  BY <1>3, LenProperties
<1> QED
  BY <1>1, <1>3, <1>4

LEMMA ConcatElements ==
  ASSUME NEW S, NEW s \in Seq(S), NEW t \in Seq(S)
  PROVE  \A k \in DOMAIN (s \o t) :
           \/ k \in DOMAIN s /\ (s \o t)[k] = s[k]
           \/ \E j \in DOMAIN t : (s \o t)[k] = t[j]
<1> DEFINE u == s \o t
<1>1. /\ u \in Seq(S) /\ Len(u) = Len(s) + Len(t)
      /\ \A k \in 1 .. Len(s) + Len(t) : u[k] = IF k <= Len(s) THEN s[k] ELSE t[k - Len(s)]
      /\ Len(s) \in Nat /\ Len(t) \in Nat
      /\ DOMAIN s = 1 .. Len(s) /\ DOMAIN t = 1 .. Len(t) /\ DOMAIN u = 1 .. Len(u)
  BY ConcatProperties, LenProperties
<1> HIDE DEF u
<1>2. \A k \in DOMAIN u : k > Len(s) => k - Len(s) \in DOMAIN t
  BY <1>1
<1>3. \A k \in DOMAIN u : (k \in DOMAIN s /\ u[k] = s[k]) \/ \E j \in DOMAIN t : u[k] = t[j]
  BY <1>1, <1>2
<1> QED
  BY <1>3 DEF u

LEMMA SingleElement == \A e : \A k \in DOMAIN <<e>> : <<e>>[k] = e
OBVIOUS
================================================================================
