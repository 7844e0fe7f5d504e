---------------------------- MODULE OrderDelivery ----------------------------
(***************************************************************************)
(* The line stores and one tugger on the air.  A transmission is heard by  *)
(* any set of the radios that listen, the rest lose it; a radio keeps the  *)
(* last packet it heard until its program reads it.  Other tuggers and the *)
(* collector only listen to what this tugger transmits, and are left out.  *)
(***************************************************************************)
EXTENDS TuggerStore, LineStore

CONSTANT MayFail   \* who may lose power: "tugger", "lines"

VARIABLES tuggerRadio,  \* the packet in the tugger's radio, if any
          lineRadio,    \* the same for each station
          received,     \* history: orders told "Tugger: Received!"
          served        \* history: orders served

ASSUME OrderDeliveryAssumption ==
  /\ Ids = OrderIds
  /\ MayFail \subseteq {"tugger", "lines"}

lineState   == <<pending, menu, lpc, stamp>>
tuggerState == <<ram, nvs, clock, pc, idx, scan>>
allVars == <<vars, lineState, sent, tuggerRadio, lineRadio, received, served>>

\* While one side takes a step the other is silent.
LinesIdle  == sent' = {} /\ UNCHANGED lineState
TuggerIdle == out' = {} /\ UNCHANGED tuggerState

DeliveryInit ==
  /\ Init /\ LineInit
  /\ tuggerRadio = {}
  /\ lineRadio = [st \in Stations |-> {}]
  /\ received = {}
  /\ served = {}

-----------------------------------------------------------------------------
\* The stations in hearers hear the transmission.  The copies for the
\* collector, which a station drops, are not heard: that they may take the
\* place of an unread ack is the same as that ack not being heard.
LinesHear(hearers, packets) ==
  /\ (\A packet \in packets : packet.type \notin {"ack", "clear"}) => hearers = {}
  /\ lineRadio' = [st \in Stations |->
                     IF st \in hearers THEN packets ELSE lineRadio[st]]

\* The tugger reads its radio, or finds it empty.
TuggerReads ==
  \/ /\ tuggerRadio = {}
     /\ NoPacket
     /\ UNCHANGED tuggerRadio
  \/ \E packet \in tuggerRadio :
       /\ Receive(packet.id, packet.zone) \/ Refuse(packet.id, packet.zone)
       /\ tuggerRadio' = {}

TuggerWorks ==
  /\ \/ Boot \/ Save \/ Expire \/ PassOver \/ EndScan \/ NoServe
     \/ \E d \in PassTimes : BeginPass(d)
  /\ UNCHANGED tuggerRadio

TuggerServes == Serve /\ UNCHANGED tuggerRadio

TuggerStep(hearers) ==
  /\ \/ (TuggerReads \/ TuggerWorks) /\ UNCHANGED served
     \/ TuggerServes /\ served' = served \cup {fifo[head].id}
  /\ LinesHear(hearers, out')
  /\ LinesIdle /\ UNCHANGED received

TuggerFails ==
  /\ "tugger" \in MayFail
  /\ Restart
  /\ tuggerRadio' = {}
  /\ LinesIdle /\ UNCHANGED <<lineRadio, received, served>>

-----------------------------------------------------------------------------
\* A station transmits its order and the tugger may hear it, once setup() has
\* started its radio.  Another station would drop the order (see LinesHear).
LineTransmits(st, tuggerHears) ==
  /\ tuggerHears => pc \notin {"load", "hung", "zone"}
  /\ Retry(st)
  /\ tuggerRadio' = IF tuggerHears THEN sent' ELSE tuggerRadio
  /\ UNCHANGED <<lineRadio, received>>

LineOrders(st) ==
  /\ \/ NoRetry(st)
     \/ \E up, down, select \in BOOLEAN : Keys(st, up, down, select)
  /\ UNCHANGED <<tuggerRadio, lineRadio, received>>

LineReads(st) ==
  /\ \/ /\ lineRadio[st] = {}
        /\ HearNothing(st)
        /\ UNCHANGED received
     \/ \E packet \in lineRadio[st] :
          \/ /\ HearAck(st, packet)
             /\ received' = received \cup {pending[st].id}
          \/ HearOther(st, packet) /\ UNCHANGED received
  /\ lineRadio' = [lineRadio EXCEPT ![st] = {}]
  /\ UNCHANGED tuggerRadio

LineStep(st) ==
  /\ \/ \E tuggerHears \in BOOLEAN : LineTransmits(st, tuggerHears)
     \/ LineOrders(st)
     \/ LineReads(st)
  /\ TuggerIdle /\ UNCHANGED served

LineFails(st) ==
  /\ "lines" \in MayFail
  /\ Reset(st)
  /\ lineRadio' = [lineRadio EXCEPT ![st] = {}]
  /\ TuggerIdle /\ UNCHANGED <<tuggerRadio, received, served>>

DeliveryNext ==
  \/ \E hearers \in SUBSET Stations : TuggerStep(hearers)
  \/ TuggerFails
  \/ \E st \in Stations : LineStep(st) \/ LineFails(st)

DeliverySpec == DeliveryInit /\ [][DeliveryNext]_allVars

\* The stations have read what they heard when the tugger transmits again: it
\* saves and redraws its screen in between, while their passes are short.
LinesKeepUp == out' # {} => \A st \in Stations : lineRadio[st] = {}

\* The tugger acknowledges the order that st transmits, and st hears it.
AckHeard(st) ==
  /\ \E hearers \in SUBSET Stations : st \in hearers /\ TuggerStep(hearers)
  /\ out' = {Report("ack", pending[st].id)}
  /\ LinesKeepUp

OrderHeard(st) ==
  /\ LineTransmits(st, TRUE)
  /\ TuggerIdle /\ UNCHANGED served

\* Every program keeps running, the driver chooses a zone and keeps serving,
\* and the radio loses neither every transmission of a station's order nor
\* every ack of it.
DeliveryFairness ==
  /\ WF_allVars(\E hearers \in SUBSET Stations :
                   TuggerStep(hearers) /\ LinesKeepUp)
  /\ WF_allVars(TuggerStep({}) /\ zone' # zone)
  /\ SF_allVars(\E hearers \in SUBSET Stations :
                   TuggerStep(hearers) /\ LinesKeepUp /\ count' < count)
  /\ \A st \in Stations :
       /\ WF_allVars(LineStep(st))
       /\ SF_allVars(OrderHeard(st))
       /\ SF_allVars(AckHeard(st))

FairDelivery ==
  /\ DeliveryInit /\ [][DeliveryNext /\ LinesKeepUp]_allVars
  /\ DeliveryFairness

-----------------------------------------------------------------------------
\* An order whose line was told "Tugger: Received!" is in the tugger's queue
\* or has been served: the ack, which goes out before the order is queued and
\* saved, never promises what is then lost.
ReceivedIsKept ==
  \A id \in received : Queued(id) \/ id \in served

\* The orders of the ledger: what the stations placed and the tugger took.
Ledger == INSTANCE OrderLedger WITH
            placed <- {id \in Ids : id[2] <= stamp[id[1]]},
            taken  <- {id \in Ids : Queued(id)},
            done   <- served,
            told   <- received
LedgerPromise == Ledger!Spec

\* An order that a station transmits is received in the end, unless a later
\* SELECT takes its place or power is lost.
PendingIsReceived ==
  \A st \in Stations, id \in Ids :
    (pending[st].active /\ pending[st].id = id /\ ~Down)
      ~> (id \in received \/ stamp[st] > id[2] \/ Down)
=============================================================================
