------------------------------ MODULE LineStore ------------------------------
(***************************************************************************)
(* The line stores of TuggerRouteE290Hopefullyfinal_withhash.ino: each has *)
(* a menu of parts, one pending order that it transmits again and again    *)
(* until the order's ack arrives, and a radio that keeps one packet.       *)
(* The 3 s retry timer is a choice of the retry step; the retry counter,   *)
(* which is only displayed, is left out.                                   *)
(***************************************************************************)
EXTENDS Integers

CONSTANTS Stations,   \* LINE_ID
          PartCount,  \* SHIFT_1_COUNT
          Rows,       \* the rows of the menu the code scrolls by
          LastStamp   \* bound: a station makes at most LastStamp orders

ASSUME LineStoreAssumption ==
  /\ PartCount \in Nat \ {0}
  /\ Rows \in Nat \ {0}
  /\ LastStamp \in Nat

VARIABLES pending,  \* the order the station tries to deliver
          menu,     \* selectedIndex and scrollOffset
          lpc,      \* where loop() is
          stamp,    \* millis() at the last SELECT: the next one is later
          sent      \* the packets the last step transmitted

lineVars == <<pending, menu, lpc, stamp, sent>>

\* LINE_ID + "-" + millis() in hexadecimal.
OrderIds == Stations \X (1 .. LastStamp)
NoOrder  == [active |-> FALSE, id |-> <<>>, part |-> 0]
Parts    == 0 .. PartCount - 1

\* transmitPacket: every order is for zone 1.
Request(order) == [type |-> "order", id |-> order.id, zone |-> 1]

LineInit ==
  /\ pending = [st \in Stations |-> NoOrder]
  /\ menu = [st \in Stations |-> [sel |-> 0, scroll |-> 0]]
  /\ lpc = [st \in Stations |-> "retry"]
  /\ stamp = [st \in Stations |-> 0]
  /\ sent = {}

Goto(st, from, to) == lpc[st] = from /\ lpc' = [lpc EXCEPT ![st] = to]

\* Mutant: an order that was transmitted is no longer pending.
RetryOnce(st) ==
  /\ Goto(st, "retry", "keys")
  /\ pending[st].active
  /\ sent' = {Request(pending[st])}
  /\ pending' = [pending EXCEPT ![st].active = FALSE]
  /\ UNCHANGED <<menu, stamp>>

\* 3 s have passed since the last transmission: transmit the pending order.
Retry(st) ==
  /\ Goto(st, "retry", "keys")
  /\ pending[st].active
  /\ sent' = {Request(pending[st])}
  /\ UNCHANGED <<pending, menu, stamp>>

\* Nothing is pending, or it is too early to transmit it again.
NoRetry(st) ==
  /\ Goto(st, "retry", "keys")
  /\ sent' = {}
  /\ UNCHANGED <<pending, menu, stamp>>

\* The menu after UP, and after DOWN.
MoveUp(m) ==
  IF m.sel > 0
  THEN [sel |-> m.sel - 1,
        scroll |-> IF m.sel - 1 < m.scroll THEN m.sel - 1 ELSE m.scroll]
  ELSE m
\* Mutant: the list scrolls a row too late.
MoveDownHidden(m) ==
  IF m.sel < PartCount - 1
  THEN [sel |-> m.sel + 1,
        scroll |-> IF m.sel + 1 > m.scroll + Rows THEN m.scroll + 1 ELSE m.scroll]
  ELSE m

MoveDown(m) ==
  IF m.sel < PartCount - 1
  THEN [sel |-> m.sel + 1,
        scroll |-> IF m.sel + 1 >= m.scroll + Rows THEN m.scroll + 1 ELSE m.scroll]
  ELSE m

\* One pass looks at UP, at DOWN and at SELECT, in this order, and each of
\* them may have been pressed.  SELECT takes the highlighted part, and takes
\* the place of an order that is still pending.
Keys(st, up, down, select) ==
  /\ Goto(st, "keys", "listen")
  /\ LET m1 == IF up THEN MoveUp(menu[st]) ELSE menu[st]
         m2 == IF down THEN MoveDown(m1) ELSE m1
     IN /\ menu' = [menu EXCEPT ![st] = m2]
        /\ IF select
           THEN /\ stamp[st] < LastStamp
                /\ stamp' = [stamp EXCEPT ![st] = @ + 1]
                /\ pending' = [pending EXCEPT ![st] =
                     [active |-> TRUE, id |-> <<st, stamp[st] + 1>>, part |-> m2.sel]]
           ELSE UNCHANGED <<pending, stamp>>
  /\ sent' = {}

\* Mutant: any ack is taken for the pending order's.
HearAnyAck(st, packet) ==
  /\ Goto(st, "listen", "retry")
  /\ packet.type = "ack"
  /\ pending[st].active
  /\ pending' = [pending EXCEPT ![st].active = FALSE]
  /\ sent' = {}
  /\ UNCHANGED <<menu, stamp>>

\* The radio holds the ack of the pending order: "Tugger: Received!".
HearAck(st, packet) ==
  /\ Goto(st, "listen", "retry")
  /\ packet.type = "ack"
  /\ pending[st].active /\ pending[st].id = packet.id
  /\ pending' = [pending EXCEPT ![st].active = FALSE]
  /\ sent' = {}
  /\ UNCHANGED <<menu, stamp>>

\* A clear of any order is displayed as "Tugger: Cleared!"; everything else is
\* dropped.  Neither changes the pending order.
HearOther(st, packet) ==
  /\ Goto(st, "listen", "retry")
  /\ ~(packet.type = "ack" /\ pending[st].active /\ pending[st].id = packet.id)
  /\ sent' = {}
  /\ UNCHANGED <<pending, menu, stamp>>

HearNothing(st) ==
  /\ Goto(st, "listen", "retry")
  /\ sent' = {}
  /\ UNCHANGED <<pending, menu, stamp>>

\* The station loses power: the pending order and the menu are only in RAM.
\* Its millis() starts again; that two boots never press SELECT in the same
\* millisecond, and so never make the same id, is assumed (stamp goes on).
Reset(st) ==
  /\ pending' = [pending EXCEPT ![st] = NoOrder]
  /\ menu' = [menu EXCEPT ![st] = [sel |-> 0, scroll |-> 0]]
  /\ lpc' = [lpc EXCEPT ![st] = "retry"]
  /\ sent' = {}
  /\ UNCHANGED stamp

-----------------------------------------------------------------------------
\* The variables have their types.
LineTypeOK ==
  /\ pending \in [Stations -> [active : BOOLEAN, id : OrderIds \cup {<<>>}, part : Parts]]
  /\ menu \in [Stations -> [sel : Parts, scroll : Parts]]
  /\ lpc \in [Stations -> {"retry", "keys", "listen"}]
  /\ stamp \in [Stations -> 0 .. LastStamp]
  /\ sent \subseteq [type : {"order"}, id : OrderIds, zone : {1}]

\* The highlighted part, the one that SELECT orders, is on the screen.
CursorVisible ==
  \A st \in Stations :
    /\ menu[st].scroll <= menu[st].sel
    /\ menu[st].sel < menu[st].scroll + Rows
=============================================================================
