------------------------------- MODULE Bluetooth -------------------------------
(***************************************************************************)
(* bt.rs and bt/ of the vendored esp-idf-svc: BtDriver, which brings the   *)
(* Bluetooth stack of ESP-IDF up and down, and the services upon it.  Each *)
(* kind of service (a profile) has one static BtCallback for all services  *)
(* of its kind; ESP-IDF's task (external) calls it.  The services of a     *)
(* behaviour are of one profile, and their owner is one thread.            *)
(***************************************************************************)
EXTENDS Integers, Sequences, FiniteSets

CONSTANT Guests   \* the services that are made, positive numbers

ASSUME BluetoothAssumption == Guests \subseteq Nat \ {0}

VARIABLES btModem,   \* "whole", "reduced" or "gone": what esp_bt_mem_release has left
          btDriver,  \* BtDriver: "none", "up" or "panicked"
          btStack,   \* how many of the four parts of the stack are up
          profile,   \* the kind of the services
          guest,     \* each service: "none", "new", "set" (the callback is), "ready"
          btKept,      \* the static CALLBACK: its flag, and the service whose closure it has
          btNative,  \* what ESP-IDF was asked for by the profile and still has
          btEvent,   \* the event that ESP-IDF is about to tell, or "none"
          btInside,  \* the service in whose closure ESP-IDF's task is, or 0
          btBroken   \* history: did a call of ESP-IDF fail in an initialisation?

btVars == <<btModem, btDriver, btStack, profile, guest, btKept, btNative, btEvent, btInside,
            btBroken>>
serviceVars == <<profile, guest, btKept, btNative, btEvent, btInside, btBroken>>

Profiles == {"gap", "ble_gap", "gatts", "sink", "source", "duplex", "avrc", "hfp"}
Unset == [flag |-> FALSE, box |-> 0]

BtInit ==
  /\ btModem = "whole" /\ btDriver = "none" /\ btStack = 0
  /\ profile \in Profiles /\ guest = [g \in Guests |-> "none"] /\ btKept = Unset
  /\ btNative = {} /\ btEvent = "none" /\ btInside = 0 /\ btBroken = FALSE

-----------------------------------------------------------------------------
(* The driver. *)

\* reduce_bt_memory and free_bt_memory: once, and only if ESP-IDF agrees; the
\* second takes the modem for ever.
ReleaseMemory(left) ==
  /\ btModem = "whole" /\ btDriver = "none" /\ btModem' = left
  /\ UNCHANGED <<btDriver, btStack, serviceVars>>

\* BtDriver::init: controller init and enable, Bluedroid init and enable.  A step
\* that fails leaves the earlier ones as they are, and nothing undoes them: the
\* first step of a later call then fails too.
NewBtDriver ==
  /\ btDriver = "none" /\ btModem # "gone" /\ btStack = 0
  /\ btStack' \in 0..4
  /\ btDriver' = IF btStack' = 4 THEN "up" ELSE "none"
  /\ UNCHANGED <<btModem, serviceVars>>

\* The drop, when the last service that holds the driver is gone.  A refusal to
\* disable Bluedroid is ignored; what comes next is then refused, and panics.
DropBtDriver ==
  /\ btDriver = "up" /\ \A g \in Guests : guest[g] = "none"
  /\ \/ btDriver' = "none" /\ btStack' = 0
     \/ btDriver' = "panicked" /\ btStack' \in 1..4
  /\ btNative' = {} /\ btEvent' = "none"
  /\ UNCHANGED <<btModem, profile, guest, btKept, btInside, btBroken>>

-----------------------------------------------------------------------------
(* What each profile asks of ESP-IDF after its callback is set, in order. *)

\* A2dpMode: a service of a2dp plays, records or does both.
WithSink   == {"sink", "duplex"}
WithSource == {"source", "duplex"}

GapSteps   == <<"register">>
BleSteps   == <<"register">>
GattsSteps == <<"register">>
A2dpSteps  == <<"register">>
                \o (IF profile \in WithSink THEN <<"sink_data", "sink">> ELSE <<>>)
                \o (IF profile \in WithSource THEN <<"source_data", "source">> ELSE <<>>)
AvrcSteps  == <<"ct", "register">>
HfpSteps   == <<"client", "register", "data">>

Steps == CASE profile = "gap" -> GapSteps   [] profile = "ble_gap" -> BleSteps
           [] profile = "avrc" -> AvrcSteps [] profile = "gatts" -> GattsSteps
           [] profile = "hfp" -> HfpSteps   [] OTHER -> A2dpSteps
StepSet == {Steps[i] : i \in 1..Len(Steps)}

(* And what the drop takes back of it before it clears the callback. *)

GapUndone   == {}
BleUndone   == {"register"}
GattsUndone == {"register"}
A2dpUndone  == (IF profile \in WithSink THEN {"sink"} ELSE {})
                 \cup (IF profile \in WithSource THEN {"source"} ELSE {})
AvrcUndone  == {"ct"}
HfpUndone   == {"client"}

Undone == CASE profile = "gap" -> GapUndone   [] profile = "ble_gap" -> BleUndone
            [] profile = "avrc" -> AvrcUndone [] profile = "gatts" -> GattsUndone
            [] profile = "hfp" -> HfpUndone   [] OTHER -> A2dpUndone

\* The constructors; that of gatts initialises the service as well.
NewGuest(g) ==
  /\ btDriver = "up" /\ guest[g] = "none" /\ profile # "gatts"
  /\ guest' = [guest EXCEPT ![g] = "new"]
  /\ UNCHANGED <<btModem, btDriver, btStack, profile, btKept, btNative, btEvent, btInside,
                 btBroken>>

\* BtCallback::set, with which an initialisation begins, takes the flag or fails.
SetCallback(g) ==
  /\ btDriver = "up" /\ ~btKept.flag
  /\ guest[g] = (IF profile = "gatts" THEN "none" ELSE "new")
  /\ btKept' = [flag |-> TRUE, box |-> g] /\ guest' = [guest EXCEPT ![g] = "set"]
  /\ UNCHANGED <<btModem, btDriver, btStack, profile, btNative, btEvent, btInside, btBroken>>

\* The rest of internal_initialize.  Every step may fail, and the `?` then leaves
\* the callback set and the earlier steps done; a service of gatts is not made.
AskNative(g) ==
  /\ guest[g] = "set"
  /\ \/ btNative' = btNative \cup StepSet
        /\ guest' = [guest EXCEPT ![g] = "ready"] /\ UNCHANGED btBroken
     \/ \E n \in 0..Len(Steps) - 1 :
          btNative' = btNative \cup {Steps[i] : i \in 1..n}
        /\ guest' = [guest EXCEPT ![g] = IF profile = "gatts" THEN "none" ELSE "new"]
        /\ btBroken' = TRUE
  /\ UNCHANGED <<btModem, btDriver, btStack, profile, btKept, btEvent, btInside>>

\* Mutant: the drop does not ask whether this service was initialised.
DropGuestUnasked(g) ==
  /\ guest[g] \in {"new", "ready"} /\ btDriver = "up"
  /\ guest' = [guest EXCEPT ![g] = "none"]
  /\ btKept' = Unset /\ btNative' = btNative \ Undone
  /\ UNCHANGED <<btModem, btDriver, btStack, profile, btEvent, btInside, btBroken>>

\* The drop.  Only what was initialised is undone, but for ble_gap, which keeps no
\* note of it: it unregisters, clears the callback, whosever it is, and panics if
\* there is none.  When ESP-IDF refuses to undo a step, the drop panics before it
\* clears the callback; of duplex, the sink may be undone by then.
DropGuest(g) ==
  /\ guest[g] \in {"new", "ready"} /\ btDriver = "up"
  /\ LET undoes == guest[g] = "ready" \/ profile = "ble_gap"
     IN  \/ /\ guest' = [guest EXCEPT ![g] = "none"]
            /\ IF undoes
               THEN /\ btKept' = Unset /\ btNative' = btNative \ Undone
                    /\ btDriver' = IF btKept.flag THEN "up" ELSE "panicked"
               ELSE UNCHANGED <<btKept, btNative, btDriver>>
         \/ /\ undoes /\ Undone # {} /\ btDriver' = "panicked"
            /\ btNative' \in {btNative} \cup
                 (IF profile = "duplex" THEN {btNative \ {"sink"}} ELSE {})
            /\ UNCHANGED <<guest, btKept>>
  /\ UNCHANGED <<btModem, btStack, profile, btEvent, btInside, btBroken>>

-----------------------------------------------------------------------------
(* Requests and events.  An event is "plain"; has a code that the enums of *)
(* the profile may not list; answers a request; or is of a kind unknown.   *)

Events == {"plain", "unlisted", "answer", "unknown"}

\* Eleven conversions of gap, and those of a2dp, avrc and hfp, unwrap a code.
GapFrom(e)   == IF e = "unlisted" THEN "panic" ELSE IF e = "unknown" THEN "other" ELSE "told"
A2dpFrom(e)  == IF e = "unlisted" THEN "panic" ELSE IF e = "unknown" THEN "other" ELSE "told"
AvrcFrom(e)  == IF e = "unlisted" THEN "panic" ELSE IF e = "unknown" THEN "other" ELSE "told"
HfpFrom(e)   == IF e = "unlisted" THEN "panic" ELSE IF e = "unknown" THEN "other" ELSE "told"
\* ble_gap hands the structures of ESP-IDF on, and knows no other events.
BleFrom(e)   == IF e = "unknown" THEN "panic" ELSE "told"
\* gatts knows REG and READ only: the answers to its own requests are not among them.
GattsFrom(e) == IF e = "plain" THEN "told" ELSE "panic"

From(e) == CASE profile = "gap" -> GapFrom(e)   [] profile = "ble_gap" -> BleFrom(e)
             [] profile = "avrc" -> AvrcFrom(e) [] profile = "gatts" -> GattsFrom(e)
             [] profile = "hfp" -> HfpFrom(e)   [] OTHER -> A2dpFrom(e)

\* A request goes to ESP-IDF, which may refuse it, and its answer is an event.
Request ==
  /\ btDriver = "up" /\ btEvent = "none" /\ btEvent' = "answer"
  /\ UNCHANGED <<btModem, btDriver, btStack, profile, guest, btKept, btNative, btInside, btBroken>>

RequestGap   == profile = "gap" /\ Request /\ \E g \in Guests : guest[g] # "none"
RequestBle   == profile = "ble_gap" /\ Request /\ \E g \in Guests : guest[g] # "none"
RequestGatts == profile = "gatts" /\ Request /\ \E g \in Guests : guest[g] = "ready"
RequestA2dp  == profile \in WithSink \cup WithSource /\ Request /\ \E g \in Guests : guest[g] # "none"
RequestAvrc  == profile = "avrc" /\ Request /\ \E g \in Guests : guest[g] # "none"
RequestHfp   == profile = "hfp" /\ Request /\ \E g \in Guests : guest[g] # "none"

\* ESP-IDF has something to tell of its own.
BtHappens(e) ==
  /\ btDriver = "up" /\ btEvent = "none" /\ btEvent' = e
  /\ UNCHANGED <<btModem, btDriver, btStack, profile, guest, btKept, btNative, btInside, btBroken>>

\* event_handler and BtCallback::call: the event is converted, and the closure
\* called if there is one, without a lock.
HandleBt ==
  /\ btEvent # "none" /\ btInside = 0 /\ btDriver = "up" /\ btEvent' = "none"
  /\ IF "register" \in btNative
     THEN /\ btDriver' = IF From(btEvent) = "panic" THEN "panicked" ELSE "up"
          /\ btInside' = IF From(btEvent) = "panic" THEN 0 ELSE btKept.box
     ELSE UNCHANGED <<btDriver, btInside>>
  /\ UNCHANGED <<btModem, btStack, profile, guest, btKept, btNative, btBroken>>

ClosureReturns ==
  /\ btInside # 0 /\ btInside' = 0
  /\ UNCHANGED <<btModem, btDriver, btStack, profile, guest, btKept, btNative, btEvent, btBroken>>

BtNext ==
  \/ NewBtDriver \/ DropBtDriver \/ HandleBt \/ ClosureReturns
  \/ RequestGap \/ RequestBle \/ RequestGatts \/ RequestA2dp \/ RequestAvrc \/ RequestHfp
  \/ \E left \in {"reduced", "gone"} : ReleaseMemory(left)
  \/ \E e \in Events \ {"answer"} : BtHappens(e)
  \/ \E g \in Guests : NewGuest(g) \/ SetCallback(g) \/ AskNative(g) \/ DropGuest(g)

-----------------------------------------------------------------------------
\* A service that is ready has the callback of its profile, and ESP-IDF calls it,
\* whatever is done with other services of the profile; but not with ble_gap.  And
\* if no initialisation failed half-way, the callback goes with its service.
CallbackIsOwn ==
  /\ \A g \in Guests : guest[g] = "ready" /\ profile # "ble_gap" =>
       btKept = [flag |-> TRUE, box |-> g] /\ "register" \in btNative
  /\ ~btBroken /\ btKept.flag => guest[btKept.box] \in {"set", "ready"}
=============================================================================
