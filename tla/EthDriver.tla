------------------------------ MODULE EthDriver ------------------------------
(***************************************************************************)
(* eth.rs of the vendored esp-idf-svc: EthDriver, EspEth, which attaches a *)
(* network interface to it by a piece of glue, and the blocking and        *)
(* asynchronous drivers that wait for its events.  ESP-IDF (external) runs *)
(* the interface, posts its events and calls the receive callback.         *)
(***************************************************************************)
EXTENDS Integers, Sequences

CONSTANTS LastBox,   \* bound: callbacks and pieces of glue made
          EthNews    \* bound: events that are not handled yet

ASSUME EthAssumption == LastBox \in Nat /\ EthNews \in Nat \ {0}

VARIABLES ethAt,      \* "none", "ready", "gone" or "panicked"
          wrapped,    \* is it inside an EspEth?
          ethOn,      \* does ESP-IDF run the interface?
          ethNews,    \* events in flight
          ethStatus,  \* Status
          ethOp,      \* what the caller is in: "idle", "start", "stop", "connected",
                      \* "rx" or "swap"
          rx,         \* the callback that ESP-IDF calls, or 0
          boxes,      \* the callbacks that exist
          glue,       \* the glue that EspEth knows, or 0
          glues,      \* the pieces of glue that exist
          ethMade,       \* callbacks and glue made so far
          stray,      \* history: a frame was handed to a callback that is gone
          refused     \* history: has attaching an interface failed?

ethVars == <<ethAt, wrapped, ethOn, ethNews, ethStatus, ethOp, rx, boxes, glue, glues,
             ethMade, stray, refused>>
boxVars == <<rx, boxes, glue, glues, ethMade, stray, refused>>

EthInit ==
  /\ ethAt = "none" /\ wrapped = FALSE /\ ethOn = FALSE /\ ethNews = <<>>
  /\ ethStatus = "stopped" /\ ethOp = "idle"
  /\ rx = 0 /\ boxes = {} /\ glue = 0 /\ glues = {} /\ ethMade = 0
  /\ stray = FALSE /\ refused = FALSE

Tells(e) == ethNews' = Append(ethNews, e)

\* EthDriver::init and subscribe.
NewEth ==
  /\ ethAt = "none" /\ ethAt' = "ready"
  /\ UNCHANGED <<wrapped, ethOn, ethNews, ethStatus, ethOp, boxVars>>

\* ESP-IDF: the link comes and goes, and frames arrive.
LinkChanges(e) ==
  /\ ethOn /\ Len(ethNews) < EthNews /\ Tells(e)
  /\ UNCHANGED <<ethAt, wrapped, ethOn, ethStatus, ethOp, boxVars>>

FrameArrives ==
  /\ ethOn /\ rx # 0
  /\ stray' = (stray \/ rx \notin boxes)
  /\ UNCHANGED <<ethAt, wrapped, ethOn, ethNews, ethStatus, ethOp, rx, boxes, glue, glues,
                 ethMade, refused>>

\* The driver's subscription.
HandleEth ==
  /\ ethNews # <<>> /\ ethAt = "ready"
  /\ ethStatus' = Head(ethNews) /\ ethNews' = Tail(ethNews)
  /\ UNCHANGED <<ethAt, wrapped, ethOn, ethOp, boxVars>>

-----------------------------------------------------------------------------
EthIsStarted == ethStatus \in {"started", "connected", "disconnected"}

\* start and stop of EthDriver, which the callers below wait after or not.
StartEth(op) ==
  /\ ethAt = "ready" /\ ethOp = "idle" /\ Len(ethNews) < EthNews
  /\ ~ethOn /\ ethOn' = TRUE /\ Tells("started") /\ ethOp' = op
  /\ UNCHANGED <<ethAt, wrapped, ethStatus, boxVars>>

\* esp_eth_stop: nothing to stop is no error; and it may fail, which set_rx_callback,
\* attach_netif, detach_netif and clear_all do not mind.
Stopping ==
  IF ethOn THEN \/ Len(ethNews) < EthNews /\ ethOn' = FALSE /\ Tells("stopped")
                \/ UNCHANGED <<ethOn, ethNews>>
           ELSE UNCHANGED <<ethOn, ethNews>>

StopEth(op) ==
  /\ ethAt = "ready" /\ ethOp = "idle" /\ Stopping
  /\ ethOp' = IF ethOn' THEN "idle" ELSE op
  /\ UNCHANGED <<ethAt, wrapped, ethStatus, boxVars>>

\* wait_connected, and the ends of the waits: the status is what was asked for;
\* only wait_connected ends after CONNECT_TIMEOUT.
AwaitLink ==
  /\ ethAt = "ready" /\ ethOp = "idle" /\ ethOp' = "connected"
  /\ UNCHANGED <<ethAt, wrapped, ethOn, ethNews, ethStatus, boxVars>>

WaitEnds_ ==
  /\ \/ ethOp = "start" /\ EthIsStarted
     \/ ethOp = "stop" /\ ~EthIsStarted
     \/ ethOp = "connected"
  /\ ethOp' = "idle"
  /\ UNCHANGED <<ethAt, wrapped, ethOn, ethNews, ethStatus, boxVars>>

-----------------------------------------------------------------------------
\* Mutant: the driver owns the new callback, and frees the old one, first.
SetRxHasty ==
  /\ ethAt = "ready" /\ ethOp = "idle" /\ ethMade < LastBox /\ Stopping
  /\ ethMade' = ethMade + 1 /\ boxes' = {ethMade'} /\ ethOp' = "rx"
  /\ UNCHANGED <<ethAt, wrapped, ethStatus, rx, glue, glues, stray, refused>>

\* set_rx_callback: the new callback is boxed and ESP-IDF is told of it ...
SetRx ==
  /\ ethAt = "ready" /\ ethOp = "idle" /\ ethMade < LastBox /\ Stopping
  /\ ethMade' = ethMade + 1 /\ boxes' = boxes \cup {ethMade'} /\ rx' = ethMade' /\ ethOp' = "rx"
  /\ UNCHANGED <<ethAt, wrapped, ethStatus, glue, glues, stray, refused>>

\* ... and then the driver keeps it in the place of the old one.
KeepRx ==
  /\ ethOp = "rx" /\ ethOp' = "idle"
  /\ rx' = ethMade /\ boxes' = {ethMade}
  /\ UNCHANGED <<ethAt, wrapped, ethOn, ethNews, ethStatus, glue, glues, ethMade, stray, refused>>

-----------------------------------------------------------------------------
\* attach_netif: it stops the driver and makes the glue.  If the interface
\* cannot be attached the glue stays behind, and is not known to EspEth; wrap_all
\* then drops the EspEth that it has just made.
AttachNetif ==
  /\ ethMade < LastBox /\ Stopping
  /\ ethMade' = ethMade + 1 /\ glues' = glues \cup {ethMade'} /\ ethOp' = "idle"
  /\ \/ glue' = ethMade' /\ wrapped' = TRUE /\ UNCHANGED <<ethAt, refused>>
     \/ /\ refused' = TRUE /\ UNCHANGED <<glue, wrapped>>
        /\ ethAt' = IF wrapped THEN ethAt ELSE "panicked"
  /\ UNCHANGED <<ethStatus, rx, boxes, stray>>

\* EspEth::wrap_all, and swap_netif after its detach.
WrapEth ==
  /\ ethAt = "ready"
  /\ (ethOp = "idle" /\ ~wrapped) \/ ethOp = "swap"
  /\ AttachNetif

\* detach_netif, for swap_netif.
DetachNetif ==
  /\ ethAt = "ready" /\ ethOp = "idle" /\ wrapped /\ glue # 0 /\ Stopping
  /\ glues' = glues \ {glue} /\ glue' = 0 /\ ethOp' = "swap"
  /\ UNCHANGED <<ethAt, wrapped, ethStatus, rx, boxes, ethMade, stray, refused>>

\* Mutant: EspEth is dropped without a drop of its own.
DropEspEthBare ==
  /\ ethAt = "ready" /\ ethOp = "idle" /\ wrapped
  /\ wrapped' = FALSE /\ glue' = 0
  /\ UNCHANGED <<ethAt, ethOn, ethNews, ethStatus, ethOp, rx, boxes, glues, ethMade, stray, refused>>

\* The drop of EspEth detaches the interface; after a swap that failed there is
\* no glue to delete, and its unwrap panics.
DropEspEth ==
  /\ ethAt = "ready" /\ ethOp = "idle" /\ wrapped /\ Stopping
  /\ IF glue = 0 THEN ethAt' = "panicked" /\ UNCHANGED <<wrapped, glue, glues>>
                 ELSE /\ wrapped' = FALSE /\ glue' = 0 /\ glues' = glues \ {glue}
                      /\ UNCHANGED ethAt
  /\ UNCHANGED <<ethStatus, ethOp, rx, boxes, ethMade, stray, refused>>

\* The drop of EthDriver: clear_all stops and uninstalls it, or panics if it still
\* runs; then the callback goes.
DropEth ==
  /\ ethAt = "ready" /\ ethOp = "idle" /\ ~wrapped /\ Stopping
  /\ IF ethOn' THEN ethAt' = "panicked" /\ UNCHANGED <<rx, boxes>>
               ELSE ethAt' = "gone" /\ rx' = 0 /\ boxes' = {}
  /\ UNCHANGED <<wrapped, ethStatus, ethOp, glue, glues, ethMade, stray, refused>>

EthNext ==
  \/ NewEth \/ FrameArrives \/ HandleEth \/ AwaitLink \/ WaitEnds_
  \/ \E e \in {"connected", "disconnected"} : LinkChanges(e)
  \/ \E op \in {"idle", "start"} : StartEth(op)
  \/ \E op \in {"idle", "stop"} : StopEth(op)
  \/ SetRx \/ KeepRx \/ WrapEth \/ DetachNetif \/ DropEspEth \/ DropEth

-----------------------------------------------------------------------------
\* ESP-IDF is never left with a pointer to a callback that was freed, not between
\* the steps of set_rx_callback either, nor when stopping the driver failed; and,
\* unless an interface was refused, the only glue is the one that EspEth will
\* delete.
EthPointsAlive ==
  /\ ~stray /\ (rx = 0 \/ rx \in boxes)
  /\ ~refused => glues = {glue} \ {0}
=============================================================================
