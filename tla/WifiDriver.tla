----------------------------- MODULE WifiDriver -----------------------------
(***************************************************************************)
(* wifi.rs of the vendored esp-idf-svc: WifiDriver, EspWifi around it, and *)
(* the blocking and asynchronous drivers that call it and wait.  The radio *)
(* (external, ESP-IDF's driver) changes state on its own and posts events; *)
(* the system event loop hands them to the driver some time later, so that *)
(* what is_started() and is_connected() say trails the radio.  One thread  *)
(* uses the driver.                                                        *)
(***************************************************************************)
EXTENDS Integers, Sequences

CONSTANT MaxNews   \* bound: events of the radio that are not handled yet

ASSUME WifiAssumption == MaxNews \in Nat

VARIABLES wifiMode,  \* the interfaces that are enabled
          radio,     \* the radio: on or off, sta, ap, scan and wps, and is sta connecting?
          wifiNews,  \* its events, in flight to the driver
          status,    \* WifiDriverStatus
          doing,     \* the operation the caller is in, and how far: "none", "idle",
                     \* "asked", "waiting", "ok", "err" or "dropped"
          reached,   \* history: the radio was in the state asked for since the call
          wifiStale      \* history: an event was in flight when the call was made

wifiVars == <<wifiMode, radio, wifiNews, status, doing, reached, wifiStale>>

Idle == [op |-> "none", at |-> "idle"]

WifiInit ==
  /\ wifiMode = {} /\ wifiNews = <<>>
  /\ radio = [on |-> FALSE, sta |-> "stopped", ap |-> "stopped", scan |-> "idle",
              wps |-> "none", connecting |-> FALSE]
  /\ status = [sta |-> "stopped", ap |-> "stopped", scan |-> "idle", wps |-> "none"]
  /\ doing = [op |-> "none", at |-> "none"]
  /\ reached = FALSE /\ wifiStale = FALSE

-----------------------------------------------------------------------------
\* is_started and is_connected, of the mode m and the status s.
IsStarted(m, s) ==
  /\ m # {}
  /\ "ap" \in m => s.ap = "started"
  /\ "sta" \in m => s.sta \in {"started", "connected"}

IsConnected(m, s) ==
  /\ m # {}
  /\ "ap" \in m => s.ap = "started"
  /\ "sta" \in m => s.sta = "connected"

\* What each operation waits for.
Reached(op, m, s) ==
  CASE op = "start"            -> IsStarted(m, s)
    [] op = "stop"             -> ~IsStarted(m, s)
    [] op = "connect"          -> IsConnected(m, s)
    [] op = "disconnect"       -> ~IsConnected(m, s)
    [] op \in {"scan", "scan_n"} -> s.scan = "done"
    [] op = "wps"              -> s.wps \in {"pin", "done"}

Operations  == {"start", "stop", "connect", "disconnect", "scan", "scan_n", "wps"}
TimeLimited == {"connect", "wps"}

-----------------------------------------------------------------------------
\* The events the radio posts when it goes from r to q.
Posts(r, q) ==
     (IF r.sta = "connected" /\ q.sta # "connected" THEN <<"down">> ELSE <<>>)
  \o (IF r.sta # "stopped" /\ q.sta = "stopped" THEN <<"sta_stop">> ELSE <<>>)
  \o (IF r.sta = "stopped" /\ q.sta # "stopped" THEN <<"sta_start">> ELSE <<>>)
  \o (IF r.sta # "connected" /\ q.sta = "connected" THEN <<"up">> ELSE <<>>)
  \o (IF r.ap # q.ap THEN <<IF q.ap = "started" THEN "ap_start" ELSE "ap_stop">> ELSE <<>>)
  \o (IF r.scan = "busy" /\ q.scan # "busy" THEN <<"scan_done">> ELSE <<>>)
  \o (IF r.wps # q.wps /\ q.wps = "pin" THEN <<"wps_pin">> ELSE <<>>)
  \o (IF r.wps # q.wps /\ q.wps = "done" THEN <<"wps_done">> ELSE <<>>)

RadioBecomes(q) == radio' = q /\ wifiNews' = wifiNews \o Posts(radio, q)

\* The radio with the interfaces of m, on or off.
Powered(r, on, m) ==
  LET sta == IF ~on \/ "sta" \notin m THEN "stopped"
             ELSE IF r.sta = "stopped" THEN "started" ELSE r.sta
  IN  [r EXCEPT !.on = on, !.sta = sta,
                !.ap = IF on /\ "ap" \in m THEN "started" ELSE "stopped",
                !.connecting = @ /\ sta # "stopped",
                !.scan = IF sta = "stopped" /\ @ = "busy" THEN "idle" ELSE @]

\* What the radio does on its own: a connection is made, fails or is lost, a
\* scan or WPS ends; WPS makes its PIN known.
RadioMoves ==
  /\ Len(wifiNews) < MaxNews
  /\ \/ radio.connecting /\ RadioBecomes([radio EXCEPT !.connecting = FALSE, !.sta = "connected"])
     \/ radio.connecting /\ RadioBecomes([radio EXCEPT !.connecting = FALSE])
     \/ radio.sta = "connected" /\ RadioBecomes([radio EXCEPT !.sta = "started"])
     \/ radio.scan = "busy" /\ RadioBecomes([radio EXCEPT !.scan = "done"])
     \/ radio.wps = "busy" /\ RadioBecomes([radio EXCEPT !.wps = "pin"])
     \/ radio.wps \in {"busy", "pin"} /\ RadioBecomes([radio EXCEPT !.wps = "done"])
  /\ reached' = (reached \/ (doing.op # "none" /\ Reached(doing.op, wifiMode, radio')))
  /\ UNCHANGED <<wifiMode, status, doing, wifiStale>>

\* The driver's subscription.
Handle ==
  /\ wifiNews # <<>> /\ doing.at # "dropped"
  /\ wifiNews' = Tail(wifiNews)
  /\ status' = CASE Head(wifiNews) = "ap_start"  -> [status EXCEPT !.ap = "started"]
                 [] Head(wifiNews) = "ap_stop"   -> [status EXCEPT !.ap = "stopped"]
                 [] Head(wifiNews) = "sta_start" -> [status EXCEPT !.sta = "started"]
                 [] Head(wifiNews) = "sta_stop"  -> [status EXCEPT !.sta = "stopped"]
                 [] Head(wifiNews) = "up"        -> [status EXCEPT !.sta = "connected"]
                 [] Head(wifiNews) = "down"      -> [status EXCEPT !.sta = "started"]
                 [] Head(wifiNews) = "scan_done" -> [status EXCEPT !.scan = "done"]
                 [] Head(wifiNews) = "wps_pin"   -> [status EXCEPT !.wps = "pin"]
                 [] Head(wifiNews) = "wps_done"  -> [status EXCEPT !.wps = "done"]
  /\ UNCHANGED <<wifiMode, radio, doing, reached, wifiStale>>

-----------------------------------------------------------------------------
\* WifiDriver::new: esp_wifi_init and the subscription.
NewWifi ==
  /\ doing.at = "none" /\ doing' = Idle
  /\ UNCHANGED <<wifiMode, radio, wifiNews, status, reached, wifiStale>>

\* set_configuration: the mode, then what differs of the interfaces' settings.
SetConfiguration(m) ==
  /\ doing = Idle /\ Len(wifiNews) < MaxNews
  /\ wifiMode' = m
  /\ RadioBecomes(Powered(radio, radio.on, m))
  /\ UNCHANGED <<status, doing, reached, wifiStale>>

\* The radio after an operation was asked of it.  It refuses to connect or scan
\* without a station.
Asked(op, r) ==
  CASE op = "start"      -> Powered(r, TRUE, wifiMode')
    [] op = "stop"       -> Powered(r, FALSE, wifiMode')
    [] op = "connect"    -> [r EXCEPT !.connecting = r.sta # "connected"]
    [] op = "disconnect" -> [r EXCEPT !.connecting = FALSE,
                                      !.sta = IF @ = "connected" THEN "started" ELSE @]
    [] op \in {"scan", "scan_n"} -> [r EXCEPT !.scan = "busy"]
    [] op = "wps"        -> [Powered(r, r.on, wifiMode') EXCEPT !.wps = "busy"]

NeedsStation == {"connect", "scan", "scan_n"}

\* start, stop, connect, disconnect, start_scan and start_wps, as the blocking
\* and the asynchronous driver call them.  WPS enables the station first.
AskRadio(op) ==
  /\ doing = Idle /\ Len(wifiNews) < MaxNews
  /\ op \in NeedsStation => radio.sta # "stopped"
  /\ op \in {"scan", "scan_n"} => radio.scan # "busy"
  /\ op = "wps" => radio.wps = "none"
  /\ wifiMode' = IF op = "wps" THEN wifiMode \cup {"sta"} ELSE wifiMode
  /\ RadioBecomes(Asked(op, radio))
  /\ doing' = [op |-> op, at |-> IF op \in {"scan", "scan_n", "wps"} THEN "asked" ELSE "waiting"]
  /\ reached' = Reached(op, wifiMode', radio') /\ wifiStale' = (wifiNews # <<>>)
  /\ UNCHANGED status

\* Mutant: the end of the last scan is not forgotten.
BegunAgain(op, s) == s

\* The status once a scan or WPS has begun.
Begun(op, s) == IF op = "wps" THEN [s EXCEPT !.wps = "none"] ELSE [s EXCEPT !.scan = "started"]

\* start_scan and start_wps take down what they expect after the radio has
\* begun: its end may have been handled by then, and is forgotten.  A blocking
\* scan is over when the radio lets it go on.
TakeDown ==
  /\ doing.at = "asked"
  /\ doing.op = "scan_n" => radio.scan # "busy"
  /\ status' = Begun(doing.op, status)
  /\ doing' = [doing EXCEPT !.at = IF doing.op = "scan_n" THEN "ok" ELSE "waiting"]
  /\ UNCHANGED <<wifiMode, radio, wifiNews, reached, wifiStale>>

\* wifi_wait_while sees what it waits for.
SeesIt ==
  /\ doing.at = "waiting" /\ Reached(doing.op, wifiMode, status)
  /\ doing' = [doing EXCEPT !.at = "ok"]
  /\ UNCHANGED <<wifiMode, radio, wifiNews, status, reached, wifiStale>>

\* CONNECT_TIMEOUT and WPS_TIMEOUT.  WPS stays enabled.
WaitTimesOut ==
  /\ doing.at = "waiting" /\ doing.op \in TimeLimited
  /\ doing' = [doing EXCEPT !.at = "err"]
  /\ UNCHANGED <<wifiMode, radio, wifiNews, status, reached, wifiStale>>

\* get_scan_result, which resets the scan's status, get_scan_result_n, which
\* does not, and stop_wps, which takes the status and disables WPS, also when
\* nothing but its PIN is known.
Finish ==
  /\ doing.at \in {"ok", "err"}
  /\ doing' = Idle
  /\ \/ ~(doing.op = "wps" /\ doing.at = "ok") /\ UNCHANGED <<status, radio>>
     \/ /\ doing.op \in {"scan", "scan_n"}
        /\ status' = [status EXCEPT !.scan = "idle"] /\ UNCHANGED radio
     \/ /\ doing.op = "wps" /\ doing.at = "ok"
        /\ status' = [status EXCEPT !.wps = "none"]
        /\ radio' = [radio EXCEPT !.wps = "none"]
  /\ reached' = FALSE /\ wifiStale' = FALSE
  /\ UNCHANGED <<wifiMode, wifiNews>>

\* stop_scan: the radio posts the end of the scan that it gave up.
StopScan ==
  /\ doing = Idle /\ Len(wifiNews) < MaxNews
  /\ RadioBecomes([radio EXCEPT !.scan = IF @ = "busy" THEN "idle" ELSE @])
  /\ status' = [status EXCEPT !.scan = "idle"]
  /\ UNCHANGED <<wifiMode, doing, reached, wifiStale>>

-----------------------------------------------------------------------------
\* set_callbacks and swap_netif stop the radio before they change anything.
StopAndSwap ==
  /\ doing = Idle /\ Len(wifiNews) < MaxNews
  /\ RadioBecomes(Powered(radio, FALSE, wifiMode))
  /\ UNCHANGED <<wifiMode, status, doing, reached, wifiStale>>

\* The drop: the radio is stopped and de-initialised, then the subscription goes.
DropWifi ==
  /\ doing = Idle
  /\ RadioBecomes(Powered(radio, FALSE, wifiMode))
  /\ doing' = [Idle EXCEPT !.at = "dropped"]
  /\ UNCHANGED <<wifiMode, status, reached, wifiStale>>

WifiNext ==
  \/ NewWifi \/ RadioMoves \/ Handle
  \/ \E m \in SUBSET {"sta", "ap"} : SetConfiguration(m)
  \/ \E op \in Operations : AskRadio(op)
  \/ TakeDown \/ SeesIt \/ WaitTimesOut \/ Finish
  \/ StopScan \/ StopAndSwap \/ DropWifi

-----------------------------------------------------------------------------
\* An operation that returns without error has done what it was asked to do: the
\* radio was there at some time since the call.  What was in flight to the
\* driver when the call was made may deceive it, and nothing else does.
ReturnIsTrue == doing.at = "ok" /\ ~wifiStale => reached
=============================================================================
