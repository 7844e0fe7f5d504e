------------------------------ MODULE MCPlatform ------------------------------
(***************************************************************************)
(* An instance, for TLC, of the models of the vendored esp-idf-svc.  The   *)
(* services share no state, so their product shows nothing that their sum  *)
(* does not: a behaviour runs one of them, `part`, and the others stay in  *)
(* their initial states.                                                   *)
(***************************************************************************)
EXTENDS MqttClient, EventLoop, EspTimer, EventWait, WifiDriver, HttpServer, HttpReply,
        HttpClient, WsClient, Nvs, Ota, EthDriver, AsyncTls, Ping, Bluetooth, EspNow, Sntp,
        Netif, Mdns, EmbassyAlarms

VARIABLE part   \* the service whose behaviour this is

SmallRaws == {<<>>, <<2>>, <<0, 1>>, <<1, 0, 2>>}

ASSUME SmallCodec == CodecExact

Parts == {"mqtt", "loop", "timer", "wait", "wifi", "server", "reply", "client", "ws", "nvs",
          "ota", "eth", "tls", "ping", "bluetooth", "now", "sntp", "netif", "mdns", "alarms"}

platformVars ==
  <<part, mqttVars, loopVars, timerVars, waitVars, wifiVars, httpVars, replyVars, hcVars,
    wsVars, nvsVars, otaVars, ethVars, tlsVars, pingVars, btVars, nowVars, sntpVars,
    netifVars, mdnsVars, alarmVars>>

PlatformInit ==
  /\ part \in Parts
  /\ MqttInit /\ LoopInit /\ TimerInit /\ WaitInit /\ WifiInit /\ HttpInit /\ ReplyInit
  /\ HcInit /\ (part # "client" => policy = "none" /\ ~rawBody)
  /\ NvsInit /\ (part # "nvs" => nvsKind = "custom")
  /\ WsInit /\ EthInit /\ TlsInit /\ PingInit
  /\ OtaInit /\ (part # "ota" => boot = CHOOSE s \in Slots : TRUE)
  /\ BtInit /\ (part # "bluetooth" => profile = "gap")
  /\ NetifInit /\ (part # "netif" => awaited = CHOOSE k \in Keys : TRUE)
  /\ NowInit /\ SntpInit /\ MdnsInit /\ AlarmInit

Still(p, q, v) == IF p = q THEN TRUE ELSE UNCHANGED v
Rest(p) ==
  /\ UNCHANGED part
  /\ Still(p, "mqtt", mqttVars)      /\ Still(p, "loop", loopVars) /\ Still(p, "timer", timerVars)
  /\ Still(p, "wait", waitVars)      /\ Still(p, "wifi", wifiVars) /\ Still(p, "server", httpVars)
  /\ Still(p, "reply", replyVars)    /\ Still(p, "client", hcVars) /\ Still(p, "ws", wsVars)
  /\ Still(p, "nvs", nvsVars)        /\ Still(p, "ota", otaVars)   /\ Still(p, "eth", ethVars)
  /\ Still(p, "tls", tlsVars)        /\ Still(p, "ping", pingVars) /\ Still(p, "bluetooth", btVars)
  /\ Still(p, "now", nowVars)        /\ Still(p, "sntp", sntpVars) /\ Still(p, "netif", netifVars)
  /\ Still(p, "mdns", mdnsVars)      /\ Still(p, "alarms", alarmVars)

PlatformNext ==
  \/ part = "mqtt" /\ MqttNext /\ Rest("mqtt")
  \/ part = "loop" /\ LoopNext /\ Rest("loop")
  \/ part = "timer" /\ TimerNext /\ Rest("timer")
  \/ part = "wait" /\ WaitNext /\ Rest("wait")
  \/ part = "wifi" /\ WifiNext /\ Rest("wifi")
  \/ part = "server" /\ HttpNext /\ Rest("server")
  \/ part = "reply" /\ ReplyNext /\ Rest("reply")
  \/ part = "client" /\ HcNext /\ Rest("client")
  \/ part = "ws" /\ WsNext /\ Rest("ws")
  \/ part = "nvs" /\ NvsNext /\ Rest("nvs")
  \/ part = "ota" /\ OtaNext /\ Rest("ota")
  \/ part = "eth" /\ EthNext /\ Rest("eth")
  \/ part = "tls" /\ TlsNext /\ Rest("tls")
  \/ part = "ping" /\ PingNext /\ Rest("ping")
  \/ part = "bluetooth" /\ BtNext /\ Rest("bluetooth")
  \/ part = "now" /\ NowNext /\ Rest("now")
  \/ part = "sntp" /\ SntpNext /\ Rest("sntp")
  \/ part = "netif" /\ NetifNext /\ Rest("netif")
  \/ part = "mdns" /\ MdnsNext /\ Rest("mdns")
  \/ part = "alarms" /\ AlarmNext /\ Rest("alarms")

\* What the schedulers owe: ESP-IDF's tasks and the waiters that can run do run;
\* the program reads its events on, and a socket takes what is written to it.
PlatformFairness ==
  /\ WF_mqttVars(part = "mqtt" /\ InCallback)
  /\ WF_mqttVars(part = "mqtt" /\ Next_("blocking"))
  /\ WF_mqttVars(part = "mqtt" /\ (client # "up") /\ DropClient)
  /\ WF_timerVars(part = "timer" /\ TimePasses)
  /\ WF_timerVars(part = "timer" /\ AlarmDue)
  /\ WF_timerVars(part = "timer" /\ Callback)
  /\ WF_timerVars(part = "timer" /\ GoOn)
  /\ WF_waitVars(part = "wait" /\ Notify)
  /\ WF_waitVars(part = "wait" /\ Look)
  /\ WF_waitVars(part = "wait" /\ Sleep)
  /\ WF_waitVars(part = "wait" /\ Wake)
  /\ WF_waitVars(part = "wait" /\ WaitTimeout)
  /\ WF_httpVars(part = "server" /\ RunWork)
  /\ WF_httpVars(part = "server" /\ CloseSocket)
  /\ WF_wsVars(part = "ws" /\ PostFrame)
  /\ WF_wsVars(part = "ws" /\ AskFrame)
  /\ WF_wsVars(part = "ws" /\ TakeFrame)
  /\ WF_wsVars(part = "ws" /\ DropFrame)
  /\ WF_tlsVars(part = "tls" /\ SocketBecomes("write"))
  /\ WF_tlsVars(part = "tls" /\ need["reader"] = "read" /\ SocketBecomes("read"))
  /\ WF_tlsVars(part = "tls" /\ PollWakes("reader"))
  /\ WF_tlsVars(part = "tls" /\ (\E known \in BOOLEAN : WaitTls("reader", known)))
  /\ WF_tlsVars(part = "tls" /\ (\E wants \in {"read", "write"} : GoOnTls("reader", wants)))
  /\ WF_pingVars(part = "ping" /\ Arm_)
  /\ WF_pingVars(part = "ping" /\ StartSession)
  /\ WF_pingVars(part = "ping" /\ LookPing)
  /\ WF_pingVars(part = "ping" /\ OnPingEnd)
  /\ WF_pingVars(part = "ping" /\ EndSession)
  /\ WF_pingVars(part = "ping" /\ Returned)
  /\ WF_pingVars(part = "ping" /\ (\E answered \in BOOLEAN : OnPing(answered)))

PlatformSpec == PlatformInit /\ [][PlatformNext]_platformVars /\ PlatformFairness

-----------------------------------------------------------------------------
\* Whoever waits in a call of the library goes on: the reader of a blocking MQTT
\* client that is dropped, a sender whose WebSocket session was closed meanwhile,
\* the task that posts to a WebSocket reader, ping(), a TLS handshake while the peer
\* answers, a wait for a condition that came true, and after().
CallersReturn ==
  /\ ReaderLearns /\ SendReturns /\ PosterGoesOn /\ PingReturns
  /\ HandshakeEnds /\ WaitEnds /\ AfterReturns

\* What a call that returned says is so: a wait's success, the radio's state, the
\* summary of ping() and the headers of an HTTP answer.
AnswersAreTrue == SuccessIsTrue /\ ReturnIsTrue /\ SummaryIsWhole /\ HeadersAreOwn

\* What several owners share exists as long as one of them has it and goes with the
\* last one, and what ESP-IDF was told of an owner is taken back before the owner is
\* gone: loops, timers, NVS partitions, adopted sockets, the closures of ESP-NOW and
\* SNTP, interfaces, and what mDNS advertises and lends.
ResourcesOwned ==
  /\ LoopOutlivesUsers /\ DroppedIsSilent /\ HeldIsReady /\ SocketClosedOnce
  /\ NowClosures /\ SntpClosures /\ NetifsOwned /\ MdnsLeavesNothing
================================================================================
