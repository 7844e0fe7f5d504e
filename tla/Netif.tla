--------------------------------- MODULE Netif ---------------------------------
(***************************************************************************)
(* netif.rs of the vendored esp-idf-svc: EspNetif, a network interface of  *)
(* ESP-IDF (external) known by its key, the events of its addresses, and   *)
(* the wait until it is up.                                                *)
(***************************************************************************)
EXTENDS Integers, Sequences, FiniteSets

CONSTANTS Keys,      \* the keys of the interfaces
          LastNews   \* bound: address events that are not handled yet

ASSUME NetifAssumption == LastNews \in Nat

VARIABLES stackOn,    \* INITALIZED
          natives,    \* the interfaces that ESP-IDF has
          netif,      \* each key's EspNetif: "none", "made" (in the constructor), "own"
          addressing, \* its IP configuration: "dhcp", "fixed" or "router"
          link,       \* the interfaces that are linked
          address,    \* the interfaces that have an address
          ipNews,     \* the events that the event loop has
          upWait,     \* wait_netif_up: "off", "looking", "asleep", "up" or "late"
          awaited,    \* the interface that it waits for
          netifPanic  \* has the program panicked?

netifVars == <<stackOn, natives, netif, addressing, link, address, ipNews, upWait, awaited,
               netifPanic>>
linkVars == <<link, address, ipNews>>
upVars == <<upWait, awaited>>

NetifInit ==
  /\ stackOn = FALSE /\ natives = {} /\ netif = [k \in Keys |-> "none"]
  /\ addressing = [k \in Keys |-> "dhcp"] /\ link = {} /\ address = {} /\ ipNews = <<>>
  /\ upWait = "off" /\ awaited \in Keys /\ netifPanic = FALSE

\* initialize_netif_stack: once, but again if ESP-IDF refused.
InitStack ==
  /\ ~stackOn /\ stackOn' = TRUE
  /\ UNCHANGED <<natives, netif, addressing, linkVars, upVars, netifPanic>>

\* new_with_conf up to esp_netif_new, which knows no two interfaces of one key.
\* An interface of a fixed address, or a router, has its address at once.
NewNetif(k, conf) ==
  /\ stackOn /\ netif[k] = "none" /\ k \notin natives
  /\ natives' = natives \cup {k} /\ netif' = [netif EXCEPT ![k] = "made"]
  /\ addressing' = [addressing EXCEPT ![k] = conf]
  /\ address' = IF conf = "dhcp" THEN address ELSE address \cup {k}
  /\ UNCHANGED <<stackOn, link, ipNews, upVars, netifPanic>>

\* The rest of it: set_dns and set_secondary_dns, which unwrap.
SetNames(k) ==
  /\ netif[k] = "made"
  /\ \/ netif' = [netif EXCEPT ![k] = "own"] /\ UNCHANGED netifPanic
     \/ addressing[k] # "dhcp" /\ netifPanic' = TRUE /\ UNCHANGED netif
  /\ UNCHANGED <<stackOn, natives, addressing, linkVars, upVars>>

Destroyed(k) ==
  /\ netif' = [netif EXCEPT ![k] = "none"] /\ natives' = natives \ {k}
  /\ link' = link \ {k} /\ address' = address \ {k}

\* Mutant: the handle is not yet an EspNetif when the constructor fails.
FailNamesBare(k) ==
  /\ netif[k] = "made" /\ addressing[k] # "fixed" /\ netif' = [netif EXCEPT ![k] = "none"]
  /\ UNCHANGED <<stackOn, natives, addressing, linkVars, upVars, netifPanic>>

\* The host name of a client, or the DNS offer of a router, is refused: the `?`
\* drops the EspNetif that was just made.
FailNames(k) ==
  /\ netif[k] = "made" /\ addressing[k] # "fixed" /\ Destroyed(k)
  /\ UNCHANGED <<stackOn, addressing, ipNews, upVars, netifPanic>>

\* The drop; BlockingNetif and AsyncNetif own what they wait for.
DropNetif(k) ==
  /\ netif[k] = "own" /\ ~(upWait # "off" /\ awaited = k) /\ Destroyed(k)
  /\ UNCHANGED <<stackOn, addressing, ipNews, upVars, netifPanic>>

-----------------------------------------------------------------------------
\* ESP-IDF: the link, which takes an address of DHCP along, and what DHCP gives
\* and takes.
Links(k) ==
  /\ k \in natives
  /\ \/ k \notin link /\ link' = link \cup {k} /\ UNCHANGED address
     \/ /\ k \in link /\ link' = link \ {k}
        /\ address' = IF addressing[k] = "dhcp" THEN address \ {k} ELSE address
  /\ UNCHANGED <<stackOn, natives, netif, addressing, ipNews, upVars, netifPanic>>

Addresses(k) ==
  /\ k \in link /\ addressing[k] = "dhcp" /\ Len(ipNews) < LastNews
  /\ \/ k \notin address /\ address' = address \cup {k} /\ ipNews' = Append(ipNews, "got")
     \/ k \in address /\ address' = address \ {k} /\ ipNews' = Append(ipNews, "lost")
  /\ UNCHANGED <<stackOn, natives, netif, addressing, link, upVars, netifPanic>>

\* Another event of IP_EVENT.
OtherIpEvent(e) ==
  /\ stackOn /\ Len(ipNews) < LastNews /\ ipNews' = Append(ipNews, e)
  /\ UNCHANGED <<stackOn, natives, netif, addressing, link, address, upVars, netifPanic>>

\* IpEvent::deserialize, in the subscription of the wait, and its notification;
\* an event of an unknown kind panics.  Without a subscriber an event is gone.
DeserializeIp ==
  /\ ipNews # <<>> /\ ipNews' = Tail(ipNews)
  /\ IF upWait = "off" THEN UNCHANGED <<netifPanic, upWait>>
     ELSE /\ netifPanic' = (Head(ipNews) \notin {"assigned", "got", "got6", "lost"})
          /\ upWait' = IF upWait = "asleep" THEN "looking" ELSE upWait
  /\ UNCHANGED <<stackOn, natives, netif, addressing, link, address, awaited>>

IsNetifUp(k) == k \in link /\ k \in address

\* wait_netif_up: subscribe, look, sleep until an event or until UP_TIMEOUT.
AwaitUp(k) ==
  /\ upWait = "off" /\ netif[k] = "own" /\ upWait' = "looking" /\ awaited' = k
  /\ UNCHANGED <<stackOn, natives, netif, addressing, linkVars, netifPanic>>
LookUp ==
  /\ upWait = "looking" /\ upWait' = IF IsNetifUp(awaited) THEN "up" ELSE "asleep"
  /\ UNCHANGED <<stackOn, natives, netif, addressing, linkVars, awaited, netifPanic>>
UpTimeout ==
  /\ upWait = "asleep" /\ upWait' = "late"
  /\ UNCHANGED <<stackOn, natives, netif, addressing, linkVars, awaited, netifPanic>>
UpReturns ==
  /\ upWait \in {"up", "late"} /\ upWait' = "off"
  /\ UNCHANGED <<stackOn, natives, netif, addressing, linkVars, awaited, netifPanic>>

NetifNext ==
  /\ ~netifPanic
  /\ \/ InitStack \/ DeserializeIp \/ LookUp \/ UpTimeout \/ UpReturns
     \/ \E e \in {"assigned", "got6", "unknown"} : OtherIpEvent(e)
     \/ \E k \in Keys :
          \/ \E conf \in {"dhcp", "fixed", "router"} : NewNetif(k, conf)
          \/ SetNames(k) \/ FailNames(k) \/ DropNetif(k) \/ Links(k) \/ Addresses(k)
          \/ AwaitUp(k)

-----------------------------------------------------------------------------
\* ESP-IDF has the interfaces that an EspNetif, or its constructor, has, and no
\* other: a constructor that fails half-way leaves none behind whose key would be
\* taken for ever.
NetifsOwned == natives = {k \in Keys : netif[k] # "none"}
=============================================================================
