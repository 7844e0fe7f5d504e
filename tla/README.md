# Tugger call system: TLA+ models, checks and proofs

The repository holds the firmware of a paging system for a factory floor, and the ESP-IDF service
library that its abandoned Rust port vendors and patches. A *line
store* orders a part, a *tugger* (a tow train with a driver) takes the order, the driver
serves it, and everybody speaks LoRa on one channel. There are two generations of
it, which do not talk to each other:

- **Family A**: `firmware/sketch_nov19a` (the tugger, "E213") and
  `firmware/TuggerRouteE290Hopefullyfinal_withhash` (the line store, "E290"). One hop,
  with acknowledgements and retransmission; the tugger keeps its orders in NVS.
- **Family B**: `firmware/TuggerRouteE213Final_withhash`. One program for tuggers,
  collectors and line stations, which relay each other's packets (a mesh).
- **The library**, `esp-idf-svc` in `rust/rust_archive/patches`: safe wrappers around the services of
  ESP-IDF (MQTT, event loops, timers, Wi-Fi, HTTP, NVS, OTA, Bluetooth and more). It is the
  largest body of code in the repository and the only one with threads: callbacks that ESP-IDF's tasks run, condition
  variables, reference counts, closures kept in statics.

Paths below are relative to `src/`. In this document *SK* is
`firmware/sketch_nov19a/sketch_nov19a.ino`, *E290* is the `.ino` of
`firmware/TuggerRouteE290Hopefullyfinal_withhash`, and *MP* (mesh pager) is the `.ino` of
`firmware/TuggerRouteE213Final_withhash`. Library files are named relative to
`rust/rust_archive/patches/esp-idf-svc/src/`.

## 1. Inventory

### Components

| component | state | operations | correct when | model |
|---|---|---|---|---|
| tugger order store (SK) | ring `orderFIFO` with head, tail, count; `hashTable` of pointers into it; `currentZone`; an NVS copy, one key per field and slot; `millis()` | `setup`/`loadOrdersFromNVS`, zone choice, receive, timeout scan, SELECT, `saveOrdersToNVS` | a bounded FIFO queue without duplicates that survives power failures; late orders, and only those, are marked | ProbeTable, TuggerStore, TuggerClock, OrderQueue |
| line store (E290) | one `pendingOrder`; the menu (`selectedIndex`, `scrollOffset`) | retry every 3 s, three keys, receive ack and clear | tries until its order's ack arrives; orders what it highlights | LineStore |
| delivery (SK with E290) | what is in the radios | the two loops, the air, power failures | what the line is told is received is kept; a pending order is received in the end | OrderDelivery, OrderLedger |
| mesh pager (MP) | mode, zone, `orders[]`, selection, `seenPackets`, `activeRequests`; NVS: preferences and the "black box" | `processPacketData`, buttons, serial `MODE:SET`, clean-up, beacon, configuration, restart | the list has no duplicates; the black box restores it and nothing the driver cleared | MeshPager, PagerMemory |
| mesh of pagers (MP, many) | the packets in the radios | relaying, delivery reports | floods end, nothing is relayed twice, orders and reports arrive | Mesh |
| device table (MP 102-160) | `DeviceHashTable`, 160 entries | insert on every packet, clean-up | old devices leave, new ones find room | - |
| web pages, login, crash and KPI logs (MP) | preferences, file system | HTTP handlers | a saved configuration is what runs | only `Configure`, in MeshPager |
| packet encoding (MP) | - | checksum, AES of two text fields | a damaged packet is dropped | - (a lost packet) |
| hybrid pager (`firmware/tugger`, `firmware/tugger_companion`) | an order list, an allow list | single-hop variant of MP | as MP, without relaying and black box | - |
| simulator (`simulation`), serial tester (`tools/tugr_cli.py`) | - | harness | - | - |
| Rust port (`rust/rust_archive/src`) | radio and display on one SPI bus | abandoned; `main.rs` is wrapped in Markdown fences, and without them the second `Peripherals::take()` fails at every start | - | - |
| `scripts`, `ui`, `Modelfile`, `configs`, `certs`, `assets`, `target` | - | tooling and data | - | - |

The services of the library:

| service | state | what is hard | correct when | model |
|---|---|---|---|---|
| hand-over (`private/zerocopy.rs`, `mutex.rs`, `unblocker.rs`) | a cell under a mutex, two condition variables, an async notification | a callback lends a reference to another thread and is blocked until it is given back; cancellation, quitting | no reference outlives its call; no wake-up is lost | Handoff |
| MQTT (`mqtt/client.rs`) | client, connection, work channel and worker task | dropped futures, dropped clients, one work record reused by all calls | every call gets its own result; the reader learns of the end | MqttClient |
| event loops (`eventloop.rs`) | a counted system loop (`TAKEN`), subscriptions, queue | drops during a callback, weak subscriptions | no callback runs after it was freed | EventLoop |
| waits (`eventloop.rs`, `private/waitable.rs`) | matcher, condition variable or notification | notification between look and sleep | a success is true, nobody waits for ever for what is true | EventWait |
| timers (`timer.rs`) | an ESP-IDF timer and a notification; the embassy alarms | stale callbacks, allocation by several tasks | `after()` is not early, returns, and is silent once dropped; alarms are distinct and whole | EspTimer, EmbassyAlarms |
| Wi-Fi (`wifi.rs`) | status fed by events, configuration, WPS, scan | the status trails the radio | a call that returns Ok has done it | WifiDriver |
| HTTP server (`http/server.rs`) | sessions by socket number, queued frames; per request: phase of the reply | a socket number is used again while frames are queued; errors after a partial response | a frame never strays; a request has one complete answer | HttpServer, HttpReply |
| HTTP client (`http/client.rs`) | phase, headers, body framing, redirections | reuse after failures | the body promised is the body sent; headers are of this answer | HttpClient |
| WebSocket client (`ws/client.rs`) | a box with room for one event | producer and consumer on one condition variable | each event once and in order; the poster goes on | WsClient |
| NVS (`nvs.rs`) | taken partitions, counted; an entry per type under one key | two keys of one value, power failures | what is read is what was set last | Nvs |
| OTA (`ota.rs`) | the one service, an update's handle, the boot slot | failures at each step | every handle is ended once | Ota |
| Ethernet (`eth.rs`) | driver, attached interface, callbacks | replacing callbacks, half-done drops | ESP-IDF points to nothing freed | EthDriver |
| TLS (`tls.rs`) | adopted sockets, what TLS waits for | two tasks on one session; closing | the socket is closed once; the handshake ends | AsyncTls |
| ping (`ping.rs`) | a session's counters, a waiter | callbacks of ESP-IDF's task | `ping()` returns and its summary is whole | Ping |
| Bluetooth (`bt/`) | driver's phase, one closure per profile | failures half-way, drops while called | the closure called is the owner's own | Bluetooth |
| ESP-NOW, SNTP, interfaces, mDNS | one instance each (`TAKEN`), closures in statics | two threads taking, dropping and being called | what was registered is gone before its owner is | EspNow, Sntp, Netif, Mdns |
| logging, conversions, C strings, handles | none that outlives a call | - | - | - |

### How they interact

Everything is one packet on the air. In family A a line store transmits its pending order
until an ack with its id arrives; the tugger answers an order for its zone with an ack
(before queuing it), forwards it to a collector, and transmits a timeout report or a clear
later. In family B a line station transmits an order once; every pager that has not seen
the order id relays it, up to three hops; a tugger of the zone lists it and answers with a
delivery report, which floods the mesh the same way.

Inside a program there is one thread, `loop()`. The radio interrupt only sets a flag.
(MP's web server runs in the same loop.) So the concurrency of the system is between
devices, between a device and the air, and between `loop()` and the power switch: NVS is
written one key at a time.

The library is the opposite: a call of the program meets ESP-IDF's tasks (event loop, timer,
Wi-Fi, HTTP server, MQTT, Bluetooth), which call closures that the library keeps in statics or hands over
as pointers, and which may be in the middle of one when its owner is dropped. Its services do not
talk to each other, except through `Handoff` (used by MQTT and by the unblocker), the event loop with its waits (used by
Wi-Fi, Ethernet, interfaces and ping, whose models contain the wait they need) and NVS partitions.

### What is hard

- *Power failures*: NVS is written key by key, RAM-only state next to saved state, creation
  and expiry times that belong to a clock that starts again.
- *The air*: a packet may reach anyone or no one; the radio keeps only the last one;
  retransmissions race acks, floods reach a pager over several paths.
- *Data structures under long runs*: the ring that wraps; a linear-probing table of
  pointers into it, with removal; a seen-list of 30; a black box of ten for a list of
  a hundred.
- *Clocks*: `millis()` wraps, and order ids are made of it.
- *Callbacks* (library): a closure is freed, replaced or re-registered while ESP-IDF's task is calling it;
  a notification falls between a look and a sleep; a step of an initialisation fails and the ones before it stay;
  a future is dropped half-way; a status is read that trails the hardware.

`PROJECT.json` lists the hazards one by one, each at its line and with the properties that watch it.

## 2. The modules

```
ProbeTable ---- TuggerStore ---- TuggerClock ---- ClockProofs       OrderQueue (abstract)
                    |  \-------- TuggerStoreProofs
                    |                    \
LineStore ---- OrderDelivery ---- DeliveryProofs                    OrderLedger (abstract)

MeshPager ---- PagerMemory ---- MemoryProofs
     |  \---- PagerProofs --------/     \
     \-------- Mesh ---------------- MeshProofs

Handoff (abstract for MqttClient) ---- MqttClient
MqttClient  WifiDriver  HttpServer  HttpReply  HttpClient  WsClient  EthDriver      NetworkProofs
AsyncTls  Ping  Bluetooth  EspNow  Sntp  Netif  Mdns                                      |
EventLoop  EventWait  EspTimer  EmbassyAlarms  Nvs  Ota ---- MCPlatform ----- ServiceProofs
```

Each `MC*` module gives the constants of a component that are functions (hash values,
topologies) for TLC; its `.cfg` files give the rest. Definitions whose comment calls them a
*mutant* are plausible mistakes in the code: with a definition replaced by its mutant, one
property of one run must fail. They are no part of the specifications.

### ProbeTable (SK 49-114)

The duplicate index. The code's table stores `OrderItem*`, so a probe compares with the
id the slot holds *now*, not the one it held when it was indexed. The model keeps exactly
that: a bucket holds `Null` or a slot number, and each operator takes the present ids of
the slots (`idAt`). A walk is described by the place where it ends (`FirstStop`), for a
lookup, an insertion and a removal alike. The string hash is the constant `Hash`.

### TuggerStore (SK)

`setup()` and `loop()` with a program counter `pc`: `load -> (zone) -> loop -> rx -> scan
-> button -> loop`, and three places `save*` where a save writes NVS, one key per step.
`Restart` may happen at any step (during a save only with `TornSaves`); it clears RAM and
the clock and reads the scalar keys, `LoadSlot` then reads one slot per step and rebuilds the
index. `Receive` is the whole branch of an accepted packet: the ack, the duplicate test,
the enqueue; the save and the copy for the collector follow it. `Expire` marks one
late order and saves, as the code does, once per late order. `Serve` is the SELECT branch.
`EndLoad` may also end in `hung`, the code's `while (true)` after a failed radio.

Time is `millis()` modulo `ClockMod`; a pass of `loop()` takes a duration out of
`PassTimes`. The packets of a step are in `out`. Zones of packets are compared, and
that is all: parsing (`order,` fields) is abstracted, a packet that does not parse is
`NoPacket`. A save stores an inactive slot as an absent key (`Saved`), as the code does.
Display, heartbeat and logging are left out.

`OrderQueue` is what all of it is for: a bounded FIFO queue of distinct orders with a "late"
mark. `QueuePromise` is the refinement: the queue is read off the ring, from NVS while the
ring is being loaded. Restarts, loads and saves must be stuttering steps.

### TuggerClock (SK 38, 223, 383-399)

TuggerStore with a history variable: the true age of the order in each slot. It decides
whether the scan's unsigned comparison means what `ORDER_TIMEOUT_MS` says.

### LineStore (E290) and OrderDelivery

A pass of the line's `loop()` is three steps: the retry, the keys (UP, DOWN, SELECT, each
pressed or not, in the code's order), the radio. An order id is a station and a stamp
(the code: `LINE_ID-millis()`); `LastStamp` bounds the number of orders. `Reset` is a power
failure: nothing is in NVS.

OrderDelivery puts one tugger and the stations on the air. A transmission is heard by any
subset of the listening radios, which keep the last packet only; the reader may be busy
for any number of steps of the other side. Both sides may lose power (`MayFail`).
The histories `received` and `served` say what the lines were told and what the driver
served. `OrderLedger` is the abstract view: *placed*, *taken*, *done*, *told*.

### MeshPager, PagerMemory and Mesh (MP)

MeshPager has one action per handler, each a whole pass of the code from the call to its
return, parameterised by the pager. `Process` is `processPacketData`, split along its
branches. What is transmitted, in order, is `tx`. The black box keeps the slots beyond the
written ones, as NVS does.

PagerMemory drives pagers with *any* packets, buttons, mode switches, configurations and
restarts, and adds histories of what was heard, listed and cleared. Mesh composes
pagers: `Links` is the topology, a radio keeps up to `RadioKeeps` packets (when full the
last is replaced: with 1 that is the code's single buffer), and an operator makes
orders, accepts and clears them. Modes are fixed and no power is lost in Mesh.

The committed MP file has a stray `radio.startReceive(); }` at file scope (lines 889-890),
left from an edit, which does not compile. The models describe the program without it.

### Handoff and MqttClient (`private/zerocopy.rs`, `private/mutex.rs`, `private/unblocker.rs`, `mqtt/client.rs`)

A channel has one reader and several sharers. A step is what a thread does between taking the channel's mutex and
releasing it, or going to sleep on a condition variable, so that the model has every interleaving the mutex
allows: `Share` offers a value and sleeps, the reader takes it, uses it, gives it back (`TakeBack`), `Done` and `Quit` wake
everybody. The reader may be a future: it is polled, awaits a notification, and may be dropped half-way.

MqttClient uses two channels. On `event` ESP-IDF's MQTT task lends each event to the connection. An asynchronous client
has a worker, which lends its one work record on `work`; the caller fills it in, gives it back, and waits to be lent it again, with
the result. Dropped futures of calls and of `next()` (`Cancel`, `AbandonNext`), and the drop of the client, which quits the channel and destroys
the worker at any step, are actions. Each action is a step of Handoff's or leaves it alone (`MqttImplementsHandoff`).

### EventLoop, EventWait, EspTimer, EmbassyAlarms (`eventloop.rs`, `private/waitable.rs`, `timer.rs`)

EventLoop has the owners of the system loop (`take`, clones, drops), subscriptions strong and weak, the queue and the loop's task, which
runs callbacks one after the other; every drop may fall between its steps. A dropped subscription is `dropped`, or `orphaned` if it was weak and
the last owner had gone while the loop was not yet deleted (`Orphans`): only those are excepted below. EventWait is one wait on a condition that
events change: the handler that changes, the one that notifies, the look, the sleep. EspTimer is `EspAsyncTimer` on
one ESP-IDF timer, whose task takes an alarm off its list first and calls back later; that `esp_timer_delete` refuses while
it calls is taken from the code's comment (`timer.rs` 118-119), and `DroppedIsSilent` rests on it. EmbassyAlarms is the
embassy time driver: tasks allocate alarms from one vector while the timer task calls them.

### WifiDriver (`wifi.rs`)

The radio is the environment: it starts, stops, connects and disconnects by itself and when told to, and posts
an event for each; the driver's status changes when the event is handled. `start`, `stop`, `connect`, `disconnect`, `scan`, `set_configuration` and
WPS, bare and with the waits of `BlockingWifi` and `AsyncWifi`, are the program's calls. `ReturnIsTrue` speaks of the
radio and not of the status, and excepts the calls that section 5 lists.

### HttpServer, HttpReply, HttpClient, WsClient

HttpServer has sockets whose numbers are used again, WebSocket sessions, and detached senders whose frames are queued for the
server's task: a frame carries a session, and the guard of `RunWork` finds out whether it still exists. HttpReply is
one connection's requests: status, headers, chunks, the handler's end and the error page. HttpClient
follows the phases of a connection with the framing of the body and the redirections. WsClient is the task that posts
events, the box, and the reader; an event without data, which ESP-IDF does not raise (`ws/client.rs` 378-380), is left out.

### Nvs, Ota, EthDriver, AsyncTls, Ping, Bluetooth, EspNow, Sntp, Netif, Mdns

Nvs keeps what flash keeps under one key, an entry per type, and steps through erase, write and commit of a setter with power failures and
errors between: any of the three may fail, the erase without a setter noticing (`nvs.rs` 438, 506, 561); a removal that finds nothing, or fails, returns before the commit, so that what a failed call erased before
may come back. The partition is an `NvsDefault`, `NvsCustom` or `NvsEncrypted` (`nvsKind`), each with its own initialisation and drop. Integers have a width, as a raw value of up to seven bytes is packed in a `u64` with its length. Ota, EthDriver and
Bluetooth let each call of ESP-IDF fail, those of the drops included, so that drops find what a failed step left. AsyncTls has a reader
and a writer on one session, and a socket that becomes readable and writable. Ping has ESP-IDF's session task as an actor.
Bluetooth is one module for six profiles (GAP, BLE GAP, GATT server, A2DP, AVRC, HFP), which register
closures in the same way; `profile` is which one the behaviour is of. EspNow, Sntp, Netif and Mdns are singletons that
several threads take and drop while ESP-IDF's tasks call.

MCPlatform instantiates all services for TLC. They share no variables, so a behaviour chooses one of them
(`part`) and the others stay still: the reachable states are the sum of the services' and not their product, and nothing is lost.

## 3. What is checked

Run a check with `tlc -config <cfg> <MC module>` in this directory.

| run (cfg) | question | answer |
|---|---|---|
| MCTuggerStore | Do ring, index and NVS stay consistent, and is the tugger a bounded FIFO queue without duplicates? Is every queued order served by a driver who keeps pressing SELECT, and marked late when nobody does? | yes, when no two ids collide in the index |
| MCTuggerStoreShared | The same queue, with ids that collide | **no**: an order is queued twice |
| MCTuggerClock | Are exactly the orders older than the timeout marked, also when `millis()` wraps? | yes, in one boot |
| MCTuggerClockRestart | Is an order ever marked late too early? | **yes**, after a restart |
| MCOrderDelivery | Over a radio that loses, delays and overwrites, with power failures between saves: is what the line was told kept, and does its menu show what it selects? | yes |
| MCOrderDeliveryFair | Is every pending order received in the end? | yes, unless SELECT replaces it or the tugger is down |
| MCOrderDeliveryTorn | Is a received order kept when power fails during the save? | **no** |
| MCPagerMemory | Do list, black box and seen packets stay consistent under any packets, buttons, clocks, mode switches and restarts? | yes, in the terms below |
| MCMeshLossy | With loss: does a pager relay an order id at most once, is "[ACK]" true, do the floods end? | yes |
| MCMeshRow | Without loss: do orders cross a row of five? | yes |
| MCMeshAck | Does the line then learn of it? | **no** |
| MCPlatform | For each service of the library, with its callers, its own tasks and ESP-IDF in any order: is nothing used after its owner is gone, are answers true, do shared resources end with their last owner, do callers return? | yes, with the exceptions in the properties (section 5) |

MCPlatform has 255,746 states; twenty services are in it. `CHECK_DEADLOCK FALSE` is there because services really stop: a
program may drop what it has and do nothing more. Three of its properties are conjunctions of what the services' own modules
state: `AnswersAreTrue`, `ResourcesOwned` and `CallersReturn`.

The properties in words are in the comments above their definitions. The ones that need a word more:

- `RingWindow`, `NvsInSync` and `NoDuplicateOrders` speak of the ring *and* of NVS: while the ring is
  being loaded, `Stored` is NVS. So a restart has to keep them and not only a pass of `loop()`.
- `QueuePromise` is stronger than all of them about order: a served order is the oldest,
  a restart loses nothing, puts nothing back, and no mark of a late order is lost.
- `LedgerPromise` lets the tugger take an order again that it has served, because the code does
  (see section 5); everything else an order could do is excluded.
- `PendingIsReceived` gives up on an order when a later SELECT takes its place, or when the
  tugger is down, as the code does.
- `ListedOncePerBoot` allows a second listing only when the pager has heard of more orders than
  `seenPackets` keeps, and `BoxHasList` excludes the time between an expiry and the next save. Both
  exceptions are in the code, and each is needed: without it the run fails.
- `BorrowSafe` and `NobodyOversleeps` are the two halves of lending: a borrowed value is there as long as it is read,
  and nobody sleeps through the notification that would have woken him. `ResultIsOwn` puts a protocol on top: one
  record serves all calls, also those whose futures were dropped.
- `StrongNeverMisled` names the callbacks that are called after they were freed: there are some, those of weak subscriptions dropped
  after the loop's last owner went and before the loop is deleted (section 5). A weak subscription dropped while anybody holds the loop is not
  excepted; its mutant is a drop that does not unregister those. `NeverEarly`, `SuccessIsTrue`, `HandleEndedOnce` and `CallbackIsOwn` have exceptions of the
  same kind, named in their comments.
- `ReadsWhatWasSet` allows, after a power failure or a failed call, the value before or no value, and never an older one or a mix of two.
  It excepts a key that an integer setter has set (`typed`) and a value that was written beside an entry of another type which
  `nvs_erase_key` had failed to erase (`mixed`). Without the second exception it fails (section 5).
- `CallbackIsOwn` says whose closure is registered, and not that it outlives a call that is in it: it does not (section 5).
- `OrderSettles` is claimed for a row. There every copy has made as many hops as the
  distance it has covered. Where a longer way can be faster, it fails (section 5).

### Bounds, and why they are enough

- *TuggerStore*: two slots, three ids, two zones, four buckets, timeout 1, clock modulo 4. With
  three ids and two slots the ring wraps, is full, refuses, and reuses slots that the index may still point to; two zones
  make the zone choice and a packet for somebody else; a clock of 4 wraps within a few passes. TuggerClock has passes of 0 to 2 ticks, timeout 2, clock modulo 5, so that
  one pass may skip the very tick at which an order becomes late.
- *OrderDelivery*: one station, two orders, two parts on one visible row, a tugger with two slots, power failures of both. A second station changes little for the
  tugger, to which ids are ids; another line's ack is what `HearOther` handles, and the ack of an
  *older* order of the same station, which the run has, takes the same branch. The liveness run has one slot,
  so that the queue is full when the second order comes.
- *PagerMemory*: three ids, a list of two, a black box of one, a seen-list of two: list longer than box,
  more ids than the seen-list keeps, a list that is full. One tick and a timeout of 0 make an order expire. The modes are `tugger`
  and `line` (a collector differs from a line station only in that it ignores delivery reports and makes no orders).
- *Mesh*: with loss, three pagers that all hear each other, one order, one beacon, two
  hops and the single-packet radio. Three in a triangle is the smallest mesh in which a packet
  comes back by another way. Without loss, a row of five with two orders, and
  the code's `MAX_HOPS` of 3: the tugger is at the end of the reach.
- *MCPlatform*: per service the smallest number of actors in which each race exists: two borrowers and the owner of a channel, two
  owners and two subscribers of a loop, three tasks for two alarms (so that the vector is full), two senders on one reused
  socket number, two threads for each singleton, two guests of a Bluetooth profile. Histories are cut after two to four events,
  requests, frames or posts (`Last...`): enough for a stale one to meet a new one and, in `LastPost` and `LastFrame`, for a third to
  queue behind them. Raw NVS values have up to three pieces in base 3 with a width of 3, so that a value fits the integer entry, just
  does not, or needs the blob. The radio's queue of news has room for two (`MaxNews`): a stale one can be before or behind
  another when a call ends. Three calls of a setter (`LastSet = 3`, two million states for Nvs alone, without the other services) pass as well, and the theorem is for any number.
- `LastStamp` (orders a station makes) and `LastTick` (of a pager's clock) are the only bounds that
  the code of the firmware does not have; the library's are the `Last...`, `EthNews`, `MaxNews` and `Rounds`, all named as bounds in
their modules. `ClockMod` is 2^32 in the code.

Ids are symmetric in PagerMemory, which only compares them and checks no liveness there.

### Fairness

- `Running` (TuggerStore): `setup()` and `loop()` keep running, and somebody chooses the zone on
  the screen that asks for it. Power failures and a hung start are not excluded; the properties end there.
- `QueueDrains` assumes strong fairness of `Serve` as its premise: a driver who presses SELECT
  while the loop can act on it, now and then. `LateIsSeen` assumes nothing of the driver.
- `DeliveryFairness`: the loops run; the driver serves again and again; a transmission that is
  repeated for ever is heard at last, and so is its ack (strong fairness of
  `OrderHeard` and `AckHeard`). This is the only assumption that makes retransmission useful, and
  weak fairness would not do: between two transmissions the action is not enabled.
  `LinesKeepUp` says that a station reads its radio before the tugger's next transmission. The tugger
  saves dozens of NVS keys and redraws an e-paper screen between transmissions, the line's pass is short;
  the safety run does not assume it.
- `PlatformFairness`: the tasks of ESP-IDF and the threads that can run do run (the timer task, the event loop, the HTTP
  server's work queue, the MQTT and WebSocket tasks, the session task of ping); a socket accepts what is written to it in the end and, while a
  handshake waits for the peer, the peer answers; a program that reads events goes on reading and drops what it has read. Nothing else
  is fair: nobody need call anything.
- `FairMesh`: every pager keeps reading and transmitting. Operators do what they like.

### Where a run shows a disagreement

1. **Colliding ids** (MCTuggerStoreShared). `removeFromHashTable` sets a bucket to `nullptr` in the middle of a
   probe chain (SK 103). Orders *a* and *b* share a bucket; *a* is served; the walk for
   *b* stops at the hole; *b*'s repeated packet is queued a second time. With up to 100 orders in 256
   buckets, ids that share a chain are to be expected.
2. **Restart and clocks** (MCTuggerClockRestart). `created` is saved as a reading of `millis()` and
   restored after the clock began again (SK 223). `now - created` wraps: a fresh order is late at once.
3. **Ack before save** (MCOrderDeliveryTorn). `sendAck` (SK 336) precedes the enqueue and the save (SK 364).
4. **Reports look like duplicates** (MCMeshAck). A pager that relayed the order has its id in
   `seenPackets` and drops the delivery report with the same id (MP 914), so a line two hops from the tugger never
   shows "[ACK]". The run uses a row of three; it happens to an adjacent line too, if another pager relays the order
   first and the line hears the report late.

## 4. What is proved

Eight modules of proofs, each for *every* value of the constants: any number of slots and buckets, any set of ids, any hash,
timeout, clock and pass times; any mesh, list, black box and memory of packets; any number of threads, sessions, subscribers, alarms,
owners, frames and requests. Every invariant that a passing run checks is a theorem. Each proof has an inductive
invariant, the lemmas `...Start` (or `...Init`) and `...Step` with one step per action, and the theorem, which combines them by PTL.

### The tugger (TuggerStoreProofs, ClockProofs)

| theorem | assumes | states |
|---|---|---|
| `TypeCorrect` | - | `Spec => []TypeOK` |
| `NvsFollowsRam` | - | `Spec => []NvsInSync`: power may even fail in the middle of a save |
| `WindowIsWhole` | `~TornSaves` | `Spec => []RingWindow` |
| `NoDuplicates` | `~TornSaves`, `MaxOrders <= TableSize` | `Spec /\ [][ServesApart]_vars => []NoDuplicateOrders` |
| `AcksAreHonest` | `~TornSaves`, `MaxOrders <= TableSize` | `Spec /\ [][ServesApart]_vars => []AckedIsQueued` |
| `StoreKeepsPromise` | `~TornSaves`, `MaxOrders <= TableSize` | `Spec /\ [][ServesApart]_vars => QueuePromise` |
| `CutWalkLosesOrder` | - | `StoreInv /\ Serve /\ ~ServesApart` loses a queued order from the index |
| `LateIsExact` | - | `OneBootSpec => []LateExactly` |

`~TornSaves` says that no power failure falls into a save; MCOrderDeliveryTorn shows that it is needed. `MaxOrders <= TableSize` is so in the code (100
and 256). `ServesApart` is about the steps of one behaviour: an order is served only when no walk for another queued order leads over its bucket.
Orders may share home buckets and walk over each other as long as none is cut. The code does not guarantee it, and MCTuggerStoreShared shows
what happens then; `CutWalkLosesOrder` proves that this is what happens *whenever* it fails, for every table: there is then a queued order that the duplicate test
does not find. So the condition is exact, and the three theorems say what the code does up to the first cut. Two lemmas give simpler
conditions: `HomesServe` (queued orders never share a home bucket) and `AllHomesApart` (no two ids do).

The inductive invariant is `StoreInv == TypeInv /\ SyncInv /\ RingWindow /\ ChainInv /\ StoredInv`:

- `TypeInv` adds to the types that the scan is inside the window while it saves (`ScanInWindow`), without
  which `scan + 1` could leave its type.
- `SyncInv` adds to `NvsInSync` that while the ring is loaded the slots before `idx` are NVS's and the rest blank
  (`LoadInv`: this makes NVS and RAM equal when the load ends), and that NVS holds
  no inactive order (`NvsForm`: so that loading and saving again is the identity).
- `RingWindow` is inductive given `SyncInv`: `Restart` replaces RAM by NVS, which is equal when no save is in
  progress. Its arithmetic (how a step moves the distances from the head, modulo `MaxOrders`) is the lemma `RingArithmetic`.
- `ChainInv` says that a bucket which is not empty has an active order of its own, and that the walk for every active order comes to its
  bucket over buckets that are not empty (`WalkTo`). Hence the duplicate test finds an id exactly when it is queued (`WalkFinds`). `FirstStops` (a least
  element), `OneStop`, `StopAdds` and `StopRemoves` reduce the table operations to the first stop of the walk; `EmptyBucket` is the pigeonhole that
  gives a new order a bucket; filling an empty bucket cuts no walk (`ChainAdd`), emptying one cuts none under `ServesApart` (`ChainServe`).
- `StoredInv` adds to `NoDuplicateOrders` that active orders have ids, without which the index says
  nothing about them.

Each part is proved with one step per action of `Next`: `TypeStep`, `SyncStep`, `RingStep`, `ChainStep`, then
`AckStep` for the property that is about a step rather than a state.

`StoreKeepsPromise` is the refinement: the queue is `[k \in 1 .. count |-> entry of the slot k - 1 behind head]`, read from NVS while the ring
is loaded. `Receive` appends (the new slot is `At(count)`, which differs from every slot of the window: `AtDiffers`; its id is not
queued by `ChainInv`), `Expire` changes one entry, `Serve` takes the first (`RingArithmetic` turns `At'(k - 1)` into `At(k)`), and
`RestartStutters` and `LoadStutters` show that power failures do not show: NVS has the same window by `SyncInv`.

`LateIsExact` needs `TuggerClockAssumption` (the clock wraps later than a timeout and a pass together: 2^32 ms against 45 minutes and a
pass). Its invariant `AgeInv` relates three readings of one order: its mark, its true age, and `now - created` modulo the clock. While the mark
is off, either the age is at most the timeout and *equals* the wrapped difference, or the scan of this pass has yet to look at the
order (`Unscanned`), which is then past its time in both. `WrappedDifference` is the arithmetic: a difference shorter than the
modulus survives the wrap. The true age is a history that stops growing after the timeout, so it needs no bound.

### The delivery (DeliveryProofs)

| theorem | assumes | states |
|---|---|---|
| `ReceivedOrdersAreKept` | `~TornSaves`, `MaxOrders <= TableSize` | `DeliverySpec /\ [][ServesApart]_vars => []ReceivedIsKept` |
| `CursorStaysVisible` | - | `DeliverySpec => []CursorVisible` |
| `LedgerIsKept` | `~TornSaves`, `MaxOrders <= TableSize` | `DeliverySpec /\ [][ServesApart]_vars => LedgerPromise` |

`DeliveryInv` puts `StoreInv` and `AckedIsQueued`, taken as they are from the tugger's proofs, beside `LineInv` (the line's types, its cursor, that
a pending order is its own) and `AirInv`: what is in the tugger's radio was placed, what is queued was placed, and every ack in a line's radio
is for an order that is kept, queued or served. An ack is heard in the step in which it is sent, when `AckedIsQueued` says that
the order is queued, and read at any later time, when it is still kept. `QueuedStays`, `QueuedAdds` and `QueuedServes` say how each of the
tugger's steps changes the set of queued orders. `LedgerIsKept` is the refinement of OrderLedger, one abstract step for each: a
`Keys` step places, `Receive` takes, `Serve` serves, `Listen` tells, everything else stutters.

### The mesh pager and the mesh (PagerProofs, MemoryProofs, MeshProofs)

| theorem | assumes | states |
|---|---|---|
| `PagerKeepsTypes` | - | `MemorySpec => []PagerTypeOK` |
| `NoOrderTwice` | - | `MemorySpec => []ListsDistinct` |
| `BoxFollowsList` | - | `MemorySpec => []BoxHasList` |
| `ClearedStaysAway` | - | `MemorySpec => []BoxForgetsCleared` |
| `LateCopiesAreDropped` | - | `MemorySpec => ListedOncePerBoot`, an action property |
| `PagersTyped` | - | `MeshSpec => []PagerTypeOK`: no list, memory or queue of requests outgrows its array |
| `OneRelay` | - | `MeshSpec /\ [][ForgetsOver]_meshVars => []RelayedOnce` |
| `AcksAreTrue` | - | `MeshSpec /\ []ListsHaveRoom => []AckIsTrue` |
| `OrdersSettle` | `OwnOrders`, `InReach` | `MeshSpec /\ [][NothingLost /\ ForgetsOver]_meshVars /\ []ListsHaveRoom => []OrderSettles` |
| `OrdersSettleInRow` | `FewOrders`, `RoomForAll`, `OwnOrders`, `InRow` | `MeshSpec /\ [][NothingLost]_meshVars => []OrderSettles` |

PagerProofs has what both need: how each handler keeps the types, and what appending, removing and relaying do to the ids of a list.

`MemoryTypedInv` is about a pager that hears anything. `BoxInv` says of each pager what its list, its black box and the driver's history have to do
with each other (`ListOK`): list and restored list are each without duplicates, no cleared order is in either, and unless an expiry is unsaved the
restored list is the list's beginning. `NodeTyped` adds that the slots a restart reads were written (`BoxFilled`): the box keeps old
slots beyond its count. `LateCopiesAreDropped` needs `SeenInv`: the memory of packets is of different ids, all of them heard, and an id that was
heard is in it unless it is full. If a late copy is listed, its id was forgotten, so the memory was full of
other heard ids, which makes more than it keeps.

The clean-up keeps a subsequence of the list, which the model states by the ascending enumeration of the kept positions
(`Ascending`): it exists once and is proved about without the induction that `SelectSeq` would need.

`ForgetsOver` says that a pager whose `seenPackets` is full (30 ids in the code) forgets only ids about which nothing is on its way any
more and nothing will be said (`Over`): another one could be relayed again. It is about what happens, not about how many orders there are; if there are no more ids than a
pager remembers (`FewOrders`), none is ever forgotten (`FewForgetNone`, a counting argument, `RoomForFresh`). The invariant is
`MeshTyped` (all packets in radios and in `tx` are about orders, but for beacons) with `RelayInv`: a pager that relayed an id has it among
the seen ones, or the order is over; and the ids in a memory are all different.

`ListsHaveRoom` says that a tugger that is about to take an order has room in its list: a full list takes no order and yet
reports it (section 5). If the list has room for every id (`RoomForAll`), it always does (`RoomAlways`). `ReportInv` follows
a report from the list to the line: what a tugger lists it has listed (`taken`), what is reported in `tx` or in any radio was listed by a tugger,
and a request is acknowledged only by such a report.

`OrdersSettle` is the one theorem about what a mesh *achieves*: when the air is quiet, every order made has been listed by every tugger of its
zone. Its hypotheses are what section 5's divergences leave of a mesh: nothing is lost (`NothingLost`); a line station makes its own orders only
(`OwnOrders`: an order's id begins with the device's, MP 1137); and the stations are in reach (`InReach`): the links form a tree in which, seen from the
line, no tugger of the zone is behind another and none is farther than the hop limit. The invariant `FloodInv` says of each order that it is done or that the flood of
its copies is as the tree has it: nothing is said about it before it was made (`TraceInv`) nor by a pager that does not know it (`SourceInv`), a pager hears of it
from the side of the line only (`TreeInv`); a pager that does not know it
although its parent does has the copy in its radio, or the parent has it in `tx`, with the parent's distance as its hops and before anything else about that
order (`FrontInv`: a report that overtook the copy would make the pager drop it as a duplicate); and a tugger that knows it has listed it (`TakenInv`). In a quiet mesh radios and
`tx` are empty, so by `FrontInv` a pager knows the order if its parent does; the pager *nearest* to the line that does not
know it is the contradiction (`AllAware`, by `LeastOf`, a least element in place of an induction). `RowInReach` builds the tree of a row of any
length, and `OrdersSettleInRow` is the instance that MCMeshRow checks.

### The library (NetworkProofs, ServiceProofs)

| theorem | states |
|---|---|
| `HandoffSafe` | in every use of any number of channels: `BorrowSafe` and `NobodyOversleeps` |
| `MqttImplementsHandoff` | every step of MqttClient is a step of Handoff's or leaves it alone |
| `MqttBorrowsSafe` | hence the same for the MQTT client, blocking and asynchronous |
| `ResultsAreOwn` | `MqttSpec => []ResultIsOwn` |
| `NoFrameStrays` | `HttpSpec => []NoStrayFrame` |
| `AlarmsStayWhole` | `AlarmSpec => []AlarmsWhole` |
| `LoopIsSafe` | `LoopSpec => [](StrongNeverMisled /\ LoopOutlivesUsers)` |
| `TimersKeepTime`, `WaitersMissNothing` | `PlatformSpec => []NeverEarly`, `[]AsyncNeverMisses` |
| `AnswersHold` | `PlatformSpec => []AnswersAreTrue`: waits, Wi-Fi, ping, the headers of an HTTP answer |
| `CodecIsExact` | `CodecExact`: what `set_raw` packs into a `u64` is what `get_raw` unpacks |
| `StoredIsRead` | `PlatformSpec => []ReadsWhatWasSet` |
| `UpdatesEnd`, `EthHoldsNothingFreed` | `PlatformSpec => []HandleEndedOnce`, `[]EthPointsAlive` |
| `FramesComeOnce`, `BodiesAreWhole`, `RequestsAreAnswered` | `PlatformSpec => []EachFrameOnce`, `[]BodyAsPromised`, `[]RepliedOnce` |
| `CallbacksAreOwn` | `PlatformSpec => []CallbackIsOwn` |
| `OwnersShare` | `PlatformSpec => []ResourcesOwned`: eight services |

Each service has an invariant of its own over its own specification's steps (`TimerStep`, `WifiStep`, ...); `PlatformParts` says that a step of the
platform is a step of each service or leaves it alone, so the theorems about `PlatformSpec` need no more than those.

Handoff's invariant ties each thread's place to the cell: the cell names a sharer exactly if that sharer is blocked with its offer, a thread
that sleeps has not yet got what it sleeps for, and the notification of an awaiting reader is set if the cell is not empty. It is
stated per channel, so a step on one channel leaves the others' parts alone, and MqttClient, whose steps are Handoff's with
guards, inherits it. `ResultsAreOwn` builds on it: `RecordInv` says for the one work record which command it has and whether it is still to be executed, by
the places of caller and worker; a caller whose future was dropped leaves a command that is executed before the record is lent again.

EmbassyAlarms' says who is in the critical section: a task that read the vector's length and has not pushed yet
holds it, so the length is still what it read; and a pair of function and argument differs only while its setter holds it.
EventLoop's says that the loop exists as long as anything counts it, that a strong subscription is one of what counts it and is
registered, that a dropped one is neither registered nor called any more, and that only a weak one dropped between the loop's last owner and
its deletion (`orphaned`) is ever misled. HttpServer's says that a socket's stored flag is the flag of the session it serves now, that a sender whose session is not
marked closed still has its socket's session, and that only senders that exist are queued; a frame is sent after a look at that flag, so
it goes to the session it was made for.

Of the others, these need more than the property and the types. EspTimer: a timer that is not armed has nothing under way but
what was so at the reset (`Unarmed`, `Ticks`). Wi-Fi: the status becomes what the radio is by the news that are still queued
(`StatusTrails`), and while the radio has not yet been where a call wants it, neither the status nor the news in flight says so
(`Undeceived`; not for the calls whose status trails the radio, section 5). Nvs: unless the key is `typed` or `mixed`, at every point to which power may fail back at most one entry is there and a reader would find one of what it may (`KeyInv`);
an erase that has failed in the present call is remembered (`missed`), for a write of the *same* type then replaces the old entry and a write of
another type makes the key `mixed`. HTTP client: what the wire
was promised is what the headers said, in each phase (`RequestInv`). WebSocket: the box is the last frame posted, and what was read is all before it
(`FrameInv`). OTA: an open handle has not been ended, and one that is about to be dropped has failed (`HandleInv`).

`CodecIsExact` is about data: the number that the loop of `set_raw` builds, and the bytes that the shifts of `get_raw` bring down again. Both
loops are recursive functions (`Built`, `Shifted`). The library's induction theorems take an operator, which the provers cannot instantiate, so the
lemmas `UpTo` (a *set* of numbers that has 0 and with each number the next has all; by the least missing one) and `Recursion` (there is a
function with the given first value and step) take sets and functions. With them `BuiltIs` and `ShiftedIs` unfold the two loops, `LastDigit` is the
arithmetic of one byte, and after `i` shifts the number is what was built without the last `i` bytes.

Four things came out of the attempts. `KeyInv` was not inductive: a removal that finds nothing returns before the commit
(`nvs.rs` 324), and the model had let it forget what a failed call might bring back; TLC showed the step with three calls. The commit
had no failure. `AckIsTrue` needs that lists have room, which the runs had by their bounds. And `OrderSettles` needs that no tugger of the zone is
behind another: the proof of `FrontInv` failed at `TakeOrder`, which transmits its report before it relays (section 5).

Only model-checked: all liveness (`QueueDrains`, `LateIsSeen`, `PendingIsReceived`, `AirFallsQuiet`, `CallersReturn`), which needs `ENABLED`.

## 5. Known divergences without a run of their own

They came up while modelling; the properties are stated so as to allow them.

- SELECT on the line store replaces an order that has not been acknowledged (E290 146), which the screen had called
  "Queued:" (E290 152). It is never transmitted again.
- An order that was served and whose packet comes again is queued again: the tugger remembers no served
  order (SK 370, 406).
- The mesh pager's clean-up does not save (MP 1315-1320): expired orders come back with the next restart, although a
  removal is meant to be persistent ("PERSIST REMOVAL", MP 1189).
- A tugger whose list is full reports an order as delivered (MP 933), drops it for want of room (MP 946), and the line shows "[ACK]".
- Collectors list no orders: `ForUs` needs `MODE_TUGGER` (MP 928-930), while the tester expects one to (`tools/tugr_cli.py` 175).
- A packet is marked as seen before its hop count is looked at (MP 918, 988). Where a detour is faster than the direct
  way (1-2-3-4-8 with a detour 1-5-6-7-4), pager 4 takes the copy whose hops are spent, relays nothing, and
  drops the one that could have gone on.
- A tugger sends its report before it relays the order, and both have the order's id (MP 933, 992). A second tugger of the zone behind
  the first takes the report for the order's first packet and drops the order that follows.
- A mode switch drops the list in RAM only, and is not saved; a restart brings back the old mode with the old list (MP 1058).

In the library (the properties except exactly these; a later release may have repaired some, as the
CHANGELOG's lines 10-15 do for the drop of an MQTT client):

- *MQTT*: the drop of an asynchronous client says `done` and then destroys the worker's task (`unblocker.rs` 83-94), which in
  between may execute the last command again, and which, destroyed in the middle, leaks ESP-IDF's client. `EspAsyncMqttClient::new`
  has no guard that ends the connection when the client cannot be made (`mqtt/client.rs` 744-760). After a `next()` whose future was dropped the following one gives back
  an event that came meanwhile, which nobody has seen, for the flag still says that one was given (886-898).
- *Event loops*: a weak subscription dropped after the loop's last owner went and before its deletion frees a callback that is still registered
  (`eventloop.rs` 374-405; the doc at 613 says otherwise). `Wait` notifies without the waiter's mutex (851-853), a time-out is returned without
  another look (`private/waitable.rs` 91-93), and `AsyncWait` with a duration drops the matcher's error (964-968).
- *Timers*: a callback of the timer's earlier life may end a new `after()` early (`timer.rs` 140-149); `cancel` returns the opposite of
  what it says (63-67); `delay_ns` takes nanoseconds for microseconds (168-172). An alarm set to a time that is past leaves the earlier one armed (446-463).
- *Wi-Fi*: in mixed mode `stop` returns when one of two interfaces has stopped; a status that trails the radio lets `connect` return Ok at once; the end
  of a scan or of WPS that falls between the radio's call and the assignment after it is lost; WPS stays on after a time-out.
- *HTTP server*: a handler is freed by `unregister` while the task may be running it (`http/server.rs` 379-398); a session closed before
  `CLOSE_HANDLERS` has the server panics (374, 533); `send` from the server's own handler waits for itself (1275-1279); an error in the middle of a chunked response leaves it without an end.
- *HTTP client*: a POST that is redirected with `FollowAll` promises its body again; a failed request leaves the old headers and the
  state `Response`; a second `initiate_response` after a failed one ends the body twice.
- *WebSocket client*: the handler returns before the reader is done with the event; dropping the client while its task is blocked in the
  handler panics; `next()` waits for ever once the client is gone.
- *NVS*: `set_raw`, `set_blob` and `set_str` ignore the result of `nvs_erase_key` (`nvs.rs` 438, 506, 561; "start by just clearing this key", 437). If it
  fails and the write of another type succeeds, the call returns Ok, and a reader of the first type still finds the value before (`get_raw` looks for the
  `u64` first). The integer setters do not clear a raw value of the same key; two handles may interleave their `set_raw`; a power failure between
  the erasure and the new value leaves nothing. `NvsDefault` takes every error of `nvs_flash_init` but two for a success (`nvs.rs` 49-61), so that it may be held without being
  initialised, and its drop does not deinitialise it (64-71): `HeldIsReady` says so of the other two kinds only.
- *OTA*: after a failure of `esp_ota_end` or of setting the boot partition the drop aborts a handle that is not valid any more (`ota.rs` 202-210). A second update
  before the restart erases the slot that was just chosen.
- *Ethernet, TLS, ping*: an error of `stop` is ignored before callbacks are replaced; a refused interface leaks its glue; an adopted socket that
  fails to be adopted leaks the session; a session of ping that cannot start is not deleted (`ping.rs` 142).
- *Bluetooth*: if a step after the closure was stored fails, the closure stays registered and the drop does not clear it (`bt/gap.rs` 671-682, 832); if ESP-IDF refuses
  to undo a step, the drop panics before the closure is cleared (`bt/a2dp.rs` 544); `call` and `clear` take no lock (`bt.rs` 173, 183), so that a service dropped
  while the stack's task runs its closure frees it there, although the destructor is to remove it from that thread first (`bt/gap.rs` 657); dropping a
  second BLE GAP that was not initialised clears the first one's closure (`bt/ble/gap.rs` 602-605); the GATT server panics on answers to its own requests
  (`bt/ble/gatt/server.rs` 325-331).
- *ESP-NOW, SNTP, interfaces, mDNS*: a callback under way while another thread unregisters it panics (`espnow.rs` 215-242); `Sntp` keeps the closure if its
  initialisation fails after storing it; an IP event of an unknown kind panics (`netif.rs` 723); a result on an unlisted interface
  panics and leaks the list (`mdns.rs` 100-104).

## 6. What is not modelled, and the plan

Not modelled because it decides nothing, or is not this system's logic: displays, logs, serial output, the web pages'
content, the simulator and its mocks, scripts, and the library's conversions of configurations and events, C strings and
thin wrappers. Not modelled because it is only a lost packet: the checksum and the encryption of text fields. Not modelled
because there is no behaviour: the Rust port, which does not compile and, mended, stops in its first lines. Its
`Cargo.toml` has the patch of the library commented out and asks for another version of it, so the models of the library are about
the library and not about that program.

Next, in this order:

1. **Proofs.** `OrderSettles` in meshes with cycles: in a triangle an order may come by two ways, and the tree of the proof would have to be
   the tree of first arrivals.
2. **Torn black box.** `saveState` key by key (MP 276-286), as in TuggerStore, with `loadState` reading what is there.
3. **Clock of the mesh pager.** How long an order may really stay: absolute expiry times, wrap and restart (MP 1315).
4. **Interrupts.** The radio flag set at the end of a transmission too (SK 316, MP 838): a variant of Mesh in which a pager may read
   its own packet back.
5. **Device table** (MP 102-160): its own module, insert and clean-up against a plain set of recently heard devices.
6. **Hybrid pager and companion** (`firmware/tugger`, `firmware/tugger_companion`): a single-hop module; what is shared with
   MeshPager and what is not (no duplicate test, the allow list).
7. **The library's rest**: data frames of Wi-Fi and Ethernet, handlers of the HTTP server that are registered and removed while
   requests run, peers of ESP-NOW, the blocking calls of TLS.

The order of building so far was: ProbeTable and TuggerStore with its proofs (the tugger is where orders live), TuggerClock, LineStore and
OrderDelivery, MeshPager alone, the mesh; then the library, from what lends and wakes (Handoff, EventLoop, EventWait) to the services upon
it; then the proofs: the refinements, the mesh pager and the mesh, and the library service by service.
