----------------------------- MODULE MqttClient -----------------------------
(***************************************************************************)
(* mqtt/client.rs of the vendored esp-idf-svc.  The MQTT task of ESP-IDF   *)
(* (external) lends its events to a connection over the channel "event".   *)
(* An asynchronous client has a thread of its own, the worker, which lends *)
(* its one work record over the channel "work": the caller fills it in,    *)
(* gives it back, and waits for it to be lent again with the result.       *)
(* private/unblocker.rs is the worker's life.                              *)
(***************************************************************************)
EXTENDS Handoff, Sequences

CONSTANTS LastEvent,    \* bound: events the MQTT task delivers
          LastCommand   \* bound: commands the caller makes

ASSUME MqttClientAssumption ==
  /\ {"event", "work"} \subseteq Channels /\ {"task", "worker", "owner"} \subseteq Sharers
  /\ LastEvent \in Nat /\ LastCommand \in Nat

VARIABLES kind,      \* "none", "blocking" or "async"
          client,    \* the raw client: "none", "up", "dropping", "gone" or "leaked"
          events,    \* the events the MQTT task has begun to deliver
          given,     \* the connection's flag: its last next() returned an event
          backed,    \* has the present next() given that event back?
          ended,     \* has next() returned an error?
          work,      \* the command in the work record, 0 at first, and its result
          caller,    \* where execute() is: "idle", "fill", "result" or "dropped"
          made,      \* the commands the caller has made
          executed,  \* history: the commands the worker has executed
          answers    \* history: the pairs of a command and the result returned for it

mqttVars == <<handoffVars, kind, client, events, given, backed, ended, work, caller, made,
              executed, answers>>
clientVars == <<kind, client, events>>
connVars   == <<given, backed, ended>>
workVars   == <<work, caller, made, executed, answers>>

MqttInit ==
  /\ HandoffInit
  /\ kind = "none" /\ client = "none" /\ events = 0
  /\ given = FALSE /\ backed = FALSE /\ ended = FALSE
  /\ work = [command |-> 0, result |-> 0]
  /\ caller = "idle" /\ made = 0
  /\ executed = <<>> /\ answers = {}

\* EspMqttClient::new and EspAsyncMqttClient::new; new_raw starts the MQTT task.
NewClient(k) ==
  /\ kind = "none"
  /\ kind' = k /\ client' = "up"
  /\ UNCHANGED <<handoffVars, events, connVars, workVars>>

\* The MQTT task delivers an event: the callback lends it and returns when the
\* channel lets it.  A client that was leaked goes on.
DeliverEvent ==
  /\ client \in {"up", "leaked"} /\ events < LastEvent
  /\ Share("event", "task")
  /\ events' = events + 1
  /\ UNCHANGED <<kind, client, connVars, workVars>>

InCallback ==
  /\ Put("event", "task") \/ TakeBack("event", "task") \/ Return("event", "task")
  /\ UNCHANGED <<clientVars, connVars, workVars>>

-----------------------------------------------------------------------------
\* next(): what was given is given back, then the next event is waited for.
GiveBack == given /\ ~backed /\ Done("event") /\ backed' = TRUE

AskNext ==
  /\ (given => backed) /\ ~ended
  /\ IF kind = "async" THEN AskAsync("event") ELSE Ask("event")
  /\ backed' = FALSE

HaveNext ==
  \/ /\ Get("event") \/ GetAsync("event")
     /\ UNCHANGED connVars
  \/ /\ at["event"]["reader"] \in {"using", "none"}
     /\ Leave("event")
     /\ given' = (at["event"]["reader"] = "using")
     /\ ended' = (at["event"]["reader"] = "none")
     /\ UNCHANGED backed

\* The future of next() is dropped where it awaits.  The flag stays as it was, and
\* a next() after one that had an event gives back what has come meanwhile, unseen.
AbandonNext ==
  /\ kind = "async" /\ at["event"]["reader"] = "await"
  /\ Leave("event")
  /\ UNCHANGED connVars

Next_(k) ==
  /\ kind = k
  /\ \/ (GiveBack \/ AskNext) /\ UNCHANGED <<given, ended>>
     \/ HaveNext
     \/ AbandonNext
  /\ UNCHANGED <<clientVars, workVars>>

\* The connection is dropped between two calls of next().
DropConnection ==
  /\ kind # "none" /\ ~backed
  /\ Hangup("event")
  /\ UNCHANGED <<clientVars, connVars, workVars>>

-----------------------------------------------------------------------------
\* Mutant: the callback's channel is not quit.
DropSilently ==
  /\ kind = "blocking" /\ client = "up" /\ client' = "gone"
  /\ UNCHANGED <<handoffVars, kind, events, connVars, workVars>>

\* The drop of EspMqttClient: esp_mqtt_client_destroy waits for the MQTT task
\* to be out of the callback and ends it; then the callback goes, and with it
\* the QuitOnDrop of its channel.
DropClient ==
  /\ kind = "blocking"
  /\ \/ client = "up" /\ client' = "dropping" /\ UNCHANGED handoffVars
     \/ /\ client = "dropping" /\ at["event"]["task"] = "idle"
        /\ client' = "gone" /\ Close("event", "owner")
     \/ client = "gone" /\ Put("event", "owner") /\ UNCHANGED client
  /\ UNCHANGED <<kind, events, connVars, workVars>>

-----------------------------------------------------------------------------
\* work(): the record is lent, and the command in it executed, until the
\* channel refuses.
Worker ==
  /\ kind = "async" /\ client = "up"
  /\ \/ Share("work", "worker") /\ UNCHANGED workVars
     \/ (Put("work", "worker") \/ TakeBack("work", "worker")) /\ UNCHANGED workVars
     \/ /\ at["work"]["worker"] = "shared" /\ Return("work", "worker")
        /\ executed' = Append(executed, work.command)
        /\ work' = [work EXCEPT !.result = work.command]
        /\ UNCHANGED <<caller, made, answers>>
  /\ UNCHANGED <<clientVars, connVars>>

\* Mutant: the caller fills in its command and takes the result at once.
ExecuteHasty ==
  /\ kind = "async" /\ client = "up"
  /\ \/ /\ caller = "idle" /\ made < LastCommand /\ at["work"]["reader"] = "idle"
        /\ caller' = "fill" /\ made' = made + 1
        /\ AskAsync("work") /\ UNCHANGED <<work, executed, answers>>
     \/ GetAsync("work") /\ UNCHANGED workVars
     \/ /\ caller = "fill" /\ at["work"]["reader"] = "using"
        /\ Leave("work") /\ caller' = "give" /\ work' = [work EXCEPT !.command = made]
        /\ UNCHANGED <<made, executed, answers>>
     \/ /\ caller = "give" /\ Done("work")
        /\ caller' = "idle" /\ answers' = answers \cup {<<made, work.result>>}
        /\ UNCHANGED <<work, made, executed>>
  /\ UNCHANGED <<clientVars, connVars>>

\* execute(): wait for the record, fill it in, give it back, wait for it again
\* and return the result that is in it.
Execute ==
  /\ kind = "async" /\ client = "up"
  /\ \/ /\ caller = "idle" /\ made < LastCommand
        /\ caller' = "fill" /\ made' = made + 1
        /\ AskAsync("work") /\ UNCHANGED <<work, executed, answers>>
     \/ GetAsync("work") /\ UNCHANGED workVars
     \/ /\ caller = "fill" /\ at["work"]["reader"] = "using"
        /\ Leave("work") /\ caller' = "give" /\ work' = [work EXCEPT !.command = made]
        /\ UNCHANGED <<made, executed, answers>>
     \/ /\ caller = "give" /\ Done("work")
        /\ caller' = "given" /\ UNCHANGED <<work, made, executed, answers>>
     \/ /\ caller = "given" /\ AskAsync("work")
        /\ caller' = "result" /\ UNCHANGED <<work, made, executed, answers>>
     \/ /\ caller = "result" /\ at["work"]["reader"] = "using"
        /\ Leave("work") /\ caller' = "idle"
        /\ answers' = answers \cup {<<made, work.result>>}
        /\ UNCHANGED <<work, made, executed>>
  /\ UNCHANGED <<clientVars, connVars>>

\* The future of execute() is dropped where it awaits.
Cancel ==
  /\ caller \in {"fill", "result"} /\ at["work"]["reader"] = "await"
  /\ Leave("work") /\ caller' = "idle"
  /\ UNCHANGED <<clientVars, connVars, work, made, executed, answers>>

\* The drop of EspAsyncMqttClient, that is of its Unblocker: done(), and the
\* worker is destroyed wherever it is.  The raw client, which the worker owns,
\* is never destroyed; its events go on.
DropAsync ==
  /\ kind = "async" /\ client = "up"
  /\ \/ /\ caller = "idle" /\ Done("work") /\ caller' = "dropped"
        /\ UNCHANGED client
     \/ /\ caller = "dropped" /\ Hangup("work") /\ client' = "leaked"
        /\ UNCHANGED caller
  /\ UNCHANGED <<kind, events, connVars, work, made, executed, answers>>

MqttNext ==
  \/ \E k \in {"blocking", "async"} : NewClient(k) \/ Next_(k)
  \/ DeliverEvent \/ InCallback \/ DropConnection \/ DropClient
  \/ Worker \/ Execute \/ Cancel \/ DropAsync

MqttSpec == MqttInit /\ [][MqttNext]_mqttVars

-----------------------------------------------------------------------------
\* The caller gets the result of the command it made, also after the futures
\* of earlier calls were dropped half-way; and while the client is not being
\* dropped no command is executed twice.  (Its drop wakes the worker, which may
\* execute the last one again before it is destroyed.)
ResultIsOwn ==
  /\ \A a \in answers : a[1] = a[2]
  /\ caller # "dropped" =>
       \A j, k \in DOMAIN executed : executed[j] = executed[k] => j = k

\* Whoever waits for the events of a blocking client learns that it has been
\* dropped.
ReaderLearns == kind = "blocking" /\ client # "up" ~> ended \/ at["event"]["reader"] = "gone"
=============================================================================
