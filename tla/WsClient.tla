------------------------------- MODULE WsClient -------------------------------
(***************************************************************************)
(* ws/client.rs of the vendored esp-idf-svc, as new_with_conn makes it: the *)
(* task of ESP-IDF posts an event into a box with room for one, a reader    *)
(* takes it out with next(), and the event that next() returns empties the  *)
(* box when it is dropped.  Both sides wait on one condition variable.      *)
(***************************************************************************)
EXTENDS Integers, Sequences

CONSTANT LastFrame   \* bound: the events of the connection

ASSUME WsClientAssumption == LastFrame \in Nat

VARIABLES wsClient,   \* "new", "up", "gone" or "panicked"
          wsTask,     \* the task: "idle" or "posting"
          frames,     \* the events so far: the last one is being posted, or was
          box,        \* message: the event that waits or is being looked at, or 0
          wsReader,   \* "out", "waiting" in next(), or "holding" an event
          held,       \* the event that the reader holds
          sleepers,   \* who sleeps on state_changed
          got         \* history: the events next() returned, errors included

wsVars == <<wsClient, wsTask, frames, box, wsReader, held, sleepers, got>>

WsInit ==
  /\ wsClient = "new" /\ wsTask = "idle" /\ frames = 0 /\ box = 0
  /\ wsReader = "out" /\ held = 0 /\ sleepers = {} /\ got = <<>>

\* new_with_conn by way of new_raw; when a call of ESP-IDF fails the half-made
\* client is dropped again.
NewWsClient ==
  /\ wsClient = "new" /\ wsClient' \in {"up", "gone"}
  /\ UNCHANGED <<wsTask, frames, box, wsReader, held, sleepers, got>>

\* The task has an event, and calls the handler, which calls post.
RaiseFrame ==
  /\ wsClient = "up" /\ wsTask = "idle" /\ frames < LastFrame
  /\ wsTask' = "posting" /\ frames' = frames + 1
  /\ UNCHANGED <<wsClient, box, wsReader, held, sleepers, got>>

\* post: sleep while the box is full, fill it otherwise, wake the reader and
\* return: the task does not wait until the event has been read.
PostFrame ==
  /\ wsTask = "posting" /\ "task" \notin sleepers
  /\ IF box # 0 THEN /\ sleepers' = sleepers \cup {"task"}
                     /\ UNCHANGED <<wsTask, box>>
                ELSE /\ box' = frames /\ wsTask' = "idle" /\ sleepers' = {}
  /\ UNCHANGED <<wsClient, frames, wsReader, held, got>>

AskFrame ==
  /\ wsReader = "out" /\ wsClient # "new"
  /\ wsReader' = "waiting"
  /\ UNCHANGED <<wsClient, wsTask, frames, box, held, sleepers, got>>

\* Mutant: next() empties the box at once, whether the event is an error or not.
TakeFrameAtOnce ==
  /\ wsReader = "waiting" /\ box # 0
  /\ got' = Append(got, box) /\ wsReader' = "holding" /\ held' = box
  /\ box' = 0 /\ sleepers' = {}
  /\ UNCHANGED <<wsClient, wsTask, frames>>

\* next: sleep while the box is empty; an event the code does not know empties
\* it, any other stays in it until the event is dropped.  (ESP-IDF never raises an
\* event without data, for which next would return None and leave the box full.)
TakeFrame ==
  /\ wsReader = "waiting" /\ "reader" \notin sleepers
  /\ IF box = 0
     THEN sleepers' = sleepers \cup {"reader"} /\ UNCHANGED <<box, wsReader, held, got>>
     ELSE /\ got' = Append(got, box)
          /\ \/ wsReader' = "holding" /\ held' = box /\ UNCHANGED <<box, sleepers>>
             \/ wsReader' = "out" /\ box' = 0 /\ sleepers' = {} /\ UNCHANGED held
  /\ UNCHANGED <<wsClient, wsTask, frames>>

\* Mutant: the drop of an event wakes nobody.
DropFrameSilently ==
  /\ wsReader = "holding" /\ wsReader' = "out" /\ held' = 0 /\ box' = 0
  /\ UNCHANGED <<wsClient, wsTask, frames, sleepers, got>>

\* The drop of WebSocketEvent takes whatever is in the box, and wakes the others
\* if there was something.
DropFrame ==
  /\ wsReader = "holding" /\ wsReader' = "out" /\ held' = 0
  /\ box' = 0 /\ sleepers' = IF box # 0 THEN {} ELSE sleepers
  /\ UNCHANGED <<wsClient, wsTask, frames, got>>

\* The drop of the client: close waits for the task, for as long as the timeout;
\* if the task still waits for the reader the unwrap of its result panics.
DropWsClient ==
  /\ wsClient = "up"
  /\ wsClient' = IF wsTask = "idle" THEN "gone" ELSE "panicked"
  /\ UNCHANGED <<wsTask, frames, box, wsReader, held, sleepers, got>>

WsNext ==
  \/ NewWsClient \/ RaiseFrame \/ PostFrame \/ AskFrame \/ TakeFrame
  \/ DropFrame \/ DropWsClient

-----------------------------------------------------------------------------
\* The reader gets every event of the connection exactly once and in order,
\* however the task runs ahead of it and whenever it drops what it got; and an
\* event it holds is not replaced under its hands.
EachFrameOnce ==
  /\ \A i \in DOMAIN got : got[i] = i
  /\ wsReader = "holding" => box = held

\* While the reader reads on and drops what it read, the task is never stuck in
\* the handler (the pings of the connection are its work, too).
PosterGoesOn == (wsTask = "posting") ~> (wsTask = "idle")
=============================================================================
