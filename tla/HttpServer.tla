----------------------------- MODULE HttpServer -----------------------------
(***************************************************************************)
(* http/server.rs of the vendored esp-idf-svc, its WebSocket half: a       *)
(* server whose one task (external, httpd) accepts sessions, calls the     *)
(* handlers and closes sessions, and detached senders of other threads,    *)
(* which hand their frames to that task and wait.  A socket's number is    *)
(* used again by a later session; OPEN_SESSIONS tells the two apart.       *)
(***************************************************************************)
EXTENDS Integers, Sequences

CONSTANTS Fds,          \* socket numbers
          WsSenders,    \* threads that own a detached sender
          LastSession   \* bound: sessions ever accepted

ASSUME HttpServerAssumption == LastSession \in Nat /\ "stop" \notin WsSenders

VARIABLES httpd,        \* "none", "up", "stopping" or "stopped"
          session,      \* the session each socket serves, 0 for none
          openSessions, \* OPEN_SESSIONS: whose flag is kept for the socket, 0 for none
          closed,       \* the sessions whose flag is set
          task,         \* what httpd's task is doing, and for which socket
          sender,       \* each sender's session and socket, and where its send() is
          queued,       \* httpd_queue_work: senders, and "stop" for the end
          sent,         \* history: <<the sender's session, the session that got its frame>>
          accepted      \* the sessions accepted so far

httpVars == <<httpd, session, openSessions, closed, task, sender, queued, sent, accepted>>

NoSender == [session |-> 0, fd |-> 0, at |-> "none"]
TaskIdle == [at |-> "idle", fd |-> 0]

HttpInit ==
  /\ httpd = "none" /\ task = TaskIdle
  /\ session = [f \in Fds |-> 0] /\ openSessions = [f \in Fds |-> 0]
  /\ closed = {} /\ sent = {} /\ accepted = 0
  /\ sender = [s \in WsSenders |-> NoSender]
  /\ queued = <<>>

\* internal_new and ws_handler.
StartServer ==
  /\ httpd = "none" /\ httpd' = "up"
  /\ UNCHANGED <<session, openSessions, closed, task, sender, queued, sent, accepted>>

\* stop(): the handlers are unregistered, then httpd_stop waits for the task.
StopServer ==
  /\ httpd = "up" /\ httpd' = "stopping"
  /\ queued' = Append(queued, "stop")
  /\ UNCHANGED <<session, openSessions, closed, task, sender, sent, accepted>>

-----------------------------------------------------------------------------
\* The task accepts a session, on a socket that is free.
Accept(f) ==
  /\ httpd = "up" /\ task = TaskIdle
  /\ session[f] = 0 /\ accepted < LastSession
  /\ accepted' = accepted + 1
  /\ session' = [session EXCEPT ![f] = accepted']
  /\ UNCHANGED <<httpd, openSessions, closed, task, sender, queued, sent>>

\* The WebSocket handler, new or receiving, makes a detached sender.  The flag
\* is the session's own, made by the first sender it has.
CreateDetachedSender(f, s) ==
  /\ httpd = "up" /\ task = TaskIdle
  /\ session[f] # 0 /\ sender[s].at \in {"none", "idle"}
  /\ openSessions' = [openSessions EXCEPT ![f] = IF @ = 0 THEN session[f] ELSE @]
  /\ sender' = [sender EXCEPT ![s] = [session |-> openSessions'[f], fd |-> f, at |-> "idle"]]
  /\ UNCHANGED <<httpd, session, closed, task, queued, sent, accepted>>

\* close_fn: the flag is set and forgotten and the close handlers are called,
\* then the socket is closed, so that its number is free again.
CloseSession(f) ==
  /\ httpd \in {"up", "stopping"} /\ task = TaskIdle /\ session[f] # 0
  /\ openSessions' = [openSessions EXCEPT ![f] = 0]
  /\ closed' = closed \cup ({openSessions[f]} \ {0})
  /\ task' = [at |-> "closing", fd |-> f]
  /\ UNCHANGED <<httpd, session, sender, queued, sent, accepted>>

CloseSocket ==
  /\ task.at = "closing"
  /\ task' = TaskIdle
  /\ session' = [session EXCEPT ![task.fd] = 0]
  /\ UNCHANGED <<httpd, openSessions, closed, sender, queued, sent, accepted>>

-----------------------------------------------------------------------------
\* EspHttpWsDetachedSender::send: the flag is looked at, the frame is queued,
\* and the thread waits for its error code.
Send(s) ==
  /\ \/ /\ sender[s].at = "idle" /\ sender[s].session \notin closed
        /\ sender' = [sender EXCEPT ![s].at = "checked"]
        /\ UNCHANGED queued
     \/ /\ sender[s].at = "checked" /\ httpd # "stopped"
        /\ sender' = [sender EXCEPT ![s].at = "queued"]
        /\ queued' = Append(queued, s)
  /\ UNCHANGED <<httpd, session, openSessions, closed, task, sent, accepted>>

Delivered(s) == sent' = sent \cup {<<sender[s].session, session[sender[s].fd]>>}
Answered_(s) == sender' = [sender EXCEPT ![s].at = "idle"]

\* Mutant: send() has looked at the flag, so enqueue() does not.
EnqueueBlind(s) == Delivered(s) /\ Answered_(s)

\* Mutant: a closed session is not worth an answer.
EnqueueSilent(s) ==
  IF sender[s].session \in closed THEN UNCHANGED <<sent, sender>>
  ELSE Delivered(s) /\ Answered_(s)

\* enqueue(), which runs on the task: the flag is looked at once more, and the
\* thread gets its answer in any case.
Enqueue(s) ==
  /\ IF sender[s].session \in closed THEN UNCHANGED sent ELSE Delivered(s)
  /\ Answered_(s)

RunWork ==
  /\ task = TaskIdle /\ httpd # "stopped" /\ queued # <<>>
  /\ queued' = Tail(queued)
  /\ IF Head(queued) = "stop"
     THEN /\ httpd' = "stopped" /\ session' = [f \in Fds |-> 0]
          /\ openSessions' = [f \in Fds |-> 0]
          /\ closed' = closed \cup ({openSessions[f] : f \in Fds} \ {0})
          /\ UNCHANGED <<sender, sent>>
     ELSE Enqueue(Head(queued)) /\ UNCHANGED <<httpd, session, openSessions, closed>>
  /\ UNCHANGED <<task, accepted>>

HttpNext ==
  \/ StartServer \/ StopServer \/ CloseSocket \/ RunWork
  \/ \E f \in Fds : Accept(f) \/ CloseSession(f)
  \/ \E f \in Fds, s \in WsSenders : CreateDetachedSender(f, s)
  \/ \E s \in WsSenders : Send(s)

HttpSpec == HttpInit /\ [][HttpNext]_httpVars

-----------------------------------------------------------------------------
\* A frame goes to the session its sender was made for, never to a later one
\* that has got the same socket number, however long it was queued.
NoStrayFrame == \A p \in sent : p[1] = p[2]

\* send() returns, also when its session was closed while the frame was queued;
\* the server stops only after what was queued before.
SendReturns ==
  \A s \in WsSenders : (sender[s].at = "queued" /\ httpd = "up") ~> sender[s].at = "idle"
=============================================================================
