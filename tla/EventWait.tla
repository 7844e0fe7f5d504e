------------------------------ MODULE EventWait ------------------------------
(***************************************************************************)
(* Wait and AsyncWait of eventloop.rs, with private/waitable.rs: a thread  *)
(* waits until something an event reports has come true.  The event loop   *)
(* first calls the handler that changes what the matcher looks at, then    *)
(* the one that notifies the waiter.  Wait's notification is not sent      *)
(* under the mutex the waiter holds while it looks, so that it may fall    *)
(* between the look and the sleep.                                         *)
(***************************************************************************)
EXTENDS Integers

CONSTANT LastChange   \* bound: how often the condition changes

ASSUME EventWaitAssumption == LastChange \in Nat

VARIABLES matcher,   \* what it says: "wait", "done" or "error"
          changes,   \* how often it has changed
          notifying, \* is the handler that notifies still to be called?
          way,       \* how the thread waits: "none", "blocking" or "async"
          timed,     \* with a duration or not
          waiter,    \* "out", "look", "sleepy", "asleep", "ok", "err" or "timeout"
          sticky,    \* the notification of an AsyncWait
          seenDone   \* history: did the matcher say "done" to this wait?

waitVars == <<matcher, changes, notifying, way, timed, waiter, sticky, seenDone>>

WaitInit ==
  /\ matcher = "wait" /\ changes = 0 /\ notifying = FALSE
  /\ way = "none" /\ timed = FALSE /\ waiter = "out" /\ sticky = FALSE /\ seenDone = FALSE

\* An event: the condition changes, and a notification is on its way.
Change(to) ==
  /\ changes < LastChange /\ ~notifying /\ matcher # to
  /\ matcher' = to /\ changes' = changes + 1 /\ notifying' = TRUE
  /\ UNCHANGED <<way, timed, waiter, sticky, seenDone>>

\* Mutant: a note is left only to a waiter that sleeps already.
NotifySleepers ==
  /\ notifying /\ notifying' = FALSE
  /\ IF way = "blocking" /\ waiter = "asleep"
     THEN waiter' = "look" /\ UNCHANGED sticky
     ELSE UNCHANGED waiter /\ sticky' = (sticky \/ (way = "async" /\ waiter = "asleep"))
  /\ UNCHANGED <<matcher, changes, way, timed, seenDone>>

\* notify_all wakes who sleeps; notify_lsb leaves a note as well.
Notify ==
  /\ notifying /\ notifying' = FALSE
  /\ IF way = "blocking" /\ waiter = "asleep"
     THEN waiter' = "look" /\ UNCHANGED sticky
     ELSE UNCHANGED waiter /\ sticky' = (way = "async")
  /\ UNCHANGED <<matcher, changes, way, timed, seenDone>>

\* new and wait_while are called.
Start(w, t) ==
  /\ way = "none"
  /\ way' = w /\ timed' = t /\ waiter' = "look"
  /\ UNCHANGED <<matcher, changes, notifying, sticky, seenDone>>

\* The matcher is looked at.  The asynchronous wait with a duration takes an
\* error of the matcher for success.
Look ==
  /\ waiter = "look"
  /\ waiter' = CASE matcher = "wait" -> "sleepy"
                 [] matcher = "done" -> "ok"
                 [] matcher = "error" -> IF way = "async" /\ timed THEN "ok" ELSE "err"
  /\ seenDone' = (matcher = "done")
  /\ UNCHANGED <<matcher, changes, notifying, way, timed, sticky>>

\* Mutant: the asynchronous wait sleeps like the blocking one.
SleepForgetful ==
  /\ waiter = "sleepy"
  /\ waiter' = "asleep"
  /\ sticky' = FALSE
  /\ UNCHANGED <<matcher, changes, notifying, way, timed, seenDone>>

Sleep ==
  /\ waiter = "sleepy"
  /\ waiter' = "asleep"
  /\ UNCHANGED <<matcher, changes, notifying, way, timed, sticky, seenDone>>

\* The asynchronous waiter is woken by the note.
Wake ==
  /\ waiter = "asleep" /\ sticky
  /\ waiter' = "look" /\ sticky' = FALSE
  /\ UNCHANGED <<matcher, changes, notifying, way, timed, seenDone>>

\* Mutant: the blocking wait reports success when its time is over.
TimeoutBlind ==
  /\ waiter = "asleep" /\ timed /\ ~sticky
  /\ waiter' = IF way = "blocking" THEN "ok" ELSE "timeout"
  /\ UNCHANGED <<matcher, changes, notifying, way, timed, sticky, seenDone>>

\* The duration is over: the matcher is not looked at again, but a note that
\* is there is served first.
WaitTimeout ==
  /\ waiter = "asleep" /\ timed /\ ~sticky
  /\ waiter' = "timeout"
  /\ UNCHANGED <<matcher, changes, notifying, way, timed, sticky, seenDone>>

WaitNext ==
  \/ \E to \in {"wait", "done", "error"} : Change(to)
  \/ \E w \in {"blocking", "async"}, t \in BOOLEAN : Start(w, t)
  \/ Notify \/ Look \/ Sleep \/ Wake \/ WaitTimeout

-----------------------------------------------------------------------------
\* A wait that reports success has seen the condition come true.  (Not the
\* asynchronous one with a duration, which drops the matcher's error.)
SuccessIsTrue == waiter = "ok" /\ ~(way = "async" /\ timed) => seenDone

\* The asynchronous waiter never sleeps while the condition it waits for is
\* true and no notification is left or on its way.
AsyncNeverMisses ==
  way = "async" /\ waiter \in {"sleepy", "asleep"} /\ matcher # "wait" => sticky \/ notifying

\* Nobody waits for ever for what has come true and stays so: the asynchronous
\* waiter is woken, the blocking one with a duration times out at least.
WaitEnds ==
  (way = "async" \/ timed) ~>
    (waiter \in {"ok", "err", "timeout"} \/ matcher = "wait")
=============================================================================
