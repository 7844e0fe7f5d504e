------------------------------ MODULE EspTimer ------------------------------
(***************************************************************************)
(* timer.rs of the vendored esp-idf-svc: one asynchronous timer and the    *)
(* program that awaits it.  ESP-IDF's timer task (external) takes an alarm *)
(* off its list first and calls back later, so that a timer may be         *)
(* cancelled and armed anew while a callback of its earlier life is still  *)
(* under way.  Durations are in ticks of the model's clock.                *)
(***************************************************************************)
EXTENDS Integers

CONSTANTS Durations,  \* the durations a program asks for
          LastNow     \* bound: the clock stops here

ASSUME EspTimerAssumption == Durations \subseteq Nat \ {0} /\ LastNow \in Nat

VARIABLES now,       \* esp_timer_get_time()
          alarm,     \* the next alarm in ESP-IDF's list, or 0
          period,    \* its period, or 0
          calling,   \* has the timer task an alarm in its hands?
          note,      \* the notification the callback sends
          timerAt,   \* the program: "idle", "cancelled", "reset", "waiting", "ticking",
                     \* "deleting" or "dropped"
          asked,     \* the duration it has asked for
          due,       \* history: when it may go on
          stale,     \* history: an older alarm was in hand when it armed the timer
          early      \* history: it went on too early, and no older alarm explains it

timerVars == <<now, alarm, period, calling, note, timerAt, asked, due, stale, early>>

TimerInit ==
  /\ now = 0 /\ alarm = 0 /\ period = 0 /\ calling = FALSE /\ note = FALSE
  /\ timerAt = "idle" /\ asked = 0 /\ due = 0 /\ stale = FALSE /\ early = FALSE

\* The clock, which does not run past an alarm that is due.
TimePasses ==
  /\ now < LastNow /\ ~(alarm # 0 /\ alarm <= now)
  /\ now' = now + 1
  /\ UNCHANGED <<alarm, period, calling, note, timerAt, asked, due, stale, early>>

AlarmDue ==
  /\ alarm # 0 /\ alarm <= now /\ ~calling
  /\ calling' = TRUE
  /\ alarm' = IF period = 0 THEN 0 ELSE alarm + period
  /\ UNCHANGED <<now, period, note, timerAt, asked, due, stale, early>>

\* EspTimer::handle and the closure of timer_async.
Callback ==
  /\ calling
  /\ calling' = FALSE
  /\ note' = (timerAt # "dropped")
  /\ UNCHANGED <<now, alarm, period, timerAt, asked, due, stale, early>>

-----------------------------------------------------------------------------
\* EspAsyncTimer::after and every: cancel, reset the notification, arm.  (The
\* timer's own after and every cancel once more.)
Cancel_(to) == alarm' = 0 /\ period' = 0 /\ timerAt' = to

AskTimer(d) ==
  /\ timerAt \in {"idle", "ticking"}
  /\ Cancel_("cancelled") /\ asked' = d
  /\ UNCHANGED <<now, calling, note, due, stale, early>>

\* Mutant: what an earlier life of the timer has sent is kept.
KeepNote ==
  /\ timerAt = "cancelled"
  /\ timerAt' = "reset" /\ stale' = calling
  /\ UNCHANGED <<now, alarm, period, calling, note, asked, due, early>>

\* Mutant: the alarm is armed before the notification is reset, and may be lost.
ArmTooSoon(periodic) ==
  /\ timerAt \in {"reset", "armed"}
  /\ IF timerAt = "reset"
     THEN /\ alarm' = now + asked /\ due' = now + asked
          /\ period' = IF periodic THEN asked ELSE 0
          /\ timerAt' = "armed" /\ UNCHANGED note
     ELSE /\ note' = FALSE /\ timerAt' = IF period # 0 THEN "ticking" ELSE "waiting"
          /\ UNCHANGED <<alarm, period, due>>
  /\ UNCHANGED <<now, calling, asked, stale, early>>

ResetNote ==
  /\ timerAt = "cancelled"
  /\ timerAt' = "reset" /\ note' = FALSE /\ stale' = calling
  /\ UNCHANGED <<now, alarm, period, calling, asked, due, early>>

Arm(periodic) ==
  /\ timerAt = "reset"
  /\ alarm' = now + asked /\ due' = now + asked
  /\ period' = IF periodic THEN asked ELSE 0
  /\ timerAt' = IF periodic THEN "ticking" ELSE "waiting"
  /\ UNCHANGED <<now, calling, note, asked, stale, early>>

\* The await of after() and tick() is over.
GoOn ==
  /\ timerAt \in {"waiting", "ticking"} /\ note
  /\ note' = FALSE
  /\ timerAt' = IF timerAt = "waiting" THEN "idle" ELSE timerAt
  /\ early' = (early \/ (now < due /\ ~stale))
  /\ due' = IF timerAt = "ticking" /\ ~stale THEN due + asked ELSE due
  /\ stale' = FALSE
  /\ UNCHANGED <<now, alarm, period, calling, asked>>

\* The future of after() is dropped; the timer stays armed.
GiveUp ==
  /\ timerAt = "waiting" /\ timerAt' = "idle"
  /\ UNCHANGED <<now, alarm, period, calling, note, asked, due, stale, early>>

\* The drop of EspTimer: cancel, then delete until it succeeds.  That ESP-IDF
\* refuses while the timer's callback runs is what the comment there says of it
\* (timer.rs 118-119); DroppedIsSilent rests on it.
DropTimer ==
  /\ \/ timerAt \in {"idle", "ticking"} /\ Cancel_("deleting")
     \/ timerAt = "deleting" /\ ~calling /\ timerAt' = "dropped" /\ UNCHANGED <<alarm, period>>
  /\ UNCHANGED <<now, calling, note, asked, due, stale, early>>

TimerNext ==
  \/ TimePasses \/ AlarmDue \/ Callback
  \/ \E d \in Durations : AskTimer(d)
  \/ ResetNote \/ (\E p \in BOOLEAN : Arm(p)) \/ GoOn \/ GiveUp \/ DropTimer

-----------------------------------------------------------------------------
\* An after() or a tick() comes early only if an alarm of the timer's earlier
\* life was being called back just when the notification was reset.
NeverEarly == ~early

\* No callback is under way once the timer was dropped, and none will be.
DroppedIsSilent == timerAt = "dropped" => ~calling /\ alarm = 0

\* Whoever awaits after() goes on once its duration is over.
AfterReturns == timerAt = "waiting" /\ due <= LastNow ~> timerAt # "waiting"
=============================================================================
