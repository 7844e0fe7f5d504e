----------------------------- MODULE EmbassyAlarms -----------------------------
(***************************************************************************)
(* embassy_time_driver of timer.rs of the vendored esp-idf-svc: EspDriver, *)
(* whose vector of alarms is shared, under a critical section, by the      *)
(* tasks that allocate them and by ESP-IDF's timer task that calls back.   *)
(***************************************************************************)
EXTENDS Integers, Sequences

CONSTANTS AlarmTasks,   \* the tasks that want alarms, positive numbers
          MaxAlarms     \* MAX_ALARMS: 16 in the code

ASSUME AlarmAssumption == AlarmTasks \subseteq Nat \ {0} /\ MaxAlarms \in Nat

VARIABLES alarms,       \* each alarm: has it a timer, is it armed, its callback
          section,      \* who is in the critical section, or NoTask
          alarmAt,      \* each task: "out", "push", "timer", "have" or "callback"
          alarmOf,      \* each task: the alarm it has, or 0
          ring          \* the timer task: its step, its alarm, what it copied

alarmVars == <<alarms, section, alarmAt, alarmOf, ring>>

NoTask == -1
TimerTask == 0

AlarmInit ==
  /\ alarms = <<>> /\ section = NoTask
  /\ alarmAt = [t \in AlarmTasks |-> "out"] /\ alarmOf = [t \in AlarmTasks |-> 0]
  /\ ring = [at |-> "idle", id |-> 0, func |-> 0, arg |-> 0]

\* Alarm::new.
NewAlarm == [timer |-> FALSE, armed |-> FALSE, func |-> 0, arg |-> 0]

StepsTo(t, where) == alarmAt' = [alarmAt EXCEPT ![t] = where]

\* Mutant: the length is read before the section is entered.
ReadLengthOutside(t) ==
  /\ alarmAt[t] = "out" /\ StepsTo(t, "push")
  /\ alarmOf' = [alarmOf EXCEPT ![t] = Len(alarms) + 1] /\ UNCHANGED <<alarms, section, ring>>

\* allocate_alarm: the length is read, and the alarm pushed, in the section;
\* then the alarm's timer is made outside of it.
ReadLength(t) ==
  /\ alarmAt[t] = "out" /\ section = NoTask /\ section' = t /\ StepsTo(t, "push")
  /\ alarmOf' = [alarmOf EXCEPT ![t] = Len(alarms) + 1] /\ UNCHANGED <<alarms, ring>>
PushAlarm(t) ==
  /\ alarmAt[t] = "push" /\ section' = NoTask /\ UNCHANGED ring
  /\ IF alarmOf[t] <= MaxAlarms
     THEN /\ alarms' = Append(alarms, NewAlarm)
          /\ StepsTo(t, "timer") /\ UNCHANGED alarmOf
     ELSE StepsTo(t, "out") /\ alarmOf' = [alarmOf EXCEPT ![t] = 0] /\ UNCHANGED alarms
MakeTimer(t) ==
  /\ alarmAt[t] = "timer" /\ StepsTo(t, "have")
  /\ alarms' = [alarms EXCEPT ![alarmOf[t]].timer = TRUE]
  /\ UNCHANGED <<section, alarmOf, ring>>

\* set_alarm_callback: the function and its argument, in the section.
SetFunc(t, pair) ==
  /\ alarmAt[t] = "have" /\ section = NoTask /\ section' = t /\ StepsTo(t, "callback")
  /\ alarms' = [alarms EXCEPT ![alarmOf[t]].func = pair] /\ UNCHANGED <<alarmOf, ring>>
SetArg(t) ==
  /\ alarmAt[t] = "callback" /\ section' = NoTask /\ StepsTo(t, "have")
  /\ alarms' = [alarms EXCEPT ![alarmOf[t]].arg = alarms[alarmOf[t]].func]
  /\ UNCHANGED <<alarmOf, ring>>

\* set_alarm, of a time to come: the timer is armed (anew).  Of a time that is
\* past: false, and a timer that is armed stays so.
SetAlarm(t) ==
  /\ alarmAt[t] = "have"
  /\ alarms' = [alarms EXCEPT ![alarmOf[t]].armed = TRUE]
  /\ UNCHANGED <<section, alarmAt, alarmOf, ring>>

\* ESP-IDF's timer task takes an alarm that is due.
AlarmRings(i) ==
  /\ ring.at = "idle" /\ alarms[i].timer /\ alarms[i].armed
  /\ alarms' = [alarms EXCEPT ![i].armed = FALSE]
  /\ ring' = [at |-> "call", id |-> i, func |-> 0, arg |-> 0]
  /\ UNCHANGED <<section, alarmAt, alarmOf>>

\* Mutant: the callback is copied outside of the section.
CopyFuncOutside ==
  /\ ring.at = "call" /\ ring' = [ring EXCEPT !.at = "copy", !.func = alarms[ring.id].func]
  /\ UNCHANGED <<alarms, section, alarmAt, alarmOf>>

\* EspDriver::call: the callback is copied in the section and called outside.
CopyFunc ==
  /\ ring.at = "call" /\ section = NoTask /\ section' = TimerTask
  /\ ring' = [ring EXCEPT !.at = "copy", !.func = alarms[ring.id].func]
  /\ UNCHANGED <<alarms, alarmAt, alarmOf>>
CopyArg ==
  /\ ring.at = "copy" /\ section' = NoTask
  /\ ring' = [ring EXCEPT !.at = "run", !.arg = alarms[ring.id].arg]
  /\ UNCHANGED <<alarms, alarmAt, alarmOf>>
CallbackRan ==
  /\ ring.at = "run" /\ ring' = [at |-> "idle", id |-> 0, func |-> 0, arg |-> 0]
  /\ UNCHANGED <<alarms, section, alarmAt, alarmOf>>

AlarmNext ==
  \/ \E t \in AlarmTasks : ReadLength(t) \/ PushAlarm(t) \/ MakeTimer(t) \/ SetArg(t) \/ SetAlarm(t)
  \/ \E t \in AlarmTasks, pair \in 1..2 : SetFunc(t, pair)
  \/ \E i \in DOMAIN alarms : AlarmRings(i)
  \/ CopyFunc \/ CopyArg \/ CallbackRan

AlarmSpec == AlarmInit /\ [][AlarmNext]_alarmVars

-----------------------------------------------------------------------------
\* Two tasks never get the same alarm, nor one that is not there or has no
\* timer, and a callback runs with the argument that was set with it.
AlarmsWhole ==
  /\ \A t \in AlarmTasks : alarmAt[t] = "have" =>
       /\ alarmOf[t] \in DOMAIN alarms /\ alarms[alarmOf[t]].timer
       /\ \A u \in AlarmTasks \ {t} : alarmOf[u] # alarmOf[t]
  /\ ring.at = "run" => ring.arg = ring.func
================================================================================
