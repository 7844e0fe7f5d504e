----------------------------- MODULE ServiceProofs -----------------------------
(***************************************************************************)
(* The proofs about the other services of esp-idf-svc: event loops,        *)
(* timers, waits, the embassy alarms, NVS and OTA.  Each has an inductive  *)
(* invariant; the last part puts them, and those of NetworkProofs,         *)
(* together for a platform that runs any one of the services.              *)
(***************************************************************************)
EXTENDS MCPlatform, NetworkProofs, WellFoundedInduction

(* The event loop. *)

SubStates == {"none", "strong", "weak", "dropped", "orphaned"}

LoopTypeOK ==
  /\ created \in BOOLEAN /\ taken \in BOOLEAN
  /\ strong \subseteq Holders \cup Subs
  /\ sub \in [Subs -> SubStates]
  /\ registered \subseteq Subs /\ freed \subseteq Subs /\ calls \subseteq Subs

\* A strong subscription holds the loop and is registered.
StrongInv ==
  /\ created = taken
  /\ strong # {} => created
  /\ ~created => registered = {}
  /\ \A s \in Subs : sub[s] = "strong" <=> s \in strong
  /\ \A s \in Subs : sub[s] = "strong" => s \in registered

\* What ESP-IDF may call, now or for its next event, is not freed, but for what
\* was dropped when the loop had no owner.
FreedInv ==
  /\ calls \subseteq registered
  /\ \A s \in Subs : sub[s] \in {"none", "dropped"} => s \notin registered
  /\ \A s \in freed : sub[s] \in {"dropped", "orphaned"}
  /\ \A s \in misled : sub[s] = "orphaned"

LoopInv == LoopTypeOK /\ StrongInv /\ FreedInv

LEMMA LoopStart == LoopInit => LoopInv
  BY EventLoopAssumption DEF LoopInit, LoopInv, LoopTypeOK, StrongInv, FreedInv, SubStates

LEMMA LoopStep == LoopInv /\ [LoopNext]_loopVars => LoopInv'
<1> SUFFICES ASSUME LoopInv, [LoopNext]_loopVars PROVE LoopInv'
  OBVIOUS
<1> USE EventLoopAssumption DEF LoopInv, eventVars
<1>1. ASSUME NEW h \in Holders, Take(h) \/ DropLoop(h) \/ Post(h) PROVE LoopInv'
  BY <1>1 DEF Take, DropLoop, Post, LoopTypeOK, StrongInv, FreedInv
<1>2. ASSUME NEW h \in Holders, NEW g \in Holders, CloneLoop(h, g) PROVE LoopInv'
  BY <1>2 DEF CloneLoop, LoopTypeOK, StrongInv, FreedInv
<1>3. ASSUME NEW h \in Holders, NEW s \in Subs, Subscribe(h, s) PROVE LoopInv'
  BY <1>3 DEF Subscribe, MutexFree, LoopTypeOK, StrongInv, FreedInv, SubStates
<1>4. ASSUME NEW s \in Subs, MakeWeak(s) PROVE LoopInv'
  BY <1>4 DEF MakeWeak, LoopTypeOK, StrongInv, FreedInv, SubStates
<1>5. ASSUME NEW s \in Subs, Unsubscribe(s) PROVE LoopInv'
  BY <1>5 DEF Unsubscribe, Dropped, Upgrades, Orphans, MutexFree, LoopTypeOK, StrongInv, FreedInv, SubStates
<1>6. ASSUME NEW s \in Subs, Call(s) PROVE LoopInv'
  BY <1>6 DEF Call, LoopTypeOK, StrongInv, FreedInv
<1>7. CASE DropHandle
  BY <1>7 DEF DropHandle, MutexFree, LoopTypeOK, StrongInv, FreedInv
<1>8. CASE Dispatch
  BY <1>8 DEF Dispatch, MutexFree, LoopTypeOK, StrongInv, FreedInv
<1>9. CASE UNCHANGED loopVars
  BY <1>9 DEF loopVars, LoopTypeOK, StrongInv, FreedInv
<1> QED
  BY <1>1, <1>2, <1>3, <1>4, <1>5, <1>6, <1>7, <1>8, <1>9 DEF LoopNext

\* The task of the loop calls no callback that was freed, however subscribers,
\* posters, clones and drops interleave with it: of strong subscriptions never, of
\* weak ones only if they were dropped between the drop of the loop's last owner and
\* its deletion; and the loop lives as long as anyone who can reach it.
THEOREM LoopIsSafe == LoopSpec => [](StrongNeverMisled /\ LoopOutlivesUsers)
<1>1. LoopInv => StrongNeverMisled /\ LoopOutlivesUsers
  BY DEF LoopInv, LoopTypeOK, StrongInv, FreedInv, StrongNeverMisled, LoopOutlivesUsers
<1> QED
  BY <1>1, LoopStart, LoopStep, PTL DEF LoopSpec

-----------------------------------------------------------------------------
(* The alarms of the embassy time driver. *)

AlarmPlaces == {"out", "push", "timer", "have", "callback"}
AlarmRecord == [timer : BOOLEAN, armed : BOOLEAN, func : 0..2, arg : 0..2]

AlarmTypeOK ==
  /\ alarms \in Seq(AlarmRecord)
  /\ section \in AlarmTasks \cup {NoTask, TimerTask}
  /\ alarmAt \in [AlarmTasks -> AlarmPlaces]
  /\ alarmOf \in [AlarmTasks -> Nat]
  /\ ring \in [at : {"idle", "call", "copy", "run"}, id : Nat, func : 0..2, arg : 0..2]

\* The critical section belongs to the one that is in the middle of something.
SectionInv ==
  /\ \A t \in AlarmTasks : alarmAt[t] \in {"push", "callback"} <=> section = t
  /\ ring.at = "copy" <=> section = TimerTask

\* Who has been given an alarm has one of its own that exists; who is about to
\* push one has the number that comes next.
OwnerInv ==
  /\ \A t \in AlarmTasks :
       /\ alarmAt[t] = "out" => alarmOf[t] = 0
       /\ alarmAt[t] = "push" => alarmOf[t] = Len(alarms) + 1
       /\ alarmAt[t] \in {"timer", "have", "callback"} => alarmOf[t] \in 1..Len(alarms)
       /\ alarmAt[t] \in {"have", "callback"} => alarms[alarmOf[t]].timer
  /\ \A t, u \in AlarmTasks : t # u /\ alarmOf[t] = alarmOf[u] => alarmOf[t] = 0

\* A function and its argument differ only while its owner is in the section.
PairInv ==
  /\ \A i \in 1..Len(alarms) :
       alarms[i].func = alarms[i].arg \/ \E t \in AlarmTasks : section = t /\ alarmOf[t] = i
                                                             /\ alarmAt[t] = "callback"
  /\ ring.at # "idle" => ring.id \in 1..Len(alarms)
  /\ ring.at = "copy" => ring.func = alarms[ring.id].func
  /\ ring.at = "run" => ring.arg = ring.func

AlarmInv == AlarmTypeOK /\ SectionInv /\ OwnerInv /\ PairInv

LEMMA AlarmsGivesWhole == AlarmInv => AlarmsWhole
<1> SUFFICES ASSUME AlarmInv PROVE AlarmsWhole
  OBVIOUS
<1>1. DOMAIN alarms = 1..Len(alarms)
  BY DEF AlarmInv, AlarmTypeOK
<1> QED
  BY <1>1 DEF AlarmInv, OwnerInv, PairInv, AlarmsWhole

LEMMA TasksAreNumbers ==
  NoTask # TimerTask /\ \A t \in AlarmTasks : t # NoTask /\ t # TimerTask
  BY AlarmAssumption DEF NoTask, TimerTask

LEMMA AlarmStart == AlarmInit => AlarmInv
<1> SUFFICES ASSUME AlarmInit PROVE AlarmInv
  OBVIOUS
<1>1. alarms = <<>> /\ Len(alarms) = 0
  BY DEF AlarmInit
<1>2. AlarmTypeOK
  BY <1>1 DEF AlarmInit, AlarmTypeOK, AlarmPlaces
<1>3. SectionInv
  BY TasksAreNumbers DEF AlarmInit, SectionInv
<1>4. OwnerInv
  BY DEF AlarmInit, OwnerInv
<1>5. PairInv
  BY <1>1 DEF AlarmInit, PairInv
<1> QED
  BY <1>2, <1>3, <1>4, <1>5 DEF AlarmInv

-----------------------------------------------------------------------------

LEMMA ReadLengthStep ==
  ASSUME AlarmInv, NEW t \in AlarmTasks, ReadLength(t)
  PROVE  AlarmInv'
<1> USE TasksAreNumbers DEF AlarmInv, ReadLength, StepsTo
<1>0. Len(alarms) \in Nat /\ UNCHANGED <<alarms, ring>>
  BY DEF AlarmTypeOK
<1>1. AlarmTypeOK'
  BY <1>0 DEF AlarmTypeOK, AlarmPlaces
<1>2. SectionInv'
  BY <1>0 DEF AlarmTypeOK, SectionInv
<1>3. OwnerInv'
  BY <1>0 DEF AlarmTypeOK, OwnerInv, SectionInv, AlarmPlaces
<1>4. PairInv'
  BY <1>0 DEF AlarmTypeOK, PairInv, SectionInv
<1> QED
  BY <1>1, <1>2, <1>3, <1>4

LEMMA PushAlarmStep ==
  ASSUME AlarmInv, NEW t \in AlarmTasks, PushAlarm(t)
  PROVE  AlarmInv'
<1> USE TasksAreNumbers DEF AlarmInv, PushAlarm, StepsTo
<1>0. section = t /\ section' = NoTask /\ UNCHANGED ring /\ Len(alarms) \in Nat
      /\ alarmOf[t] = Len(alarms) + 1
  BY DEF AlarmTypeOK, SectionInv, OwnerInv
<1>a. CASE alarmOf[t] <= MaxAlarms
  <2>1. NewAlarm \in AlarmRecord
    BY DEF NewAlarm, AlarmRecord
  <2>2. /\ alarms' \in Seq(AlarmRecord) /\ Len(alarms') = Len(alarms) + 1
        /\ \A i \in 1..Len(alarms) : alarms'[i] = alarms[i]
        /\ alarms'[Len(alarms) + 1] = NewAlarm
        /\ alarmAt' = [alarmAt EXCEPT ![t] = "timer"] /\ UNCHANGED alarmOf
    <3>1. alarms' = Append(alarms, NewAlarm) /\ alarms \in Seq(AlarmRecord)
          /\ alarmAt' = [alarmAt EXCEPT ![t] = "timer"] /\ UNCHANGED alarmOf
      BY <1>a DEF AlarmTypeOK
    <3> HIDE DEF PushAlarm, AlarmInv
    <3> QED
      BY <2>1, <3>1
  <2>3. AlarmTypeOK'
    BY <1>0, <2>2 DEF AlarmTypeOK, AlarmPlaces
  <2>4. SectionInv'
    BY <1>0, <2>2 DEF AlarmTypeOK, SectionInv
  <2>5. OwnerInv'
    BY <1>0, <2>2 DEF AlarmTypeOK, SectionInv, OwnerInv
  <2>6. PairInv'
    <3>1. NewAlarm.func = NewAlarm.arg
      BY DEF NewAlarm
    <3>2. ASSUME NEW i \in 1..Len(alarms)'
          PROVE  alarms'[i].func = alarms'[i].arg
      <4>1. CASE i = Len(alarms) + 1
        BY <2>2, <3>1, <4>1
      <4>2. CASE i \in 1..Len(alarms)
        <5>1. alarms[i].func = alarms[i].arg
          BY <1>0, <4>2 DEF SectionInv, PairInv
        <5> QED
          BY <2>2, <4>2, <5>1
      <4> QED
        BY <1>0, <2>2, <4>1, <4>2
    <3>3. /\ ring.at # "idle" => ring.id \in 1..Len(alarms)
          /\ ring.at = "copy" => ring.func = alarms[ring.id].func
          /\ ring.at = "run" => ring.arg = ring.func
      BY DEF PairInv
    <3> HIDE DEF PushAlarm, AlarmInv
    <3> QED
      BY <1>0, <2>2, <3>2, <3>3 DEF PairInv
  <2> QED
    BY <2>3, <2>4, <2>5, <2>6
<1>b. CASE ~(alarmOf[t] <= MaxAlarms)
  <2>2. alarmAt' = [alarmAt EXCEPT ![t] = "out"] /\ UNCHANGED alarms
        /\ alarmOf' = [alarmOf EXCEPT ![t] = 0]
    BY <1>b
  <2>3. AlarmTypeOK'
    BY <1>0, <2>2 DEF AlarmTypeOK, AlarmPlaces
  <2>4. SectionInv'
    BY <1>0, <2>2 DEF AlarmTypeOK, SectionInv
  <2>5. OwnerInv'
    BY <1>0, <2>2 DEF AlarmTypeOK, SectionInv, OwnerInv
  <2>6. PairInv'
    BY <1>0, <2>2 DEF AlarmTypeOK, SectionInv, PairInv
  <2> QED
    BY <2>3, <2>4, <2>5, <2>6
<1> QED
  BY <1>a, <1>b

\* The steps that change one field of the task's own alarm.
LEMMA OwnAlarmStep ==
  ASSUME AlarmInv, NEW t \in AlarmTasks,
         MakeTimer(t) \/ SetAlarm(t) \/ SetArg(t) \/ \E pair \in 1..2 : SetFunc(t, pair)
  PROVE  AlarmInv'
<1> USE TasksAreNumbers DEF AlarmInv, StepsTo
<1> DEFINE k == alarmOf[t]
<1>0. k \in 1..Len(alarms) /\ alarms[k] \in AlarmRecord /\ Len(alarms) \in Nat
      /\ UNCHANGED <<alarmOf, ring>>
  BY DEF AlarmTypeOK, OwnerInv, MakeTimer, SetAlarm, SetArg, SetFunc
<1>1. CASE MakeTimer(t) \/ SetAlarm(t)
  <2>1. PICK record \in AlarmRecord :
          /\ alarms' = [alarms EXCEPT ![k] = record]
          /\ record.func = alarms[k].func /\ record.arg = alarms[k].arg
          /\ record.timer
    <3>1. CASE MakeTimer(t)
      <4> DEFINE r == [alarms[k] EXCEPT !.timer = TRUE]
      <4>1. r \in AlarmRecord /\ r.func = alarms[k].func /\ r.arg = alarms[k].arg /\ r.timer
        BY <1>0 DEF AlarmRecord
      <4>2. alarms' = [alarms EXCEPT ![k] = r]
        BY <3>1 DEF MakeTimer
      <4> QED
        BY <4>1, <4>2
    <3>2. CASE SetAlarm(t)
      <4> DEFINE r == [alarms[k] EXCEPT !.armed = TRUE]
      <4>1. r \in AlarmRecord /\ r.func = alarms[k].func /\ r.arg = alarms[k].arg
            /\ r.timer = alarms[k].timer
        BY <1>0 DEF AlarmRecord
      <4>2. alarms' = [alarms EXCEPT ![k] = r]
        BY <3>2 DEF SetAlarm
      <4>3. alarms[k].timer
        BY <3>2 DEF SetAlarm, OwnerInv
      <4> QED
        BY <4>1, <4>2, <4>3
    <3> QED
      BY <1>1, <3>1, <3>2
  <2>2. /\ alarms' \in Seq(AlarmRecord) /\ Len(alarms') = Len(alarms)
        /\ \A i \in 1..Len(alarms) : i # k => alarms'[i] = alarms[i]
        /\ alarms'[k].func = alarms[k].func /\ alarms'[k].arg = alarms[k].arg
        /\ alarms'[k].timer
    BY <1>0, <2>1 DEF AlarmTypeOK
  <2>3. /\ UNCHANGED section /\ alarmAt' = [alarmAt EXCEPT ![t] = "have"]
        /\ alarmAt[t] \in {"timer", "have"}
    BY <1>1 DEF MakeTimer, SetAlarm, AlarmTypeOK
  <2>4. AlarmTypeOK'
    BY <1>0, <2>2, <2>3 DEF AlarmTypeOK, AlarmPlaces
  <2>5. SectionInv'
    BY <1>0, <2>3 DEF AlarmTypeOK, SectionInv
  <2>6. OwnerInv'
    BY <1>0, <2>2, <2>3 DEF AlarmTypeOK, OwnerInv
  <2>7. PairInv'
    <3>1. ASSUME NEW i \in 1..Len(alarms)
          PROVE  \/ alarms'[i].func = alarms'[i].arg
                 \/ \E u \in AlarmTasks : section' = u /\ alarmOf'[u] = i
                                          /\ alarmAt'[u] = "callback"
      <4>1. alarms'[i].func = alarms[i].func /\ alarms'[i].arg = alarms[i].arg
        BY <2>2
      <4>2. CASE alarms[i].func = alarms[i].arg
        BY <4>1, <4>2
      <4>3. ASSUME NEW u \in AlarmTasks, section = u, alarmOf[u] = i, alarmAt[u] = "callback"
            PROVE  section' = u /\ alarmOf'[u] = i /\ alarmAt'[u] = "callback"
        BY <1>0, <2>3, <4>3 DEF AlarmTypeOK
      <4> QED
        BY <4>2, <4>3 DEF PairInv
    <3>2. ring.at = "copy" => ring.func = alarms'[ring.id].func
      BY <2>2 DEF PairInv
    <3> HIDE DEF AlarmInv
    <3> QED
      BY <1>0, <2>2, <3>1, <3>2 DEF PairInv, AlarmInv
  <2> QED
    BY <2>4, <2>5, <2>6, <2>7
<1>2. CASE SetArg(t)
  <2> DEFINE r == [alarms[k] EXCEPT !.arg = alarms[k].func]
  <2>1. r \in AlarmRecord /\ r.func = r.arg /\ r.timer = alarms[k].timer
        /\ r.func = alarms[k].func
    BY <1>0 DEF AlarmRecord
  <2>2. alarms' = [alarms EXCEPT ![k] = r]
    BY <1>2 DEF SetArg
  <2>3. /\ alarms' \in Seq(AlarmRecord) /\ Len(alarms') = Len(alarms)
        /\ \A i \in 1..Len(alarms) : i # k => alarms'[i] = alarms[i]
        /\ alarms'[k].func = alarms'[k].arg /\ alarms'[k].timer = alarms[k].timer
    BY <1>0, <2>1, <2>2 DEF AlarmTypeOK
  <2>4. /\ section' = NoTask /\ alarmAt' = [alarmAt EXCEPT ![t] = "have"]
        /\ alarmAt[t] = "callback" /\ section = t
    BY <1>2 DEF SetArg, SectionInv
  <2>5. AlarmTypeOK'
    BY <1>0, <2>3, <2>4 DEF AlarmTypeOK, AlarmPlaces
  <2>6. SectionInv'
    BY <1>0, <2>4 DEF AlarmTypeOK, SectionInv
  <2>7. OwnerInv'
    BY <1>0, <2>3, <2>4 DEF AlarmTypeOK, OwnerInv
  <2>8. PairInv'
    <3>1. ring' = ring /\ ring.at # "copy" /\ alarmOf' = alarmOf
      BY <1>2, <2>4, TasksAreNumbers DEF SetArg, SectionInv, OwnerInv, AlarmTypeOK
    <3>2. \A i \in 1..Len(alarms') : alarms'[i].func = alarms'[i].arg
      BY <1>0, <2>3, <2>4 DEF AlarmTypeOK, PairInv, SectionInv
    <3> QED
      BY <2>3, <3>1, <3>2 DEF PairInv
  <2> QED
    BY <2>5, <2>6, <2>7, <2>8
<1>3. ASSUME NEW pair \in 1..2, SetFunc(t, pair) PROVE AlarmInv'
  <2> DEFINE r == [alarms[k] EXCEPT !.func = pair]
  <2>1. r \in AlarmRecord /\ r.timer = alarms[k].timer
    BY <1>0 DEF AlarmRecord
  <2>2. alarms' = [alarms EXCEPT ![k] = r]
    BY <1>3 DEF SetFunc
  <2>3. /\ alarms' \in Seq(AlarmRecord) /\ Len(alarms') = Len(alarms)
        /\ \A i \in 1..Len(alarms) : i # k => alarms'[i] = alarms[i]
        /\ alarms'[k].timer = alarms[k].timer
    BY <1>0, <2>1, <2>2 DEF AlarmTypeOK
  <2>4. /\ section' = t /\ alarmAt' = [alarmAt EXCEPT ![t] = "callback"]
        /\ alarmAt[t] = "have" /\ section = NoTask
    BY <1>3 DEF SetFunc
  <2>5. AlarmTypeOK'
    BY <1>0, <2>3, <2>4 DEF AlarmTypeOK, AlarmPlaces
  <2>6. SectionInv'
    BY <1>0, <2>4 DEF AlarmTypeOK, SectionInv
  <2>7. OwnerInv'
    BY <1>0, <2>3, <2>4 DEF AlarmTypeOK, OwnerInv
  <2>8. PairInv'
    <3>1. ASSUME NEW i \in 1..Len(alarms), i # k
          PROVE  alarms'[i].func = alarms'[i].arg
      <4>1. alarms[i].func = alarms[i].arg
        BY <2>4 DEF PairInv, SectionInv
      <4> QED
        BY <2>3, <3>1, <4>1
    <3>2. section' = t /\ alarmOf'[t] = k /\ alarmAt'[t] = "callback"
      BY <1>0, <2>4 DEF AlarmTypeOK
    <3>3. ring.at # "copy"
      BY <2>4 DEF SectionInv
    <3> QED
      BY <1>0, <2>3, <3>1, <3>2, <3>3 DEF PairInv
  <2> QED
    BY <2>5, <2>6, <2>7, <2>8
<1> QED
  BY <1>1, <1>2, <1>3

\* The timer task.
LEMMA TimerTaskStep ==
  ASSUME AlarmInv,
         (\E i \in DOMAIN alarms : AlarmRings(i)) \/ CopyFunc \/ CopyArg \/ CallbackRan
  PROVE  AlarmInv'
<1> USE TasksAreNumbers DEF AlarmInv
<1>0. DOMAIN alarms = 1..Len(alarms) /\ Len(alarms) \in Nat
      /\ UNCHANGED <<alarmAt, alarmOf>>
  BY DEF AlarmTypeOK, AlarmRings, CopyFunc, CopyArg, CallbackRan
<1>1. ASSUME NEW i \in 1..Len(alarms), AlarmRings(i) PROVE AlarmInv'
  <2> DEFINE r == [alarms[i] EXCEPT !.armed = FALSE]
  <2>1. alarms[i] \in AlarmRecord
    BY DEF AlarmTypeOK
  <2>2. r \in AlarmRecord /\ r.timer = alarms[i].timer /\ r.func = alarms[i].func
        /\ r.arg = alarms[i].arg
    BY <2>1 DEF AlarmRecord
  <2>3. /\ alarms' \in Seq(AlarmRecord) /\ Len(alarms') = Len(alarms)
        /\ \A j \in 1..Len(alarms) : /\ alarms'[j].timer = alarms[j].timer
                                     /\ alarms'[j].func = alarms[j].func
                                     /\ alarms'[j].arg = alarms[j].arg
    <3>1. alarms' = [alarms EXCEPT ![i] = r]
      BY <1>1 DEF AlarmRings
    <3> QED
      BY <3>1, <2>2 DEF AlarmTypeOK
  <2>4. ring.at = "idle" /\ ring' = [at |-> "call", id |-> i, func |-> 0, arg |-> 0]
        /\ UNCHANGED section
    BY <1>1 DEF AlarmRings
  <2>5. AlarmTypeOK'
    BY <1>0, <2>3, <2>4 DEF AlarmTypeOK
  <2>6. SectionInv' /\ OwnerInv'
    BY <1>0, <2>3, <2>4 DEF AlarmTypeOK, SectionInv, OwnerInv
  <2>7. PairInv'
    BY <1>0, <2>3, <2>4 DEF PairInv
  <2> QED
    BY <2>5, <2>6, <2>7
<1>2. CASE CopyFunc
  <2>1. ring.at = "call" /\ section = NoTask /\ section' = TimerTask /\ UNCHANGED alarms
    BY <1>2 DEF CopyFunc
  <2>2. ring.id \in 1..Len(alarms) /\ alarms[ring.id] \in AlarmRecord
    BY <2>1 DEF PairInv, AlarmTypeOK
  <2>3. /\ ring'.at = "copy" /\ ring'.id = ring.id /\ ring'.func = alarms[ring.id].func
        /\ ring' \in [at : {"idle", "call", "copy", "run"}, id : Nat, func : 0..2, arg : 0..2]
    BY <1>2, <2>2 DEF CopyFunc, AlarmTypeOK, AlarmRecord
  <2>4. AlarmTypeOK' /\ SectionInv' /\ OwnerInv'
    BY <1>0, <2>1, <2>3 DEF AlarmTypeOK, SectionInv, OwnerInv
  <2>5. PairInv'
    BY <1>0, <2>1, <2>2, <2>3 DEF PairInv
  <2> QED
    BY <2>4, <2>5
<1>3. CASE CopyArg
  <2>1. ring.at = "copy" /\ section = TimerTask /\ section' = NoTask /\ UNCHANGED alarms
    BY <1>3 DEF CopyArg, SectionInv
  <2>2. ring.id \in 1..Len(alarms) /\ alarms[ring.id] \in AlarmRecord
        /\ ring.func = alarms[ring.id].func
    BY <2>1 DEF PairInv, AlarmTypeOK
  <2>3. alarms[ring.id].func = alarms[ring.id].arg
    BY <2>1, <2>2 DEF PairInv
  <2>4. /\ ring'.at = "run" /\ ring'.id = ring.id /\ ring'.func = ring'.arg
        /\ ring' \in [at : {"idle", "call", "copy", "run"}, id : Nat, func : 0..2, arg : 0..2]
    BY <1>3, <2>2, <2>3 DEF CopyArg, AlarmTypeOK, AlarmRecord
  <2>5. AlarmTypeOK' /\ SectionInv' /\ OwnerInv'
    BY <1>0, <2>1, <2>4 DEF AlarmTypeOK, SectionInv, OwnerInv
  <2>6. PairInv'
    BY <1>0, <2>1, <2>2, <2>4 DEF PairInv
  <2> QED
    BY <2>5, <2>6
<1>4. CASE CallbackRan
  BY <1>0, <1>4 DEF CallbackRan, AlarmTypeOK, SectionInv, OwnerInv, PairInv
<1> QED
  BY <1>0, <1>1, <1>2, <1>3, <1>4

-----------------------------------------------------------------------------
\* Two tasks never get the same alarm, and no callback is called with another
\* one's argument, however many tasks there are.
THEOREM AlarmsStayWhole == AlarmSpec => []AlarmsWhole
<1>1. AlarmInv /\ [AlarmNext]_alarmVars => AlarmInv'
  <2> SUFFICES ASSUME AlarmInv, [AlarmNext]_alarmVars PROVE AlarmInv'
    OBVIOUS
  <2>1. CASE UNCHANGED alarmVars
    BY <2>1 DEF alarmVars, AlarmInv, AlarmTypeOK, SectionInv, OwnerInv, PairInv
  <2>2. CASE AlarmNext
    BY <2>2, ReadLengthStep, PushAlarmStep, OwnAlarmStep, TimerTaskStep DEF AlarmNext
  <2> QED
    BY <2>1, <2>2
<1> QED
  BY <1>1, AlarmStart, AlarmsGivesWhole, PTL DEF AlarmSpec

-----------------------------------------------------------------------------
(* Timers. *)

TimerTypeOK ==
  /\ now \in Nat /\ alarm \in Nat /\ period \in Nat /\ asked \in Nat /\ due \in Nat
  /\ timerAt \in {"idle", "cancelled", "reset", "waiting", "ticking", "deleting", "dropped"}

\* Before the timer is armed no alarm is listed, and one in hand is an older one.
Unarmed ==
  /\ timerAt \in {"cancelled", "reset", "deleting", "dropped"} => alarm = 0 /\ period = 0
  /\ timerAt \in {"cancelled", "reset"} => asked > 0
  /\ timerAt = "reset" => ~(note /\ calling) /\ (note \/ calling => stale)
  /\ timerAt = "dropped" => ~calling

\* after(): what is listed is due when it was asked for, and once no older alarm
\* is about, an alarm in hand or its note says that it is over.
Awaiting ==
  timerAt = "waiting" =>
    /\ period = 0 /\ alarm \in {0, due}
    /\ ~stale /\ (note \/ calling) => due <= now

\* every(): the alarms in hand and noted, but for an older one, are those between
\* what the program waits for and what is listed.
InHand == (IF note THEN 1 ELSE 0) + (IF calling THEN 1 ELSE 0)
Ticks ==
  timerAt = "ticking" =>
    /\ period = asked /\ asked > 0 /\ alarm > 0
    /\ ~stale /\ InHand = 0 => due <= alarm
    /\ ~stale /\ InHand = 1 => due <= alarm - period /\ alarm - period <= now
    /\ ~stale /\ InHand = 2 => due <= alarm - (2 * period) /\ alarm - period <= now
    /\ stale /\ InHand < 2 => due <= alarm
    /\ stale /\ InHand = 2 => due <= alarm - period /\ alarm - period <= now

TimerInv == TimerTypeOK /\ Unarmed /\ Awaiting /\ Ticks /\ NeverEarly

LEMMA TimerStart == TimerInit => TimerInv
BY DEF TimerInit, TimerInv, TimerTypeOK, Unarmed, Awaiting, Ticks, InHand, NeverEarly

LEMMA TimerStep == TimerInv /\ [TimerNext]_timerVars => TimerInv'
<1> SUFFICES ASSUME TimerInv, [TimerNext]_timerVars PROVE TimerInv'
  OBVIOUS
<1> USE EspTimerAssumption DEF TimerInv, TimerTypeOK, Unarmed, Awaiting, Ticks, InHand, NeverEarly
<1>1. CASE TimePasses
  BY <1>1 DEF TimePasses
<1>2. CASE AlarmDue
  BY <1>2 DEF AlarmDue
<1>3. CASE Callback
  BY <1>3 DEF Callback
<1>4. ASSUME NEW d \in Durations, AskTimer(d) PROVE TimerInv'
  BY <1>4 DEF AskTimer, Cancel_
<1>5. CASE ResetNote
  BY <1>5 DEF ResetNote
<1>6. ASSUME NEW p \in BOOLEAN, Arm(p) PROVE TimerInv'
  BY <1>6 DEF Arm
<1>7. CASE GoOn
  <2>1. ~(now < due /\ ~stale)
    BY <1>7 DEF GoOn
  <2>2. ~early'
    BY <1>7, <2>1, Zenon DEF GoOn
  <2>3. CASE timerAt = "waiting"
    BY <1>7, <2>2, <2>3 DEF GoOn
  <2>4. CASE timerAt = "ticking" /\ stale
    BY <1>7, <2>2, <2>4 DEF GoOn
  <2>5. CASE timerAt = "ticking" /\ ~stale
    BY <1>7, <2>2, <2>5 DEF GoOn
  <2> QED
    BY <1>7, <2>3, <2>4, <2>5 DEF GoOn
<1>8. CASE GiveUp
  BY <1>8 DEF GiveUp
<1>9. CASE DropTimer
  BY <1>9 DEF DropTimer, Cancel_
<1>10. CASE UNCHANGED timerVars
  BY <1>10 DEF timerVars
<1> QED
  BY <1>1, <1>2, <1>3, <1>4, <1>5, <1>6, <1>7, <1>8, <1>9, <1>10 DEF TimerNext

-----------------------------------------------------------------------------
(* Waits. *)

WaitTypeOK ==
  /\ matcher \in {"wait", "done", "error"} /\ notifying \in BOOLEAN
  /\ way \in {"none", "blocking", "async"} /\ timed \in BOOLEAN
  /\ waiter \in {"out", "look", "sleepy", "asleep", "ok", "err", "timeout"}
  /\ sticky \in BOOLEAN /\ seenDone \in BOOLEAN

WaitInv == WaitTypeOK /\ SuccessIsTrue /\ AsyncNeverMisses

LEMMA WaitStart == WaitInit => WaitInv
BY DEF WaitInit, WaitInv, WaitTypeOK, SuccessIsTrue, AsyncNeverMisses

LEMMA WaitStep == WaitInv /\ [WaitNext]_waitVars => WaitInv'
<1> SUFFICES ASSUME WaitInv, [WaitNext]_waitVars PROVE WaitInv'
  OBVIOUS
<1> USE DEF WaitInv, WaitTypeOK, SuccessIsTrue, AsyncNeverMisses
<1>1. ASSUME NEW to \in {"wait", "done", "error"}, Change(to) PROVE WaitInv'
  BY <1>1 DEF Change
<1>2. ASSUME NEW w \in {"blocking", "async"}, NEW t \in BOOLEAN, Start(w, t) PROVE WaitInv'
  BY <1>2 DEF Start
<1>3. CASE Notify
  BY <1>3 DEF Notify
<1>4. CASE Look
  BY <1>4 DEF Look
<1>5. CASE Sleep \/ Wake \/ WaitTimeout
  BY <1>5 DEF Sleep, Wake, WaitTimeout
<1>6. CASE UNCHANGED waitVars
  BY <1>6 DEF waitVars
<1> QED
  BY <1>1, <1>2, <1>3, <1>4, <1>5, <1>6 DEF WaitNext

-----------------------------------------------------------------------------
(* NVS. *)

HeldInv ==
  /\ refs \in Nat /\ HeldIsReady
  /\ leaving => refs = 0 /\ nvsTaken

LEMMA HeldStart == NvsInit => HeldInv
BY DEF NvsInit, HeldInv, HeldIsReady

LEMMA HeldStep == HeldInv /\ [NvsNext]_nvsVars => HeldInv'
<1> SUFFICES ASSUME HeldInv, [NvsNext]_nvsVars PROVE HeldInv'
  OBVIOUS
<1> USE DEF HeldInv, HeldIsReady, partitionVars
<1>1. CASE UNCHANGED partitionVars
  BY <1>1
<1>2. ASSUME NEW op, NEW v, CallSet(op, v) PROVE HeldInv'
  BY <1>2 DEF CallSet
<1>3. CASE EraseKey \/ WriteEntry \/ Commit
  BY <1>3 DEF EraseKey, WriteEntry, Commit
<1>4. CASE PowerFails
  BY <1>4 DEF PowerFails
<1>5. ASSUME NEW t, NEW n, SetInt(t, n) PROVE HeldInv'
  BY <1>5 DEF SetInt
<1>6. CASE TakePartition
  BY <1>6 DEF TakePartition, InitDefault, InitCustom, InitEncrypted, Enlists
<1>7. CASE CloneRef
  <2>1. refs > 0 /\ refs' = refs + 1 /\ UNCHANGED <<nvsKind, nvsTaken, inited, leaving>>
    BY <1>7 DEF CloneRef
  <2> QED
    BY <2>1
<1>8. CASE DropRef
  <2>1. refs > 0 /\ ~leaving /\ refs' = refs - 1 /\ UNCHANGED <<nvsKind, nvsTaken, inited>>
    BY <1>8 DEF DropRef
  <2>2. leaving' <=> refs = 1
    <3>1. leaving' = (refs = 1)
      BY <1>8 DEF DropRef
    <3> QED
      BY <3>1, Zenon
  <2>3. nvsTaken' /\ (inited' \/ nvsKind' = "default")
    BY <2>1
  <2>4. refs' \in Nat /\ (refs = 1 <=> refs' = 0)
    BY <2>1
  <2> QED
    BY <2>2, <2>3, <2>4
<1>9. CASE DropPartition
  <2>1. leaving /\ ~nvsTaken' /\ ~leaving' /\ nvsKind' = nvsKind /\ refs' = refs
    BY <1>9 DEF DropPartition
  <2>2. nvsKind = "default" \/ ~inited'
    <3>1. CASE nvsKind # "default"
      BY <1>9, <3>1 DEF DropPartition
    <3> QED
      BY <3>1
  <2> QED
    BY <2>1, <2>2
<1>10. CASE UNCHANGED nvsVars
  BY <1>10 DEF nvsVars
<1> QED
  BY <1>2, <1>3, <1>4, <1>5, <1>6, <1>7, <1>8, <1>9, <1>10 DEF NvsNext

-----------------------------------------------------------------------------
(* The codec of short byte strings. *)

\* A set that has 0, and with a number below n the next one, has all numbers up to n:
\* induction for a set, by the least number that it has not.
LEMMA UpTo ==
  ASSUME NEW n \in Nat, NEW S, 0 \in S, \A i \in 0..n : i \in S /\ i < n => i + 1 \in S
  PROVE  0..n \subseteq S
<1> SUFFICES ASSUME (0..n) \ S # {} PROVE FALSE
  OBVIOUS
<1> DEFINE Below == {p \in Nat \X Nat : p[1] < p[2]}
<1>1. IsWellFoundedOn(Below, Nat)
  <2>1. Below = OpToRel(<, Nat)
    BY DEF OpToRel
  <2> QED
    BY <2>1, NatLessThanWellFounded
<1>2. PICK x \in (0..n) \ S : \A y \in (0..n) \ S : ~(y < x)
  <2> DEFINE T == (0..n) \ S
  <2>1. T \in SUBSET Nat /\ T # {}
    OBVIOUS
  <2>2. PICK x \in T : \A y \in T : <<y, x>> \notin Below
    <3> HIDE DEF Below, T
    <3> QED
      BY <1>1, <2>1, WFMin
  <2>3. \A y \in T : ~(y < x)
    BY <2>1, <2>2
  <2> QED
    BY <2>3
<1>3. x - 1 \in 0..n /\ x - 1 < n /\ x - 1 < x /\ (x - 1) + 1 = x
  BY <1>2
<1>4. x - 1 \in S
  BY <1>2, <1>3
<1> QED
  BY <1>2, <1>3, <1>4

\* A function that starts at a and goes on by step, n times.
Unrolls(n, T, a, step) ==
  \E f \in [0..n -> T] : f[0] = a /\ \A i \in 1..n : f[i] = step[i][f[i - 1]]

LEMMA Recursion ==
  ASSUME NEW n \in Nat, NEW T, NEW a \in T, NEW step \in [1..n -> [T -> T]]
  PROVE  Unrolls(n, T, a, step)
<1> DEFINE Good(k, f) == f[0] = a /\ \A i \in 1..k : f[i] = step[i][f[i - 1]]
           S == {k \in 0..n : \E f \in [0..n -> T] : Good(k, f)}
<1>1. 0 \in S
  <2>1. [i \in 0..n |-> a] \in [0..n -> T]
    OBVIOUS
  <2>2. Good(0, [i \in 0..n |-> a])
    OBVIOUS
  <2>3. \E f \in [0..n -> T] : Good(0, f)
    <3> DEFINE f == [i \in 0..n |-> a]
    <3>1. f \in [0..n -> T] /\ Good(0, f)
      BY <2>1, <2>2
    <3> HIDE DEF f, Good
    <3> QED
      BY <3>1
  <2> QED
    BY <2>3
<1>2. ASSUME NEW k \in 0..n, k \in S, k < n PROVE k + 1 \in S
  <2>1. PICK f \in [0..n -> T] : Good(k, f)
    BY <1>2
  <2> DEFINE g == [f EXCEPT ![k + 1] = step[k + 1][f[k]]]
  <2>2. k + 1 \in 1..n /\ f[k] \in T
    BY <1>2
  <2>3. g \in [0..n -> T]
    BY <2>2
  <2>4. \A i \in 0..n : g[i] = IF i = k + 1 THEN step[k + 1][f[k]] ELSE f[i]
    OBVIOUS
  <2> HIDE DEF g
  <2>5. g[0] = a
    BY <2>1, <2>4, <1>2
  <2>6. \A i \in 1..k + 1 : g[i] = step[i][g[i - 1]]
    <3> SUFFICES ASSUME NEW i \in 1..k + 1 PROVE g[i] = step[i][g[i - 1]]
      OBVIOUS
    <3>1. i \in 0..n /\ i - 1 \in 0..n /\ i - 1 # k + 1
      BY <1>2
    <3>2. g[i - 1] = f[i - 1]
      BY <2>4, <3>1
    <3>3. CASE i = k + 1
      <4>1. i - 1 = k
        BY <3>3
      <4> QED
        BY <2>4, <3>1, <3>2, <3>3, <4>1
    <3>4. CASE i # k + 1
      <4>1. i \in 1..k
        BY <3>4
      <4> QED
        BY <2>1, <2>4, <3>1, <3>2, <3>4, <4>1
    <3> QED
      BY <3>3, <3>4
  <2>7. Good(k + 1, g)
    BY <2>5, <2>6
  <2> QED
    BY <2>2, <2>3, <2>7
<1>3. n \in S
  <2> HIDE DEF S
  <2>1. 0..n \subseteq S
    BY <1>1, <1>2, UpTo
  <2> QED
    BY <2>1
<1> QED
  BY <1>3 DEF Unrolls

\* The loop of set_raw, step by step.
LEMMA BuiltIs ==
  ASSUME NEW n \in Nat, NEW b \in [1..n -> 0..Base-1], Len(b) = n
  PROVE  /\ Built(b) \in [0..n -> Nat]
         /\ Built(b)[0] = 0
         /\ \A i \in 1..n : Built(b)[i] = (Base * Built(b)[i - 1]) + b[n + 1 - i]
<1> DEFINE Up(i, v) == (Base * v) + b[n + 1 - i]
           step == [i \in 1..n |-> [v \in Nat |-> Up(i, v)]]
           Is(f) == f = [i \in 0..n |-> IF i = 0 THEN 0 ELSE Up(i, f[i - 1])]
<1>1. \A i \in 1..n, v \in Nat : Up(i, v) \in Nat
  BY NvsAssumption
<1>2. Built(b) = CHOOSE f : Is(f)
  BY Zenon DEF Built
<1> HIDE DEF Up
<1>3. step \in [1..n -> [Nat -> Nat]]
  BY <1>1
<1>4. \A i \in 1..n, v \in Nat : step[i][v] = Up(i, v)
  OBVIOUS
<1> HIDE DEF step
<1>5. PICK f \in [0..n -> Nat] : f[0] = 0 /\ \A i \in 1..n : f[i] = step[i][f[i - 1]]
  <2>1. 0 \in Nat
    OBVIOUS
  <2>2. Unrolls(n, Nat, 0, step)
    BY <1>3, <2>1, Recursion, Zenon
  <2> QED
    BY <2>2 DEF Unrolls
<1>6. ASSUME NEW i \in 0..n PROVE f[i] = IF i = 0 THEN 0 ELSE Up(i, f[i - 1])
  <2>1. i # 0 => i \in 1..n /\ f[i - 1] \in Nat
    OBVIOUS
  <2> QED
    BY <1>4, <1>5, <2>1
<1>7. Is(f)
  <2>1. f = [i \in 0..n |-> f[i]]
    OBVIOUS
  <2> QED
    BY <1>6, <2>1, Zenon
<1>8. Is(Built(b))
  BY <1>2, <1>7, Zenon
<1> DEFINE g == Built(b)
<1>9. g = [i \in 0..n |-> IF i = 0 THEN 0 ELSE Up(i, g[i - 1])]
  BY <1>8
<1> HIDE DEF g
<1>10. DOMAIN g = 0..n /\ g[0] = 0 /\ \A i \in 1..n : g[i] = Up(i, g[i - 1])
  BY <1>9
<1> DEFINE S == {i \in 0..n : g[i] \in Nat}
<1>11. 0..n \subseteq S
  <2>1. 0 \in S
    BY <1>10
  <2>2. ASSUME NEW i \in 0..n, i \in S, i < n PROVE i + 1 \in S
    <3>1. i + 1 \in 1..n /\ (i + 1) - 1 = i /\ g[i] \in Nat
      BY <2>2
    <3>2. g[i + 1] = Up(i + 1, g[i])
      BY <1>10, <3>1
    <3>3. Up(i + 1, g[i]) \in Nat
      BY <1>1, <3>1
    <3>4. i + 1 \in 0..n /\ g[i + 1] \in Nat
      BY <3>1, <3>2, <3>3
    <3> QED
      BY <3>4
  <2> HIDE DEF S
  <2> QED
    BY <2>1, <2>2, UpTo
<1>12. g \in [0..n -> Nat]
  <2>1. \A i \in 0..n : g[i] \in Nat
    BY <1>11
  <2> QED
    BY <1>9, <2>1
<1> QED
  BY <1>10, <1>12 DEF g, Up

\* The loop of get_raw, step by step.
LEMMA ShiftedIs ==
  ASSUME NEW u \in Nat
  PROVE  /\ Shifted(u)[0] = u
         /\ \A i \in 1..Width : Shifted(u)[i] = Shifted(u)[i - 1] \div Base
<1> DEFINE Down(v) == v \div Base
           step == [i \in 1..Width |-> [v \in Nat |-> Down(v)]]
           Is(f) == f = [i \in 0..Width |-> IF i = 0 THEN u ELSE Down(f[i - 1])]
<1>1. Width \in Nat /\ \A v \in Nat : Down(v) \in Nat
  BY NvsAssumption
<1>2. Shifted(u) = CHOOSE f : Is(f)
  BY Zenon DEF Shifted
<1> HIDE DEF Down
<1>3. step \in [1..Width -> [Nat -> Nat]]
  BY <1>1
<1>4. \A i \in 1..Width, v \in Nat : step[i][v] = Down(v)
  OBVIOUS
<1> HIDE DEF step
<1>5. PICK f \in [0..Width -> Nat] :
        f[0] = u /\ \A i \in 1..Width : f[i] = step[i][f[i - 1]]
  <2>1. Unrolls(Width, Nat, u, step)
    BY <1>1, <1>3, Recursion, Zenon
  <2> QED
    BY <2>1 DEF Unrolls
<1>6. ASSUME NEW i \in 0..Width PROVE f[i] = IF i = 0 THEN u ELSE Down(f[i - 1])
  <2>1. i # 0 => i \in 1..Width /\ f[i - 1] \in Nat
    BY <1>1
  <2> QED
    BY <1>4, <1>5, <2>1
<1>7. Is(f)
  <2>1. f = [i \in 0..Width |-> f[i]]
    OBVIOUS
  <2> QED
    BY <1>6, <2>1, Zenon
<1>8. Is(Shifted(u))
  BY <1>2, <1>7, Zenon
<1> DEFINE g == Shifted(u)
<1>9. g = [i \in 0..Width |-> IF i = 0 THEN u ELSE Down(g[i - 1])]
  BY <1>8
<1> HIDE DEF g
<1>10. g[0] = u /\ \A i \in 1..Width : g[i] = Down(g[i - 1])
  <2>1. \A i \in 0..Width : g[i] = IF i = 0 THEN u ELSE Down(g[i - 1])
    BY <1>9
  <2>2. 0 \in 0..Width /\ \A i \in 1..Width : i \in 0..Width /\ i # 0
    BY <1>1
  <2> QED
    BY <2>1, <2>2
<1> QED
  BY <1>10 DEF g, Down

\* The last digit of a number, and the others.
LEMMA LastDigit ==
  ASSUME NEW q \in Nat, NEW r \in 0..Base-1
  PROVE  ((Base * q) + r) % Base = r /\ ((Base * q) + r) \div Base = q
<1>1. Base \in Nat /\ Base > 0
  BY NvsAssumption
<1> DEFINE n == (Base * q) + r
           d == n \div Base
           m == n % Base
<1>2. n \in Nat
  BY <1>1
<1>3. d \in Nat /\ m \in 0..Base-1 /\ n = (Base * d) + m
  <2> HIDE DEF n
  <2> QED
    BY <1>1, <1>2
<1>4. (Base * q) + r = (Base * d) + m
  BY <1>3
<1> HIDE DEF n, d, m
<1>5. ~(d < q)
  <2> SUFFICES ASSUME d + 1 <= q PROVE FALSE
    BY <1>3
  <2>1. Base * (d + 1) <= Base * q
    BY <1>1, <1>3
  <2>2. Base * (d + 1) = (Base * d) + Base
    BY <1>1, <1>3
  <2> QED
    BY <1>1, <1>3, <1>4, <2>1, <2>2
<1>6. ~(q < d)
  <2> SUFFICES ASSUME q + 1 <= d PROVE FALSE
    BY <1>3
  <2>1. Base * (q + 1) <= Base * d
    BY <1>1, <1>3
  <2>2. Base * (q + 1) = (Base * q) + Base
    BY <1>1
  <2> QED
    BY <1>1, <1>3, <1>4, <2>1, <2>2
<1>7. d = q /\ m = r
  BY <1>1, <1>3, <1>4, <1>5, <1>6
<1> QED
  BY <1>7 DEF n, d, m

\* A short byte string is what reading its u64 gives back, for every width and
\* every base: each shift of get_raw undoes one of set_raw.
THEOREM CodecIsExact == CodecExact
<1> SUFFICES ASSUME NEW b \in Raws, Len(b) < Width
             PROVE  Encode(b) # NoEntry /\ Decode(Encode(b)) = b
  BY DEF CodecExact
<1>1. /\ Base \in Nat /\ Base > 0 /\ Width \in Nat /\ Width <= Base
      /\ b \in Seq(0..Base-1)
  BY NvsAssumption
<1>2. PICK n \in Nat : n = Len(b)
  BY <1>1
<1>3. n \in 0..Base-1 /\ n < Width
  BY <1>1, <1>2
<1>4. b \in [1..n -> 0..Base-1]
  BY <1>1, <1>2
<1> DEFINE g == Built(b)
           u == Encode(b)
           v == Shifted(u)
<1>5. /\ g \in [0..n -> Nat] /\ g[0] = 0
      /\ \A i \in 1..n : g[i] = (Base * g[i - 1]) + b[n + 1 - i]
  BY <1>2, <1>4, BuiltIs
<1>6. u = (Base * g[n]) + n
  BY <1>2 DEF Encode
<1> HIDE DEF g, u
<1>7. u \in Nat /\ u % Base = n /\ u \div Base = g[n]
  <2>1. PICK q \in Nat : q = g[n]
    BY <1>5
  <2>2. u = (Base * q) + n
    BY <1>6, <2>1
  <2>3. u \in Nat
    BY <1>1, <2>2
  <2>4. u % Base = n /\ u \div Base = q
    BY <1>3, <2>2, LastDigit
  <2> QED
    BY <2>1, <2>3, <2>4
<1>8. v[0] = u /\ \A i \in 1..Width : v[i] = v[i - 1] \div Base
  BY <1>7, ShiftedIs
<1> HIDE DEF v
<1> DEFINE S == {i \in 0..n : v[i + 1] = g[n - i]}
<1>9. 0..n \subseteq S
  <2>1. 0 \in S
    <3>1. 1 \in 1..Width
      BY <1>1, <1>3
    <3>2. v[1] = v[0] \div Base
      BY <1>8, <3>1
    <3> QED
      BY <1>7, <1>8, <3>2
  <2>2. ASSUME NEW i \in 0..n, i \in S, i < n PROVE i + 1 \in S
    <3>1. /\ (i + 1) + 1 \in 1..Width /\ ((i + 1) + 1) - 1 = i + 1
          /\ n - i \in 1..n /\ (n - i) - 1 = n - (i + 1) /\ n - (i + 1) \in 0..n
          /\ n + 1 - (n - i) = i + 1 /\ i + 1 \in 1..n
      BY <1>1, <1>3, <2>2
    <3>2. v[(i + 1) + 1] = v[i + 1] \div Base
      BY <1>8, <3>1
    <3>3. v[i + 1] = g[n - i]
      BY <2>2
    <3>4. g[n - i] = (Base * g[n - (i + 1)]) + b[i + 1]
      BY <1>5, <3>1
    <3>5. g[n - (i + 1)] \in Nat /\ b[i + 1] \in 0..Base-1
      BY <1>4, <1>5, <3>1
    <3>6. g[n - i] \div Base = g[n - (i + 1)]
      BY <3>4, <3>5, LastDigit
    <3>7. v[(i + 1) + 1] = g[n - (i + 1)] /\ i + 1 \in 0..n
      BY <3>1, <3>2, <3>3, <3>6
    <3> QED
      BY <3>7
  <2> HIDE DEF S
  <2> QED
    BY <2>1, <2>2, UpTo
<1>10. ASSUME NEW i \in 1..n PROVE v[i] % Base = b[i]
  <2>1. /\ i - 1 \in 0..n /\ (i - 1) + 1 = i /\ n - (i - 1) \in 1..n
        /\ n + 1 - (n - (i - 1)) = i /\ (n - (i - 1)) - 1 = n - i /\ n - i \in 0..n
    OBVIOUS
  <2>2. v[i] = g[n - (i - 1)]
    <3>1. i - 1 \in S
      BY <1>9, <2>1
    <3> QED
      BY <2>1, <3>1
  <2>3. g[n - (i - 1)] = (Base * g[n - i]) + b[i]
    BY <1>5, <2>1
  <2>4. g[n - i] \in Nat /\ b[i] \in 0..Base-1
    BY <1>4, <1>5, <2>1
  <2> QED
    BY <2>2, <2>3, <2>4, LastDigit
<1>11. Decode(u) = [i \in 1..n |-> v[i] % Base]
  <2>1. ~(u % Base > Width - 1)
    BY <1>1, <1>3, <1>7
  <2>2. Decode(u) = [i \in 1..(u % Base) |-> v[i] % Base]
    BY <2>1 DEF Decode, v
  <2> QED
    BY <1>7, <2>2
<1>12. Decode(u) = [i \in 1..n |-> b[i]]
  BY <1>10, <1>11
<1>13. b = [i \in 1..n |-> b[i]]
  BY <1>4
<1>14. u # NoEntry
  BY <1>7, NvsAssumption
<1> QED
  BY <1>12, <1>13, <1>14 DEF u

-----------------------------------------------------------------------------
(* The key. *)

EntryValues == {NoEntry, 1} \cup Raws \cup {Encode(v) : v \in Raws}
Entries == [Types -> EntryValues]
Setters == {"raw", "blob", "str"}

\* At most one entry.
Lone(e) == \E t \in Types : \A u \in Types \ {t} : e[u] = NoEntry

KeyTypeOK ==
  /\ trail \in Seq(Entries) /\ trail # <<>>
  /\ call \in [op : Setters \cup {"remove", "none"}, v : Raws \cup {<<>>},
               pc : {"idle", "erase", "write", "commit"}]
  /\ call.pc \in {"erase", "write"} => call.op # "none"
  /\ call.pc = "write" => call.op # "remove"
  /\ call.op \in Setters => call.v \in Raws
  /\ typed \in BOOLEAN /\ missed \in BOOLEAN /\ mixed \in BOOLEAN

\* What the flash has held since the last commit, a reader may find; a call has
\* erased what there was when it comes to write, unless ESP-IDF failed, and written
\* when it commits.
KeyInv ==
  /\ \A i \in 1..Len(trail) : Lone(trail[i]) /\ Seen(trail[i]) \in may
  /\ call.pc # "idle" => refs > 0 /\ Seen(Empty) \in may /\ After(call.op, call.v) \in may
  /\ call.pc = "write" => Now = Empty \/ missed
  /\ call.pc = "commit" => Seen(Now) = After(call.op, call.v)

NvsInv == KeyTypeOK /\ refs \in Nat /\ (call.pc # "idle" => refs > 0)
          /\ (~typed /\ ~mixed => KeyInv)

-----------------------------------------------------------------------------
LEMMA EmptyIs == Empty \in Entries /\ Lone(Empty) /\ \A t \in Types : Empty[t] = NoEntry
BY DEF Empty, Entries, EntryValues, Lone, Types

\* Who erases the only entry leaves nothing.
LEMMA Erased ==
  ASSUME NEW e \in Entries, Lone(e), NEW t \in Types, e[t] # NoEntry
  PROVE  [e EXCEPT ![t] = NoEntry] = Empty
BY DEF Lone, Entries, Empty

LEMMA Writes ==
  ASSUME NEW op \in Setters, NEW v \in Raws, NEW e \in Entries
  PROVE  /\ TypeOf(op, v) \in Types /\ EntryOf(op, v) \in EntryValues
         /\ [e EXCEPT ![TypeOf(op, v)] = EntryOf(op, v)] \in Entries
<1>1. TypeOf(op, v) \in Types
  BY DEF TypeOf, Types, Setters
<1>2. EntryOf(op, v) \in EntryValues
  BY DEF EntryOf, EntryValues
<1> QED
  BY <1>1, <1>2 DEF Entries

\* And who writes one beside which there is no other lets the readers find it.
LEMMA Written ==
  ASSUME NEW op \in Setters, NEW v \in Raws, NEW old \in Entries,
         \A t \in Types \ {TypeOf(op, v)} : old[t] = NoEntry
  PROVE  LET e == [old EXCEPT ![TypeOf(op, v)] = EntryOf(op, v)]
         IN  Lone(e) /\ Seen(e) = After(op, v)
<1> DEFINE e == [old EXCEPT ![TypeOf(op, v)] = EntryOf(op, v)]
<1>1. TypeOf(op, v) \in Types
  BY Writes, EmptyIs
<1>2. \A t \in Types : e[t] = IF t = TypeOf(op, v) THEN EntryOf(op, v) ELSE NoEntry
  BY <1>1 DEF Entries
<1> HIDE DEF e
<1>3. Lone(e)
  BY <1>1, <1>2 DEF Lone
<1>4. ASSUME TypeOf(op, v) = "u64" PROVE Seen(e) = After(op, v)
  <2>1. op = "raw" /\ Len(v) < Width
    BY <1>4 DEF TypeOf, Setters
  <2>2. e["u64"] = Encode(v) /\ e["blob"] = NoEntry /\ e["str"] = NoEntry
    BY <1>2, <1>4 DEF EntryOf, Types
  <2>3. GetRaw(e) = v
    BY <2>1, <2>2, CodecIsExact DEF GetRaw, CodecExact
  <2>4. Seen(e) = [raw |-> v, blob |-> NoEntry, str |-> NoEntry]
    BY <2>2, <2>3 DEF Seen
  <2>5. After(op, v) = [raw |-> v, blob |-> NoEntry, str |-> NoEntry]
    <3>1. /\ op # "remove"
          /\ (op = "str" \/ TypeOf(op, v) = "u64") <=> TypeOf(op, v) # "blob"
      BY <1>4, <2>1 DEF Setters
    <3> QED
      BY <1>4, <2>1, <3>1, Zenon DEF After
  <2> QED
    BY <2>4, <2>5
<1>5. ASSUME TypeOf(op, v) = "blob" PROVE Seen(e) = After(op, v)
  <2>1. op # "str"
    BY <1>5 DEF TypeOf
  <2>2. e["u64"] = NoEntry /\ e["blob"] = v /\ e["str"] = NoEntry
    BY <1>2, <1>5 DEF EntryOf, Types
  <2>3. Seen(e) = [raw |-> v, blob |-> v, str |-> NoEntry]
    BY <2>2 DEF Seen, GetRaw
  <2>4. After(op, v) = [raw |-> v, blob |-> v, str |-> NoEntry]
    <3>1. /\ op # "remove"
          /\ (op = "str" \/ TypeOf(op, v) = "u64") <=> TypeOf(op, v) # "blob"
      BY <1>5, <2>1 DEF Setters
    <3> QED
      BY <1>5, <2>1, <3>1, Zenon DEF After
  <2> QED
    BY <2>3, <2>4
<1>6. ASSUME TypeOf(op, v) = "str" PROVE Seen(e) = After(op, v)
  <2>1. op = "str"
    BY <1>6 DEF TypeOf, Setters
  <2>2. e["u64"] = NoEntry /\ e["blob"] = NoEntry /\ e["str"] = v
    BY <1>2, <1>6 DEF EntryOf, Types
  <2>3. Seen(e) = [raw |-> NoEntry, blob |-> NoEntry, str |-> v]
    BY <2>2 DEF Seen, GetRaw
  <2>4. After(op, v) = [raw |-> NoEntry, blob |-> NoEntry, str |-> v]
    <3>1. /\ op # "remove"
          /\ (op = "str" \/ TypeOf(op, v) = "u64") <=> TypeOf(op, v) # "blob"
      BY <1>6, <2>1
    <3> QED
      BY <2>1, <3>1, Zenon DEF After
  <2> QED
    BY <2>3, <2>4
<1>7. TypeOf(op, v) \in {"u64", "blob", "str"}
  BY DEF TypeOf, Setters
<1> QED
  BY <1>3, <1>4, <1>5, <1>6, <1>7 DEF e

LEMMA NvsStart == NvsInit => NvsInv
<1> SUFFICES ASSUME NvsInit PROVE NvsInv
  OBVIOUS
<1>1. trail = <<Empty>> /\ Len(trail) = 1 /\ trail[1] = Empty
  BY DEF NvsInit
<1>2. trail \in Seq(Entries) /\ trail # <<>>
  BY <1>1, EmptyIs
<1>3. call = [op |-> "none", v |-> <<>>, pc |-> "idle"]
  BY DEF NvsInit
<1>a. typed = FALSE /\ missed = FALSE /\ mixed = FALSE
  BY DEF NvsInit
<1>4. KeyTypeOK
  BY <1>2, <1>3, <1>a DEF KeyTypeOK, Setters
<1>5. KeyInv
  BY <1>1, <1>3, EmptyIs DEF KeyInv, NvsInit
<1> QED
  BY <1>3, <1>4, <1>5 DEF NvsInit, NvsInv

\* The end of the trail.
LEMMA TrailEnd ==
  ASSUME KeyTypeOK
  PROVE  Len(trail) \in Nat \ {0} /\ Now = trail[Len(trail)] /\ Now \in Entries
<1>1. Len(trail) \in Nat \ {0}
  BY EmptySeq, LenProperties DEF KeyTypeOK
<1> QED
  BY <1>1, ElementOfSeq DEF KeyTypeOK, Now, Last

\* What a call adds to the trail.
LEMMA TrailGrows ==
  ASSUME KeyTypeOK, NEW e \in Entries, trail' = Append(trail, e)
  PROVE  /\ trail' \in Seq(Entries) /\ trail' # <<>> /\ Now' = e
         /\ \A i \in 1..Len(trail') : trail'[i] = e \/ \E j \in 1..Len(trail) : trail'[i] = trail[j]
<1>1. /\ trail' \in Seq(Entries) /\ Len(trail') = Len(trail) + 1
      /\ \A i \in 1..Len(trail) : trail'[i] = trail[i]
      /\ trail'[Len(trail) + 1] = e
  BY AppendProperties DEF KeyTypeOK
<1>2. Len(trail) \in Nat
  BY TrailEnd
<1>3. trail' # <<>> /\ Now' = e
  BY <1>1, <1>2, EmptySeq DEF Now, Last
<1>4. \A i \in 1..Len(trail') : i \in 1..Len(trail) \/ i = Len(trail) + 1
  BY <1>1, <1>2
<1> QED
  BY <1>1, <1>3, <1>4

\* And what is left of it after a commit or a power failure.
LEMMA TrailIsOne ==
  ASSUME NEW e \in Entries, trail' = <<e>>
  PROVE  /\ trail' \in Seq(Entries) /\ trail' # <<>> /\ Now' = e
         /\ \A i \in 1..Len(trail') : trail'[i] = e
<1>1. trail' \in Seq(Entries) /\ Len(trail') = 1 /\ trail'[1] = e
  OBVIOUS
<1> QED
  BY <1>1 DEF Now, Last

LEMMA CallSetStep ==
  ASSUME NvsInv, NEW op, NEW v, CallSet(op, v),
         (op \in Setters /\ v \in Raws) \/ (op = "remove" /\ v = <<>>)
  PROVE  NvsInv'
<1>1. call' = [op |-> op, v |-> v, pc |-> "erase"] /\ trail' = trail /\ missed' = FALSE
      /\ UNCHANGED <<typed, mixed, refs>>
  BY DEF CallSet, partitionVars
<1>2. may' = may \cup {Seen(Empty), After(op, v)} /\ refs > 0
  BY DEF CallSet, Open
<1>3. KeyTypeOK'
  BY <1>1 DEF NvsInv, KeyTypeOK, Setters
<1>4. ASSUME ~typed, ~mixed PROVE KeyInv'
  <2>1. \A i \in 1..Len(trail') : Lone(trail'[i]) /\ Seen(trail'[i]) \in may'
    BY <1>1, <1>2, <1>4 DEF NvsInv, KeyInv
  <2> QED
    BY <1>1, <1>2, <2>1 DEF KeyInv
<1> QED
  BY <1>1, <1>2, <1>3, <1>4 DEF NvsInv

LEMMA EraseStep == ASSUME NvsInv, EraseKey PROVE NvsInv'
<1>1. /\ call.pc = "erase" /\ UNCHANGED <<sets, typed, mixed, may, partitionVars>>
      /\ missed' \in BOOLEAN /\ call.op \in Setters \cup {"remove"}
  BY DEF EraseKey, NvsInv, KeyTypeOK
<1>2. UNCHANGED refs /\ refs > 0
  BY <1>1 DEF partitionVars, NvsInv
<1>3. ASSUME NEW t \in Types, Now[t] # NoEntry,
             trail' = Append(trail, [Now EXCEPT ![t] = NoEntry]),
             Goes(IF call.op = "remove" THEN "commit" ELSE "write")
      PROVE  NvsInv'
  <2> DEFINE e == [Now EXCEPT ![t] = NoEntry]
  <2>1. e \in Entries
    BY TrailEnd DEF NvsInv, Entries, EntryValues
  <2> HIDE DEF e
  <2>2. trail' = Append(trail, e)
    BY <1>3 DEF e
  <2>3. KeyTypeOK'
    <3>1. trail' \in Seq(Entries) /\ trail' # <<>>
      BY <2>1, <2>2, TrailGrows DEF NvsInv
    <3> QED
      BY <1>1, <1>3, <3>1 DEF Goes, NvsInv, KeyTypeOK, Setters
  <2>4. ASSUME ~typed, ~mixed PROVE KeyInv'
    <3>1. Lone(Now)
      BY <2>4, TrailEnd DEF NvsInv, KeyInv
    <3>2. e = Empty
      BY <1>3, <3>1, TrailEnd, Erased DEF e, NvsInv
    <3>3. \A i \in 1..Len(trail') : Lone(trail'[i]) /\ Seen(trail'[i]) \in may'
      BY <1>1, <2>1, <2>2, <2>4, <3>2, TrailGrows, EmptyIs DEF NvsInv, KeyInv
    <3>4. Now' = Empty
      BY <2>1, <2>2, <3>2, TrailGrows DEF NvsInv
    <3>5. call' = [call EXCEPT !.pc = IF call.op = "remove" THEN "commit" ELSE "write"]
      BY <1>3 DEF Goes
    <3>6. call'.op = call.op /\ call'.v = call.v
      BY <3>5 DEF NvsInv, KeyTypeOK
    <3>7. call'.pc = IF call.op = "remove" THEN "commit" ELSE "write"
      BY <3>5 DEF NvsInv, KeyTypeOK
    <3>8. call.op = "remove" => After(call.op, call.v) = Seen(Empty)
      BY DEF After
    <3> QED
      BY <1>1, <1>2, <2>4, <3>3, <3>4, <3>6, <3>7, <3>8 DEF NvsInv, KeyInv
  <2> QED
    BY <1>1, <1>2, <2>3, <2>4 DEF NvsInv
<1>4. ASSUME Now = Empty \/ missed', UNCHANGED trail,
             Goes(IF call.op = "remove" THEN "idle" ELSE "write")
      PROVE  NvsInv'
  <2>1. KeyTypeOK'
    BY <1>1, <1>4 DEF Goes, NvsInv, KeyTypeOK, Setters
  <2>2. call' = [call EXCEPT !.pc = IF call.op = "remove" THEN "idle" ELSE "write"]
    BY <1>4 DEF Goes
  <2>3. call'.op = call.op /\ call'.v = call.v
    BY <2>2 DEF NvsInv, KeyTypeOK
  <2>4. call'.pc \in {"idle", "write"}
    BY <2>2 DEF NvsInv, KeyTypeOK
  <2>5. Now' = Empty \/ missed'
    BY <1>4 DEF Now
  <2>6. ASSUME ~typed, ~mixed PROVE KeyInv'
    BY <1>1, <1>2, <1>4, <2>3, <2>4, <2>5, <2>6 DEF NvsInv, KeyInv
  <2> QED
    BY <1>1, <1>2, <2>1, <2>6 DEF NvsInv
<1>5. missed' = (Now # Empty) => Now = Empty \/ missed'
  BY Zenon
<1> QED
  BY <1>3, <1>4, <1>5 DEF EraseKey

LEMMA WriteStep == ASSUME NvsInv, WriteEntry PROVE NvsInv'
<1>1. /\ call.pc = "write" /\ UNCHANGED <<sets, typed, missed, may, partitionVars>>
      /\ call.op \in Setters /\ call.v \in Raws
  BY DEF WriteEntry, NvsInv, KeyTypeOK
<1>2. UNCHANGED refs /\ refs > 0
  BY <1>1 DEF partitionVars, NvsInv
<1>3. CASE Goes("idle") /\ UNCHANGED <<trail, mixed>>
  <2>1. KeyTypeOK' /\ call'.pc = "idle"
    BY <1>1, <1>3 DEF Goes, NvsInv, KeyTypeOK
  <2>2. ASSUME ~typed, ~mixed PROVE KeyInv'
    BY <1>1, <1>3, <2>1, <2>2 DEF NvsInv, KeyInv
  <2> QED
    BY <1>1, <1>2, <1>3, <2>1, <2>2 DEF NvsInv
<1>4. ASSUME trail' = Append(trail, [Now EXCEPT ![TypeOf(call.op, call.v)] =
                                                EntryOf(call.op, call.v)]),
             mixed' = (mixed \/ (missed /\ Beside(TypeOf(call.op, call.v)))),
             Goes("commit")
      PROVE  NvsInv'
  <2> DEFINE e == [Now EXCEPT ![TypeOf(call.op, call.v)] = EntryOf(call.op, call.v)]
  <2>1. e \in Entries
    BY <1>1, TrailEnd, Writes DEF NvsInv
  <2>a. mixed' \in BOOLEAN /\ (~mixed' => ~mixed)
        /\ (~mixed' => ~missed \/ ~Beside(TypeOf(call.op, call.v)))
    BY <1>4, Zenon
  <2>2. ASSUME ~typed, ~mixed' PROVE Lone(e) /\ Seen(e) = After(call.op, call.v)
    <3>1. Now = Empty \/ ~Beside(TypeOf(call.op, call.v))
      BY <1>1, <2>2, <2>a DEF NvsInv, KeyInv
    <3>2. \A t \in Types \ {TypeOf(call.op, call.v)} : Now[t] = NoEntry
      BY <3>1, EmptyIs DEF Beside
    <3> QED
      BY <1>1, <3>2, TrailEnd, Written DEF NvsInv
  <2> HIDE DEF e
  <2>3. trail' = Append(trail, e)
    BY <1>4 DEF e
  <2>4. trail' \in Seq(Entries) /\ trail' # <<>> /\ Now' = e
    BY <2>1, <2>3, TrailGrows DEF NvsInv
  <2>5. call' = [call EXCEPT !.pc = "commit"]
    BY <1>4 DEF Goes
  <2>6. call'.op = call.op /\ call'.v = call.v /\ call'.pc = "commit"
    BY <2>5 DEF NvsInv, KeyTypeOK
  <2>7. KeyTypeOK'
    BY <1>1, <2>4, <2>5, <2>a DEF NvsInv, KeyTypeOK
  <2>8. ASSUME ~typed, ~mixed' PROVE KeyInv'
    <3>1. \A i \in 1..Len(trail') : Lone(trail'[i]) /\ Seen(trail'[i]) \in may'
      BY <1>1, <2>1, <2>2, <2>3, <2>8, <2>a, TrailGrows DEF NvsInv, KeyInv
    <3> QED
      BY <1>1, <1>2, <2>2, <2>4, <2>a, <2>6, <2>8, <3>1 DEF NvsInv, KeyInv
  <2> QED
    BY <1>1, <1>2, <2>7, <2>8 DEF NvsInv
<1> QED
  BY <1>3, <1>4 DEF WriteEntry

LEMMA CommitStep == ASSUME NvsInv, Commit PROVE NvsInv'
<1>1. call.pc = "commit" /\ UNCHANGED <<sets, typed, missed, mixed, partitionVars>> /\ Goes("idle")
  BY DEF Commit
<1>2. UNCHANGED refs /\ call'.pc = "idle"
  BY <1>1 DEF partitionVars, Goes, NvsInv, KeyTypeOK
<1>3. CASE trail' = <<Now>> /\ may' = {After(call.op, call.v)}
  <2>1. trail' \in Seq(Entries) /\ trail' # <<>> /\ \A i \in 1..Len(trail') : trail'[i] = Now
    BY <1>3, TrailEnd, TrailIsOne DEF NvsInv
  <2>2. KeyTypeOK'
    BY <1>1, <2>1 DEF Goes, NvsInv, KeyTypeOK
  <2>3. ASSUME ~typed, ~mixed PROVE KeyInv'
    <3>1. Lone(Now) /\ Seen(Now) = After(call.op, call.v)
      BY <1>1, <2>3, TrailEnd DEF NvsInv, KeyInv
    <3> QED
      BY <1>2, <1>3, <2>1, <3>1 DEF KeyInv
  <2> QED
    BY <1>1, <1>2, <2>2, <2>3 DEF NvsInv
<1>4. CASE UNCHANGED <<trail, may>>
  <2>1. KeyTypeOK'
    BY <1>1, <1>4 DEF Goes, NvsInv, KeyTypeOK
  <2>2. ASSUME ~typed, ~mixed PROVE KeyInv'
    BY <1>2, <1>4, <2>2 DEF NvsInv, KeyInv
  <2> QED
    BY <1>1, <1>2, <2>1, <2>2 DEF NvsInv
<1> QED
  BY <1>3, <1>4 DEF Commit

LEMMA IntStep == ASSUME NvsInv, NEW t \in Types, SetInt(t, 1) PROVE NvsInv'
<1>1. /\ trail' = <<[Now EXCEPT ![t] = 1]>> /\ typed' = TRUE /\ UNCHANGED <<call, missed, mixed, refs>>
  BY DEF SetInt, partitionVars
<1>2. [Now EXCEPT ![t] = 1] \in Entries
  BY TrailEnd DEF NvsInv, Entries, EntryValues
<1>3. trail' \in Seq(Entries) /\ trail' # <<>>
  BY <1>1, <1>2, TrailIsOne
<1>4. KeyTypeOK'
  BY <1>1, <1>3 DEF NvsInv, KeyTypeOK
<1> QED
  BY <1>1, <1>4 DEF NvsInv

LEMMA PowerStep == ASSUME NvsInv, PowerFails PROVE NvsInv'
<1>1. PICK i \in DOMAIN trail : trail' = <<trail[i]>>
  BY DEF PowerFails
<1>2. i \in 1..Len(trail) /\ trail[i] \in Entries
  BY <1>1, LenProperties, ElementOfSeq DEF NvsInv, KeyTypeOK
<1>3. /\ trail' \in Seq(Entries) /\ trail' # <<>>
      /\ \A j \in 1..Len(trail') : trail'[j] = trail[i]
  BY <1>1, <1>2, TrailIsOne
<1>4. call' = [call EXCEPT !.pc = "idle"] /\ UNCHANGED <<sets, typed, missed, mixed, may>> /\ refs' = 0
  BY DEF PowerFails, Goes
<1>5. call'.pc = "idle"
  BY <1>4 DEF NvsInv, KeyTypeOK
<1>6. KeyTypeOK'
  BY <1>3, <1>4 DEF NvsInv, KeyTypeOK
<1>7. ASSUME ~typed, ~mixed PROVE KeyInv'
  BY <1>2, <1>3, <1>4, <1>5, <1>7 DEF NvsInv, KeyInv
<1> QED
  BY <1>4, <1>5, <1>6, <1>7 DEF NvsInv

LEMMA TakeStep == ASSUME NvsInv, TakePartition PROVE NvsInv'
<1>1. UNCHANGED call /\ refs = 0 /\ call.pc = "idle" /\ refs' \in {0, 1}
  BY DEF TakePartition, InitDefault, InitCustom, InitEncrypted, Enlists, NvsInv, KeyTypeOK
<1>2. CASE Formatted
  <2>1. /\ trail' \in Seq(Entries) /\ trail' # <<>>
        /\ \A i \in 1..Len(trail') : trail'[i] = Empty
    BY <1>2, EmptyIs, TrailIsOne DEF Formatted
  <2>2. KeyTypeOK'
    BY <1>1, <1>2, <2>1 DEF Formatted, NvsInv, KeyTypeOK
  <2>3. KeyInv'
    BY <1>1, <1>2, <2>1, EmptyIs DEF Formatted, KeyInv
  <2> QED
    BY <1>1, <2>2, <2>3 DEF NvsInv
<1>3. CASE Kept
  <2>1. KeyTypeOK'
    BY <1>1, <1>3 DEF Kept, NvsInv, KeyTypeOK
  <2>2. ASSUME ~typed, ~mixed PROVE KeyInv'
    BY <1>1, <1>3, <2>2 DEF Kept, NvsInv, KeyInv
  <2> QED
    BY <1>1, <1>3, <2>1, <2>2 DEF Kept, NvsInv
<1> QED
  BY <1>2, <1>3 DEF TakePartition, InitDefault, InitCustom, InitEncrypted

LEMMA NvsStep == NvsInv /\ [NvsNext]_nvsVars => NvsInv'
<1> SUFFICES ASSUME NvsInv, [NvsNext]_nvsVars PROVE NvsInv'
  OBVIOUS
<1>1. ASSUME UNCHANGED keyVars, refs' \in Nat, call.pc # "idle" => refs' > 0 PROVE NvsInv'
  <2>1. KeyTypeOK'
    BY <1>1 DEF NvsInv, KeyTypeOK, keyVars
  <2>2. ASSUME ~typed, ~mixed PROVE KeyInv'
    BY <1>1, <2>2 DEF NvsInv, KeyInv, keyVars, Now
  <2> QED
    BY <1>1, <2>1, <2>2 DEF NvsInv, keyVars
<1>2. CASE CloneRef
  BY <1>1, <1>2 DEF CloneRef, NvsInv
<1>3. CASE DropRef
  <2>1. refs' = refs - 1 /\ refs > 0 /\ call.pc = "idle" /\ UNCHANGED keyVars
    BY <1>3 DEF DropRef
  <2> QED
    BY <1>1, <2>1 DEF NvsInv
<1>4. CASE DropPartition \/ UNCHANGED nvsVars
  BY <1>1, <1>4 DEF DropPartition, NvsInv, nvsVars, keyVars
<1>5. "u64" \in Types /\ "u8" \in Types
  BY DEF Types
<1> QED
  BY <1>2, <1>3, <1>4, <1>5, CallSetStep, EraseStep, WriteStep, CommitStep, IntStep, PowerStep,
     TakeStep DEF NvsNext, Setters

LEMMA NvsSays == NvsInv => ReadsWhatWasSet
<1> SUFFICES ASSUME NvsInv, ~typed, ~mixed PROVE Seen(Now) \in may
  BY DEF ReadsWhatWasSet
<1> QED
  BY TrailEnd DEF NvsInv, KeyInv

-----------------------------------------------------------------------------
(* OTA. *)

OtaTypeOK ==
  /\ handles \in Nat /\ handles <= LastHandle
  /\ otaEnded \in [1..LastHandle -> Nat]
  /\ update \in [at : {"none", "open", "finished", "completing", "dropping"},
                 handle : 0..LastHandle, slot : Slots]
  /\ update.at # "none" => update.handle \in 1..handles

\* The handle of an open update is the one that is valid and was never ended;
\* one whose end is over was ended once, or its end has failed.
HandleInv ==
  /\ update.at = "open" => otaEnded[update.handle] = 0
  /\ update.at = "dropping" => update.handle \in failed
  /\ \A h \in 1..LastHandle : h > handles => otaEnded[h] = 0

OtaInv == OtaTypeOK /\ HandleInv /\ HandleEndedOnce

\* The update's record.
LEMMA Updates ==
  /\ NoUpdate.at = "none"
  /\ NoUpdate \in [at : {"none", "open", "finished", "completing", "dropping"},
                   handle : 0..LastHandle, slot : Slots]
<1>1. (CHOOSE s \in Slots : TRUE) \in Slots
  BY OtaAssumption
<1> QED
  BY <1>1, OtaAssumption DEF NoUpdate

LEMMA OtaStart == OtaInit => OtaInv
BY OtaAssumption, Updates DEF OtaInit, OtaInv, OtaTypeOK, HandleInv, HandleEndedOnce

\* esp_ota_end or esp_ota_abort of an update that is open or is dropped.
LEMMA EndStep ==
  ASSUME OtaInv, update.at \in {"open", "dropping"}, Ends(update.handle), handles' = handles,
         failed \subseteq failed',
         update' \in [at : {"none", "open", "finished", "completing", "dropping"},
                     handle : 0..LastHandle, slot : Slots],
         update'.at # "open", update'.at # "none" => update'.handle = update.handle,
         update'.at = "dropping" => update.handle \in failed'
  PROVE  OtaInv'
<1> USE OtaAssumption DEF OtaInv, OtaTypeOK, HandleInv, HandleEndedOnce
<1> DEFINE h == update.handle
<1>a. h \in 1..LastHandle /\ h <= handles
  OBVIOUS
<1>b. opened \subseteq {h}
  OBVIOUS
<1>1. h \in 1..LastHandle /\ h <= handles /\ opened' = {}
  BY <1>a, <1>b DEF Ends
<1>2. /\ otaEnded' \in [1..LastHandle -> Nat] /\ otaEnded'[h] = otaEnded[h] + 1
      /\ \A g \in 1..LastHandle : g # h => otaEnded'[g] = otaEnded[g]
  BY <1>1 DEF Ends
<1>3. h \notin failed' => otaEnded'[h] <= 1
  BY <1>1, <1>2
<1>4. \A g \in DOMAIN otaEnded' \ failed' : otaEnded'[g] <= 1
  BY <1>2, <1>3
<1>5. \A g \in 1..LastHandle : g > handles' => otaEnded'[g] = 0
  BY <1>1, <1>2
<1> QED
  BY <1>1, <1>2, <1>4, <1>5

LEMMA OtaStep == OtaInv /\ [OtaNext]_otaVars => OtaInv'
<1> SUFFICES ASSUME OtaInv, [OtaNext]_otaVars PROVE OtaInv'
  OBVIOUS
<1> USE OtaAssumption DEF OtaInv, OtaTypeOK, HandleInv, HandleEndedOnce, history
<1>1. CASE TakeOta \/ DropOta \/ WriteOta
  <2>1. UNCHANGED <<update, opened, handles, otaEnded, failed>>
    BY <1>1 DEF TakeOta, DropOta, WriteOta
  <2> QED
    BY <2>1
<1>2. ASSUME NEW s \in Slots, InitiateUpdate(s) PROVE OtaInv'
  <2>1. /\ update.at = "none" /\ handles < LastHandle /\ handles' = handles + 1
        /\ opened' = opened \cup {handles'} /\ UNCHANGED <<otaEnded, failed>>
        /\ update' = [at |-> "open", handle |-> handles', slot |-> s]
    BY <1>2 DEF InitiateUpdate
  <2>2. update'.at = "open" /\ update'.handle = handles'
    BY <2>1
  <2>3. handles' \in 1..LastHandle /\ otaEnded[handles'] = 0
    BY <2>1
  <2>4. opened' = {handles'}
    BY <2>1
  <2> QED
    BY <2>1, <2>2, <2>3, <2>4
<1>3. ASSUME NEW s \in Slots, ChooseBoot(s) PROVE OtaInv'
  BY <1>3 DEF ChooseBoot
<1>4. CASE FinishUpdate
  <2>1. update.at = "open" /\ Ends(update.handle) /\ handles' = handles
    BY <1>4 DEF FinishUpdate
  <2>2. \/ update' = [update EXCEPT !.at = "finished"] /\ failed' = failed
        \/ update' = [update EXCEPT !.at = "dropping"] /\ failed' = failed \cup {update.handle}
    BY <1>4 DEF FinishUpdate, At
  <2> QED
    BY <2>1, <2>2, EndStep
<1>5. CASE CompleteEnds
  <2>1. update.at = "open" /\ Ends(update.handle) /\ handles' = handles
    BY <1>5 DEF CompleteEnds
  <2>2. \/ update' = [update EXCEPT !.at = "completing"] /\ failed' = failed
        \/ update' = [update EXCEPT !.at = "dropping"] /\ failed' = failed \cup {update.handle}
    BY <1>5 DEF CompleteEnds, At
  <2> QED
    BY <2>1, <2>2, EndStep
<1>6. CASE Activate
  BY <1>6, Updates DEF Activate
<1>7. CASE CompleteBoots
  BY <1>7, Updates DEF CompleteBoots, At
<1>8. CASE DropUpdate
  BY <1>8, Updates, EndStep DEF DropUpdate
<1>9. CASE Reset_
  BY <1>9, Updates DEF Reset_
<1>10. CASE UNCHANGED otaVars
  BY <1>10 DEF otaVars
<1> QED
  BY <1>1, <1>2, <1>3, <1>4, <1>5, <1>6, <1>7, <1>8, <1>9, <1>10 DEF OtaNext

-----------------------------------------------------------------------------
(* The platform. *)

\* A step of the platform is one of a service, or leaves it alone.
LEMMA PlatformParts ==
  ASSUME [PlatformNext]_platformVars
  PROVE  /\ [LoopNext]_loopVars
         /\ [TimerNext]_timerVars
         /\ [WaitNext]_waitVars
         /\ [WifiNext]_wifiVars
         /\ [ReplyNext]_replyVars
         /\ [HcNext]_hcVars
         /\ [WsNext]_wsVars
         /\ [NvsNext]_nvsVars
         /\ [OtaNext]_otaVars
         /\ [EthNext]_ethVars
         /\ [TlsNext]_tlsVars
         /\ [PingNext]_pingVars
         /\ [BtNext]_btVars
         /\ [NowNext]_nowVars
         /\ [SntpNext]_sntpVars
         /\ [NetifNext]_netifVars
         /\ [MdnsNext]_mdnsVars
<1> USE DEF PlatformNext, Rest, Still, platformVars
<1>1. [LoopNext]_loopVars
  OBVIOUS
<1>2. [TimerNext]_timerVars
  OBVIOUS
<1>3. [WaitNext]_waitVars
  OBVIOUS
<1>4. [WifiNext]_wifiVars
  OBVIOUS
<1>5. [ReplyNext]_replyVars
  OBVIOUS
<1>6. [HcNext]_hcVars
  OBVIOUS
<1>7. [WsNext]_wsVars
  OBVIOUS
<1>8. [NvsNext]_nvsVars
  OBVIOUS
<1>9. [OtaNext]_otaVars
  OBVIOUS
<1>10. [EthNext]_ethVars
  OBVIOUS
<1>11. [TlsNext]_tlsVars
  OBVIOUS
<1>12. [PingNext]_pingVars
  OBVIOUS
<1>13. [BtNext]_btVars
  OBVIOUS
<1>14. [NowNext]_nowVars
  OBVIOUS
<1>15. [SntpNext]_sntpVars
  OBVIOUS
<1>16. [NetifNext]_netifVars
  OBVIOUS
<1>17. [MdnsNext]_mdnsVars
  OBVIOUS
<1> QED
  BY <1>1, <1>2, <1>3, <1>4, <1>5, <1>6, <1>7, <1>8, <1>9, <1>10, <1>11, <1>12, <1>13, <1>14, <1>15, <1>16, <1>17

LEMMA PlatformStarts ==
  ASSUME PlatformInit
  PROVE  /\ LoopInit
         /\ TimerInit
         /\ WaitInit
         /\ WifiInit
         /\ ReplyInit
         /\ HcInit
         /\ WsInit
         /\ NvsInit
         /\ OtaInit
         /\ EthInit
         /\ TlsInit
         /\ PingInit
         /\ BtInit
         /\ NowInit
         /\ SntpInit
         /\ NetifInit
         /\ MdnsInit
BY DEF PlatformInit

\* An after() or a tick() never comes early, for any durations and however long the
\* timer is used, unless a callback of its earlier life was under way when it was reset.
THEOREM TimersKeepTime == PlatformSpec => []NeverEarly
<1>1. PlatformInit => TimerInv
  BY PlatformStarts, TimerStart
<1>2. TimerInv /\ [PlatformNext]_platformVars => TimerInv'
  BY PlatformParts, TimerStep
<1>3. TimerInv => NeverEarly
  BY DEF TimerInv
<1> QED
  BY <1>1, <1>2, <1>3, PTL DEF PlatformSpec

\* The asynchronous waiter of wifi.rs, eth.rs and others never sleeps through the
\* change it waits for, however often the condition comes and goes.
THEOREM WaitersMissNothing == PlatformSpec => []AsyncNeverMisses
<1>1. PlatformInit => WaitInv
  BY PlatformStarts, WaitStart
<1>2. WaitInv /\ [PlatformNext]_platformVars => WaitInv'
  BY PlatformParts, WaitStep
<1>3. WaitInv => AsyncNeverMisses
  BY DEF WaitInv
<1> QED
  BY <1>1, <1>2, <1>3, PTL DEF PlatformSpec

\* What a call that returned says is so: a wait's success, what an operation of the
\* Wi-Fi driver has done, however many events of the radio are in flight, the summary
\* of ping() and the headers of an HTTP answer.
THEOREM AnswersHold == PlatformSpec => []AnswersAreTrue
<1> DEFINE Inv == WaitInv /\ WifiInv /\ PingInv /\ HcInv
<1>1. PlatformInit => Inv
  BY PlatformStarts, WaitStart, WifiStart, PingStart, HcStart
<1>2. Inv /\ [PlatformNext]_platformVars => Inv'
  BY PlatformParts, WaitStep, WifiStep, PingStep, HcStep
<1>3. Inv => AnswersAreTrue
  BY WifiSays DEF AnswersAreTrue, WaitInv, PingInv, HcInv
<1> QED
  BY <1>1, <1>2, <1>3, PTL DEF PlatformSpec

\* Between calls the readers of a key find what was last set, or, after a call that
\* failed or was interrupted, the value before or nothing, for any byte strings,
\* whatever was stored under the key before and wherever power or a call of ESP-IDF
\* failed; until an integer is set under it, or a value of one type is written
\* beside one of another that nvs_erase_key failed to erase.
THEOREM StoredIsRead == PlatformSpec => []ReadsWhatWasSet
<1>1. PlatformInit => NvsInv
  BY PlatformStarts, NvsStart
<1>2. NvsInv /\ [PlatformNext]_platformVars => NvsInv'
  BY PlatformParts, NvsStep
<1>3. NvsInv => ReadsWhatWasSet
  BY NvsSays
<1> QED
  BY <1>1, <1>2, <1>3, PTL DEF PlatformSpec

\* An update's handle is ended exactly once and none is left open, for any slots and
\* any number of updates.
THEOREM UpdatesEnd == PlatformSpec => []HandleEndedOnce
<1>1. PlatformInit => OtaInv
  BY PlatformStarts, OtaStart
<1>2. OtaInv /\ [PlatformNext]_platformVars => OtaInv'
  BY PlatformParts, OtaStep
<1>3. OtaInv => HandleEndedOnce
  BY DEF OtaInv
<1> QED
  BY <1>1, <1>2, <1>3, PTL DEF PlatformSpec

\* The reader of a WebSocket connection gets every frame exactly once and in order.
THEOREM FramesComeOnce == PlatformSpec => []EachFrameOnce
<1>1. PlatformInit => WsInv
  BY PlatformStarts, WsStart
<1>2. WsInv /\ [PlatformNext]_platformVars => WsInv'
  BY PlatformParts, WsStep
<1>3. WsInv => EachFrameOnce
  BY DEF WsInv
<1> QED
  BY <1>1, <1>2, <1>3, PTL DEF PlatformSpec

\* The body of a request is as its headers promise, whatever is written and through
\* any number of requests and redirects of a connection.
THEOREM BodiesAreWhole == PlatformSpec => []BodyAsPromised
<1>1. PlatformInit => HcInv
  BY PlatformStarts, HcStart
<1>2. HcInv /\ [PlatformNext]_platformVars => HcInv'
  BY PlatformParts, HcStep
<1>3. HcInv => BodyAsPromised
  BY DEF HcInv
<1> QED
  BY <1>1, <1>2, <1>3, PTL DEF PlatformSpec

\* A request that its handler answers without error has exactly one whole response,
\* for any number of requests.
THEOREM RequestsAreAnswered == PlatformSpec => []RepliedOnce
<1>1. PlatformInit => ReplyInv
  BY PlatformStarts, ReplyStart
<1>2. ReplyInv /\ [PlatformNext]_platformVars => ReplyInv'
  BY PlatformParts, ReplyStep
<1>3. ReplyInv => RepliedOnce
  BY DEF ReplyInv
<1> QED
  BY <1>1, <1>2, <1>3, PTL DEF PlatformSpec

\* The Ethernet driver has no pointer to a callback or a glue that is gone, for any
\* number of callbacks and interfaces.
THEOREM EthHoldsNothingFreed == PlatformSpec => []EthPointsAlive
<1>1. PlatformInit => EthInv
  BY PlatformStarts, EthStart
<1>2. EthInv /\ [PlatformNext]_platformVars => EthInv'
  BY PlatformParts, EthStep
<1>3. EthInv => EthPointsAlive
  BY DEF EthInv
<1> QED
  BY <1>1, <1>2, <1>3, PTL DEF PlatformSpec

\* A Bluetooth service that is ready has the callback of its profile, for every
\* profile but ble_gap and any number of services.
THEOREM CallbacksAreOwn == PlatformSpec => []CallbackIsOwn
<1>1. PlatformInit => BtInv
  BY PlatformStarts, BtStart
<1>2. BtInv /\ [PlatformNext]_platformVars => BtInv'
  BY PlatformParts, BtStep
<1>3. BtInv => CallbackIsOwn
  BY DEF BtInv
<1> QED
  BY <1>1, <1>2, <1>3, PTL DEF PlatformSpec

\* What several owners share lives as long as one of them and goes with the last,
\* for any number of owners: the conjunction of the invariants of eight services.
THEOREM OwnersShare == PlatformSpec => []ResourcesOwned
<1> DEFINE Inv == /\ LoopInv /\ TimerInv /\ HeldInv /\ TlsInv
                  /\ NowInv /\ SntpInv /\ NetifInv /\ MdnsInv
<1>1. PlatformInit => Inv
  BY PlatformStarts, LoopStart, TimerStart, HeldStart, TlsStart, NowStart, SntpStart,
     NetifStart, MdnsStart
<1>2. Inv /\ [PlatformNext]_platformVars => Inv'
  BY PlatformParts, LoopStep, TimerStep, HeldStep, TlsStep, NowStep, SntpStep, NetifStep,
     MdnsStep
<1>3. Inv => ResourcesOwned
  <2>1. LoopInv => LoopOutlivesUsers
    BY DEF LoopInv, LoopTypeOK, StrongInv, FreedInv, LoopOutlivesUsers
  <2>2. TimerInv => DroppedIsSilent
    BY DEF TimerInv, Unarmed, DroppedIsSilent
  <2> QED
    BY <2>1, <2>2 DEF ResourcesOwned, HeldInv, TlsInv, NowInv, SntpInv, NetifInv, MdnsInv
<1> QED
  BY <1>1, <1>2, <1>3, PTL DEF PlatformSpec
================================================================================
