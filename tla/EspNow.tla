-------------------------------- MODULE EspNow --------------------------------
(***************************************************************************)
(* espnow.rs of the vendored esp-idf-svc: EspNow, of which there is one at *)
(* a time (TAKEN), and the two callbacks that it keeps in statics.  The    *)
(* Wi-Fi task (external) calls them.                                       *)
(***************************************************************************)
EXTENDS Integers

CONSTANT NowTakers   \* the threads that want the service, positive numbers

ASSUME NowAssumption == NowTakers \subseteq Nat \ {0}

VARIABLES nowTaken,   \* TAKEN
          nowLock,    \* the thread that holds TAKEN's lock in a drop, or 0
          nowAt,      \* each thread: "out", "held", or the rest of an operation
          nowReg,     \* which callbacks the Wi-Fi task calls
          nowCb,      \* RECV_CALLBACK and SEND_CALLBACK: whose closure, or 0
          nowTask,    \* the callback that the Wi-Fi task has entered, or "none"
          nowPanic    \* a callback found no closure, or the drop was refused

nowVars == <<nowTaken, nowLock, nowAt, nowReg, nowCb, nowTask, nowPanic>>

Kinds == {"recv", "send"}

\* What is left to do of an operation on one of them.
RegisterOf == [recv |-> "register_recv", send |-> "register_send"]
ClearOf    == [recv |-> "clear_recv", send |-> "clear_send"]
DropOf     == [recv |-> "drop_recv", send |-> "drop_send"]

NowInit ==
  /\ nowTaken = FALSE /\ nowLock = 0 /\ nowAt = [t \in NowTakers |-> "out"]
  /\ nowReg = [k \in Kinds |-> FALSE] /\ nowCb = [k \in Kinds |-> 0]
  /\ nowTask = "none" /\ nowPanic = FALSE

NowGoes(t, where) == nowAt' = [nowAt EXCEPT ![t] = where]

\* internal_take, if ESP-IDF agrees to both of its calls.
TakeNow(t) ==
  /\ nowAt[t] = "out" /\ nowLock = 0 /\ ~nowTaken
  /\ nowTaken' = TRUE /\ NowGoes(t, "held")
  /\ UNCHANGED <<nowLock, nowReg, nowCb, nowTask, nowPanic>>

\* register_recv_cb and register_send_cb: the closure, in the place of an earlier
\* one, and then ESP-IDF, which may refuse.
StoreNow(t, k) ==
  /\ nowAt[t] = "held" /\ NowGoes(t, RegisterOf[k])
  /\ nowCb' = [nowCb EXCEPT ![k] = t]
  /\ UNCHANGED <<nowTaken, nowLock, nowReg, nowTask, nowPanic>>

RegisterNow(t, k) ==
  /\ nowAt[t] = RegisterOf[k] /\ NowGoes(t, "held")
  /\ nowReg' \in {nowReg, [nowReg EXCEPT ![k] = TRUE]}
  /\ UNCHANGED <<nowTaken, nowLock, nowCb, nowTask, nowPanic>>

\* Mutant: the closure goes first.
UnregisterNowLast(t, k) ==
  /\ nowAt[t] = "held" /\ NowGoes(t, ClearOf[k])
  /\ nowCb' = [nowCb EXCEPT ![k] = 0]
  /\ UNCHANGED <<nowTaken, nowLock, nowReg, nowTask, nowPanic>>

\* unregister_recv_cb and unregister_send_cb: the other way around.
UnregisterNow(t, k) ==
  /\ nowAt[t] = "held" /\ nowReg[k] /\ NowGoes(t, ClearOf[k])
  /\ nowReg' = [nowReg EXCEPT ![k] = FALSE]
  /\ UNCHANGED <<nowTaken, nowLock, nowCb, nowTask, nowPanic>>

ClearNow(t, k) ==
  /\ nowAt[t] = ClearOf[k] /\ NowGoes(t, "held")
  /\ nowCb' = [nowCb EXCEPT ![k] = 0]
  /\ UNCHANGED <<nowTaken, nowLock, nowReg, nowTask, nowPanic>>

\* The drop: under TAKEN's lock esp_now_deinit, or a panic, ...
DropNow(t) ==
  /\ nowAt[t] = "held" /\ nowLock = 0 /\ nowLock' = t
  /\ \/ NowGoes(t, DropOf["send"]) /\ nowReg' = [k \in Kinds |-> FALSE] /\ UNCHANGED nowPanic
     \/ nowPanic' = TRUE /\ UNCHANGED <<nowAt, nowReg>>
  /\ UNCHANGED <<nowTaken, nowCb, nowTask>>

\* ... and then the closures.
DropClosure(t, k) ==
  /\ nowAt[t] = DropOf[k] /\ nowCb' = [nowCb EXCEPT ![k] = 0]
  /\ IF k = "send" THEN NowGoes(t, DropOf["recv"]) /\ UNCHANGED <<nowTaken, nowLock>>
                   ELSE NowGoes(t, "out") /\ nowTaken' = FALSE /\ nowLock' = 0
  /\ UNCHANGED <<nowReg, nowTask, nowPanic>>

\* The Wi-Fi task: it calls what is registered, and that locks the static only
\* then; in between the closure may go, and the callback panics.
NowArrives(k) ==
  /\ nowTask = "none" /\ nowReg[k] /\ nowTask' = k
  /\ UNCHANGED <<nowTaken, nowLock, nowAt, nowReg, nowCb, nowPanic>>
NowCallback(k) ==
  /\ nowTask = k /\ nowTask' = "none" /\ nowPanic' = (nowPanic \/ nowCb[k] = 0)
  /\ UNCHANGED <<nowTaken, nowLock, nowAt, nowReg, nowCb>>

NowNext ==
  /\ ~nowPanic
  /\ \/ \E t \in NowTakers : TakeNow(t) \/ DropNow(t)
     \/ \E t \in NowTakers, k \in Kinds :
          \/ StoreNow(t, k) \/ RegisterNow(t, k) \/ UnregisterNow(t, k) \/ ClearNow(t, k)
          \/ DropClosure(t, k)
     \/ \E k \in Kinds : NowArrives(k) \/ NowCallback(k)

-----------------------------------------------------------------------------
\* What ESP-IDF is registered to call has a closure at every step of register,
\* unregister and drop, and the closure is one of the thread that has the service:
\* the thread that takes it next does not inherit or lose one.
NowClosures ==
  \A k \in Kinds :
    /\ nowReg[k] => nowCb[k] # 0
    /\ nowCb[k] # 0 => nowAt[nowCb[k]] # "out"
=============================================================================
