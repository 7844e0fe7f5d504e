----------------------------- MODULE TuggerClock -----------------------------
(***************************************************************************)
(* TuggerStore with a clock that the code does not have: how long each     *)
(* order has really been queued, whatever millis() says.                   *)
(***************************************************************************)
EXTENDS TuggerStore

VARIABLE age   \* the real age of the order in each slot, at most MaxAge

\* A pass must be short enough for the scan to see an order become late before
\* the difference of two readings of millis() wraps.
ASSUME TuggerClockAssumption ==
  \A d \in PassTimes : Timeout + d < ClockMod

MaxAge == Timeout + 1
Older(a, d) == IF a + d > MaxAge THEN MaxAge ELSE a + d

AgeInit == Init /\ age = [s \in Slots |-> 0]

\* A pass takes time; a new order is of age 0; nothing else changes an age.
AgeStep ==
  \/ \E d \in PassTimes : /\ BeginPass(d)
                          /\ age' = [s \in Slots |-> Older(age[s], d)]
  \/ \E id \in Ids, z \in 1 .. LastZone :
        /\ Receive(id, z)
        /\ age' = IF pc' = "saveAdd" THEN [age EXCEPT ![tail] = 0] ELSE age
  \/ /\ \/ Boot \/ Save \/ NoPacket \/ Expire \/ PassOver \/ EndScan
        \/ Serve \/ NoServe
        \/ \E id \in Ids, z \in 1 .. LastZone : Refuse(id, z)
     /\ UNCHANGED age

AgeRestart == Restart /\ UNCHANGED age

\* One boot, and any number of boots.
OneBootSpec == AgeInit /\ [][AgeStep]_<<vars, age>>
AgeSpec     == AgeInit /\ [][AgeStep \/ AgeRestart]_<<vars, age>>

\* After each scan the orders marked late are exactly those that have been
\* queued for more than the timeout, also when millis() has wrapped.
LateExactly ==
  pc = "button" =>
    \A s \in Slots :
      fifo[s].active => (fifo[s].timedOut <=> age[s] > Timeout)

\* No order is marked late before its time.
NeverLateEarly ==
  \A s \in Slots : fifo[s].active /\ fifo[s].timedOut => age[s] > Timeout
=============================================================================
