----------------------------- MODULE ClockProofs -----------------------------
(***************************************************************************)
(* The timeout scan marks exactly the orders that are really late, for     *)
(* every clock that wraps, in one boot.                                    *)
(***************************************************************************)
EXTENDS TuggerClock, TuggerStoreProofs

\* What the scan computes of slot s, and whether the scan of the present pass
\* has yet to look at it.
Elapsed(s) == (clock - fifo[s].created) % ClockMod
Unscanned(s) ==
  \/ pc \in {"rx", "saveAdd"}
  \/ pc = "scan" /\ Dist(s) >= scan
  \/ pc = "saveScan" /\ Dist(s) > scan

\* A marked order is late.  One that is not marked is in time and its age is
\* what the scan computes, or the scan of this pass will find it late.
AgeInv ==
  \A s \in Slots : pc # "load" /\ fifo[s].active =>
    IF fifo[s].timedOut THEN age[s] = MaxAge
    ELSE \/ age[s] <= Timeout /\ Elapsed(s) = age[s]
         \/ Unscanned(s) /\ age[s] = MaxAge /\ Elapsed(s) > Timeout

AgeType  == age \in [Slots -> 0 .. MaxAge]
AtRest   == pc \in {"load", "hung", "zone"} => count = 0
ScanRest == pc \notin {"scan", "saveScan"} => scan = 0

ClockInv == /\ TypeInv /\ SyncInv /\ RingWindow
            /\ AgeType /\ AtRest /\ ScanRest /\ AgeInv

-----------------------------------------------------------------------------
\* A clock that counts modulo M still measures what is shorter than M.
LEMMA WrappedDifference ==
  ASSUME NEW M \in Nat \ {0}, NEW c \in 0 .. M - 1, NEW t \in 0 .. M - 1, NEW d \in Nat,
         ((c - t) % M) + d < M
  PROVE  (((c + d) % M) - t) % M = ((c - t) % M) + d
<1>1. (c - t) % M = IF c >= t THEN c - t ELSE c - t + M
  OBVIOUS
<1>2. d < M
  BY <1>1
<1>3. (c + d) % M = IF c + d < M THEN c + d ELSE c + d - M
  BY <1>2
<1>4. \A x \in 0 .. M - 1 : (x - t) % M = IF x >= t THEN x - t ELSE x - t + M
  OBVIOUS
<1>5. (c + d) % M \in 0 .. M - 1
  OBVIOUS
<1> QED
  BY <1>1, <1>2, <1>3, <1>4, <1>5

\* Every step is a step of setup() or of loop(): power does not fail.
LEMMA StepKinds ==
  ASSUME [AgeStep]_<<vars, age>>
  PROVE  [Boot \/ Loop]_vars /\ [Next]_vars
<1>1. AgeStep => Boot \/ Loop
  BY DEF AgeStep, Loop
<1> QED
  BY <1>1 DEF Next

\* A step that changes neither the orders nor their ages nor the clock, and
\* does not take the scan past an order.
LEMMA AgesStay ==
  ASSUME AgeInv, pc # "load", UNCHANGED <<fifo, clock, age>>,
         \A s \in Slots : fifo[s].active /\ Unscanned(s) => Unscanned(s)'
  PROVE  AgeInv'
BY DEF AgeInv, Elapsed

\* The distance of a slot from the head is a natural number, and the slot the
\* scan looks at is the one at the distance scan.
LEMMA ScanLooksAt ==
  ASSUME TypeInv, scan < MaxOrders
  PROVE  /\ At(scan) \in Slots
         /\ \A s \in Slots : Dist(s) = scan <=> s = At(scan)
<1>1. head \in Slots /\ scan \in 0 .. MaxOrders
  BY DEF TypeInv, TypeOK
<1>2. At(scan) \in Slots
  <2>1. head \in Slots /\ scan \in Nat
    BY <1>1
  <2>2. head \in Nat
    BY <2>1 DEF Slots
  <2> QED
    BY <2>1, <2>2, SlotArithmetic DEF At
<1>3. ASSUME NEW s \in Slots PROVE Dist(s) = scan <=> s = At(scan)
  BY <1>1, RingArithmetic DEF At, Dist
<1> QED
  BY <1>2, <1>3

LEMMA DistType == ASSUME TypeInv, NEW s \in Slots PROVE Dist(s) \in 0 .. MaxOrders - 1
<1>1. head \in Slots /\ 0 \in 0 .. MaxOrders
  BY TuggerStoreAssumption DEF TypeInv, TypeOK
<1> QED
  BY <1>1, RingArithmetic DEF Dist

LEMMA ClockInit == AgeInit => ClockInv
<1> SUFFICES ASSUME AgeInit PROVE ClockInv
  OBVIOUS
<1>1. TypeInv /\ SyncInv /\ RingWindow
  BY TypeInit, SyncInit, RingInit DEF AgeInit
<1>2. AgeType
  BY TuggerStoreAssumption DEF AgeInit, AgeType, MaxAge
<1> QED
  BY <1>1, <1>2 DEF ClockInv, AgeInit, Init, AtRest, ScanRest, AgeInv

\* The parts of ClockInv that are not about the scan's comparison.
LEMMA RestStep ==
  ASSUME ClockInv, [AgeStep]_<<vars, age>>
  PROVE  TypeInv' /\ SyncInv' /\ RingWindow' /\ AgeType' /\ AtRest' /\ ScanRest'
<1>1. TypeInv' /\ SyncInv' /\ RingWindow'
  BY StepKinds, TypeStep, SyncStep, RingRuns DEF ClockInv
<1>2. AgeType'
  <2>1. ASSUME NEW d \in PassTimes, age' = [s \in Slots |-> Older(age[s], d)]
        PROVE  AgeType'
    <3>1. \A s \in Slots : Older(age[s], d) \in 0 .. MaxAge
      BY TuggerStoreAssumption DEF ClockInv, AgeType, Older, MaxAge
    <3> QED
      BY <2>1, <3>1 DEF AgeType
  <2>2. CASE age' = [age EXCEPT ![tail] = 0]
    <3>1. 0 \in 0 .. MaxAge /\ age \in [Slots -> 0 .. MaxAge]
      BY TuggerStoreAssumption DEF ClockInv, AgeType, MaxAge
    <3> QED
      BY <2>2, <3>1 DEF AgeType
  <2>3. CASE UNCHANGED age
    BY <2>3 DEF ClockInv, AgeType
  <2> QED
    BY <2>1, <2>2, <2>3 DEF AgeStep
<1>3. AtRest' /\ ScanRest'
  <2> USE DEF ClockInv, AtRest, ScanRest
  <2>1. CASE Boot
    BY <2>1 DEF Boot, LoadSlot, EndLoad, NextZone, LockZone, ram
  <2>2. CASE Save
    BY <2>2 DEF Save, SaveStep, EndSaveAdd, EndSaveScan, EndSaveClear, Saving, ram
  <2>3. CASE Expire \/ PassOver \/ EndScan
    BY <2>3 DEF Expire, PassOver, EndScan, ram
  <2>4. CASE Serve \/ NoServe \/ NoPacket
    BY <2>4 DEF Serve, NoServe, NoPacket, ram
  <2>5. ASSUME NEW d \in PassTimes, BeginPass(d) PROVE AtRest' /\ ScanRest'
    BY <2>5 DEF BeginPass, ram
  <2>6. ASSUME NEW id \in Ids, NEW z \in 1 .. LastZone, Receive(id, z) \/ Refuse(id, z)
        PROVE  AtRest' /\ ScanRest'
    BY <2>6 DEF Receive, Refuse, ram
  <2>7. CASE UNCHANGED vars
    BY <2>7 DEF vars, ram
  <2> QED
    BY <2>1, <2>2, <2>3, <2>4, <2>5, <2>6, <2>7 DEF AgeStep
<1> QED
  BY <1>1, <1>2, <1>3

\* Before the ring has been loaded and the zone chosen nothing is queued.
LEMMA NothingQueued ==
  ASSUME ClockInv, pc \in {"load", "hung", "zone"}, NEW s \in Slots
  PROVE  ~fifo[s].active
<1>1. ~Stored(s).active
  BY DistType DEF ClockInv, AtRest, RingWindow
<1> QED
  BY <1>1 DEF ClockInv, SyncInv, LoadInv, Stored, Blank

\* A pass ages every order by what it takes; one that is in time is still in
\* time, or is found late by the next scan.
LEMMA PassAges ==
  ASSUME ClockInv, NEW d \in PassTimes, BeginPass(d),
         age' = [s \in Slots |-> Older(age[s], d)]
  PROVE  AgeInv'
<1> SUFFICES ASSUME NEW s \in Slots, fifo'[s].active
             PROVE  IF fifo'[s].timedOut THEN age'[s] = MaxAge
                    ELSE \/ age'[s] <= Timeout /\ Elapsed(s)' = age'[s]
                         \/ Unscanned(s)' /\ age'[s] = MaxAge /\ Elapsed(s)' > Timeout
  BY DEF AgeInv
<1>1. /\ fifo' = fifo /\ pc = "loop" /\ pc' = "rx"
      /\ clock' = (clock + d) % ClockMod /\ age'[s] = Older(age[s], d)
      /\ age[s] \in 0 .. MaxAge /\ d \in Nat /\ Timeout \in Nat
  BY TuggerStoreAssumption DEF BeginPass, ram, ClockInv, AgeType
<1>2. CASE fifo[s].timedOut
  <2>1. age[s] = MaxAge
    BY <1>1, <1>2 DEF ClockInv, AgeInv
  <2> QED
    BY <1>1, <1>2, <2>1 DEF Older, MaxAge
<1>3. CASE ~fifo[s].timedOut
  <2>1. age[s] <= Timeout /\ Elapsed(s) = age[s]
    BY <1>1, <1>3 DEF ClockInv, AgeInv, Unscanned
  <2>2. Elapsed(s)' = age[s] + d
    <3>1. clock \in 0 .. ClockMod - 1 /\ fifo[s].created \in 0 .. ClockMod - 1
      BY DEF ClockInv, TypeInv, TypeOK, Orders, Times
    <3>2. age[s] + d < ClockMod
      BY <1>1, <2>1, TuggerClockAssumption, TuggerStoreAssumption
    <3>3. ((clock - fifo[s].created) % ClockMod) + d < ClockMod
      BY <2>1, <3>2 DEF Elapsed
    <3>4. (((clock + d) % ClockMod) - fifo[s].created) % ClockMod
            = ((clock - fifo[s].created) % ClockMod) + d
      <4> DEFINE t == fifo[s].created
      <4> HIDE DEF t
      <4> QED
        BY <1>1, <3>1, <3>3, WrappedDifference, TuggerStoreAssumption DEF t
    <3> QED
      BY <1>1, <2>1, <3>4 DEF Elapsed
  <2> QED
    BY <1>1, <1>3, <2>1, <2>2 DEF Older, MaxAge, Unscanned
<1> QED
  BY <1>2, <1>3

\* A new order is of age 0 and created now.
LEMMA NewIsYoung ==
  ASSUME ClockInv, NEW id \in Ids, NEW z \in 1 .. LastZone, Receive(id, z),
         age' = IF pc' = "saveAdd" THEN [age EXCEPT ![tail] = 0] ELSE age
  PROVE  AgeInv'
<1>1. CASE Exists(table, IdAt(fifo), id)
  <2>1. /\ pc = "rx" /\ pc' = "scan" /\ scan = 0
        /\ UNCHANGED <<fifo, clock, age, head, scan>>
    BY <1>1 DEF Receive, ClockInv, ScanRest
  <2>2. \A s \in Slots : Unscanned(s)'
    BY <2>1, DistType DEF Unscanned, Dist, ClockInv
  <2> QED
    BY <2>1, <2>2, AgesStay DEF ClockInv
<1>2. CASE ~Exists(table, IdAt(fifo), id)
  <2> DEFINE order == [id |-> id, created |-> clock, timedOut |-> FALSE, active |-> TRUE]
  <2>1. /\ pc = "rx" /\ pc' = "saveAdd" /\ clock' = clock /\ tail \in Slots
        /\ fifo' = [fifo EXCEPT ![tail] = order] /\ age' = [age EXCEPT ![tail] = 0]
    BY <1>2 DEF Receive, ClockInv, TypeInv, TypeOK
  <2>2. ASSUME NEW s \in Slots, fifo'[s].active, s # tail
        PROVE  IF fifo'[s].timedOut THEN age'[s] = MaxAge
               ELSE \/ age'[s] <= Timeout /\ Elapsed(s)' = age'[s]
                    \/ Unscanned(s)' /\ age'[s] = MaxAge /\ Elapsed(s)' > Timeout
    <3>1. fifo'[s] = fifo[s] /\ age'[s] = age[s]
      BY <2>1, <2>2 DEF ClockInv, AgeType, TypeInv, TypeOK
    <3>2. Elapsed(s)' = Elapsed(s) /\ Unscanned(s)'
      BY <2>1, <3>1 DEF Elapsed, Unscanned
    <3> QED
      BY <2>1, <2>2, <3>1, <3>2 DEF ClockInv, AgeInv
  <2>3. ASSUME NEW s \in Slots, s = tail
        PROVE  ~fifo'[s].timedOut /\ age'[s] <= Timeout /\ Elapsed(s)' = age'[s]
    <3>1. fifo'[s] = order /\ age'[s] = 0
      BY <2>1, <2>3 DEF ClockInv, AgeType, TypeInv, TypeOK
    <3>2. (clock - clock) % ClockMod = 0
      BY TuggerStoreAssumption DEF ClockInv, TypeInv, TypeOK, Times
    <3>3. ~fifo'[s].timedOut /\ fifo'[s].created = clock
      BY <3>1
    <3>4. Elapsed(s)' = 0
      BY <2>1, <3>2, <3>3 DEF Elapsed
    <3> QED
      BY <3>1, <3>3, <3>4, TuggerStoreAssumption
  <2> QED
    BY <2>2, <2>3 DEF AgeInv
<1> QED
  BY <1>1, <1>2

\* The scan marks what is late, and only that.
LEMMA ScanMarksLate ==
  ASSUME ClockInv, Expire, UNCHANGED age
  PROVE  AgeInv'
<1> DEFINE t == At(scan)
<1>1. /\ pc = "scan" /\ pc' = "saveScan" /\ scan < MaxOrders
      /\ fifo' = [fifo EXCEPT ![t].timedOut = TRUE]
      /\ fifo[t].active /\ ~fifo[t].timedOut /\ Elapsed(t) > Timeout
      /\ UNCHANGED <<clock, head, scan>>
  BY TuggerStoreAssumption DEF Expire, Late, Elapsed, ClockInv, TypeInv, TypeOK
<1>2. t \in Slots /\ \A s \in Slots : Dist(s) = scan <=> s = t
  BY <1>1, ScanLooksAt DEF ClockInv
<1> HIDE DEF t
<1>3. ASSUME NEW s \in Slots, fifo'[s].active, s # t
      PROVE  IF fifo'[s].timedOut THEN age'[s] = MaxAge
             ELSE \/ age'[s] <= Timeout /\ Elapsed(s)' = age'[s]
                  \/ Unscanned(s)' /\ age'[s] = MaxAge /\ Elapsed(s)' > Timeout
  <2>1. fifo'[s] = fifo[s] /\ Dist(s)' = Dist(s) /\ Elapsed(s)' = Elapsed(s)
    BY <1>1, <1>2, <1>3 DEF ClockInv, TypeInv, TypeOK, Dist, Elapsed
  <2>2. Unscanned(s) => Unscanned(s)'
    <3>1. Dist(s) # scan /\ Dist(s) \in Int /\ scan \in Int
      BY <1>2, <1>3, DistType DEF ClockInv, TypeInv, TypeOK
    <3> QED
      BY <1>1, <2>1, <3>1 DEF Unscanned
  <2> QED
    BY <1>1, <1>3, <2>1, <2>2 DEF ClockInv, AgeInv
<1>4. fifo'[t].timedOut /\ age'[t] = MaxAge
  <2>1. age[t] = MaxAge
    BY <1>1, <1>2, TuggerStoreAssumption DEF ClockInv, AgeInv, AgeType, MaxAge
  <2> QED
    BY <1>1, <1>2, <2>1 DEF ClockInv, TypeInv, TypeOK, Orders
<1> QED
  BY <1>3, <1>4 DEF AgeInv

LEMMA ScanPasses ==
  ASSUME ClockInv, PassOver, UNCHANGED age
  PROVE  AgeInv'
<1> DEFINE t == At(scan)
<1>1. /\ pc = "scan" /\ pc' = "scan" /\ scan < MaxOrders /\ scan' = scan + 1
      /\ ~(fifo[t].active /\ ~fifo[t].timedOut /\ Elapsed(t) > Timeout)
      /\ UNCHANGED <<clock, head, fifo>>
  BY TuggerStoreAssumption DEF PassOver, Late, Elapsed, ClockInv, TypeInv, TypeOK, ram
<1>2. t \in Slots /\ \A s \in Slots : Dist(s) = scan <=> s = t
  BY <1>1, ScanLooksAt DEF ClockInv
<1> HIDE DEF t
<1>3. ASSUME NEW s \in Slots, fifo[s].active
      PROVE  IF fifo[s].timedOut THEN age[s] = MaxAge
             ELSE \/ age[s] <= Timeout /\ Elapsed(s) = age[s]
                  \/ Unscanned(s)' /\ age[s] = MaxAge /\ Elapsed(s) > Timeout
  <2>1. Dist(s)' = Dist(s) /\ Dist(s) \in Int /\ scan \in Int
    BY <1>1, DistType DEF ClockInv, TypeInv, TypeOK, Dist
  <2>2. CASE s = t
    BY <1>1, <1>3, <2>2 DEF ClockInv, AgeInv
  <2>3. CASE s # t
    <3>1. Unscanned(s) => Unscanned(s)'
      BY <1>1, <1>2, <2>1, <2>3 DEF Unscanned
    <3> QED
      BY <1>1, <1>3, <3>1 DEF ClockInv, AgeInv
  <2> QED
    BY <2>2, <2>3
<1>4. \A s \in Slots : Elapsed(s)' = Elapsed(s)
  BY <1>1 DEF Elapsed
<1> QED
  BY <1>1, <1>3, <1>4 DEF AgeInv

\* A scan that has ended has looked at every order.
LEMMA ScanEnds ==
  ASSUME ClockInv, EndScan, NEW s \in Slots, fifo[s].active
  PROVE  ~Unscanned(s)
<1>1. pc = "scan" /\ scan >= count
  BY DEF EndScan
<1>2. Dist(s) < count
  BY <1>1 DEF ClockInv, RingWindow, Stored
<1>3. Dist(s) \in Int /\ scan \in Int /\ count \in Int
  BY DistType DEF ClockInv, TypeInv, TypeOK
<1> QED
  BY <1>1, <1>2, <1>3 DEF Unscanned

LEMMA AgeStepKeeps ==
  ASSUME ClockInv, [AgeStep]_<<vars, age>>
  PROVE  AgeInv'
<1>1. CASE \/ LoadSlot \/ NextZone \/ LockZone \/ EndLoad
  <2>1. CASE LoadSlot
    BY <2>1 DEF LoadSlot, AgeInv
  <2>2. CASE NextZone \/ LockZone \/ EndLoad
    <3>1. fifo' = fifo /\ pc \in {"load", "zone"}
      BY <2>2 DEF NextZone, LockZone, EndLoad, ram
    <3> QED
      BY <3>1, NothingQueued DEF AgeInv
  <2> QED
    BY <1>1, <2>1, <2>2
<1>2. ASSUME NEW d \in PassTimes, BeginPass(d),
             age' = [s \in Slots |-> Older(age[s], d)]
      PROVE  AgeInv'
  BY <1>2, PassAges
<1>3. ASSUME NEW id \in Ids, NEW z \in 1 .. LastZone, Receive(id, z),
             age' = IF pc' = "saveAdd" THEN [age EXCEPT ![tail] = 0] ELSE age
      PROVE  AgeInv'
  BY <1>3, NewIsYoung
<1>4. CASE UNCHANGED age /\ (NoPacket \/ EndSaveAdd
                            \/ \E id \in Ids, z \in 1 .. LastZone : Refuse(id, z))
  <2>1. /\ pc \in {"rx", "saveAdd"} /\ pc' = "scan" /\ scan = 0
        /\ UNCHANGED <<fifo, clock, age, head, scan>>
    BY <1>4 DEF NoPacket, Refuse, EndSaveAdd, ram, ClockInv, ScanRest
  <2>2. \A s \in Slots : Unscanned(s)'
    BY <2>1, DistType DEF Unscanned, Dist, ClockInv
  <2> QED
    BY <2>1, <2>2, AgesStay DEF ClockInv
<1>5. CASE UNCHANGED age /\ SaveStep
  <2>1. pc # "load" /\ UNCHANGED <<fifo, clock, head, scan, pc>>
    BY <1>5 DEF SaveStep, Saving, ram
  <2> QED
    BY <1>5, <2>1, AgesStay DEF Unscanned, Dist, ClockInv
<1>6. CASE UNCHANGED age /\ EndSaveScan
  <2>1. /\ pc = "saveScan" /\ pc' = "scan" /\ scan' = scan + 1
        /\ UNCHANGED <<fifo, clock, head>>
    BY <1>6 DEF EndSaveScan, ram
  <2>2. ASSUME NEW s \in Slots, Unscanned(s) PROVE Unscanned(s)'
    <3>1. Dist(s)' = Dist(s) /\ Dist(s) \in Int /\ scan \in Int /\ Dist(s) > scan
      BY <2>1, <2>2, DistType DEF ClockInv, TypeInv, TypeOK, Dist, Unscanned
    <3> QED
      BY <2>1, <3>1 DEF Unscanned
  <2> QED
    BY <1>6, <2>1, <2>2, AgesStay DEF ClockInv
<1>7. CASE UNCHANGED age /\ Expire
  BY <1>7, ScanMarksLate
<1>8. CASE UNCHANGED age /\ PassOver
  BY <1>8, ScanPasses
<1>9. CASE UNCHANGED age /\ EndScan
  <2>1. pc = "scan" /\ UNCHANGED <<fifo, clock>>
    BY <1>9 DEF EndScan, ram
  <2> QED
    BY <1>9, <2>1, ScanEnds, AgesStay DEF ClockInv
<1>10. CASE UNCHANGED age /\ (NoServe \/ EndSaveClear)
  <2>1. pc \in {"button", "saveClear"} /\ UNCHANGED <<fifo, clock>>
    BY <1>10 DEF NoServe, EndSaveClear, ram
  <2> QED
    BY <1>10, <2>1, AgesStay DEF ClockInv, Unscanned
<1>11. CASE UNCHANGED age /\ Serve
  <2>1. /\ pc = "button" /\ clock' = clock /\ head \in Slots
        /\ fifo' = [fifo EXCEPT ![head].active = FALSE]
    BY <1>11 DEF Serve, ClockInv, TypeInv, TypeOK
  <2>2. \A s \in Slots : /\ fifo'[s].active => fifo[s].active
                         /\ fifo'[s].timedOut = fifo[s].timedOut
                         /\ fifo'[s].created = fifo[s].created
    BY <2>1 DEF ClockInv, TypeInv, TypeOK, Orders
  <2>3. \A s \in Slots : Elapsed(s)' = Elapsed(s) /\ ~Unscanned(s)
    BY <2>1, <2>2 DEF Elapsed, Unscanned
  <2> QED
    BY <1>11, <2>1, <2>2, <2>3 DEF ClockInv, AgeInv
<1>12. CASE UNCHANGED <<vars, age>>
  BY <1>12 DEF vars, ram, ClockInv, AgeInv, Elapsed, Unscanned, Dist
<1> QED
  BY <1>1, <1>2, <1>3, <1>4, <1>5, <1>6, <1>7, <1>8, <1>9, <1>10, <1>11, <1>12
  DEF AgeStep, Boot, Save

LEMMA ClockInvariant == OneBootSpec => []ClockInv
<1>1. ClockInv /\ [AgeStep]_<<vars, age>> => ClockInv'
  BY RestStep, AgeStepKeeps DEF ClockInv
<1> QED
  BY <1>1, ClockInit, PTL DEF OneBootSpec

\* After each scan the orders marked late are exactly those that have been
\* queued for more than the timeout, for every timeout and every clock that
\* wraps later than a timeout and a pass together, as long as the tugger stays
\* up: a restart breaks it (see NeverLateEarly).
THEOREM LateIsExact == OneBootSpec => []LateExactly
<1>1. ClockInv => LateExactly
  BY TuggerStoreAssumption
  DEF ClockInv, AgeInv, AgeType, LateExactly, Unscanned, MaxAge
<1> QED
  BY <1>1, ClockInvariant, PTL
=============================================================================
