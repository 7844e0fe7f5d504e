----------------------------- MODULE NetworkProofs -----------------------------
(***************************************************************************)
(* The proofs about what esp-idf-svc has of the network.  Handoff, the     *)
(* borrow and the wake-ups of zerocopy.rs, is correct for any channels and *)
(* any number of threads that lend; the two MQTT clients use their         *)
(* channels as Handoff allows, so what holds of the channels holds of      *)
(* them, and every answer is the caller's own.  Each of the other clients, *)
(* servers and drivers has an inductive invariant, which ServiceProofs     *)
(* uses.                                                                   *)
(***************************************************************************)
EXTENDS MqttClient, HttpServer, HttpReply, HttpClient, WsClient, AsyncTls, Ping, WifiDriver,
        EthDriver, Netif, Mdns, Sntp, EspNow, Bluetooth, SequenceTheorems, TLAPS

(* The channels and the MQTT clients. *)

Threads == Sharers \cup {"reader"}
Places  == {"idle", "offer", "offered", "close", "refused", "shared", "get", "poll", "await",
            "using", "none", "gone"}
Held    == Sharers \cup {"empty", "quit"}

HandoffTypeOK ==
  /\ cell \in [Channels -> Held]
  /\ asleep \in [Channels -> SUBSET Threads]
  /\ flag \in [Channels -> BOOLEAN]
  /\ at \in [Channels -> [Threads -> Places]]

\* What is in the cell belongs to a thread that waits for it; what is read is in
\* the cell.
LoansAreHeld ==
  \A c \in Channels :
    /\ Lent(c) => at[c][cell[c]] = "offered"
    /\ at[c]["reader"] = "using" => Lent(c)

HandoffInv == HandoffTypeOK /\ LoansAreHeld /\ NobodyOversleeps

LEMMA LoansGiveBorrows == HandoffInv => BorrowSafe
  BY DEF HandoffInv, LoansAreHeld, BorrowSafe

\* A thread that lends is neither the reader nor one of the marks of the cell.
LEMMA Distinct == "reader" \notin Sharers /\ "empty" \notin Sharers /\ "quit" \notin Sharers
  BY HandoffAssumption

LEMMA HandoffStart == HandoffInit => HandoffInv
  BY HandoffAssumption
  DEF HandoffInit, HandoffInv, HandoffTypeOK, LoansAreHeld, NobodyOversleeps, Lent, Threads,
      Places, Held

-----------------------------------------------------------------------------
(* Types. *)

LEMMA PlaceChanges ==
  ASSUME NEW f \in [Channels -> [Threads -> Places]], NEW c \in Channels, NEW t \in Threads,
         NEW to \in Places
  PROVE  [f EXCEPT ![c][t] = to] \in [Channels -> [Threads -> Places]]
<1>1. [f[c] EXCEPT ![t] = to] \in [Threads -> Places]
  OBVIOUS
<1>2. [f EXCEPT ![c] = [f[c] EXCEPT ![t] = to]] \in [Channels -> [Threads -> Places]]
  BY <1>1
<1> QED
  BY <1>2

LEMMA ThreadsType == "reader" \in Threads /\ Sharers \subseteq Threads
  BY DEF Threads

LEMMA MovesType ==
  ASSUME HandoffTypeOK, NEW c \in Channels, NEW t \in Threads, NEW to \in Places,
         at' = [at EXCEPT ![c][t] = to], UNCHANGED <<cell, asleep, flag>>
  PROVE  HandoffTypeOK'
  BY PlaceChanges DEF HandoffTypeOK

LEMMA SleepsType ==
  ASSUME HandoffTypeOK, NEW c \in Channels, NEW t \in Threads, Sleeps(c, t)
  PROVE  HandoffTypeOK'
<1>1. asleep[c] \cup {t} \in SUBSET Threads
  BY DEF HandoffTypeOK
<1> QED
  BY <1>1 DEF HandoffTypeOK, Sleeps

LEMMA SharersType ==
  ASSUME NEW c \in Channels, NEW s \in Sharers, HandoffTypeOK,
         Share(c, s) \/ Close(c, s) \/ Put(c, s) \/ TakeBack(c, s) \/ Return(c, s)
  PROVE  HandoffTypeOK'
<1>1. /\ "idle" \in Places /\ "offer" \in Places /\ "offered" \in Places
      /\ "close" \in Places /\ "refused" \in Places /\ "shared" \in Places
  BY DEF Places
<1>2. s \in Held /\ "empty" \in Held /\ "quit" \in Held
  BY DEF Held
<1>3. CASE Share(c, s) \/ Close(c, s) \/ Return(c, s)
  BY <1>1, <1>3, MovesType, ThreadsType DEF Share, Close, Return, Moves
<1>4. CASE TakeBack(c, s)
  BY <1>1, <1>4, MovesType, SleepsType, ThreadsType DEF TakeBack, Moves
<1>5. CASE Put(c, s)
  <2>1. CASE UNCHANGED <<cell, asleep, flag>>
    BY <1>1, <1>5, <2>1, MovesType, SleepsType, ThreadsType DEF Put
  <2>2. CASE Sleeps(c, s)
    BY <2>2, SleepsType, ThreadsType
  <2>3. CASE cell[c] = "empty" /\ ~Sleeps(c, s) /\ ~UNCHANGED <<cell, asleep, flag>>
    <3>1. /\ cell' = [cell EXCEPT ![c] = IF at[c][s] = "offer" THEN s ELSE "quit"]
          /\ asleep' = [asleep EXCEPT ![c] = IF at[c][s] = "offer" THEN {s} ELSE {}]
          /\ flag' = [flag EXCEPT ![c] = TRUE]
          /\ at' = [at EXCEPT ![c][s] = IF at[c][s] = "offer" THEN "offered" ELSE "idle"]
      BY <1>5, <2>3 DEF Put, Becomes
    <3>2. at' \in [Channels -> [Threads -> Places]]
      BY <1>1, <3>1, PlaceChanges, ThreadsType DEF HandoffTypeOK
    <3>3. cell' \in [Channels -> Held] /\ flag' \in [Channels -> BOOLEAN]
      BY <1>2, <3>1 DEF HandoffTypeOK
    <3>4. {s} \in SUBSET Threads /\ {} \in SUBSET Threads
      BY ThreadsType
    <3>5. asleep' \in [Channels -> SUBSET Threads]
      BY <3>1, <3>4 DEF HandoffTypeOK
    <3> QED
      BY <3>2, <3>3, <3>5 DEF HandoffTypeOK
  <2> QED
    BY <1>5, <2>1, <2>2, <2>3 DEF Put
<1> QED
  BY <1>3, <1>4, <1>5

LEMMA ReaderType ==
  ASSUME NEW c \in Channels, HandoffTypeOK,
         Ask(c) \/ AskAsync(c) \/ Get(c) \/ GetAsync(c) \/ Leave(c) \/ Done(c) \/ Hangup(c)
  PROVE  HandoffTypeOK'
<1>1. /\ "idle" \in Places /\ "get" \in Places /\ "poll" \in Places /\ "await" \in Places
      /\ "using" \in Places /\ "none" \in Places /\ "gone" \in Places
  BY DEF Places
<1>2. "empty" \in Held /\ "quit" \in Held
  BY DEF Held
<1>3. CASE Ask(c) \/ AskAsync(c) \/ Leave(c)
  BY <1>1, <1>3, MovesType, ThreadsType DEF Ask, AskAsync, Leave, Moves
<1>4. CASE Answered(c)
  BY <1>1, <1>4, MovesType, ThreadsType DEF Answered
<1>5. CASE Get(c)
  BY <1>4, <1>5, SleepsType, ThreadsType DEF Get
<1>6. CASE GetAsync(c) /\ ~Answered(c)
  <2>1. PICK to \in {"poll", "await"} : at' = [at EXCEPT ![c]["reader"] = to]
    BY <1>6 DEF GetAsync, Moves
  <2>2. at' \in [Channels -> [Threads -> Places]]
    BY <1>1, <2>1, PlaceChanges, ThreadsType DEF HandoffTypeOK
  <2> QED
    BY <1>6, <2>2 DEF HandoffTypeOK, GetAsync
<1>7. CASE Done(c)
  BY <1>2, <1>7 DEF HandoffTypeOK, Done, Becomes, WakeAll
<1>8. CASE Hangup(c)
  <2>1. at' \in [Channels -> [Threads -> Places]]
    BY <1>1, <1>8, PlaceChanges, ThreadsType DEF HandoffTypeOK, Hangup, Moves
  <2> QED
    BY <1>2, <1>8, <2>1 DEF HandoffTypeOK, Hangup, Becomes, WakeAll
<1> QED
  BY <1>3, <1>4, <1>5, <1>6, <1>7, <1>8

-----------------------------------------------------------------------------
(* Loans and sleepers. *)

LEMMA SharersKeep ==
  ASSUME NEW c \in Channels, NEW s \in Sharers, HandoffInv,
         Share(c, s) \/ Close(c, s) \/ Put(c, s) \/ TakeBack(c, s) \/ Return(c, s)
  PROVE  LoansAreHeld' /\ NobodyOversleeps'
<1> USE DEF HandoffInv, HandoffTypeOK, Lent, Threads, Held
<1>1. CASE Share(c, s) \/ Close(c, s)
  <2>1. LoansAreHeld'
    BY Distinct, <1>1 DEF LoansAreHeld, Share, Close, Moves
  <2>2. NobodyOversleeps'
    BY Distinct, <1>1 DEF NobodyOversleeps, Share, Close, Moves
  <2> QED
    BY <2>1, <2>2
<1>2. CASE Put(c, s)
  <2>1. LoansAreHeld'
    BY Distinct, <1>2 DEF LoansAreHeld, Put, Becomes, Sleeps
  <2>2. NobodyOversleeps'
    BY Distinct, <1>2 DEF NobodyOversleeps, Put, Becomes, Sleeps
  <2> QED
    BY <2>1, <2>2
<1>3. CASE TakeBack(c, s)
  <2>1. LoansAreHeld'
    BY Distinct, <1>3 DEF LoansAreHeld, TakeBack, Moves, Sleeps
  <2>2. NobodyOversleeps'
    BY Distinct, <1>3 DEF NobodyOversleeps, TakeBack, Moves, Sleeps
  <2> QED
    BY <2>1, <2>2
<1>4. CASE Return(c, s)
  <2>1. LoansAreHeld'
    BY Distinct, <1>4 DEF LoansAreHeld, Return
  <2>2. NobodyOversleeps'
    BY Distinct, <1>4 DEF NobodyOversleeps, Return
  <2> QED
    BY <2>1, <2>2
<1> QED
  BY <1>1, <1>2, <1>3, <1>4

LEMMA ReaderKeeps ==
  ASSUME NEW c \in Channels, HandoffInv,
         Ask(c) \/ AskAsync(c) \/ Get(c) \/ GetAsync(c) \/ Leave(c) \/ Done(c) \/ Hangup(c)
  PROVE  LoansAreHeld' /\ NobodyOversleeps'
<1> USE DEF HandoffInv, HandoffTypeOK, Lent, Threads, Held
<1>1. CASE Ask(c) \/ AskAsync(c) \/ Leave(c)
  <2>1. LoansAreHeld'
    BY Distinct, <1>1 DEF LoansAreHeld, Ask, AskAsync, Leave, Moves
  <2>2. NobodyOversleeps'
    BY Distinct, <1>1 DEF NobodyOversleeps, Ask, AskAsync, Leave, Moves
  <2> QED
    BY <2>1, <2>2
<1>2. CASE Get(c)
  <2>1. LoansAreHeld'
    BY Distinct, <1>2 DEF LoansAreHeld, Get, Answered, Sleeps
  <2>2. NobodyOversleeps'
    BY Distinct, <1>2 DEF NobodyOversleeps, Get, Answered, Sleeps
  <2> QED
    BY <2>1, <2>2
<1>3. CASE GetAsync(c)
  <2>1. LoansAreHeld'
    BY Distinct, <1>3 DEF LoansAreHeld, GetAsync, Answered, Moves
  <2>2. NobodyOversleeps'
    BY Distinct, <1>3 DEF NobodyOversleeps, GetAsync, Answered, Moves
  <2> QED
    BY <2>1, <2>2
<1>4. CASE Done(c)
  <2>1. LoansAreHeld'
    BY Distinct, <1>4 DEF LoansAreHeld, Done, Becomes, WakeAll
  <2>2. NobodyOversleeps'
    BY Distinct, <1>4 DEF NobodyOversleeps, Done, Becomes, WakeAll
  <2> QED
    BY <2>1, <2>2
<1>5. CASE Hangup(c)
  <2>1. LoansAreHeld'
    BY Distinct, <1>5 DEF LoansAreHeld, Hangup, Moves, Becomes, WakeAll
  <2>2. NobodyOversleeps'
    BY Distinct, <1>5 DEF NobodyOversleeps, Hangup, Moves, Becomes, WakeAll
  <2> QED
    BY <2>1, <2>2
<1> QED
  BY <1>1, <1>2, <1>3, <1>4, <1>5

LEMMA HandoffKeeps == HandoffInv /\ [\E c \in Channels : HandoffNext(c)]_handoffVars => HandoffInv'
<1> SUFFICES ASSUME HandoffInv, [\E c \in Channels : HandoffNext(c)]_handoffVars
             PROVE  HandoffInv'
  OBVIOUS
<1>1. CASE UNCHANGED handoffVars
  BY <1>1 DEF handoffVars, HandoffInv, HandoffTypeOK, LoansAreHeld, NobodyOversleeps, Lent
<1>2. ASSUME NEW c \in Channels, HandoffNext(c)
      PROVE  HandoffInv'
  BY <1>2, SharersType, ReaderType, SharersKeep, ReaderKeeps DEF HandoffNext, HandoffInv
<1> QED
  BY <1>1, <1>2

\* Whatever channels there are and however many threads lend and quit, the reader
\* reads only what a thread that is blocked in share() has lent, and nobody sleeps
\* through what it waits for.
THEOREM HandoffSafe == HandoffSpec => [](BorrowSafe /\ NobodyOversleeps)
<1>1. HandoffInv => BorrowSafe /\ NobodyOversleeps
  BY LoansGiveBorrows DEF HandoffInv
<1> QED
  BY <1>1, HandoffStart, HandoffKeeps, PTL DEF HandoffSpec

-----------------------------------------------------------------------------
(* The MQTT clients. *)

AnyHandoff == \E c \in Channels : HandoffNext(c)

LEMMA ChannelsUsed ==
  "event" \in Channels /\ "work" \in Channels
    /\ "task" \in Sharers /\ "worker" \in Sharers /\ "owner" \in Sharers
  BY MqttClientAssumption

\* Each step of the clients is a step of one channel or leaves the channels alone.
LEMMA MqttSteps == MqttNext => AnyHandoff \/ UNCHANGED handoffVars
<1> SUFFICES ASSUME MqttNext PROVE AnyHandoff \/ UNCHANGED handoffVars
  OBVIOUS
<1>1. ASSUME NEW k \in {"blocking", "async"}, NewClient(k)
      PROVE  UNCHANGED handoffVars
  BY <1>1 DEF NewClient
<1>2. ASSUME NEW k \in {"blocking", "async"}, Next_(k)
      PROVE  AnyHandoff
  BY <1>2, ChannelsUsed DEF Next_, GiveBack, AskNext, HaveNext, AbandonNext, AnyHandoff, HandoffNext
<1>3. CASE DeliverEvent \/ InCallback \/ DropConnection
  BY <1>3, ChannelsUsed DEF DeliverEvent, InCallback, DropConnection, AnyHandoff, HandoffNext
<1>4. CASE DropClient
  BY <1>4, ChannelsUsed DEF DropClient, AnyHandoff, HandoffNext
<1>5. CASE Worker
  BY <1>5, ChannelsUsed DEF Worker, AnyHandoff, HandoffNext
<1>6. CASE Execute
  BY <1>6, ChannelsUsed DEF Execute, AnyHandoff, HandoffNext
<1>7. CASE Cancel \/ DropAsync
  BY <1>7, ChannelsUsed DEF Cancel, DropAsync, AnyHandoff, HandoffNext
<1> QED
  BY <1>1, <1>2, <1>3, <1>4, <1>5, <1>6, <1>7 DEF MqttNext

\* The MQTT clients implement the channels of Handoff, ...
THEOREM MqttImplementsHandoff == MqttSpec => HandoffSpec
<1>1. MqttInit => HandoffInit
  BY DEF MqttInit
<1>2. [MqttNext]_mqttVars => [AnyHandoff]_handoffVars
  BY MqttSteps DEF mqttVars
<1> QED
  BY <1>1, <1>2, PTL DEF MqttSpec, HandoffSpec, AnyHandoff

\* ... and so no event and no work record is used by a thread after the one that
\* lent it went on, and no thread of theirs sleeps through what it waits for.
THEOREM MqttBorrowsSafe == MqttSpec => [](BorrowSafe /\ NobodyOversleeps)
  BY MqttImplementsHandoff, HandoffSafe

-----------------------------------------------------------------------------
(* The results of commands. *)

\* The caller has filled in a command that the worker has not executed yet.
Pending ==
  \/ caller = "give"
  \/ at["work"]["worker"] = "shared"
  \/ at["work"]["worker"] = "offered" /\ cell["work"] = "empty"

\* The work record is the caller's and the worker's in turn: what is in it is
\* the command of the call that waits, executed exactly when it is not pending.
RecordInv ==
  /\ cell["work"] \in {"empty", "worker"}
  /\ at["work"]["worker"] \in {"idle", "offer", "offered", "shared"}
  /\ work.command <= made
  /\ \A j, k \in DOMAIN executed : executed[j] = executed[k] => j = k
  /\ \A k \in DOMAIN executed : executed[k] <= made
  /\ Pending => \A k \in DOMAIN executed : executed[k] # work.command
  /\ ~Pending => work.result = work.command
  /\ caller = "give" => cell["work"] = "worker"
  /\ caller \in {"give", "given", "result"} => work.command = made
  /\ caller = "fill" => work.command < made /\ \A k \in DOMAIN executed : executed[k] < made

CallInv ==
  /\ made \in Nat /\ executed \in Seq(Nat) /\ work \in [command : Nat, result : Nat]
  /\ caller \in {"idle", "fill", "give", "given", "result", "dropped"}
  /\ \A a \in answers : a[1] = a[2]
  /\ caller # "dropped" => RecordInv

\* The worker's share of the channel, and what the reader may be sure of.
LEMMA WorkLoan ==
  ASSUME HandoffInv, RecordInv
  PROVE  /\ cell["work"] = "worker" => at["work"]["worker"] = "offered"
         /\ Lent("work") <=> cell["work"] = "worker"
         /\ at["work"]["reader"] = "using" => cell["work"] = "worker"
BY ChannelsUsed, Distinct DEF HandoffInv, LoansAreHeld, RecordInv, Lent

\* Nothing of the other channel or of a step that leaves the caller alone.
LEMMA CallSame ==
  ASSUME CallInv, UNCHANGED workVars, cell'["work"] = cell["work"],
         at'["work"]["worker"] = at["work"]["worker"]
  PROVE  CallInv'
BY DEF CallInv, RecordInv, Pending, workVars

LEMMA CallEvent ==
  ASSUME CallInv, HandoffInv, UNCHANGED workVars, NEW s \in Sharers,
         \/ Share("event", s) \/ Close("event", s) \/ Put("event", s) \/ TakeBack("event", s)
         \/ Return("event", s) \/ Ask("event") \/ AskAsync("event") \/ Get("event")
         \/ GetAsync("event") \/ Leave("event") \/ Done("event") \/ Hangup("event")
  PROVE  CallInv'
<1>1. /\ cell \in [Channels -> Held] /\ at \in [Channels -> [Threads -> Places]]
      /\ "event" \in Channels /\ "work" \in Channels /\ "event" # "work"
  BY ChannelsUsed DEF HandoffInv, HandoffTypeOK
<1>2. cell'["work"] = cell["work"]
  BY <1>1 DEF Share, Close, Put, TakeBack, Return, Ask, AskAsync, Get, GetAsync, Leave, Done,
              Hangup, Answered, Moves, Sleeps, Becomes
<1>3. at'["work"] = at["work"]
  <2>1. CASE Share("event", s) \/ Close("event", s) \/ TakeBack("event", s) \/ Return("event", s)
    BY <1>1, <2>1 DEF Share, Close, TakeBack, Return, Moves, Sleeps
  <2>2. CASE Put("event", s)
    BY <1>1, <2>2 DEF Put, Sleeps
  <2>3. CASE Ask("event") \/ AskAsync("event") \/ Get("event") \/ GetAsync("event")
    BY <1>1, <2>3 DEF Ask, AskAsync, Get, GetAsync, Answered, Moves, Sleeps
  <2>4. CASE Leave("event") \/ Done("event") \/ Hangup("event")
    BY <1>1, <2>4 DEF Leave, Done, Hangup, Moves
  <2> QED
    BY <2>1, <2>2, <2>3, <2>4
<1> QED
  BY <1>2, <1>3, CallSame

\* Where the threads of the work channel go.
LEMMA WorkMoves ==
  ASSUME HandoffInv, NEW t \in Threads, NEW from, NEW to, Moves("work", t, from, to)
  PROVE  /\ at["work"][t] = from /\ at'["work"][t] = to
         /\ \A u \in Threads : u # t => at'["work"][u] = at["work"][u]
BY ChannelsUsed DEF HandoffInv, HandoffTypeOK, Moves

LEMMA CallWorker ==
  ASSUME CallInv, HandoffInv, Worker, caller # "dropped"
  PROVE  CallInv'
<1>1. /\ cell \in [Channels -> Held] /\ at \in [Channels -> [Threads -> Places]]
      /\ "work" \in Channels /\ "worker" \in Threads /\ "reader" \in Threads
      /\ "worker" \in Sharers
  BY ChannelsUsed DEF HandoffInv, HandoffTypeOK, Threads
<1>2. /\ RecordInv
      /\ cell["work"] = "worker" => at["work"]["worker"] = "offered"
      /\ Lent("work") <=> cell["work"] = "worker"
  BY WorkLoan DEF CallInv
<1>3. CASE Share("work", "worker") /\ UNCHANGED workVars
  <2>1. /\ at["work"]["worker"] = "idle" /\ at'["work"]["worker"] = "offer"
        /\ cell' = cell
    BY <1>1, <1>3, WorkMoves DEF Share
  <2> QED
    BY <1>2, <1>3, <2>1 DEF CallInv, RecordInv, Pending, workVars
<1>4. CASE Put("work", "worker") /\ UNCHANGED workVars
  <2>1. at["work"]["worker"] = "offer" /\ cell["work"] = "empty"
    BY <1>2, <1>4 DEF Put, RecordInv
  <2>2. cell'["work"] = "worker" /\ at'["work"]["worker"] = "offered"
    BY <1>1, <1>2, <1>4, <2>1 DEF Put, Becomes
  <2>3. ~Pending /\ ~Pending'
    BY <1>2, <1>4, <2>1, <2>2 DEF Pending, RecordInv, workVars
  <2> QED
    BY <1>2, <1>4, <2>1, <2>2, <2>3 DEF CallInv, RecordInv, workVars
<1>5. CASE TakeBack("work", "worker") /\ UNCHANGED workVars
  <2>1. CASE Lent("work")
    BY <1>5, <2>1, CallSame DEF TakeBack, Sleeps
  <2>2. CASE ~Lent("work")
    <3>1. /\ at["work"]["worker"] = "offered" /\ at'["work"]["worker"] = "shared"
          /\ cell' = cell /\ cell["work"] = "empty"
      BY <1>1, <1>2, <1>5, <2>2, WorkMoves DEF TakeBack, RecordInv
    <3> QED
      BY <1>2, <1>5, <3>1 DEF CallInv, RecordInv, Pending, workVars
  <2> QED
    BY <2>1, <2>2
<1>6. CASE /\ at["work"]["worker"] = "shared" /\ Return("work", "worker")
           /\ executed' = Append(executed, work.command)
           /\ work' = [work EXCEPT !.result = work.command]
           /\ UNCHANGED <<caller, made, answers>>
  <2>1. at'["work"]["worker"] = "idle" /\ cell' = cell /\ cell["work"] = "empty"
    BY <1>1, <1>2, <1>6 DEF Return, RecordInv
  <2>2. caller # "give" /\ Pending /\ ~Pending'
    BY <1>2, <1>6, <2>1 DEF RecordInv, Pending
  <2>3. /\ work' \in [command : Nat, result : Nat] /\ work'.command = work.command
        /\ work'.result = work.command /\ work.command \in Nat
    BY <1>6 DEF CallInv
  <2>4. /\ executed \in Seq(Nat) /\ executed' \in Seq(Nat) /\ Len(executed) \in Nat
        /\ Len(executed') = Len(executed) + 1
        /\ DOMAIN executed = 1 .. Len(executed) /\ DOMAIN executed' = 1 .. Len(executed')
        /\ \A k \in 1 .. Len(executed) : executed'[k] = executed[k]
        /\ executed'[Len(executed')] = work.command
    BY <1>6, <2>3, AppendProperties, LenProperties DEF CallInv
  <2>5. \A k \in DOMAIN executed' : k \in DOMAIN executed \/ k = Len(executed')
    BY <2>4
  <2>6. \A k \in DOMAIN executed : executed[k] # work.command
    BY <1>2, <2>2 DEF RecordInv
  <2>7. \A j, k \in DOMAIN executed' : executed'[j] = executed'[k] => j = k
    BY <1>2, <2>4, <2>5, <2>6 DEF RecordInv
  <2>8. /\ \A k \in DOMAIN executed' : executed'[k] <= made
        /\ caller = "fill" => \A k \in DOMAIN executed' : executed'[k] < made
    BY <1>2, <2>4, <2>5 DEF RecordInv
  <2>9. RecordInv'
    BY <1>2, <1>6, <2>1, <2>2, <2>3, <2>7, <2>8 DEF RecordInv
  <2> QED
    BY <1>6, <2>4, <2>9 DEF CallInv
<1> QED
  BY <1>3, <1>4, <1>5, <1>6 DEF Worker, workVars

LEMMA CallExecute ==
  ASSUME CallInv, HandoffInv, Execute, caller # "dropped"
  PROVE  CallInv'
<1>1. /\ cell \in [Channels -> Held] /\ at \in [Channels -> [Threads -> Places]]
      /\ "work" \in Channels /\ "worker" \in Threads /\ "reader" \in Threads
      /\ "worker" \in Sharers /\ "worker" # "reader"
  BY ChannelsUsed, Distinct DEF HandoffInv, HandoffTypeOK, Threads
<1>2. /\ RecordInv
      /\ cell["work"] = "worker" => at["work"]["worker"] = "offered"
      /\ Lent("work") <=> cell["work"] = "worker"
      /\ at["work"]["reader"] = "using" => cell["work"] = "worker"
  BY WorkLoan DEF CallInv
\* The reader's moves leave the worker alone.
<1>3. ASSUME AskAsync("work") \/ Leave("work") \/ GetAsync("work")
      PROVE  cell' = cell /\ at'["work"]["worker"] = at["work"]["worker"]
  BY <1>1, <1>3 DEF AskAsync, Leave, GetAsync, Answered, Moves
<1>4. CASE /\ caller = "idle" /\ caller' = "fill" /\ made' = made + 1
           /\ AskAsync("work") /\ UNCHANGED <<work, executed, answers>>
  <2>1. Pending' = Pending
    BY <1>3, <1>4 DEF Pending
  <2>2. \A k \in DOMAIN executed : executed[k] \in Nat
    BY DEF CallInv
  <2> QED
    BY <1>2, <1>3, <1>4, <2>1, <2>2 DEF CallInv, RecordInv
<1>5. CASE GetAsync("work") /\ UNCHANGED workVars
  BY <1>3, <1>5, CallSame
<1>6. CASE /\ caller = "fill" /\ at["work"]["reader"] = "using" /\ Leave("work")
           /\ caller' = "give" /\ work' = [work EXCEPT !.command = made]
           /\ UNCHANGED <<made, executed, answers>>
  <2>1. Pending' /\ cell'["work"] = "worker"
    BY <1>2, <1>3, <1>6 DEF Pending
  <2>2. work' \in [command : Nat, result : Nat] /\ work'.command = made
    BY <1>2, <1>6 DEF RecordInv, CallInv
  <2>3. \A k \in DOMAIN executed : executed[k] # made
    <3>1. \A k \in DOMAIN executed : executed[k] \in Nat /\ executed[k] < made
      BY <1>2, <1>6 DEF CallInv, RecordInv
    <3> QED
      BY <3>1 DEF CallInv
  <2> QED
    BY <1>2, <1>3, <1>6, <2>1, <2>2, <2>3 DEF CallInv, RecordInv
<1>7. CASE /\ caller = "give" /\ Done("work") /\ caller' = "given"
           /\ UNCHANGED <<work, made, executed, answers>>
  <2>1. cell["work"] = "worker" /\ at["work"]["worker"] = "offered" /\ Lent("work") /\ Pending
    BY <1>2, <1>7 DEF RecordInv, Pending
  <2>2. cell'["work"] = "empty" /\ at' = at
    BY <1>1, <1>7, <2>1 DEF Done, Becomes
  <2>3. Pending'
    BY <2>1, <2>2 DEF Pending
  <2> QED
    BY <1>2, <1>7, <2>1, <2>2, <2>3 DEF CallInv, RecordInv
<1>8. CASE /\ caller = "given" /\ AskAsync("work") /\ caller' = "result"
           /\ UNCHANGED <<work, made, executed, answers>>
  <2>1. Pending' = Pending
    BY <1>3, <1>8 DEF Pending
  <2> QED
    BY <1>2, <1>3, <1>8, <2>1 DEF CallInv, RecordInv
<1>9. CASE /\ caller = "result" /\ at["work"]["reader"] = "using" /\ Leave("work")
           /\ caller' = "idle" /\ answers' = answers \cup {<<made, work.result>>}
           /\ UNCHANGED <<work, made, executed>>
  <2>1. ~Pending /\ Pending' = Pending
    BY <1>2, <1>3, <1>9 DEF Pending
  <2>2. work.result = made
    BY <1>2, <1>9, <2>1 DEF RecordInv
  <2>3. \A a \in answers' : a[1] = a[2]
    BY <1>9, <2>2 DEF CallInv
  <2> QED
    BY <1>2, <1>3, <1>9, <2>1, <2>3 DEF CallInv, RecordInv
<1> QED
  BY <1>4, <1>5, <1>6, <1>7, <1>8, <1>9 DEF Execute

LEMMA CallStep == CallInv /\ HandoffInv /\ [MqttNext]_mqttVars => CallInv'
<1> SUFFICES ASSUME CallInv, HandoffInv, [MqttNext]_mqttVars PROVE CallInv'
  OBVIOUS
<1>1. CASE UNCHANGED mqttVars
  BY <1>1, CallSame DEF mqttVars, handoffVars, workVars
<1>2. CASE \E k \in {"blocking", "async"} : NewClient(k)
  BY <1>2, CallSame DEF NewClient, handoffVars
<1>3. CASE (\E k \in {"blocking", "async"} : Next_(k)) \/ DeliverEvent \/ InCallback
           \/ DropConnection
  BY <1>3, CallEvent, ChannelsUsed DEF Next_, GiveBack, AskNext, HaveNext, AbandonNext,
                                       DeliverEvent, InCallback, DropConnection
<1>4. CASE DropClient
  BY <1>4, CallEvent, CallSame, ChannelsUsed DEF DropClient, handoffVars
<1>5. CASE Worker
  <2>1. CASE caller = "dropped"
    <3>1. /\ caller' = caller /\ UNCHANGED <<made, answers>>
          /\ \/ UNCHANGED <<executed, work>>
             \/ /\ executed' = Append(executed, work.command)
                /\ work' = [work EXCEPT !.result = work.command]
      BY <1>5 DEF Worker, workVars
    <3>2. executed \in Seq(Nat) /\ work \in [command : Nat, result : Nat]
      BY DEF CallInv
    <3>3. work.command \in Nat
      BY <3>2
    <3>4. Append(executed, work.command) \in Seq(Nat)
      BY <3>2, <3>3
    <3>5. [work EXCEPT !.result = work.command] \in [command : Nat, result : Nat]
      BY <3>2, <3>3
    <3>6. executed' \in Seq(Nat) /\ work' \in [command : Nat, result : Nat]
      BY <3>1, <3>2, <3>4, <3>5
    <3>7. caller' = "dropped"
      BY <2>1, <3>1
    <3>8. made' = made /\ answers' = answers
      BY <3>1
    <3> QED
      BY <3>6, <3>7, <3>8 DEF CallInv
  <2> QED
    BY <1>5, <2>1, CallWorker
<1>6. CASE Execute
  <2>1. CASE caller = "dropped"
    <3>1. UNCHANGED workVars
      BY <1>6, <2>1 DEF Execute
    <3> QED
      BY <2>1, <3>1 DEF CallInv, workVars
  <2> QED
    BY <1>6, <2>1, CallExecute
<1>7. CASE Cancel
  <2>1. cell' = cell /\ at'["work"]["worker"] = at["work"]["worker"]
    BY <1>7, ChannelsUsed, Distinct DEF Cancel, Leave, HandoffInv, HandoffTypeOK, Threads
  <2>2. caller # "dropped" /\ RecordInv /\ caller' = "idle" /\ UNCHANGED <<work, made, executed, answers>>
    BY <1>7 DEF Cancel, CallInv
  <2>3. Pending' = Pending
    BY <1>7, <2>1 DEF Pending, Cancel
  <2> QED
    BY <2>1, <2>2, <2>3 DEF CallInv, RecordInv
<1>8. CASE DropAsync
  BY <1>8 DEF DropAsync, CallInv
<1> QED
  BY <1>1, <1>2, <1>3, <1>4, <1>5, <1>6, <1>7, <1>8 DEF MqttNext

\* Every result that execute() returns is that of the command it was called
\* with, whatever futures were dropped half-way before, and no command is
\* executed twice before the client is dropped.
THEOREM ResultsAreOwn == MqttSpec => []ResultIsOwn
<1>1. MqttInit => CallInv
  BY ChannelsUsed DEF MqttInit, HandoffInit, CallInv, RecordInv, Pending
<1>2. MqttSpec => []HandoffInv
  BY MqttImplementsHandoff, HandoffStart, HandoffKeeps, PTL DEF HandoffSpec
<1>3. CallInv => ResultIsOwn
  BY DEF CallInv, RecordInv, ResultIsOwn
<1> QED
  BY <1>1, <1>2, <1>3, CallStep, PTL DEF MqttSpec

-----------------------------------------------------------------------------
(* The HTTP server. *)

HttpTypeOK ==
  /\ session \in [Fds -> Nat] /\ openSessions \in [Fds -> Nat]
  /\ accepted \in Nat
  /\ sender \in [WsSenders -> [session : Nat, fd : Fds \cup {0},
                               at : {"none", "idle", "checked", "queued"}]]
  /\ queued \in Seq(WsSenders \cup {"stop"})
  /\ task \in [at : {"idle", "closing"}, fd : Fds \cup {0}]

\* A session whose flag is not set is still the one its socket serves; the flag
\* that is kept for a socket is the one of the session it serves.
SessionInv ==
  /\ \A f \in Fds : openSessions[f] \in {0, session[f]}
  /\ task.at = "closing" => task.fd \in Fds /\ openSessions[task.fd] = 0
  /\ \A s \in WsSenders :
       /\ sender[s].at # "none" => sender[s].fd \in Fds /\ sender[s].session # 0
       /\ sender[s].at # "none" /\ sender[s].session \notin closed =>
            openSessions[sender[s].fd] = sender[s].session

\* Only senders that exist are queued.
QueuedInv ==
  \A k \in 1..Len(queued) : queued[k] # "stop" => sender[queued[k]].at # "none"

HttpInv == HttpTypeOK /\ SessionInv /\ QueuedInv /\ NoStrayFrame

LEMMA HttpStart == HttpInit => HttpInv
<1> SUFFICES ASSUME HttpInit PROVE HttpInv
  OBVIOUS
<1>1. queued = <<>> /\ Len(queued) = 0
  BY DEF HttpInit
<1>2. HttpTypeOK
  BY <1>1 DEF HttpInit, HttpTypeOK, NoSender, TaskIdle
<1>3. SessionInv
  BY DEF HttpInit, SessionInv, NoSender, TaskIdle
<1>4. QueuedInv /\ NoStrayFrame
  BY <1>1 DEF HttpInit, QueuedInv, NoStrayFrame
<1> QED
  BY <1>2, <1>3, <1>4 DEF HttpInv

-----------------------------------------------------------------------------
LEMMA QueueGrows ==
  ASSUME HttpTypeOK, NEW w \in WsSenders \cup {"stop"}, queued' = Append(queued, w)
  PROVE  /\ queued' \in Seq(WsSenders \cup {"stop"})
         /\ Len(queued') = Len(queued) + 1 /\ Len(queued) \in Nat
         /\ \A k \in 1..Len(queued) : queued'[k] = queued[k]
         /\ queued'[Len(queued) + 1] = w
<1>1. queued \in Seq(WsSenders \cup {"stop"})
  BY DEF HttpTypeOK
<1> QED
  BY <1>1

LEMMA StartStopStep ==
  ASSUME HttpInv, StartServer \/ StopServer
  PROVE  HttpInv'
<1>0. CASE StartServer
  BY <1>0 DEF StartServer, HttpInv, HttpTypeOK, SessionInv, QueuedInv, NoStrayFrame
<1>a. CASE StopServer
  <2>1. /\ queued' \in Seq(WsSenders \cup {"stop"})
        /\ Len(queued') = Len(queued) + 1 /\ Len(queued) \in Nat
        /\ \A k \in 1..Len(queued) : queued'[k] = queued[k]
        /\ queued'[Len(queued) + 1] = "stop"
    BY <1>a, QueueGrows DEF HttpInv, StopServer
  <2>2. UNCHANGED <<session, openSessions, closed, task, sender, sent, accepted>>
    BY <1>a DEF StopServer
  <2>3. HttpTypeOK' /\ SessionInv' /\ NoStrayFrame'
    BY <2>1, <2>2 DEF HttpInv, HttpTypeOK, SessionInv, NoStrayFrame
  <2>4. QueuedInv'
    BY <2>1, <2>2 DEF HttpInv, QueuedInv
  <2> QED
    BY <2>3, <2>4 DEF HttpInv
<1> QED
  BY <1>0, <1>a

LEMMA AcceptStep ==
  ASSUME HttpInv, NEW f \in Fds, Accept(f)
  PROVE  HttpInv'
  BY DEF HttpInv, Accept, HttpTypeOK, SessionInv, QueuedInv, NoStrayFrame, TaskIdle

LEMMA SenderStep ==
  ASSUME HttpInv, NEW f \in Fds, NEW s \in WsSenders, CreateDetachedSender(f, s)
  PROVE  HttpInv'
<1> DEFINE fresh == [session |-> openSessions'[f], fd |-> f, at |-> "idle"]
<1>1. /\ session[f] # 0 /\ openSessions'[f] = session[f]
      /\ \A g \in Fds : g # f => openSessions'[g] = openSessions[g]
      /\ openSessions[f] # 0 => openSessions[f] = session[f]
      /\ openSessions' \in [Fds -> Nat]
      /\ sender' = [sender EXCEPT ![s] = fresh]
      /\ UNCHANGED <<session, closed, task, queued, sent, accepted>> /\ task = TaskIdle
  BY DEF HttpInv, HttpTypeOK, SessionInv, CreateDetachedSender
<1>2. HttpTypeOK'
  BY <1>1 DEF HttpInv, HttpTypeOK
<1>3. SessionInv'
  BY <1>1 DEF HttpInv, HttpTypeOK, SessionInv, TaskIdle
<1>4. QueuedInv' /\ NoStrayFrame'
  BY <1>1 DEF HttpInv, HttpTypeOK, QueuedInv, NoStrayFrame
<1> QED
  BY <1>2, <1>3, <1>4 DEF HttpInv

LEMMA CloseStep ==
  ASSUME HttpInv, CloseSocket \/ \E f \in Fds : CloseSession(f)
  PROVE  HttpInv'
<1>1. CASE CloseSocket
  BY <1>1 DEF CloseSocket, HttpInv, HttpTypeOK, SessionInv, QueuedInv, NoStrayFrame, TaskIdle
<1>2. ASSUME NEW f \in Fds, CloseSession(f) PROVE HttpInv'
  <2>1. HttpTypeOK'
    BY <1>2 DEF CloseSession, HttpInv, HttpTypeOK
  <2>2. SessionInv'
    BY <1>2 DEF CloseSession, HttpInv, HttpTypeOK, SessionInv
  <2>3. QueuedInv' /\ NoStrayFrame'
    BY <1>2 DEF CloseSession, HttpInv, QueuedInv, NoStrayFrame
  <2> QED
    BY <2>1, <2>2, <2>3 DEF HttpInv
<1> QED
  BY <1>1, <1>2

LEMMA SendStep ==
  ASSUME HttpInv, NEW s \in WsSenders, Send(s)
  PROVE  HttpInv'
<1>1. PICK where \in {"checked", "queued"} : sender' = [sender EXCEPT ![s].at = where]
  BY DEF Send
<1>2. sender[s].at # "none" /\ UNCHANGED <<session, openSessions, closed, task, sent, accepted>>
  BY DEF Send
<1>3. queued' = queued \/ queued' = Append(queued, s)
  BY DEF Send
<1>4. /\ sender' \in [WsSenders -> [session : Nat, fd : Fds \cup {0},
                                     at : {"none", "idle", "checked", "queued"}]]
      /\ \A t \in WsSenders : /\ sender'[t].session = sender[t].session
                              /\ sender'[t].fd = sender[t].fd
                              /\ sender'[t].at = "none" <=> sender[t].at = "none"
  BY <1>1, <1>2 DEF HttpInv, HttpTypeOK
<1>5. CASE queued' = queued
  BY <1>2, <1>4, <1>5 DEF HttpInv, HttpTypeOK, SessionInv, QueuedInv, NoStrayFrame
<1>6. CASE queued' = Append(queued, s)
  <2>1. /\ queued' \in Seq(WsSenders \cup {"stop"})
        /\ Len(queued') = Len(queued) + 1 /\ Len(queued) \in Nat
        /\ \A k \in 1..Len(queued) : queued'[k] = queued[k]
        /\ queued'[Len(queued) + 1] = s
    BY <1>6, QueueGrows DEF HttpInv
  <2>2. HttpTypeOK' /\ SessionInv' /\ NoStrayFrame'
    BY <1>2, <1>4, <2>1 DEF HttpInv, HttpTypeOK, SessionInv, NoStrayFrame
  <2>3. QueuedInv'
    <3> SUFFICES ASSUME NEW k \in 1..Len(queued'), queued'[k] # "stop"
                 PROVE  sender'[queued'[k]].at # "none"
      BY DEF QueuedInv
    <3>1. queued'[k] \in WsSenders
      BY <2>1
    <3>2. sender[queued'[k]].at # "none"
      BY <1>2, <2>1 DEF HttpInv, QueuedInv
    <3> QED
      BY <1>4, <3>1, <3>2
  <2> QED
    BY <2>2, <2>3 DEF HttpInv
<1> QED
  BY <1>3, <1>5, <1>6

LEMMA RunWorkStep ==
  ASSUME HttpInv, RunWork
  PROVE  HttpInv'
<1>1. /\ queued # <<>> /\ queued' = Tail(queued) /\ task = TaskIdle
      /\ UNCHANGED <<task, accepted>> /\ queued' \in Seq(WsSenders \cup {"stop"})
      /\ Len(queued') = Len(queued) - 1
      /\ \A k \in 1..Len(queued') : k + 1 \in 1..Len(queued) /\ queued'[k] = queued[k + 1]
      /\ Head(queued) = queued[1] /\ 1 \in 1..Len(queued)
      /\ Head(queued) \in WsSenders \cup {"stop"}
  BY DEF RunWork, HttpInv, HttpTypeOK
<1>2. CASE Head(queued) = "stop"
  <2>1. /\ session' = [f \in Fds |-> 0] /\ openSessions' = [f \in Fds |-> 0]
        /\ closed' = closed \cup ({openSessions[f] : f \in Fds} \ {0})
        /\ UNCHANGED <<sender, sent>>
    BY <1>2 DEF RunWork
  <2>2. HttpTypeOK'
    <3>1. session' \in [Fds -> Nat] /\ openSessions' \in [Fds -> Nat]
      BY <2>1
    <3>2. UNCHANGED <<accepted, sender, task>> /\ queued' \in Seq(WsSenders \cup {"stop"})
      BY <1>1, <2>1
    <3> QED
      BY <3>1, <3>2 DEF HttpInv, HttpTypeOK
  <2>3. SessionInv'
    BY <1>1, <2>1 DEF HttpInv, HttpTypeOK, SessionInv, TaskIdle
  <2>4. QueuedInv'
    BY <1>1, <2>1 DEF HttpInv, QueuedInv
  <2>5. NoStrayFrame'
    BY <2>1 DEF HttpInv, NoStrayFrame
  <2> QED
    BY <2>2, <2>3, <2>4, <2>5 DEF HttpInv
<1>3. CASE Head(queued) # "stop"
  <2> DEFINE s == Head(queued)
  <2>1. s \in WsSenders /\ sender[s].at # "none"
    BY <1>1, <1>3 DEF HttpInv, QueuedInv
  <2>2. Enqueue(s) /\ UNCHANGED <<httpd, session, openSessions, closed>>
    BY <1>3 DEF RunWork
  <2>3. /\ sender' \in [WsSenders -> [session : Nat, fd : Fds \cup {0},
                                       at : {"none", "idle", "checked", "queued"}]]
        /\ \A t \in WsSenders : /\ sender'[t].session = sender[t].session
                                /\ sender'[t].fd = sender[t].fd
                                /\ sender'[t].at = "none" <=> sender[t].at = "none"
    BY <2>1, <2>2 DEF HttpInv, HttpTypeOK, Enqueue, Answered_
  <2>4. HttpTypeOK' /\ SessionInv'
    BY <1>1, <2>2, <2>3 DEF HttpInv, HttpTypeOK, SessionInv
  <2>5. QueuedInv'
    BY <1>1, <2>3 DEF HttpInv, HttpTypeOK, QueuedInv
  \* A frame that is delivered goes to a session whose flag is not set.
  <2>6. sender[s].session \notin closed => session[sender[s].fd] = sender[s].session
    BY <2>1 DEF HttpInv, SessionInv
  <2>7. NoStrayFrame'
    BY <2>2, <2>6 DEF HttpInv, NoStrayFrame, Enqueue, Delivered
  <2> QED
    BY <2>4, <2>5, <2>7 DEF HttpInv
<1> QED
  BY <1>2, <1>3

-----------------------------------------------------------------------------
\* However sessions come and go while frames are queued, a frame goes to the
\* session its sender was made for or to none.
THEOREM NoFrameStrays == HttpSpec => []NoStrayFrame
<1>1. HttpInv /\ [HttpNext]_httpVars => HttpInv'
  <2> SUFFICES ASSUME HttpInv, [HttpNext]_httpVars PROVE HttpInv'
    OBVIOUS
  <2>1. CASE UNCHANGED httpVars
    BY <2>1 DEF httpVars, HttpInv, HttpTypeOK, SessionInv, QueuedInv, NoStrayFrame
  <2>2. CASE HttpNext
    BY <2>2, StartStopStep, AcceptStep, SenderStep, CloseStep, SendStep, RunWorkStep
    DEF HttpNext
  <2> QED
    BY <2>1, <2>2
<1>2. HttpInv => NoStrayFrame
  BY DEF HttpInv
<1> QED
  BY <1>1, <1>2, HttpStart, PTL DEF HttpSpec

-----------------------------------------------------------------------------
(* ping. *)

Tally == [sent : Nat, heard : Nat]
PingInv ==
  /\ pinging \in BOOLEAN
  /\ pinger \in {"new", "armed"} => pingSession = "made"
  /\ pinger = "armed" => pinging
  /\ pinger \in {"looking", "asleep"} /\ ~pinging => pingSession = "ended" /\ summary = pings
  /\ SummaryIsWhole

LEMMA PingStart == PingInit => PingInv
BY DEF PingInit, PingInv, SummaryIsWhole

LEMMA PingStep == PingInv /\ [PingNext]_pingVars => PingInv'
<1> SUFFICES ASSUME PingInv, [PingNext]_pingVars PROVE PingInv'
  OBVIOUS
<1> USE DEF PingInv, SummaryIsWhole
<1>1. CASE NewSession \/ Arm_ \/ StartSession
  BY <1>1 DEF NewSession, Arm_, StartSession
<1>2. CASE LookPing \/ EndSession \/ Returned
  BY <1>2 DEF LookPing, EndSession, Returned
<1>3. CASE OnPingEnd
  BY <1>3 DEF OnPingEnd
<1>4. ASSUME NEW answered \in BOOLEAN, OnPing(answered) PROVE PingInv'
  BY <1>4 DEF OnPing
<1>5. CASE UNCHANGED pingVars
  BY <1>5 DEF pingVars
<1> QED
  BY <1>1, <1>2, <1>3, <1>4, <1>5 DEF PingNext

-----------------------------------------------------------------------------
(* The HTTP client. *)

Wire == [len : {Chunked, 0, 1}, data : Nat, ends : 0..2, late : {0, 1}]
HcTypeOK ==
  /\ state \in {"New", "Request", "Response"}
  /\ promise \in {Chunked, 0, 1} /\ wire \in Wire

\* Only the policy "all" follows for a chunked body; what is sent is as promised,
\* and before the answer is fetched the body has no end.
RequestInv ==
  /\ follow /\ promise = Chunked => policy = "all"
  /\ fetching => state = "Request" /\ headers = {}
  /\ state = "Request" => wire.len = promise
  /\ redirected /\ ~spoiled /\ state = "Request" => fetching /\ follow
  /\ state = "Request" /\ ~fetching /\ ~spoiled => wire.ends = 0 /\ wire.late = 0

HcInv == HcTypeOK /\ RequestInv /\ BodyAsPromised /\ HeadersAreOwn

LEMMA HcStart == HcInit => HcInv
BY DEF HcInit, HcInv, HcTypeOK, RequestInv, BodyAsPromised, HeadersAreOwn, Wire, Chunked, Opened

LEMMA HcStep == HcInv /\ [HcNext]_hcVars => HcInv'
<1> SUFFICES ASSUME HcInv, [HcNext]_hcVars PROVE HcInv'
  OBVIOUS
<1> USE HttpClientAssumption
    DEF HcInv, HcTypeOK, RequestInv, BodyAsPromised, HeadersAreOwn, Chunked, config
<1>1. ASSUME NEW m \in {"get", "post", "put"}, NEW len \in {Chunked, 0, 1},
             InitiateRequest(m, len)
      PROVE  HcInv'
  <2>a. promise' \in {Chunked, 0, 1} /\ ~fetching
    BY <1>1 DEF InitiateRequest
  <2>b. promise' = Chunked => m = "post" \/ len # Chunked
    BY <1>1 DEF InitiateRequest
  <2>c. follow' => policy = "all" \/ m = "get"
    BY <1>1, Zenon DEF InitiateRequest
  <2>d. promise' = Chunked => len = Chunked
    BY <1>1 DEF InitiateRequest
  <2>0. /\ promise' \in {Chunked, 0, 1} /\ ~fetching
        /\ promise' = Chunked /\ follow' => policy = "all"
    BY <2>a, <2>b, <2>c, <2>d
  <2>1. CASE wire' = Opened(promise') /\ state' = "Request"
    <3>1. wire' \in Wire /\ wire'.len = promise' /\ wire'.ends = 0 /\ wire'.late = 0
      BY <2>0, <2>1 DEF Opened, Wire
    <3> QED
      BY <1>1, <2>0, <2>1, <3>1 DEF InitiateRequest
  <2>2. CASE UNCHANGED <<wire, state>>
    BY <1>1, <2>0, <2>2 DEF InitiateRequest
  <2> QED
    BY <1>1, <2>1, <2>2 DEF InitiateRequest
<1>2. ASSUME NEW n \in 0..MaxBody, WriteBody(n) PROVE HcInv'
  <2>1. CASE ~spoiled
    <3>1. wire' = [wire EXCEPT !.data = @ + n]
      BY <1>2, <2>1 DEF WriteBody, Data, Wire
    <3>2. wire' \in Wire /\ wire'.len = wire.len /\ wire'.ends = 0 /\ wire'.late = 0
      BY <1>2, <2>1, <3>1 DEF WriteBody, Wire
    <3> QED
      BY <1>2, <2>1, <3>2 DEF WriteBody
  <2>2. CASE spoiled
    <3>1. wire' \in Wire /\ wire'.len = wire.len
      BY <1>2 DEF WriteBody, Data, Wire
    <3> QED
      BY <1>2, <2>2, <3>1 DEF WriteBody
  <2> QED
    BY <2>1, <2>2
<1>3. CASE InitiateResponse
  <2>1. /\ wire' \in Wire /\ wire'.len = wire.len
        /\ wire.ends = 0 => wire'.ends = IF WritesChunks THEN 1 ELSE 0
        /\ wire.late = 0 => wire'.late = 0
    BY <1>3 DEF InitiateResponse, End, Wire
  <2> QED
    BY <1>3, <2>1 DEF InitiateResponse, WritesChunks
<1>4. CASE FetchFails
  BY <1>4 DEF FetchFails
<1>5. ASSUME NEW isRedirect \in BOOLEAN, FetchHeaders(isRedirect) PROVE HcInv'
  <2>1. CASE isRedirect /\ follow
    <3>1. wire' \in Wire /\ wire'.len = promise
      BY <1>5, <2>1 DEF FetchHeaders, FollowRedirect, Opened, Wire
    <3> QED
      BY <1>5, <2>1, <3>1 DEF FetchHeaders, FollowRedirect
  <2>2. CASE ~(isRedirect /\ follow)
    BY <1>5, <2>2 DEF FetchHeaders
  <2> QED
    BY <2>1, <2>2
<1>6. CASE UNCHANGED hcVars
  BY <1>6 DEF hcVars
<1> QED
  BY <1>1, <1>2, <1>3, <1>4, <1>5, <1>6 DEF HcNext

-----------------------------------------------------------------------------
(* The answer to an HTTP request. *)

Response == [whole : Nat, chunks : Nat, lasts : Nat, late : {0, 1}]
ReplyTypeOK ==
  /\ place \in {"idle", "handler", "completing", "failing"}
  /\ reply \in Response /\ result \in {"ok", "err"}

\* Until the response is completed it has no end, and while its headers are kept
\* nothing of it is sent.
ReplyInv ==
  /\ ReplyTypeOK /\ RepliedOnce
  /\ place # "idle" => reply.whole = 0 /\ reply.lasts = 0
  /\ place # "idle" /\ (kept \/ inRequest) => reply.chunks = 0
  /\ place = "completing" => result = "ok"
  /\ place = "failing" => result = "err" \/ broken

LEMMA ReplyStart == ReplyInit => ReplyInv
<1> SUFFICES ASSUME ReplyInit PROVE ReplyInv
  OBVIOUS
<1>1. reply \in Response /\ reply.whole = 0 /\ reply.lasts = 0 /\ reply.late = 0
  BY DEF ReplyInit, Silence, Response
<1> QED
  BY <1>1 DEF ReplyInit, ReplyInv, ReplyTypeOK, RepliedOnce

\* The pieces of a response.
LEMMA Pieces ==
  ASSUME NEW r \in Response
  PROVE  /\ r.whole \in Nat /\ r.chunks \in Nat /\ r.lasts \in Nat /\ r.late \in {0, 1}
         /\ ~Ended(r) => /\ Chunk(r) \in Response /\ Chunk(r) # r
                        /\ Chunk(r).whole = r.whole /\ Chunk(r).lasts = r.lasts
                        /\ Chunk(r).late = r.late
         /\ LastChunk(r) \in Response /\ LastChunk(r) # r
         /\ LastChunk(r).whole = r.whole /\ LastChunk(r).lasts = r.lasts + 1
         /\ LastChunk(r).late = r.late
         /\ Whole(r) \in Response /\ Whole(r) # r
         /\ Whole(r).whole = r.whole + 1 /\ Whole(r).lasts = r.lasts
         /\ r.chunks = 0 => Whole(r).late = r.late
<1>1. r.whole \in Nat /\ r.chunks \in Nat /\ r.lasts \in Nat /\ r.late \in {0, 1}
  BY DEF Response
<1>2. ~Ended(r) => /\ Chunk(r) \in Response /\ Chunk(r).chunks = r.chunks + 1
                   /\ Chunk(r).whole = r.whole /\ Chunk(r).lasts = r.lasts
                   /\ Chunk(r).late = r.late
  BY DEF Response, Chunk
<1>3. /\ LastChunk(r) \in Response
      /\ LastChunk(r).whole = r.whole /\ LastChunk(r).lasts = r.lasts + 1
      /\ LastChunk(r).late = r.late
  BY DEF Response, LastChunk
<1>4. /\ Whole(r) \in Response
      /\ Whole(r).whole = r.whole + 1 /\ Whole(r).lasts = r.lasts
      /\ r.chunks = 0 => Whole(r).late = r.late
  <2> DEFINE late == IF r.chunks > 0 THEN 1 ELSE r.late
  <2>1. late \in {0, 1} /\ (r.chunks = 0 => late = r.late)
    BY <1>1
  <2>2. Whole(r) = [[r EXCEPT !.whole = r.whole + 1] EXCEPT !.late = late]
    BY DEF Whole
  <2> HIDE DEF late
  <2> DEFINE w == [r EXCEPT !.whole = r.whole + 1]
  <2>3. /\ w \in Response /\ w.whole = r.whole + 1 /\ w.lasts = r.lasts
    BY <1>1 DEF Response
  <2>4. Whole(r) = [w EXCEPT !.late = late]
    BY <2>2
  <2> HIDE DEF w
  <2> QED
    BY <2>1, <2>3, <2>4 DEF Response
<1>5. ~Ended(r) => Chunk(r) # r
  BY <1>1, <1>2
<1>6. LastChunk(r) # r
  BY <1>1, <1>3
<1>7. Whole(r) # r
  BY <1>1, <1>4
<1> QED
  BY <1>1, <1>2, <1>3, <1>4, <1>5, <1>6, <1>7

\* How a response comes to its end.
LEMMA Ending ==
  ASSUME NEW r \in Response, r.whole = 0, r.lasts = 0, r.late = 0
  PROVE  /\ r.chunks = 0 => /\ Whole(r) \in Response /\ Whole(r) # r
                           /\ Whole(r).whole = 1 /\ Whole(r).lasts = 0 /\ Whole(r).late = 0
         /\ LastChunk(r) \in Response /\ LastChunk(r) # r
         /\ LastChunk(r).whole = 0 /\ LastChunk(r).lasts = 1 /\ LastChunk(r).late = 0
<1>1. /\ LastChunk(r) \in Response /\ LastChunk(r) # r
      /\ LastChunk(r).whole = r.whole /\ LastChunk(r).lasts = r.lasts + 1
      /\ LastChunk(r).late = r.late
  BY Pieces
<1>2. /\ Whole(r) \in Response /\ Whole(r) # r
      /\ Whole(r).whole = r.whole + 1 /\ Whole(r).lasts = r.lasts
      /\ r.chunks = 0 => Whole(r).late = r.late
  BY Pieces
<1>3. 0 + 1 = 1
  OBVIOUS
<1>4. /\ Whole(r).whole = 1 /\ Whole(r).lasts = 0 /\ LastChunk(r).lasts = 1
      /\ LastChunk(r).late = 0 /\ LastChunk(r).whole = 0
  BY <1>1, <1>2, <1>3
<1>5. r.chunks = 0 => Whole(r).late = 0
  BY <1>2
<1> QED
  BY <1>1, <1>2, <1>4, <1>5

LEMMA ReplyStep == ReplyInv /\ [ReplyNext]_replyVars => ReplyInv'
<1> SUFFICES ASSUME ReplyInv, [ReplyNext]_replyVars PROVE ReplyInv'
  OBVIOUS
<1> USE DEF ReplyInv, ReplyTypeOK, RepliedOnce
<1>0. place # "idle" => ~Ended(reply)
  BY DEF Ended
<1>1. CASE HandleReq
  <2>1. reply' \in Response /\ reply'.whole = 0 /\ reply'.lasts = 0 /\ reply'.late = 0
        /\ reply'.chunks = 0
    BY <1>1 DEF HandleReq, Silence, Response
  <2> QED
    BY <1>1, <2>1 DEF HandleReq
<1>2. CASE InitiateReply
  <2>1. reply.chunks = 0
    BY <1>2, Pieces DEF InitiateReply
  <2> QED
    BY <1>2, <2>1 DEF InitiateReply
<1>3. CASE CompleteReply
  <2>1. CASE UNCHANGED reply /\ broken' = TRUE
    BY <1>3, <2>1 DEF CompleteReply
  <2>2. CASE reply' = Whole(reply) /\ UNCHANGED broken /\ kept
    <3>1. reply.whole = 0 /\ reply.lasts = 0 /\ reply.late = 0 /\ reply.chunks = 0
      BY <1>3, <2>2 DEF CompleteReply
    <3>2. /\ reply' \in Response /\ reply'.late = 0 /\ reply'.whole = 1 /\ reply'.lasts = 0
          /\ reply' # reply
      BY <2>2, <3>1, Ending
    <3> QED
      BY <1>3, <3>2 DEF CompleteReply
  <2>3. CASE reply' = LastChunk(reply) /\ UNCHANGED broken
    <3>1. reply.whole = 0 /\ reply.lasts = 0 /\ reply.late = 0
      BY <1>3, <2>3 DEF CompleteReply
    <3>2. /\ reply' \in Response /\ reply'.late = 0 /\ reply'.whole = 0 /\ reply'.lasts = 1
          /\ reply' # reply
      BY <2>3, <3>1, Ending
    <3> QED
      BY <1>3, <3>2 DEF CompleteReply
  <2> QED
    BY <1>3, <2>1, <2>2, <2>3 DEF CompleteReply, Sends
<1>4. CASE HandleError
  <2>1. CASE UNCHANGED reply
    BY <1>4, <2>1 DEF HandleError, Sends
  <2>2. CASE reply' = Chunk(reply) /\ UNCHANGED broken
    BY <1>0, <1>4, <2>2, Pieces DEF HandleError
  <2> QED
    BY <1>4, <2>1, <2>2 DEF HandleError, Sends
<1>5. ASSUME NEW empty \in BOOLEAN, WriteReply(empty) PROVE ReplyInv'
  <2>1. CASE UNCHANGED reply
    BY <1>5, <2>1 DEF WriteReply, Sends
  <2>2. CASE reply' = Chunk(reply) /\ UNCHANGED broken
    BY <1>0, <1>5, <2>2, Pieces DEF WriteReply
  <2> QED
    BY <1>5, <2>1, <2>2 DEF WriteReply, Sends
<1>6. ASSUME NEW r \in {"ok", "err"}, HandlerReturns(r) PROVE ReplyInv'
  BY <1>6 DEF HandlerReturns
<1>7. CASE UNCHANGED replyVars
  BY <1>7 DEF replyVars
<1> QED
  BY <1>1, <1>2, <1>3, <1>4, <1>5, <1>6, <1>7 DEF ReplyNext

-----------------------------------------------------------------------------
(* The WebSocket client. *)

\* Of the events that were posted, all were returned but the one in the box, unless
\* the reader holds that one.
Posted == frames - (IF wsTask = "posting" THEN 1 ELSE 0)
FrameInv ==
  /\ frames \in Nat /\ box \in Nat /\ held \in Nat /\ got \in Seq(Nat)
  /\ wsTask \in {"idle", "posting"} /\ wsReader \in {"out", "waiting", "holding"}
  /\ wsTask = "posting" => frames > 0
  /\ box = 0 \/ box = Posted
  /\ Len(got) = Posted - (IF box # 0 /\ wsReader # "holding" THEN 1 ELSE 0)
  /\ wsReader = "holding" => box # 0

WsInv == FrameInv /\ EachFrameOnce

LEMMA WsStart == WsInit => WsInv
BY DEF WsInit, WsInv, FrameInv, Posted, EachFrameOnce

\* One more event is returned, in its turn.
LEMMA GotGrows ==
  ASSUME NEW g \in Seq(Nat), NEW n \in Nat, n = Len(g) + 1, \A i \in DOMAIN g : g[i] = i
  PROVE  /\ Append(g, n) \in Seq(Nat) /\ Len(Append(g, n)) = Len(g) + 1
         /\ \A i \in DOMAIN Append(g, n) : Append(g, n)[i] = i
<1>1. Len(g) \in Nat /\ DOMAIN g = 1..Len(g)
  OBVIOUS
<1>2. /\ Append(g, n) \in Seq(Nat) /\ Len(Append(g, n)) = Len(g) + 1
      /\ \A i \in 1..Len(g) : Append(g, n)[i] = g[i]
      /\ Append(g, n)[Len(g) + 1] = n
  BY AppendProperties
<1>3. DOMAIN Append(g, n) = 1..Len(g) + 1
  BY <1>1, <1>2
<1> QED
  BY <1>1, <1>2, <1>3

LEMMA WsStep == WsInv /\ [WsNext]_wsVars => WsInv'
<1> SUFFICES ASSUME WsInv, [WsNext]_wsVars PROVE WsInv'
  OBVIOUS
<1> USE DEF WsInv, FrameInv, Posted, EachFrameOnce
<1>1. CASE NewWsClient \/ RaiseFrame \/ AskFrame
  <2>1. CASE NewWsClient
    BY <2>1 DEF NewWsClient
  <2>2. CASE RaiseFrame
    BY <2>2 DEF RaiseFrame
  <2>3. CASE AskFrame
    BY <2>3 DEF AskFrame
  <2> QED
    BY <1>1, <2>1, <2>2, <2>3
<1>2. CASE PostFrame
  <2>1. CASE box # 0
    BY <1>2, <2>1 DEF PostFrame
  <2>2. CASE box = 0
    <3>1. /\ wsTask = "posting" /\ box' = frames /\ wsTask' = "idle"
          /\ UNCHANGED <<frames, wsReader, held, got>>
      BY <1>2, <2>2 DEF PostFrame
    <3>2. wsReader # "holding" /\ Len(got) = frames - 1
      BY <2>2, <3>1
    <3>3. EachFrameOnce'
      BY <3>1, <3>2
    <3> QED
      BY <3>1, <3>2, <3>3
  <2> QED
    BY <2>1, <2>2
<1>3. CASE TakeFrame
  <2>1. CASE box = 0
    BY <1>3, <2>1 DEF TakeFrame
  <2>2. CASE box # 0
    <3>1. got' = Append(got, box) /\ UNCHANGED <<wsTask, frames>> /\ wsReader = "waiting"
      BY <1>3, <2>2 DEF TakeFrame
    <3>2. /\ Len(got) + 1 = Posted /\ box = Posted /\ Posted' = Posted
          /\ Len(got) \in Nat
      BY <2>2, <3>1
    <3>3. /\ got' \in Seq(Nat) /\ Len(got') = Len(got) + 1
          /\ \A i \in DOMAIN got' : got'[i] = i
      BY <3>1, <3>2, GotGrows
    <3>6. \/ wsReader' = "holding" /\ held' = box /\ box' = box
          \/ wsReader' = "out" /\ box' = 0 /\ held' = held
      BY <1>3, <2>2 DEF TakeFrame
    <3>7. EachFrameOnce'
      BY <3>3, <3>6
    <3>8. FrameInv'
      BY <2>2, <3>1, <3>2, <3>3, <3>6
    <3> QED
      BY <3>7, <3>8
  <2> QED
    BY <2>1, <2>2
<1>4. CASE DropFrame \/ DropWsClient
  <2>1. CASE DropFrame
    BY <2>1 DEF DropFrame
  <2>2. CASE DropWsClient
    BY <2>2 DEF DropWsClient
  <2> QED
    BY <1>4, <2>1, <2>2
<1>5. CASE UNCHANGED wsVars
  BY <1>5 DEF wsVars
<1> QED
  BY <1>1, <1>2, <1>3, <1>4, <1>5 DEF WsNext

-----------------------------------------------------------------------------
(* TLS. *)

\* A call is under way only on a socket that is there.
TlsInv ==
  /\ tlsAt \in {"none", "adopted", "up", "failed", "gone"} /\ closes \in Nat
  /\ tlsTask \in [Sides -> {"idle", "trying", "read", "write"}]
  /\ \A s \in Sides : tlsTask[s] # "idle" => tlsAt \in {"adopted", "up"}
  /\ SocketClosedOnce

LEMMA TlsStart == TlsInit => TlsInv
BY DEF TlsInit, TlsInv, SocketClosedOnce

LEMMA TlsStep == TlsInv /\ [TlsNext]_tlsVars => TlsInv'
<1> SUFFICES ASSUME TlsInv, [TlsNext]_tlsVars PROVE TlsInv'
  OBVIOUS
<1> USE DEF TlsInv, SocketClosedOnce, callVars
<1>1. CASE Adopt
  BY <1>1 DEF Adopt
<1>2. CASE DropTls
  BY <1>2 DEF DropTls
<1>3. ASSUME NEW v, SocketBecomes(v) PROVE TlsInv'
  BY <1>3 DEF SocketBecomes
<1>4. ASSUME NEW s \in Sides, NEW v, CallTls(s, v) PROVE TlsInv'
  BY <1>4 DEF CallTls
<1>5. ASSUME NEW s \in Sides, NEW v, GoOnTls(s, v) PROVE TlsInv'
  BY <1>5 DEF GoOnTls
<1>6. ASSUME NEW s \in Sides, NEW known \in BOOLEAN, WaitTls(s, known) PROVE TlsInv'
  BY <1>6 DEF WaitTls, Awaited
<1>7. ASSUME NEW s \in Sides, PollWakes(s) \/ CallGivesUp(s) PROVE TlsInv'
  BY <1>7 DEF PollWakes, CallGivesUp
<1>8. CASE UNCHANGED tlsVars
  BY <1>8 DEF tlsVars
<1> QED
  BY <1>1, <1>2, <1>3, <1>4, <1>5, <1>6, <1>7, <1>8 DEF TlsNext

-----------------------------------------------------------------------------
(* Ethernet. *)

\* EspEth has glue only while it is attached, and the driver is inside it.
GlueInv ==
  /\ ethMade \in Nat
  /\ ~refused => (~wrapped \/ ethOp = "swap" => glue = 0)

EthInv == GlueInv /\ EthPointsAlive

LEMMA EthStart == EthInit => EthInv
BY DEF EthInit, EthInv, GlueInv, EthPointsAlive

LEMMA EthStep == EthInv /\ [EthNext]_ethVars => EthInv'
<1> SUFFICES ASSUME EthInv, [EthNext]_ethVars PROVE EthInv'
  OBVIOUS
<1> USE DEF EthInv, GlueInv, EthPointsAlive, boxVars
<1>1. CASE NewEth \/ HandleEth \/ AwaitLink \/ WaitEnds_
  BY <1>1 DEF NewEth, HandleEth, AwaitLink, WaitEnds_
<1>2. CASE FrameArrives
  BY <1>2 DEF FrameArrives
<1>3. ASSUME NEW e \in {"connected", "disconnected"}, LinkChanges(e) PROVE EthInv'
  BY <1>3 DEF LinkChanges
<1>4. ASSUME NEW op \in {"idle", "start", "stop"}, StartEth(op) \/ StopEth(op),
             op = "idle" \/ op = "start" \/ op = "stop"
      PROVE  EthInv'
  BY <1>4 DEF StartEth, StopEth
<1>5. CASE SetRx
  BY <1>5 DEF SetRx
<1>6. CASE KeepRx
  BY <1>6 DEF KeepRx
<1>7. CASE WrapEth
  BY <1>7 DEF WrapEth, AttachNetif
<1>8. CASE DetachNetif
  BY <1>8 DEF DetachNetif
<1>9. CASE DropEspEth
  BY <1>9 DEF DropEspEth
<1>10. CASE DropEth
  BY <1>10 DEF DropEth
<1>11. CASE UNCHANGED ethVars
  BY <1>11 DEF ethVars
<1> QED
  BY <1>1, <1>2, <1>3, <1>4, <1>5, <1>6, <1>7, <1>8, <1>9, <1>10, <1>11 DEF EthNext

-----------------------------------------------------------------------------
(* Network interfaces. *)

NetifInv ==
  /\ netif \in [Keys -> {"none", "made", "own"}]
  /\ NetifsOwned

LEMMA NetifStart == NetifInit => NetifInv
BY DEF NetifInit, NetifInv, NetifsOwned

LEMMA NetifStep == NetifInv /\ [NetifNext]_netifVars => NetifInv'
<1> SUFFICES ASSUME NetifInv, [NetifNext]_netifVars PROVE NetifInv'
  OBVIOUS
<1> USE DEF NetifInv, NetifsOwned, upVars, linkVars
<1>1. CASE InitStack \/ DeserializeIp \/ LookUp \/ UpTimeout \/ UpReturns
  BY <1>1 DEF InitStack, DeserializeIp, LookUp, UpTimeout, UpReturns
<1>2. ASSUME NEW e, OtherIpEvent(e) PROVE NetifInv'
  BY <1>2 DEF OtherIpEvent
<1>3. ASSUME NEW k \in Keys, NEW conf, NewNetif(k, conf) PROVE NetifInv'
  BY <1>3 DEF NewNetif
<1>4. ASSUME NEW k \in Keys, SetNames(k) PROVE NetifInv'
  BY <1>4 DEF SetNames
<1>5. ASSUME NEW k \in Keys, FailNames(k) \/ DropNetif(k) PROVE NetifInv'
  BY <1>5 DEF FailNames, DropNetif, Destroyed
<1>6. ASSUME NEW k \in Keys, Links(k) \/ Addresses(k) \/ AwaitUp(k) PROVE NetifInv'
  BY <1>6 DEF Links, Addresses, AwaitUp
<1>7. CASE UNCHANGED netifVars
  BY <1>7 DEF netifVars
<1> QED
  BY <1>1, <1>2, <1>3, <1>4, <1>5, <1>6, <1>7 DEF NetifNext

-----------------------------------------------------------------------------
(* mDNS. *)

\* What mDNS keeps belongs to the holder, or there is nothing.
Advert == [by : MdnsTakers, port : 1..2, txt : SUBSET TxtKeys]
Query == [room : Nat, left : Nat, copied : Nat]
MdnsInv ==
  /\ mdnsHolder \in MdnsTakers \cup {0}
  /\ \A s \in DOMAIN adverts : adverts[s] \in Advert
  /\ mdnsHolder = 0 => adverts = Nothing /\ mdnsHost = 0
  /\ lists \in Nat /\ query \in Query
  /\ MdnsLeavesNothing

LEMMA NothingThere == DOMAIN Nothing = {}
BY DEF Nothing

LEMMA MdnsStart == MdnsInit => MdnsInv
BY NothingThere DEF MdnsInit, MdnsInv, MdnsLeavesNothing, Query, NoQuery

\* One more result is copied.
LEMMA CopyKeeps ==
  ASSUME NEW q \in Query, q.left > 0
  PROVE  /\ [q EXCEPT !.left = q.left - 1, !.copied = q.copied + 1] \in Query
         /\ [q EXCEPT !.left = q.left - 1, !.copied = q.copied + 1] # NoQuery
         /\ q # NoQuery
<1> DEFINE r == [q EXCEPT !.left = q.left - 1, !.copied = q.copied + 1]
<1>1. q.left - 1 \in Nat /\ q.copied + 1 \in Nat /\ q.copied + 1 # 0
  BY DEF Query
<1>2. r \in Query /\ r.copied = q.copied + 1
  BY <1>1 DEF Query
<1>3. NoQuery.copied = 0 /\ NoQuery.left = 0
  BY DEF NoQuery
<1> HIDE DEF r
<1>4. r # NoQuery /\ q # NoQuery
  BY <1>1, <1>2, <1>3
<1> QED
  BY <1>2, <1>4 DEF r

LEMMA MdnsStep == MdnsInv /\ [MdnsNext]_mdnsVars => MdnsInv'
<1> SUFFICES ASSUME MdnsInv, [MdnsNext]_mdnsVars PROVE MdnsInv'
  OBVIOUS
<1> USE MdnsAssumption, NothingThere
    DEF MdnsInv, MdnsLeavesNothing, advertVars, resultVars
<1>1. ASSUME NEW t \in MdnsTakers, TakeMdns(t) PROVE MdnsInv'
  BY <1>1 DEF TakeMdns
<1>2. CASE DropMdns \/ SetMdnsName
  BY <1>2 DEF DropMdns, SetMdnsName
<1>3. ASSUME NEW s, NEW port \in 1..2, NEW txt \in SUBSET TxtKeys, AddService(s, port, txt)
      PROVE  MdnsInv'
  <2>1. [by |-> mdnsHolder, port |-> port, txt |-> txt] \in Advert
    BY <1>3 DEF AddService, Advert
  <2>2. [by |-> mdnsHolder, port |-> port, txt |-> txt].by = mdnsHolder
    OBVIOUS
  <2> QED
    BY <1>3, <2>1, <2>2 DEF AddService
<1>4. ASSUME NEW s, ChangeService(s) PROVE MdnsInv'
  <2>1. ASSUME NEW port \in 1..2, adverts' = [adverts EXCEPT ![s].port = port]
        PROVE  \A x \in DOMAIN adverts : adverts'[x] \in Advert /\ adverts'[x].by = adverts[x].by
    BY <2>1 DEF Advert
  <2>2. ASSUME NEW txt \in SUBSET TxtKeys,
               \/ adverts' = [adverts EXCEPT ![s].txt = txt]
               \/ \E k \in TxtKeys : adverts' = [adverts EXCEPT ![s].txt = @ \cup {k}]
               \/ \E k \in TxtKeys : adverts' = [adverts EXCEPT ![s].txt = @ \ {k}]
        PROVE  \A x \in DOMAIN adverts : adverts'[x] \in Advert /\ adverts'[x].by = adverts[x].by
    BY <2>2 DEF Advert
  <2>3. mdnsHolder # 0 /\ UNCHANGED <<mdnsHost, mdnsHolder, query, lists>>
    BY <1>4 DEF ChangeService
  <2>4. DOMAIN adverts' = DOMAIN adverts
    BY <1>4 DEF ChangeService
  <2>5. \A x \in DOMAIN adverts : adverts'[x] \in Advert /\ adverts'[x].by = adverts[x].by
    BY <1>4, <2>1, <2>2 DEF ChangeService
  <2> QED
    BY <2>3, <2>4, <2>5
<1>5. ASSUME NEW gone, RemoveServices(gone) PROVE MdnsInv'
  BY <1>5 DEF RemoveServices, Restrict
<1>6. ASSUME NEW room \in 0..LastResult, NEW found \in 1..LastResult, AskMdns(room, found)
      PROVE  MdnsInv'
  <2>1. /\ query = NoQuery /\ mdnsHolder # 0 /\ lists' = lists + 1
        /\ UNCHANGED <<mdnsHolder, mdnsHost, adverts>>
        /\ query' = [room |-> room, left |-> found, copied |-> 0]
    BY <1>6 DEF AskMdns
  <2>2. query' \in Query /\ query'.left # 0
    BY <2>1 DEF Query
  <2>3. query' # NoQuery
    BY <2>2 DEF NoQuery
  <2> QED
    BY <2>1, <2>2, <2>3
<1>7. CASE CopyResult
  <2>1. /\ query.left > 0 /\ UNCHANGED <<lists, mdnsHolder, mdnsHost, adverts>>
        /\ query' = [query EXCEPT !.left = query.left - 1, !.copied = query.copied + 1]
    BY <1>7 DEF CopyResult
  <2>2. query' \in Query /\ query # NoQuery /\ query' # NoQuery
    BY <2>1, CopyKeeps
  <2> QED
    BY <2>1, <2>2
<1>8. CASE FreeResults
  <2>1. NoQuery \in Query
    BY DEF NoQuery, Query
  <2> QED
    BY <1>8, <2>1 DEF FreeResults
<1>9. CASE UNCHANGED mdnsVars
  BY <1>9 DEF mdnsVars
<1> QED
  BY <1>1, <1>2, <1>3, <1>4, <1>5, <1>6, <1>7, <1>8, <1>9 DEF MdnsNext

-----------------------------------------------------------------------------

-----------------------------------------------------------------------------
(* SNTP. *)

SntpTypeOK ==
  /\ sntpAt \in [SntpTakers -> {"out", "new", "init", "held", "drop"}]
  /\ syncCb \in SntpTakers \cup {0} /\ syncIn \in SntpTakers \cup {0}

\* Who is not out is the only one, and has TAKEN or its lock; the closure that
\* runs is the one that is stored.
SntpOwner ==
  /\ \A t \in SntpTakers : /\ sntpAt[t] \in {"new", "init"} => sntpLock = t
                           /\ sntpAt[t] \in {"held", "drop"} => sntpTaken
  /\ \A t, u \in SntpTakers : sntpAt[t] # "out" /\ sntpAt[u] # "out" => t = u
  /\ syncIn # 0 => syncIn = syncCb

SntpInv == SntpTypeOK /\ SntpOwner /\ SntpClosures

LEMMA SntpStart == SntpInit => SntpInv
BY DEF SntpInit, SntpInv, SntpTypeOK, SntpOwner, SntpClosures

LEMMA SntpStep == SntpInv /\ [SntpNext]_sntpVars => SntpInv'
<1> SUFFICES ASSUME SntpInv, [SntpNext]_sntpVars PROVE SntpInv'
  OBVIOUS
<1> USE SntpAssumption DEF SntpInv, SntpTypeOK, SntpOwner, SntpClosures, SntpGoes
<1>1. CASE TimeIsSet \/ SyncCallback \/ SyncReturns
  BY <1>1 DEF TimeIsSet, SyncCallback, SyncReturns
<1>2. ASSUME NEW t \in SntpTakers, NEW v, NewSntp(t, v) PROVE SntpInv'
  BY <1>2 DEF NewSntp
<1>3. ASSUME NEW t \in SntpTakers, StoreSync(t) PROVE SntpInv'
  BY <1>3 DEF StoreSync
<1>4. ASSUME NEW t \in SntpTakers, InitSntp(t) PROVE SntpInv'
  BY <1>4 DEF InitSntp
<1>5. ASSUME NEW t \in SntpTakers, DropSntp(t) PROVE SntpInv'
  BY <1>5 DEF DropSntp
<1>6. ASSUME NEW t \in SntpTakers, UnsubscribeSync(t) PROVE SntpInv'
  BY <1>6 DEF UnsubscribeSync
<1>7. CASE UNCHANGED sntpVars
  BY <1>7 DEF sntpVars
<1> QED
  BY <1>1, <1>2, <1>3, <1>4, <1>5, <1>6, <1>7 DEF SntpNext

-----------------------------------------------------------------------------
(* ESP-NOW. *)

NowTypeOK ==
  /\ nowAt \in [NowTakers -> {"out", "held", "register_recv", "register_send",
                             "clear_recv", "clear_send", "drop_recv", "drop_send"}]
  /\ DOMAIN nowReg = Kinds /\ nowCb \in [Kinds -> NowTakers \cup {0}]

\* Who is not out is the only one, and what it has still to do says what was done.
NowOwner ==
  /\ \A t \in NowTakers : nowAt[t] # "out" => nowTaken
  /\ \A t, u \in NowTakers : nowAt[t] # "out" /\ nowAt[u] # "out" => t = u
  /\ \A t \in NowTakers, k \in Kinds :
       /\ nowAt[t] = RegisterOf[k] => nowCb[k] = t
       /\ nowAt[t] = ClearOf[k] => ~nowReg[k]
       /\ nowAt[t] \in {"drop_recv", "drop_send"} => ~nowReg[k]
  /\ \A t \in NowTakers : nowAt[t] = "drop_recv" => nowCb["send"] = 0

NowInv == NowTypeOK /\ NowOwner /\ NowClosures

\* The names of what is left to do.
LEMMA NowNames ==
  /\ RegisterOf["recv"] = "register_recv" /\ RegisterOf["send"] = "register_send"
  /\ ClearOf["recv"] = "clear_recv" /\ ClearOf["send"] = "clear_send"
  /\ DropOf["recv"] = "drop_recv" /\ DropOf["send"] = "drop_send"
BY DEF RegisterOf, ClearOf, DropOf

LEMMA NowStart == NowInit => NowInv
BY NowNames DEF NowInit, NowInv, NowTypeOK, NowOwner, NowClosures, Kinds

LEMMA NowStep == NowInv /\ [NowNext]_nowVars => NowInv'
<1> SUFFICES ASSUME NowInv, [NowNext]_nowVars PROVE NowInv'
  OBVIOUS
<1> USE NowAssumption, NowNames
    DEF NowInv, NowTypeOK, NowOwner, NowClosures, NowGoes, Kinds
<1>1. ASSUME NEW t \in NowTakers, TakeNow(t) PROVE NowInv'
  <2>1. \A u \in NowTakers : nowAt[u] = "out" /\ nowAt'[u] = (IF u = t THEN "held" ELSE "out")
    BY <1>1 DEF TakeNow
  <2>2. NowTypeOK' /\ NowClosures'
    BY <1>1, <2>1 DEF TakeNow
  <2>3. NowOwner'
    BY <1>1, <2>1 DEF TakeNow
  <2> QED
    BY <2>2, <2>3
<1>2. ASSUME NEW t \in NowTakers, DropNow(t) PROVE NowInv'
  <2>1. CASE nowPanic' = TRUE /\ UNCHANGED <<nowAt, nowReg>>
    BY <1>2, <2>1 DEF DropNow
  <2>2. CASE NowGoes(t, DropOf["send"]) /\ nowReg' = [k \in Kinds |-> FALSE]
    <3>1. NowTypeOK'
      BY <1>2, <2>2 DEF DropNow
    <3>2. NowOwner' /\ NowClosures'
      BY <1>2, <2>2 DEF DropNow
    <3> QED
      BY <3>1, <3>2
  <2> QED
    BY <1>2, <2>1, <2>2 DEF DropNow
<1>3. ASSUME NEW t \in NowTakers, NEW k \in Kinds, StoreNow(t, k) PROVE NowInv'
  BY <1>3 DEF StoreNow
<1>4. ASSUME NEW t \in NowTakers, NEW k \in Kinds, RegisterNow(t, k) PROVE NowInv'
  BY <1>4 DEF RegisterNow
<1>5. ASSUME NEW t \in NowTakers, NEW k \in Kinds, UnregisterNow(t, k) PROVE NowInv'
  BY <1>5 DEF UnregisterNow
<1>6. ASSUME NEW t \in NowTakers, NEW k \in Kinds, ClearNow(t, k) PROVE NowInv'
  BY <1>6 DEF ClearNow
<1>7. ASSUME NEW t \in NowTakers, NEW k \in Kinds, DropClosure(t, k) PROVE NowInv'
  <2>1. \A j \in Kinds : ~nowReg[j] /\ ~nowReg'[j]
    BY <1>7 DEF DropClosure
  <2>2. CASE k = "send"
    <3>0. /\ nowAt' = [nowAt EXCEPT ![t] = "drop_recv"] /\ nowReg' = nowReg
          /\ nowCb' = [nowCb EXCEPT ![k] = 0]
      BY <1>7, <2>2 DEF DropClosure
    <3>1. NowTypeOK'
      BY <3>0
    <3>2. NowOwner'
      BY <1>7, <2>1, <2>2 DEF DropClosure
    <3>3. \A j \in Kinds : nowCb'[j] # 0 => nowCb'[j] = nowCb[j] /\ nowAt'[nowCb[j]] # "out"
      BY <3>0
    <3>4. NowClosures'
      BY <2>1, <3>3
    <3> QED
      BY <3>1, <3>2, <3>4
  <2>3. CASE k = "recv"
    <3>1. \A j \in Kinds : nowCb'[j] = 0
      BY <1>7, <2>3 DEF DropClosure
    <3>2. \A u \in NowTakers : nowAt'[u] = "out"
      BY <1>7, <2>3 DEF DropClosure
    <3> QED
      BY <1>7, <2>1, <2>3, <3>1, <3>2 DEF DropClosure
  <2> QED
    BY <2>2, <2>3
<1>8. ASSUME NEW k \in Kinds, NowArrives(k) \/ NowCallback(k) PROVE NowInv'
  BY <1>8 DEF NowArrives, NowCallback
<1>9. CASE UNCHANGED nowVars
  BY <1>9 DEF nowVars
<1> QED
  BY <1>1, <1>2, <1>3, <1>4, <1>5, <1>6, <1>7, <1>8, <1>9 DEF NowNext

-----------------------------------------------------------------------------
(* Bluetooth. *)

BtTypeOK ==
  /\ profile \in Profiles /\ guest \in [Guests -> {"none", "new", "set", "ready"}]
  /\ btKept \in [flag : BOOLEAN, box : Guests \cup {0}]

\* The callback is the one of the service that has set it, but with ble_gap.
OwnInv ==
  /\ btKept.flag => btKept.box \in Guests
  /\ profile # "ble_gap" =>
       \A g \in Guests : guest[g] \in {"set", "ready"} => btKept.flag /\ btKept.box = g

BtInv == BtTypeOK /\ OwnInv /\ CallbackIsOwn

\* Whatever a profile asks of ESP-IDF, registering is among it.
LEMMA Registers == profile \in Profiles => "register" \in StepSet
<1> SUFFICES ASSUME profile \in Profiles PROVE \E i \in 1..Len(Steps) : Steps[i] = "register"
  BY DEF StepSet
<1>1. CASE profile \in {"gap", "ble_gap", "gatts"}
  <2>1. Steps = <<"register">>
    BY <1>1 DEF Steps, GapSteps, BleSteps, GattsSteps
  <2> QED
    BY <2>1
<1>2. CASE profile = "avrc"
  <2>1. Steps = <<"ct", "register">>
    BY <1>2 DEF Steps, AvrcSteps
  <2> QED
    BY <2>1
<1>3. CASE profile = "hfp"
  <2>1. Steps = <<"client", "register", "data">>
    BY <1>3 DEF Steps, HfpSteps
  <2> QED
    BY <2>1
<1>4. CASE profile \in {"sink", "source", "duplex"}
  <2> DEFINE sinks == IF profile \in WithSink THEN <<"sink_data", "sink">> ELSE <<>>
             sources == IF profile \in WithSource THEN <<"source_data", "source">> ELSE <<>>
  <2>1. Steps = (<<"register">> \o sinks) \o sources
    BY <1>4 DEF Steps, A2dpSteps
  <2> DEFINE names == {"register", "sink_data", "sink", "source_data", "source"}
  <2>2. sinks \in Seq(names) /\ sources \in Seq(names) /\ <<"register">> \in Seq(names)
    <3>1. <<>> \in Seq(names) /\ <<"register">> \in Seq(names)
      OBVIOUS
    <3>2. <<"sink_data", "sink">> \in Seq(names) /\ <<"source_data", "source">> \in Seq(names)
      OBVIOUS
    <3> QED
      BY <3>1, <3>2
  <2> HIDE DEF sinks, sources, names
  <2>3. Len(<<"register">>) = 1 /\ <<"register">>[1] = "register"
    OBVIOUS
  <2>4. /\ <<"register">> \o sinks \in Seq(names) /\ Len(<<"register">> \o sinks) >= 1
        /\ (<<"register">> \o sinks)[1] = "register"
    BY <2>2, <2>3, ConcatProperties
  <2>5. Len(Steps) \in Nat /\ Len(Steps) >= 1 /\ Steps[1] = "register"
    BY <2>1, <2>2, <2>4, ConcatProperties
  <2> QED
    BY <2>5
<1> QED
  BY <1>1, <1>2, <1>3, <1>4 DEF Profiles

LEMMA BtStart == BtInit => BtInv
BY DEF BtInit, BtInv, BtTypeOK, OwnInv, CallbackIsOwn, Unset

LEMMA BtStep == BtInv /\ [BtNext]_btVars => BtInv'
<1> SUFFICES ASSUME BtInv, [BtNext]_btVars PROVE BtInv'
  OBVIOUS
<1> USE BluetoothAssumption DEF BtInv, BtTypeOK, OwnInv, CallbackIsOwn, serviceVars
<1>1. CASE UNCHANGED <<profile, guest, btKept, btNative, btBroken>>
  BY <1>1
<1>2. CASE DropBtDriver
  BY <1>2 DEF DropBtDriver
<1>3. ASSUME NEW g \in Guests, NewGuest(g) PROVE BtInv'
  BY <1>3 DEF NewGuest
<1>4. ASSUME NEW g \in Guests, SetCallback(g) PROVE BtInv'
  BY <1>4 DEF SetCallback
<1>5. ASSUME NEW g \in Guests, AskNative(g) PROVE BtInv'
  BY <1>5, Registers DEF AskNative
<1>6. ASSUME NEW g \in Guests, DropGuest(g) PROVE BtInv'
  <2>1. profile' = profile /\ btBroken' = btBroken
    BY <1>6 DEF DropGuest
  <2>2. CASE btKept' = Unset /\ guest' = [guest EXCEPT ![g] = "none"]
             /\ (guest[g] = "ready" \/ profile = "ble_gap")
    <3>1. Unset \in [flag : BOOLEAN, box : Guests \cup {0}]
      BY DEF Unset
    <3>2. profile # "ble_gap" => \A h \in Guests : guest'[h] \notin {"set", "ready"}
      BY <2>2
    <3> QED
      BY <2>1, <2>2, <3>1, <3>2 DEF Unset
  <2>3. CASE /\ UNCHANGED <<btKept, btNative>> /\ guest' = [guest EXCEPT ![g] = "none"]
             /\ guest[g] = "new" /\ profile # "ble_gap"
    BY <2>1, <2>3
  <2>4. CASE UNCHANGED <<btKept, guest>> /\ ("register" \in btNative => "register" \in btNative')
    BY <2>1, <2>4
  <2>5. CASE UNCHANGED <<btKept, guest>> /\ btNative' \in {btNative, btNative \ {"sink"}}
    BY <2>4, <2>5
  <2> QED
    BY <1>6, <2>2, <2>3, <2>5 DEF DropGuest
<1>7. CASE NewBtDriver \/ HandleBt \/ ClosureReturns
  BY <1>1, <1>7 DEF NewBtDriver, HandleBt, ClosureReturns
<1>8. CASE RequestGap \/ RequestBle \/ RequestGatts \/ RequestA2dp \/ RequestAvrc \/ RequestHfp
  BY <1>1, <1>8 DEF RequestGap, RequestBle, RequestGatts, RequestA2dp, RequestAvrc, RequestHfp,
                    Request
<1>9. ASSUME NEW left, ReleaseMemory(left) PROVE BtInv'
  BY <1>1, <1>9 DEF ReleaseMemory
<1>10. ASSUME NEW e, BtHappens(e) PROVE BtInv'
  BY <1>1, <1>10 DEF BtHappens
<1>11. CASE UNCHANGED btVars
  BY <1>1, <1>11 DEF btVars
<1> QED
  BY <1>2, <1>3, <1>4, <1>5, <1>6, <1>7, <1>8, <1>9, <1>10, <1>11 DEF BtNext

-----------------------------------------------------------------------------
(* Wi-Fi. *)

\* What the events of the station and of the access point say of the status.
StaOf == [sta_start |-> "started", sta_stop |-> "stopped", up |-> "connected", down |-> "started"]
ApOf  == [ap_start |-> "started", ap_stop |-> "stopped"]
News  == {"sta_start", "sta_stop", "up", "down", "ap_start", "ap_stop", "scan_done", "wps_pin",
          "wps_done"}

Has(s, n) == \E i \in 1..Len(s) : s[i] = n
Free(s, f) == \A i \in 1..Len(s) : s[i] \notin DOMAIN f

\* Who believes x and reads s believes y.
Turns(s, f, x, y) ==
  /\ Free(s, f) => x = y
  /\ \A i \in 1..Len(s) :
       s[i] \in DOMAIN f /\ (\A j \in i+1..Len(s) : s[j] \notin DOMAIN f) => f[s[i]] = y

StaStates == {"stopped", "started", "connected"}
ApStates == {"stopped", "started"}
WifiStatuses == [sta : StaStates, ap : ApStates, scan : {"idle", "started", "done"},
                 wps : {"none", "pin", "done"}]
RadioFields == {"on", "sta", "ap", "scan", "wps", "connecting"}

IsRadio(r) == DOMAIN r = RadioFields /\ r.sta \in StaStates /\ r.ap \in ApStates

WifiTypeOK ==
  /\ wifiMode \subseteq {"sta", "ap"} /\ wifiNews \in Seq(News)
  /\ IsRadio(radio)
  /\ status \in WifiStatuses
  /\ doing \in [op : Operations \cup {"none"},
                at : {"none", "idle", "asked", "waiting", "ok", "err", "dropped"}]
  /\ doing.at \in {"asked", "waiting", "ok", "err"} <=> doing.op # "none"

\* What is in flight makes of the status what the radio is.
StatusTrails ==
  /\ Turns(wifiNews, StaOf, status.sta, radio.sta)
  /\ Turns(wifiNews, ApOf, status.ap, radio.ap)

\* While the radio has not been where the caller wants it, neither the status nor
\* what is in flight since the call says so.
Undeceived ==
  /\ doing.at # "ok"
  /\ doing.op = "start" => wifiMode = {}
  /\ doing.op # "stop"
  /\ doing.op = "disconnect" => /\ "sta" \notin wifiMode /\ wifiMode # {} /\ Free(wifiNews, ApOf)
                                /\ "ap" \in wifiMode => status.ap = "started"
  /\ doing.op = "connect" =>
       /\ Free(wifiNews, ApOf)
       /\ \/ wifiMode = {}
          \/ "ap" \in wifiMode /\ status.ap # "started"
          \/ "sta" \in wifiMode /\ status.sta # "connected" /\ ~Has(wifiNews, "up")
  /\ doing.op \in {"scan", "scan_n"} =>
       /\ radio.scan = "busy" /\ ~Has(wifiNews, "scan_done")
       /\ doing.at = "waiting" => status.scan # "done"
  /\ doing.op = "wps" =>
       /\ radio.wps = "busy" /\ ~Has(wifiNews, "wps_pin") /\ ~Has(wifiNews, "wps_done")
       /\ doing.at = "waiting" => status.wps = "none"

WifiInv ==
  /\ WifiTypeOK /\ StatusTrails
  /\ doing.at \in {"asked", "waiting", "ok"} /\ ~wifiStale /\ ~reached => Undeceived

-----------------------------------------------------------------------------
LEMMA ConcatAt ==
  ASSUME NEW s \in Seq(News), NEW t \in Seq(News)
  PROVE  /\ s \o t \in Seq(News) /\ Len(s) \in Nat /\ Len(t) \in Nat
         /\ Len(s \o t) = Len(s) + Len(t)
         /\ \A i \in 1..Len(s) : (s \o t)[i] = s[i]
         /\ \A i \in 1..Len(t) : (s \o t)[Len(s) + i] = t[i]
<1>1. \A i \in 1..Len(t) : /\ Len(s) + i \in 1..Len(s) + Len(t) /\ Len(s) + i > Len(s)
                          /\ Len(s) + i - Len(s) = i
  BY LenProperties
<1> QED
  BY <1>1, ConcatProperties, LenProperties

LEMMA HasConcat ==
  ASSUME NEW s \in Seq(News), NEW t \in Seq(News), NEW n
  PROVE  Has(s \o t, n) <=> Has(s, n) \/ Has(t, n)
<1>1. ASSUME Has(s, n) \/ Has(t, n) PROVE Has(s \o t, n)
  <2>1. CASE Has(s, n)
    BY <2>1, ConcatAt DEF Has
  <2>2. CASE Has(t, n)
    <3>1. PICK i \in 1..Len(t) : t[i] = n
      BY <2>2 DEF Has
    <3>2. Len(s) + i \in 1..Len(s \o t) /\ (s \o t)[Len(s) + i] = n
      BY <3>1, ConcatAt
    <3> QED
      BY <3>2 DEF Has
  <2> QED
    BY <1>1, <2>1, <2>2
<1>2. ASSUME Has(s \o t, n) PROVE Has(s, n) \/ Has(t, n)
  <2>1. PICK i \in 1..Len(s \o t) : (s \o t)[i] = n
    BY <1>2 DEF Has
  <2>2. CASE i \in 1..Len(s)
    BY <2>1, <2>2, ConcatAt DEF Has
  <2>3. CASE i \notin 1..Len(s)
    <3>1. i - Len(s) \in 1..Len(t) /\ i = Len(s) + (i - Len(s))
      BY <2>3, ConcatAt
    <3>2. t[i - Len(s)] = n
      BY <2>1, <3>1, ConcatAt
    <3> QED
      BY <3>1, <3>2 DEF Has
  <2> QED
    BY <2>2, <2>3
<1> QED
  BY <1>1, <1>2

LEMMA TurnsNothing == ASSUME NEW f, NEW x PROVE Turns(<<>>, f, x, x)
BY DEF Turns

LEMMA TurnsOne ==
  ASSUME NEW n, NEW f, NEW x, NEW y, n \in DOMAIN f => f[n] = y, n \notin DOMAIN f => x = y
  PROVE  Turns(<<n>>, f, x, y)
BY DEF Turns, Free

LEMMA TurnsOn ==
  ASSUME NEW s \in Seq(News), NEW t \in Seq(News), NEW f, NEW x, NEW y, NEW z,
         Turns(s, f, x, y), Turns(t, f, y, z)
  PROVE  Turns(s \o t, f, x, z)
<1> DEFINE u == s \o t
<1>1. /\ Len(s) \in Nat /\ Len(t) \in Nat /\ Len(u) = Len(s) + Len(t)
      /\ \A i \in 1..Len(s) : u[i] = s[i]
      /\ \A i \in 1..Len(t) : u[Len(s) + i] = t[i]
  BY ConcatAt
<1> HIDE DEF u
<1>2. \A i \in 1..Len(s) : i \in 1..Len(u)
  BY <1>1
<1>3. \A i \in 1..Len(t) : Len(s) + i \in 1..Len(u)
  BY <1>1
<1>4. ASSUME Free(u, f) PROVE x = z
  <2>1. Free(s, f)
    BY <1>1, <1>2, <1>4 DEF Free
  <2>2. Free(t, f)
    BY <1>1, <1>3, <1>4 DEF Free
  <2> QED
    BY <2>1, <2>2 DEF Turns
<1>5. ASSUME NEW i \in 1..Len(u), u[i] \in DOMAIN f, \A j \in i+1..Len(u) : u[j] \notin DOMAIN f
      PROVE  f[u[i]] = z
  <2>1. CASE i \in 1..Len(s)
    <3>1. u[i] = s[i] /\ \A j \in i+1..Len(s) : s[j] \notin DOMAIN f
      BY <1>1, <1>2, <1>5, <2>1
    <3>2. f[u[i]] = y
      BY <1>5, <2>1, <3>1 DEF Turns
    <3>3. Free(t, f)
      <4>1. \A j \in 1..Len(t) : Len(s) + j \in i+1..Len(u)
        BY <1>1, <2>1
      <4> QED
        BY <1>1, <1>5, <4>1 DEF Free
    <3> QED
      BY <3>2, <3>3 DEF Turns
  <2>2. CASE i \notin 1..Len(s)
    <3> DEFINE k == i - Len(s)
    <3>1. k \in 1..Len(t) /\ i = Len(s) + k
      BY <1>1, <2>2
    <3>2. u[i] = t[k]
      BY <1>1, <3>1
    <3>3. \A j \in k+1..Len(t) : j \in 1..Len(t) /\ Len(s) + j \in i+1..Len(u)
      BY <1>1, <3>1
    <3>4. \A j \in k+1..Len(t) : t[j] \notin DOMAIN f
      BY <1>1, <1>5, <3>3
    <3> HIDE DEF k
    <3> QED
      BY <1>5, <3>1, <3>2, <3>4 DEF Turns
  <2> QED
    BY <2>1, <2>2
<1>6. Turns(u, f, x, z)
  BY <1>4, <1>5 DEF Turns
<1> QED
  BY <1>6 DEF u

\* Handling the first of them.
LEMMA TurnsTail ==
  ASSUME NEW s \in Seq(News), s # <<>>, NEW f, NEW x, NEW y, NEW z, Turns(s, f, x, y),
         z = IF Head(s) \in DOMAIN f THEN f[Head(s)] ELSE x
  PROVE  Turns(Tail(s), f, z, y)
<1> DEFINE t == Tail(s)
<1>1. /\ Len(s) \in Nat \ {0} /\ Len(t) = Len(s) - 1 /\ Head(s) = s[1]
      /\ \A i \in 1..Len(t) : t[i] = s[i + 1]
  BY HeadTailProperties, EmptySeq, LenProperties
<1> HIDE DEF t
<1>2. \A i \in 2..Len(s) : i - 1 \in 1..Len(t) /\ s[i] = t[i - 1]
  <2>1. \A i \in 2..Len(s) : i - 1 \in 1..Len(t) /\ i = (i - 1) + 1
    BY <1>1
  <2> QED
    BY <1>1, <2>1
<1>3. ASSUME Free(t, f) PROVE z = y
  <2>1. \A i \in 2..Len(s) : s[i] \notin DOMAIN f
    BY <1>2, <1>3 DEF Free
  <2>2. CASE s[1] \in DOMAIN f
    BY <1>1, <2>1, <2>2 DEF Turns
  <2>3. CASE s[1] \notin DOMAIN f
    <3>1. \A i \in 1..Len(s) : i = 1 \/ i \in 2..Len(s)
      BY <1>1
    <3> QED
      BY <1>1, <2>1, <2>3, <3>1 DEF Turns, Free
  <2> QED
    BY <2>2, <2>3
<1>4. ASSUME NEW i \in 1..Len(t), t[i] \in DOMAIN f, \A j \in i+1..Len(t) : t[j] \notin DOMAIN f
      PROVE  f[t[i]] = y
  <2>1. i + 1 \in 1..Len(s) /\ t[i] = s[i + 1]
    BY <1>1
  <2>2. \A j \in (i+1)+1..Len(s) : j \in 2..Len(s) /\ j - 1 \in i+1..Len(t)
    BY <1>1
  <2>3. \A j \in (i+1)+1..Len(s) : s[j] \notin DOMAIN f
    BY <1>2, <1>4, <2>2
  <2> QED
    BY <1>4, <2>1, <2>3 DEF Turns
<1>5. Turns(t, f, z, y)
  BY <1>3, <1>4 DEF Turns
<1> QED
  BY <1>5 DEF t

\* An event that is posted if c.
PostedIf(c, n) == IF c THEN <<n>> ELSE <<>>

LEMMA PostedHas ==
  ASSUME NEW c, c \in BOOLEAN, NEW n \in News
  PROVE  PostedIf(c, n) \in Seq(News) /\ \A m : Has(PostedIf(c, n), m) => c /\ m = n
BY DEF PostedIf, Has

LEMMA PostedTurns ==
  ASSUME NEW c, NEW n, NEW f, NEW x, NEW y,
         c /\ n \in DOMAIN f => f[n] = y, ~c \/ n \notin DOMAIN f => x = y
  PROVE  Turns(PostedIf(c, n), f, x, y)
BY TurnsNothing, TurnsOne DEF PostedIf

\* What the radio posts says how its station and its access point have become, and
\* names nothing that has not happened.
LEMMA PostsAre ==
  ASSUME NEW r, NEW q, r.sta \in StaStates, q.sta \in StaStates,
         r.ap \in ApStates, q.ap \in ApStates
  PROVE  /\ Posts(r, q) \in Seq(News)
         /\ Turns(Posts(r, q), StaOf, r.sta, q.sta)
         /\ Turns(Posts(r, q), ApOf, r.ap, q.ap)
         /\ Has(Posts(r, q), "up") => r.sta # "connected" /\ q.sta = "connected"
         /\ Has(Posts(r, q), "ap_start") \/ Has(Posts(r, q), "ap_stop") => r.ap # q.ap
         /\ Has(Posts(r, q), "scan_done") => r.scan = "busy" /\ q.scan # "busy"
         /\ Has(Posts(r, q), "wps_pin") => r.wps # q.wps /\ q.wps = "pin"
         /\ Has(Posts(r, q), "wps_done") => r.wps # q.wps /\ q.wps = "done"
<1> DEFINE c1 == r.sta = "connected" /\ q.sta # "connected"
           c2 == r.sta # "stopped" /\ q.sta = "stopped"
           c3 == r.sta = "stopped" /\ q.sta # "stopped"
           c4 == r.sta # "connected" /\ q.sta = "connected"
           c5 == r.ap # q.ap
           c6 == r.scan = "busy" /\ q.scan # "busy"
           c7 == r.wps # q.wps /\ q.wps = "pin"
           c8 == r.wps # q.wps /\ q.wps = "done"
           apNews == IF q.ap = "started" THEN "ap_start" ELSE "ap_stop"
           a1 == PostedIf(c1, "down")
           a2 == PostedIf(c2, "sta_stop")
           a3 == PostedIf(c3, "sta_start")
           a4 == PostedIf(c4, "up")
           a5 == PostedIf(c5, apNews)
           a6 == PostedIf(c6, "scan_done")
           a7 == PostedIf(c7, "wps_pin")
           a8 == PostedIf(c8, "wps_done")
           s2 == a1 \o a2
           s3 == s2 \o a3
           s4 == s3 \o a4
           s5 == s4 \o a5
           s6 == s5 \o a6
           s7 == s6 \o a7
           s8 == s7 \o a8
           x1 == IF c1 THEN "started" ELSE r.sta
           x2 == IF c2 THEN "stopped" ELSE x1
           x3 == IF c3 THEN "started" ELSE x2
<1>1. Posts(r, q) = s8
  BY DEF Posts, PostedIf
<1>2. apNews \in News /\ {"down", "sta_stop", "sta_start", "up", "scan_done", "wps_pin", "wps_done"} \subseteq News
  BY DEF News
<1>3. /\ c1 \in BOOLEAN
      /\ c2 \in BOOLEAN
      /\ c3 \in BOOLEAN
      /\ c4 \in BOOLEAN
      /\ c5 \in BOOLEAN
      /\ c6 \in BOOLEAN
      /\ c7 \in BOOLEAN
      /\ c8 \in BOOLEAN
  OBVIOUS
<1>4. DOMAIN StaOf = {"sta_start", "sta_stop", "up", "down"} /\ DOMAIN ApOf = {"ap_start", "ap_stop"}
  BY DEF StaOf, ApOf
<1>5. /\ StaOf["sta_start"] = "started" /\ StaOf["sta_stop"] = "stopped"
      /\ StaOf["up"] = "connected" /\ StaOf["down"] = "started"
      /\ ApOf["ap_start"] = "started" /\ ApOf["ap_stop"] = "stopped"
  BY DEF StaOf, ApOf
<1>6. q.sta = IF c4 THEN "connected" ELSE x3
  BY DEF StaStates
<1>7. /\ Turns(a1, StaOf, r.sta, x1) /\ Turns(a2, StaOf, x1, x2)
      /\ Turns(a3, StaOf, x2, x3) /\ Turns(a4, StaOf, x3, q.sta)
  BY <1>4, <1>5, <1>6, PostedTurns
<1>8. Turns(a5, StaOf, q.sta, q.sta) /\ Turns(a5, ApOf, r.ap, q.ap)
  BY <1>4, <1>5, PostedTurns DEF ApStates
<1>9. /\ Turns(a6, StaOf, q.sta, q.sta) /\ Turns(a7, StaOf, q.sta, q.sta)
      /\ Turns(a8, StaOf, q.sta, q.sta)
  BY <1>4, PostedTurns
<1>10. /\ Turns(a1, ApOf, r.ap, r.ap) /\ Turns(a2, ApOf, r.ap, r.ap)
       /\ Turns(a3, ApOf, r.ap, r.ap) /\ Turns(a4, ApOf, r.ap, r.ap)
  BY <1>4, PostedTurns
<1>11. /\ Turns(a6, ApOf, q.ap, q.ap) /\ Turns(a7, ApOf, q.ap, q.ap)
       /\ Turns(a8, ApOf, q.ap, q.ap)
  BY <1>4, PostedTurns
<1>12. /\ a1 \in Seq(News) /\ a2 \in Seq(News) /\ a3 \in Seq(News) /\ a4 \in Seq(News)
       /\ a5 \in Seq(News) /\ a6 \in Seq(News) /\ a7 \in Seq(News) /\ a8 \in Seq(News)
  BY <1>2, <1>3, PostedHas
<1>13. \A m : /\ Has(a1, m) => m = "down"
              /\ Has(a2, m) => m = "sta_stop"
              /\ Has(a3, m) => m = "sta_start"
              /\ Has(a4, m) => c4 /\ m = "up"
              /\ Has(a5, m) => c5 /\ m = apNews
              /\ Has(a6, m) => c6 /\ m = "scan_done"
              /\ Has(a7, m) => c7 /\ m = "wps_pin"
              /\ Has(a8, m) => c8 /\ m = "wps_done"
  BY <1>2, <1>3, PostedHas
<1> HIDE DEF a1, a2, a3, a4, a5, a6, a7, a8, x1, x2, x3
<1>14. /\ s2 \in Seq(News) /\ Turns(s2, StaOf, r.sta, x2) /\ Turns(s2, ApOf, r.ap, r.ap)
       /\ \A m : Has(s2, m) => Has(a1, m) \/ Has(a2, m)
  BY <1>7, <1>8, <1>9, <1>10, <1>11, <1>12, ConcatAt, HasConcat, TurnsOn
<1> HIDE DEF s2
<1>15. /\ s3 \in Seq(News) /\ Turns(s3, StaOf, r.sta, x3) /\ Turns(s3, ApOf, r.ap, r.ap)
       /\ \A m : Has(s3, m) => Has(a1, m) \/ Has(a2, m) \/ Has(a3, m)
  BY <1>14, <1>7, <1>8, <1>9, <1>10, <1>11, <1>12, ConcatAt, HasConcat, TurnsOn
<1> HIDE DEF s3
<1>16. /\ s4 \in Seq(News) /\ Turns(s4, StaOf, r.sta, q.sta) /\ Turns(s4, ApOf, r.ap, r.ap)
       /\ \A m : Has(s4, m) => Has(a1, m) \/ Has(a2, m) \/ Has(a3, m) \/ Has(a4, m)
  BY <1>15, <1>7, <1>8, <1>9, <1>10, <1>11, <1>12, ConcatAt, HasConcat, TurnsOn
<1> HIDE DEF s4
<1>17. /\ s5 \in Seq(News) /\ Turns(s5, StaOf, r.sta, q.sta) /\ Turns(s5, ApOf, r.ap, q.ap)
       /\ \A m : Has(s5, m) => Has(a1, m) \/ Has(a2, m) \/ Has(a3, m) \/ Has(a4, m)
                                     \/ Has(a5, m)
  BY <1>16, <1>7, <1>8, <1>9, <1>10, <1>11, <1>12, ConcatAt, HasConcat, TurnsOn
<1> HIDE DEF s5
<1>18. /\ s6 \in Seq(News) /\ Turns(s6, StaOf, r.sta, q.sta) /\ Turns(s6, ApOf, r.ap, q.ap)
       /\ \A m : Has(s6, m) => Has(a1, m) \/ Has(a2, m) \/ Has(a3, m) \/ Has(a4, m)
                                     \/ Has(a5, m) \/ Has(a6, m)
  BY <1>17, <1>7, <1>8, <1>9, <1>10, <1>11, <1>12, ConcatAt, HasConcat, TurnsOn
<1> HIDE DEF s6
<1>19. /\ s7 \in Seq(News) /\ Turns(s7, StaOf, r.sta, q.sta) /\ Turns(s7, ApOf, r.ap, q.ap)
       /\ \A m : Has(s7, m) => Has(a1, m) \/ Has(a2, m) \/ Has(a3, m) \/ Has(a4, m)
                                     \/ Has(a5, m) \/ Has(a6, m) \/ Has(a7, m)
  BY <1>18, <1>7, <1>8, <1>9, <1>10, <1>11, <1>12, ConcatAt, HasConcat, TurnsOn
<1> HIDE DEF s7
<1>20. /\ s8 \in Seq(News) /\ Turns(s8, StaOf, r.sta, q.sta) /\ Turns(s8, ApOf, r.ap, q.ap)
       /\ \A m : Has(s8, m) => Has(a1, m) \/ Has(a2, m) \/ Has(a3, m) \/ Has(a4, m)
                                     \/ Has(a5, m) \/ Has(a6, m) \/ Has(a7, m) \/ Has(a8, m)
  BY <1>19, <1>7, <1>8, <1>9, <1>10, <1>11, <1>12, ConcatAt, HasConcat, TurnsOn
<1> HIDE DEF s8
<1>21. /\ Has(s8, "up") => c4
       /\ Has(s8, "ap_start") \/ Has(s8, "ap_stop") => c5
       /\ Has(s8, "scan_done") => c6
       /\ Has(s8, "wps_pin") => c7
       /\ Has(s8, "wps_done") => c8
  <2>1. apNews \in {"ap_start", "ap_stop"}
    OBVIOUS
  <2> HIDE DEF apNews, c4, c5, c6, c7, c8
  <2>2. ASSUME NEW m, Has(s8, m)
        PROVE  \/ m \in {"down", "sta_stop", "sta_start"}
               \/ c4 /\ m = "up"
               \/ c5 /\ m = apNews
               \/ c6 /\ m = "scan_done"
               \/ c7 /\ m = "wps_pin"
               \/ c8 /\ m = "wps_done"
    BY <1>13, <1>20, <2>2
  <2> QED
    BY <2>1, <2>2
<1> QED
  BY <1>1, <1>20, <1>21

-----------------------------------------------------------------------------
LEMMA PoweredIs ==
  ASSUME NEW r, IsRadio(r), NEW on, NEW m
  PROVE  /\ IsRadio(Powered(r, on, m)) /\ Powered(r, on, m).wps = r.wps
         /\ on /\ "ap" \in m => Powered(r, on, m).ap = "started"
         /\ on /\ "sta" \in m => Powered(r, on, m).sta \in {"started", "connected"}
<1> DEFINE sta == IF ~on \/ "sta" \notin m THEN "stopped"
                  ELSE IF r.sta = "stopped" THEN "started" ELSE r.sta
           ap == IF on /\ "ap" \in m THEN "started" ELSE "stopped"
           connecting == r.connecting /\ sta # "stopped"
           scan == IF sta = "stopped" /\ r.scan = "busy" THEN "idle" ELSE r.scan
<1>1. /\ sta \in StaStates /\ ap \in ApStates
      /\ on /\ "ap" \in m => ap = "started"
      /\ on /\ "sta" \in m => sta \in {"started", "connected"}
  BY DEF IsRadio, StaStates, ApStates
<1>2. Powered(r, on, m) = [r EXCEPT !.on = on, !.sta = sta, !.ap = ap,
                                    !.connecting = connecting, !.scan = scan]
  BY DEF Powered, IsRadio, RadioFields
<1> HIDE DEF sta, ap, connecting, scan
<1>3. /\ DOMAIN Powered(r, on, m) = RadioFields
      /\ Powered(r, on, m).sta = sta /\ Powered(r, on, m).ap = ap
      /\ Powered(r, on, m).wps = r.wps
  BY <1>2 DEF IsRadio, RadioFields
<1> QED
  BY <1>1, <1>3 DEF IsRadio

LEMMA PoweredOff ==
  ASSUME NEW r, IsRadio(r), NEW m
  PROVE  Powered(r, FALSE, m).sta = "stopped" /\ Powered(r, FALSE, m).ap = "stopped"
<1> DEFINE connecting == r.connecting /\ "stopped" # "stopped"
           scan == IF r.scan = "busy" THEN "idle" ELSE r.scan
<1>1. Powered(r, FALSE, m) = [r EXCEPT !.on = FALSE, !.sta = "stopped", !.ap = "stopped",
                                       !.connecting = connecting, !.scan = scan]
  BY DEF Powered, IsRadio, RadioFields
<1> HIDE DEF connecting, scan
<1> QED
  BY <1>1 DEF IsRadio, RadioFields

\* When the radio becomes q, what is in flight goes on saying so.
LEMMA BecomesIs ==
  ASSUME WifiTypeOK, StatusTrails, NEW q, IsRadio(q), RadioBecomes(q)
  PROVE  /\ wifiNews' \in Seq(News) /\ IsRadio(radio')
         /\ Turns(wifiNews', StaOf, status.sta, radio'.sta)
         /\ Turns(wifiNews', ApOf, status.ap, radio'.ap)
         /\ \A n : Has(wifiNews', n) => Has(wifiNews, n) \/ Has(Posts(radio, q), n)
         /\ Free(wifiNews, ApOf) /\ q.ap = radio.ap => Free(wifiNews', ApOf)
<1>1. wifiNews' = wifiNews \o Posts(radio, q) /\ radio' = q
  BY DEF RadioBecomes
<1>2. IsRadio(radio)
  BY DEF WifiTypeOK, IsRadio
<1>3. /\ Posts(radio, q) \in Seq(News)
      /\ Turns(Posts(radio, q), StaOf, radio.sta, q.sta)
      /\ Turns(Posts(radio, q), ApOf, radio.ap, q.ap)
      /\ q.ap = radio.ap => ~Has(Posts(radio, q), "ap_start") /\ ~Has(Posts(radio, q), "ap_stop")
  BY <1>2, PostsAre DEF IsRadio
<1>4. wifiNews \in Seq(News) /\ wifiNews' \in Seq(News)
  BY <1>1, <1>3, ConcatAt DEF WifiTypeOK
<1>5. /\ Turns(wifiNews', StaOf, status.sta, q.sta)
      /\ Turns(wifiNews', ApOf, status.ap, q.ap)
  BY <1>1, <1>3, <1>4, TurnsOn DEF StatusTrails
<1>6. \A n : Has(wifiNews', n) => Has(wifiNews, n) \/ Has(Posts(radio, q), n)
  BY <1>1, <1>3, <1>4, HasConcat
<1>7. ASSUME NEW s \in Seq(News)
      PROVE  Free(s, ApOf) <=> ~Has(s, "ap_start") /\ ~Has(s, "ap_stop")
  BY DEF Free, Has, ApOf
<1>8. Free(wifiNews, ApOf) /\ q.ap = radio.ap => Free(wifiNews', ApOf)
  BY <1>3, <1>4, <1>6, <1>7
<1> QED
  BY <1>1, <1>4, <1>5, <1>6, <1>8

LEMMA MovesAre ==
  ASSUME WifiTypeOK, RadioMoves
  PROVE  /\ RadioBecomes(radio') /\ IsRadio(radio') /\ radio'.ap = radio.ap
         /\ radio'.scan \in {radio.scan, "done"} /\ radio'.wps \in {radio.wps, "pin", "done"}
         /\ UNCHANGED <<wifiMode, status, doing, wifiStale>>
<1> USE DEF WifiTypeOK, RadioFields, IsRadio, StaStates
<1>1. PICK q : RadioBecomes(q) /\
         \/ q = [radio EXCEPT !.connecting = FALSE, !.sta = "connected"]
         \/ q = [radio EXCEPT !.connecting = FALSE]
         \/ q = [radio EXCEPT !.sta = "started"]
         \/ q = [radio EXCEPT !.scan = "done"]
         \/ q = [radio EXCEPT !.wps = "pin"]
         \/ q = [radio EXCEPT !.wps = "done"]
  BY DEF RadioMoves
<1>2. /\ DOMAIN q = RadioFields /\ q.sta \in StaStates /\ q.ap = radio.ap
      /\ q.scan \in {radio.scan, "done"} /\ q.wps \in {radio.wps, "pin", "done"}
  BY <1>1
<1>3. radio' = q
  BY <1>1 DEF RadioBecomes
<1>4. RadioBecomes(radio')
  BY <1>1, <1>3
<1> QED
  BY <1>2, <1>3, <1>4 DEF RadioMoves

LEMMA HandleIs ==
  ASSUME WifiTypeOK, StatusTrails, Handle
  PROVE  /\ wifiNews' \in Seq(News) /\ StatusTrails'
         /\ UNCHANGED <<wifiMode, radio, doing, reached, wifiStale>>
         /\ status' \in WifiStatuses
         /\ Free(wifiNews, ApOf) => Free(wifiNews', ApOf) /\ status'.ap = status.ap
         /\ \A n : Has(wifiNews', n) => Has(wifiNews, n)
         /\ ~Has(wifiNews, "up") => status'.sta \in {status.sta, "started", "stopped"}
         /\ ~Has(wifiNews, "scan_done") => status'.scan = status.scan
         /\ ~Has(wifiNews, "wps_pin") /\ ~Has(wifiNews, "wps_done") => status'.wps = status.wps
<1> DEFINE h == Head(wifiNews)
<1>1. wifiNews \in Seq(News) /\ wifiNews # <<>> /\ wifiNews' = Tail(wifiNews)
  BY DEF Handle, WifiTypeOK
<1>2. /\ h \in News /\ h = wifiNews[1] /\ wifiNews' \in Seq(News) /\ Len(wifiNews) \in Nat \ {0}
      /\ Len(wifiNews') = Len(wifiNews) - 1
      /\ \A i \in 1..Len(wifiNews') : wifiNews'[i] = wifiNews[i + 1]
  BY <1>1, HeadTailProperties, EmptySeq, LenProperties
<1>3. 1 \in 1..Len(wifiNews) /\ \A i \in 1..Len(wifiNews') : i + 1 \in 1..Len(wifiNews)
  BY <1>2
<1>4. Has(wifiNews, h) /\ \A n : Has(wifiNews', n) => Has(wifiNews, n)
  BY <1>2, <1>3 DEF Has
<1>5. Free(wifiNews, ApOf) => Free(wifiNews', ApOf) /\ h \notin DOMAIN ApOf
  BY <1>2, <1>3 DEF Free
<1> HIDE DEF h
<1>6. /\ status' \in WifiStatuses
      /\ status'.sta = IF h \in DOMAIN StaOf THEN StaOf[h] ELSE status.sta
      /\ status'.ap = IF h \in DOMAIN ApOf THEN ApOf[h] ELSE status.ap
      /\ h # "scan_done" => status'.scan = status.scan
      /\ h \notin {"wps_pin", "wps_done"} => status'.wps = status.wps
      /\ h # "up" => status'.sta \in {status.sta, "started", "stopped"}
  <2> USE DEF StaOf, ApOf, StaStates, ApStates, WifiStatuses
  <2>0. status \in WifiStatuses
    BY DEF WifiTypeOK
  <2>1. CASE h = "ap_start"
    <3>1. status' = [status EXCEPT !.ap = "started"]
      BY <2>1 DEF Handle, h
    <3> QED
      BY <2>0, <2>1, <3>1
  <2>2. CASE h = "ap_stop"
    <3>1. status' = [status EXCEPT !.ap = "stopped"]
      BY <2>2 DEF Handle, h
    <3> QED
      BY <2>0, <2>2, <3>1
  <2>3. CASE h = "sta_start"
    <3>1. status' = [status EXCEPT !.sta = "started"]
      BY <2>3 DEF Handle, h
    <3> QED
      BY <2>0, <2>3, <3>1
  <2>4. CASE h = "sta_stop"
    <3>1. status' = [status EXCEPT !.sta = "stopped"]
      BY <2>4 DEF Handle, h
    <3> QED
      BY <2>0, <2>4, <3>1
  <2>5. CASE h = "up"
    <3>1. status' = [status EXCEPT !.sta = "connected"]
      BY <2>5 DEF Handle, h
    <3> QED
      BY <2>0, <2>5, <3>1
  <2>6. CASE h = "down"
    <3>1. status' = [status EXCEPT !.sta = "started"]
      BY <2>6 DEF Handle, h
    <3> QED
      BY <2>0, <2>6, <3>1
  <2>7. CASE h = "scan_done"
    <3>1. status' = [status EXCEPT !.scan = "done"]
      BY <2>7 DEF Handle, h
    <3> QED
      BY <2>0, <2>7, <3>1
  <2>8. CASE h = "wps_pin"
    <3>1. status' = [status EXCEPT !.wps = "pin"]
      BY <2>8 DEF Handle, h
    <3> QED
      BY <2>0, <2>8, <3>1
  <2>9. CASE h = "wps_done"
    <3>1. status' = [status EXCEPT !.wps = "done"]
      BY <2>9 DEF Handle, h
    <3> QED
      BY <2>0, <2>9, <3>1
  <2> QED
    BY <1>2, <2>1, <2>2, <2>3, <2>4, <2>5, <2>6, <2>7, <2>8, <2>9 DEF News
<1>7. Turns(wifiNews', StaOf, status'.sta, radio.sta) /\ Turns(wifiNews', ApOf, status'.ap, radio.ap)
  BY <1>1, <1>6, TurnsTail DEF StatusTrails, h
<1>8. UNCHANGED <<wifiMode, radio, doing, reached, wifiStale>>
  BY DEF Handle
<1>9. StatusTrails'
  BY <1>7, <1>8 DEF StatusTrails
<1> QED
  BY <1>2, <1>4, <1>5, <1>6, <1>8, <1>9

LEMMA WifiStart == WifiInit => WifiInv
<1> SUFFICES ASSUME WifiInit PROVE WifiInv
  OBVIOUS
<1>1. wifiNews = <<>> /\ wifiNews \in Seq(News) /\ wifiMode = {}
  BY DEF WifiInit
<1>2. radio.sta = "stopped" /\ radio.ap = "stopped" /\ DOMAIN radio = RadioFields
  BY DEF WifiInit, RadioFields
<1>3. status \in WifiStatuses /\ status.sta = "stopped" /\ status.ap = "stopped"
  BY DEF WifiInit, WifiStatuses, StaStates, ApStates
<1>4. doing = [op |-> "none", at |-> "none"]
  BY DEF WifiInit
<1>5. WifiTypeOK
  BY <1>1, <1>2, <1>3, <1>4 DEF WifiTypeOK, IsRadio, StaStates, ApStates
<1>6. StatusTrails
  BY <1>1, <1>2, <1>3, TurnsNothing DEF StatusTrails
<1> QED
  BY <1>4, <1>5, <1>6 DEF WifiInv

\* What one who is not deceived sees is so.
LEMMA NotDeceived ==
  ASSUME WifiTypeOK, Undeceived, doing.at = "waiting"
  PROVE  ~Reached(doing.op, wifiMode, status)
<1>1. doing.op \in Operations
  BY DEF WifiTypeOK
<1> QED
  BY <1>1 DEF Undeceived, Reached, IsStarted, IsConnected, Operations, WifiTypeOK

LEMMA MovesStep == ASSUME WifiInv, RadioMoves PROVE WifiInv'
<1>1. /\ RadioBecomes(radio') /\ IsRadio(radio') /\ radio'.ap = radio.ap
      /\ radio'.scan \in {radio.scan, "done"} /\ radio'.wps \in {radio.wps, "pin", "done"}
      /\ UNCHANGED <<wifiMode, status, doing, wifiStale>>
  BY MovesAre DEF WifiInv
<1>2. /\ wifiNews' \in Seq(News)
      /\ Turns(wifiNews', StaOf, status.sta, radio'.sta)
      /\ Turns(wifiNews', ApOf, status.ap, radio'.ap)
      /\ \A n : Has(wifiNews', n) => Has(wifiNews, n) \/ Has(Posts(radio, radio'), n)
      /\ Free(wifiNews, ApOf) => Free(wifiNews', ApOf)
  BY <1>1, BecomesIs DEF WifiInv
<1>3. WifiTypeOK' /\ StatusTrails'
  BY <1>1, <1>2 DEF WifiInv, WifiTypeOK, StatusTrails
<1>4. ASSUME doing.at \in {"asked", "waiting", "ok"}, ~wifiStale, ~reached' PROVE Undeceived'
  <2>1. doing.op \in Operations /\ doing.op # "none"
    BY <1>4 DEF WifiInv, WifiTypeOK, Operations
  <2>2. ~reached /\ ~Reached(doing.op, wifiMode, radio')
    BY <1>4, <2>1, Zenon DEF RadioMoves
  <2>3. Undeceived
    BY <1>4, <2>2 DEF WifiInv
  <2>4. /\ Has(Posts(radio, radio'), "up") => radio'.sta = "connected"
        /\ Has(Posts(radio, radio'), "scan_done") => radio'.scan # "busy"
        /\ Has(Posts(radio, radio'), "wps_pin") => radio.wps # radio'.wps
        /\ Has(Posts(radio, radio'), "wps_done") => radio.wps # radio'.wps
    BY <1>1, PostsAre DEF WifiInv, WifiTypeOK, IsRadio
  <2>5. CASE doing.op = "start"
    BY <1>1, <2>3, <2>5 DEF Undeceived
  <2>6. CASE doing.op = "disconnect"
    BY <1>1, <1>2, <2>3, <2>6 DEF Undeceived
  <2>7. CASE doing.op = "connect"
    <3>1. ~IsConnected(wifiMode, radio')
      BY <2>2, <2>7 DEF Reached
    <3>2. Free(wifiNews, ApOf) /\ Free(wifiNews', ApOf) /\ status.ap = radio.ap
      BY <1>2, <2>3, <2>7 DEF Undeceived, WifiInv, StatusTrails, Turns
    <3>3. \/ wifiMode = {}
          \/ "ap" \in wifiMode /\ status.ap # "started"
          \/ "sta" \in wifiMode /\ radio'.sta # "connected"
      BY <1>1, <3>1, <3>2 DEF IsConnected
    <3>4. \/ wifiMode = {}
          \/ "ap" \in wifiMode /\ status.ap # "started"
          \/ "sta" \in wifiMode /\ status.sta # "connected" /\ ~Has(wifiNews', "up")
      BY <1>2, <2>3, <2>4, <2>7, <3>3 DEF Undeceived
    <3> QED
      BY <1>1, <2>3, <2>7, <3>2, <3>4 DEF Undeceived
  <2>8. CASE doing.op \in {"scan", "scan_n"}
    <3>1. radio'.scan # "done"
      BY <2>2, <2>8 DEF Reached
    <3> QED
      BY <1>1, <1>2, <2>3, <2>4, <2>8, <3>1 DEF Undeceived
  <2>9. CASE doing.op = "wps"
    <3>1. radio'.wps \notin {"pin", "done"}
      BY <2>2, <2>9 DEF Reached
    <3> QED
      BY <1>1, <1>2, <2>3, <2>4, <2>9, <3>1 DEF Undeceived
  <2> QED
    BY <2>1, <2>3, <2>5, <2>6, <2>7, <2>8, <2>9 DEF Operations, Undeceived
<1> QED
  BY <1>1, <1>3, <1>4 DEF WifiInv

LEMMA HandleStep == ASSUME WifiInv, Handle PROVE WifiInv'
<1>1. WifiTypeOK' /\ StatusTrails'
  BY HandleIs DEF WifiInv, WifiTypeOK
<1>2. UNCHANGED <<wifiMode, radio, doing, reached, wifiStale>>
  BY HandleIs DEF WifiInv
<1>3. ASSUME doing.at \in {"asked", "waiting", "ok"}, ~wifiStale, ~reached PROVE Undeceived'
  <2>1. Undeceived
    BY <1>3 DEF WifiInv
  <2> HIDE DEF WifiInv
  <2>2. /\ Free(wifiNews, ApOf) => Free(wifiNews', ApOf) /\ status'.ap = status.ap
        /\ \A n : Has(wifiNews', n) => Has(wifiNews, n)
        /\ ~Has(wifiNews, "up") => status'.sta \in {status.sta, "started", "stopped"}
        /\ ~Has(wifiNews, "scan_done") => status'.scan = status.scan
        /\ ~Has(wifiNews, "wps_pin") /\ ~Has(wifiNews, "wps_done") => status'.wps = status.wps
    BY HandleIs DEF WifiInv
  <2> QED
    BY <1>2, <2>1, <2>2 DEF Undeceived
<1> QED
  BY <1>1, <1>2, <1>3 DEF WifiInv

\* The radio after it was asked to do op.
LEMMA AskedIs ==
  ASSUME WifiTypeOK, wifiMode' \subseteq {"sta", "ap"}, NEW op \in Operations
  PROVE  LET q == Asked(op, radio) IN
           /\ IsRadio(q)
           /\ op = "start" => /\ "ap" \in wifiMode' => q.ap = "started"
                              /\ "sta" \in wifiMode' => q.sta \in {"started", "connected"}
           /\ op = "stop" => q.sta = "stopped" /\ q.ap = "stopped"
           /\ op = "disconnect" => q.sta # "connected" /\ q.ap = radio.ap
           /\ op = "connect" => q.sta = radio.sta /\ q.ap = radio.ap
           /\ op \in {"scan", "scan_n"} => q.scan = "busy"
           /\ op = "wps" => q.wps = "busy"
<1> DEFINE q == Asked(op, radio)
<1>1. IsRadio(radio)
  BY DEF WifiTypeOK
<1>2. CASE op = "start"
  <2>1. q = Powered(radio, TRUE, wifiMode')
    BY <1>2 DEF Asked
  <2> HIDE DEF q
  <2>2. IsRadio(q)
    BY <1>1, <2>1, PoweredIs
  <2>3. /\ "ap" \in wifiMode' => q.ap = "started"
        /\ "sta" \in wifiMode' => q.sta \in {"started", "connected"}
    BY <1>1, <2>1, PoweredIs
  <2> QED
    BY <1>2, <2>2, <2>3 DEF q
<1>3. CASE op = "stop"
  <2>1. q = Powered(radio, FALSE, wifiMode')
    BY <1>3 DEF Asked
  <2> HIDE DEF q
  <2>2. IsRadio(q)
    BY <1>1, <2>1, PoweredIs
  <2>3. q.sta = "stopped" /\ q.ap = "stopped"
    BY <1>1, <2>1, PoweredOff
  <2> QED
    BY <1>3, <2>2, <2>3 DEF q
<1>4. CASE op = "connect"
  <2> DEFINE c == radio.sta # "connected"
  <2>1. q = [radio EXCEPT !.connecting = c]
    BY <1>4 DEF Asked
  <2> HIDE DEF c, q
  <2> QED
    BY <1>1, <1>4, <2>1 DEF IsRadio, RadioFields, q
<1>5. CASE op = "disconnect"
  <2> DEFINE a == IF radio.sta = "connected" THEN "started" ELSE radio.sta
  <2>1. q = [radio EXCEPT !.connecting = FALSE, !.sta = a]
    BY <1>1, <1>5 DEF Asked, IsRadio, RadioFields
  <2>2. a \in StaStates /\ a # "connected"
    BY <1>1 DEF IsRadio, StaStates
  <2> HIDE DEF a, q
  <2>3. DOMAIN q = RadioFields /\ q.sta = a /\ q.ap = radio.ap
    BY <1>1, <2>1 DEF IsRadio, RadioFields
  <2>4. IsRadio(q) /\ q.sta # "connected" /\ q.ap = radio.ap
    BY <1>1, <2>2, <2>3 DEF IsRadio
  <2> QED
    BY <1>5, <2>4 DEF q
<1>6. CASE op \in {"scan", "scan_n"}
  <2>1. q = [radio EXCEPT !.scan = "busy"]
    BY <1>6 DEF Asked
  <2> HIDE DEF q
  <2> QED
    BY <1>1, <1>6, <2>1 DEF IsRadio, RadioFields, q
<1>7. CASE op = "wps"
  <2> DEFINE p == Powered(radio, radio.on, wifiMode')
  <2>1. q = [p EXCEPT !.wps = "busy"]
    BY <1>7 DEF Asked
  <2>2. IsRadio(p)
    BY <1>1, PoweredIs
  <2> HIDE DEF p, q
  <2> QED
    BY <1>7, <2>1, <2>2 DEF IsRadio, RadioFields, q
<1> QED
  BY <1>2, <1>3, <1>4, <1>5, <1>6, <1>7 DEF Operations

LEMMA AskStep == ASSUME WifiInv, NEW op \in Operations, AskRadio(op) PROVE WifiInv'
<1> DEFINE q == Asked(op, radio)
<1>1. /\ doing.op = "none" /\ RadioBecomes(q) /\ status' = status
      /\ wifiMode' = (IF op = "wps" THEN wifiMode \cup {"sta"} ELSE wifiMode)
      /\ doing' = [op |-> op, at |-> IF op \in {"scan", "scan_n", "wps"} THEN "asked" ELSE "waiting"]
      /\ op \in {"scan", "scan_n"} => radio.scan # "busy"
  BY DEF AskRadio, Idle
<1>2. wifiMode' \subseteq {"sta", "ap"} /\ (op # "wps" => wifiMode' = wifiMode)
  BY <1>1 DEF WifiInv, WifiTypeOK
<1>3. /\ IsRadio(q)
      /\ op = "start" => /\ "ap" \in wifiMode' => q.ap = "started"
                         /\ "sta" \in wifiMode' => q.sta \in {"started", "connected"}
      /\ op = "stop" => q.sta = "stopped" /\ q.ap = "stopped"
      /\ op = "disconnect" => q.sta # "connected" /\ q.ap = radio.ap
      /\ op = "connect" => q.sta = radio.sta /\ q.ap = radio.ap
      /\ op \in {"scan", "scan_n"} => q.scan = "busy"
      /\ op = "wps" => q.wps = "busy"
  BY <1>2, AskedIs DEF WifiInv
<1> HIDE DEF q
<1>4. radio' = q
  BY <1>1 DEF RadioBecomes
<1>5. /\ wifiNews' \in Seq(News)
      /\ Turns(wifiNews', StaOf, status.sta, radio'.sta)
      /\ Turns(wifiNews', ApOf, status.ap, radio'.ap)
      /\ \A n : Has(wifiNews', n) => Has(wifiNews, n) \/ Has(Posts(radio, q), n)
      /\ Free(wifiNews, ApOf) /\ q.ap = radio.ap => Free(wifiNews', ApOf)
  BY <1>1, <1>3, BecomesIs DEF WifiInv
<1>6. doing' \in [op : Operations \cup {"none"},
                 at : {"none", "idle", "asked", "waiting", "ok", "err", "dropped"}]
  BY <1>1
<1>7. doing'.op = op /\ doing'.at \in {"asked", "waiting"} /\ op # "none"
  BY <1>1 DEF Operations
<1>8. (op \in {"scan", "scan_n", "wps"}) => doing'.at = "asked"
  BY <1>1
<1>9. WifiTypeOK' /\ StatusTrails'
  BY <1>1, <1>2, <1>3, <1>4, <1>5, <1>6, <1>7 DEF WifiInv, WifiTypeOK, StatusTrails
<1>10. ASSUME ~wifiStale', ~reached' PROVE Undeceived'
  <2>1. wifiNews = <<>> /\ ~Reached(op, wifiMode', q)
    <3>1. wifiStale' = (wifiNews # <<>>) /\ reached' = Reached(op, wifiMode', radio')
      BY DEF AskRadio
    <3> QED
      BY <1>4, <1>10, <3>1, Zenon
  <2>2. /\ Free(wifiNews, ApOf) /\ Free(wifiNews, StaOf) /\ \A n : ~Has(wifiNews, n)
        /\ status.sta = radio.sta /\ status.ap = radio.ap
    <3>1. Free(wifiNews, ApOf) /\ Free(wifiNews, StaOf) /\ \A n : ~Has(wifiNews, n)
      BY <2>1 DEF Free, Has
    <3> QED
      BY <3>1 DEF WifiInv, StatusTrails, Turns
  <2>3. /\ Has(Posts(radio, q), "up") => radio.sta # "connected" /\ q.sta = "connected"
        /\ Has(Posts(radio, q), "scan_done") => radio.scan = "busy" /\ q.scan # "busy"
        /\ Has(Posts(radio, q), "wps_pin") => q.wps = "pin"
        /\ Has(Posts(radio, q), "wps_done") => q.wps = "done"
    BY <1>3, PostsAre DEF WifiInv, WifiTypeOK, IsRadio
  <2>4. CASE op = "start"
    <3>1. wifiMode' = {}
      BY <1>3, <2>1, <2>4 DEF Reached, IsStarted
    <3> QED
      BY <1>7, <2>4, <3>1 DEF Undeceived
  <2>5. CASE op = "stop"
    BY <1>2, <1>3, <2>1, <2>5 DEF Reached, IsStarted
  <2>6. CASE op = "disconnect"
    <3>1. IsConnected(wifiMode', q)
      BY <2>1, <2>6 DEF Reached
    <3>2. "sta" \notin wifiMode' /\ wifiMode' # {} /\ ("ap" \in wifiMode' => status.ap = "started")
      BY <1>3, <2>2, <2>6, <3>1 DEF IsConnected
    <3>3. Free(wifiNews', ApOf)
      BY <1>3, <1>5, <2>2, <2>6
    <3> QED
      BY <1>1, <1>7, <2>6, <3>2, <3>3 DEF Undeceived
  <2>7. CASE op = "connect"
    <3>1. ~IsConnected(wifiMode', q)
      BY <2>1, <2>7 DEF Reached
    <3>2. \/ wifiMode' = {}
          \/ "ap" \in wifiMode' /\ status.ap # "started"
          \/ "sta" \in wifiMode' /\ status.sta # "connected"
      BY <1>3, <2>2, <2>7, <3>1 DEF IsConnected
    <3>3. Free(wifiNews', ApOf) /\ ~Has(wifiNews', "up")
      BY <1>3, <1>5, <2>2, <2>3, <2>7
    <3> QED
      BY <1>1, <1>7, <2>7, <3>2, <3>3 DEF Undeceived
  <2>8. CASE op \in {"scan", "scan_n"}
    <3>1. radio'.scan = "busy" /\ ~Has(wifiNews', "scan_done")
      BY <1>1, <1>3, <1>4, <1>5, <2>2, <2>3, <2>8
    <3> QED
      BY <1>7, <1>8, <2>8, <3>1 DEF Undeceived
  <2>9. CASE op = "wps"
    <3>1. radio'.wps = "busy" /\ ~Has(wifiNews', "wps_pin") /\ ~Has(wifiNews', "wps_done")
      BY <1>3, <1>4, <1>5, <2>2, <2>3, <2>9
    <3> QED
      BY <1>7, <1>8, <2>9, <3>1 DEF Undeceived
  <2> QED
    BY <2>4, <2>5, <2>6, <2>7, <2>8, <2>9 DEF Operations
<1> QED
  BY <1>9, <1>10 DEF WifiInv

LEMMA TakeDownStep == ASSUME WifiInv, TakeDown PROVE WifiInv'
<1>1. /\ doing.at = "asked" /\ (doing.op = "scan_n" => radio.scan # "busy")
      /\ status' = Begun(doing.op, status)
      /\ doing' = [doing EXCEPT !.at = IF doing.op = "scan_n" THEN "ok" ELSE "waiting"]
      /\ UNCHANGED <<wifiMode, radio, wifiNews, reached, wifiStale>>
  BY DEF TakeDown
<1>2. /\ status' \in WifiStatuses /\ status'.sta = status.sta /\ status'.ap = status.ap
      /\ doing.op = "wps" => status'.wps = "none"
      /\ doing.op # "wps" => status'.scan = "started"
  BY <1>1 DEF Begun, WifiInv, WifiTypeOK, WifiStatuses
<1>3. /\ doing' \in [op : Operations \cup {"none"},
                     at : {"none", "idle", "asked", "waiting", "ok", "err", "dropped"}]
      /\ doing'.op = doing.op /\ doing'.at = IF doing.op = "scan_n" THEN "ok" ELSE "waiting"
  BY <1>1 DEF WifiInv, WifiTypeOK
<1>4. WifiTypeOK' /\ StatusTrails'
  BY <1>1, <1>2, <1>3 DEF WifiInv, WifiTypeOK, StatusTrails
<1>5. ASSUME ~wifiStale, ~reached PROVE Undeceived'
  <2>1. Undeceived
    BY <1>1, <1>5 DEF WifiInv
  <2> HIDE DEF WifiInv
  <2>2. doing.op # "scan_n"
    BY <1>1, <2>1 DEF Undeceived
  <2> QED
    BY <1>1, <1>2, <1>3, <2>1, <2>2 DEF Undeceived
<1> QED
  BY <1>1, <1>4, <1>5 DEF WifiInv

LEMMA WifiStep == WifiInv /\ [WifiNext]_wifiVars => WifiInv'
<1> SUFFICES ASSUME WifiInv, [WifiNext]_wifiVars PROVE WifiInv'
  OBVIOUS
<1>1. CASE NewWifi
  <2>1. doing' = Idle /\ UNCHANGED <<wifiMode, radio, wifiNews, status>>
    BY <1>1 DEF NewWifi
  <2> QED
    BY <2>1 DEF Idle, WifiInv, WifiTypeOK, StatusTrails
<1>2. CASE SeesIt
  <2>1. /\ doing.at = "waiting" /\ Reached(doing.op, wifiMode, status)
        /\ doing' = [doing EXCEPT !.at = "ok"]
        /\ UNCHANGED <<wifiMode, radio, wifiNews, status, reached, wifiStale>>
    BY <1>2 DEF SeesIt
  <2>2. ~wifiStale => reached
    BY <2>1, NotDeceived DEF WifiInv
  <2> QED
    BY <2>1, <2>2 DEF WifiInv, WifiTypeOK, StatusTrails
<1>3. CASE WaitTimesOut
  <2>1. /\ doing.at = "waiting" /\ doing' = [doing EXCEPT !.at = "err"]
        /\ UNCHANGED <<wifiMode, radio, wifiNews, status, reached, wifiStale>>
    BY <1>3 DEF WaitTimesOut
  <2> QED
    BY <2>1 DEF WifiInv, WifiTypeOK, StatusTrails
<1>4. CASE Finish
  <2>1. doing' = Idle /\ UNCHANGED <<wifiMode, wifiNews>>
    BY <1>4 DEF Finish
  <2>2. IsRadio(radio') /\ radio'.sta = radio.sta /\ radio'.ap = radio.ap
    BY <1>4 DEF Finish, WifiInv, WifiTypeOK, IsRadio, RadioFields
  <2>3. status' \in WifiStatuses /\ status'.sta = status.sta /\ status'.ap = status.ap
    BY <1>4 DEF Finish, WifiInv, WifiTypeOK, WifiStatuses
  <2> QED
    BY <2>1, <2>2, <2>3 DEF Idle, WifiInv, WifiTypeOK, StatusTrails
\* Between operations only what is in flight matters.
<1>5. ASSUME NEW q, IsRadio(q), RadioBecomes(q), doing = Idle, doing' \in {Idle, [Idle EXCEPT !.at = "dropped"]},
             wifiMode' \subseteq {"sta", "ap"}, status' \in WifiStatuses,
             status'.sta = status.sta, status'.ap = status.ap
      PROVE  WifiInv'
  <2>1. /\ wifiNews' \in Seq(News) /\ IsRadio(radio')
        /\ Turns(wifiNews', StaOf, status.sta, radio'.sta)
        /\ Turns(wifiNews', ApOf, status.ap, radio'.ap)
    BY <1>5, BecomesIs DEF WifiInv
  <2>2. /\ doing' \in [op : Operations \cup {"none"},
                       at : {"none", "idle", "asked", "waiting", "ok", "err", "dropped"}]
        /\ doing'.op = "none" /\ doing'.at \in {"idle", "dropped"}
    BY <1>5 DEF Idle
  <2> QED
    BY <1>5, <2>1, <2>2 DEF WifiInv, WifiTypeOK, StatusTrails
<1>6. IsRadio(radio) /\ wifiMode \subseteq {"sta", "ap"} /\ status \in WifiStatuses
  BY DEF WifiInv, WifiTypeOK
<1>7. ASSUME NEW m \in SUBSET {"sta", "ap"}, SetConfiguration(m) PROVE WifiInv'
  <2>1. IsRadio(Powered(radio, radio.on, m))
    BY <1>6, PoweredIs
  <2> QED
    BY <1>5, <1>6, <1>7, <2>1 DEF SetConfiguration
<1>8. CASE StopScan
  <2> DEFINE scan == IF radio.scan = "busy" THEN "idle" ELSE radio.scan
             q == [radio EXCEPT !.scan = scan]
  <2>1. RadioBecomes(q) /\ doing = Idle /\ UNCHANGED <<wifiMode, doing>>
    BY <1>8 DEF StopScan
  <2>2. IsRadio(q)
    BY <1>6 DEF IsRadio, RadioFields
  <2>3. status' \in WifiStatuses /\ status'.sta = status.sta /\ status'.ap = status.ap
    BY <1>6, <1>8 DEF StopScan, WifiStatuses
  <2> HIDE DEF q
  <2> QED
    BY <1>5, <1>6, <2>1, <2>2, <2>3
<1>9. CASE StopAndSwap \/ DropWifi
  <2>1. IsRadio(Powered(radio, FALSE, wifiMode))
    BY <1>6, PoweredIs
  <2> QED
    BY <1>5, <1>6, <1>9, <2>1 DEF StopAndSwap, DropWifi
<1>10. CASE UNCHANGED wifiVars
  BY <1>10 DEF wifiVars, WifiInv, WifiTypeOK, StatusTrails, Undeceived
<1> QED
  BY <1>1, <1>2, <1>3, <1>4, <1>7, <1>8, <1>9, <1>10, MovesStep, HandleStep, AskStep, TakeDownStep
  DEF WifiNext

LEMMA WifiSays == WifiInv => ReturnIsTrue
BY DEF WifiInv, ReturnIsTrue, Undeceived
================================================================================
