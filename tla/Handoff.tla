------------------------------ MODULE Handoff ------------------------------
(***************************************************************************)
(* private/zerocopy.rs of the vendored esp-idf-svc: a thread lends a       *)
(* reference to the thread that reads a channel, and is blocked inside     *)
(* share() until the reader is done with it.  Several threads may lend.    *)
(* A step is what a thread does between taking the channel's mutex and     *)
(* releasing it or going to sleep on the condition variable (mutex.rs);    *)
(* a thread that sleeps is woken by notify_all alone.                      *)
(***************************************************************************)
EXTENDS Integers, FiniteSets

CONSTANTS Channels,   \* the channels of the program
          Sharers     \* the threads that lend

ASSUME HandoffAssumption == Sharers \cap {"reader", "empty", "quit"} = {}

VARIABLES cell,     \* State: "empty", "quit", or the thread whose Data it is
          asleep,   \* the threads that wait on blocking_notify
          flag,     \* notify_full, for the asynchronous reader
          at        \* where each thread is in its call

handoffVars == <<cell, asleep, flag, at>>

HandoffInit ==
  /\ cell = [c \in Channels |-> "empty"]
  /\ asleep = [c \in Channels |-> {}]
  /\ flag = [c \in Channels |-> FALSE]
  /\ at = [c \in Channels |-> [t \in Sharers \cup {"reader"} |-> "idle"]]

Moves(c, t, from, to) == at[c][t] = from /\ at' = [at EXCEPT ![c][t] = to]
Sleeps(c, t)  == asleep' = [asleep EXCEPT ![c] = @ \cup {t}] /\ UNCHANGED <<cell, flag, at>>
Awake(c, t)   == t \notin asleep[c]
Becomes(c, v) == cell' = [cell EXCEPT ![c] = v]
WakeAll(c)    == asleep' = [asleep EXCEPT ![c] = {}]
Lent(c)       == cell[c] \in Sharers

-----------------------------------------------------------------------------
\* share(data) and the drop of a QuitOnDrop are called.
Share(c, s) == Moves(c, s, "idle", "offer") /\ UNCHANGED <<cell, asleep, flag>>
Close(c, s) == Moves(c, s, "idle", "close") /\ UNCHANGED <<cell, asleep, flag>>

\* set(): the cell is filled once it is empty, and everybody is notified.  The
\* thread that lends sleeps until it is given its reference back; after a Quit
\* there is nothing to wait for.  A channel that has been quit refuses.
Put(c, s) ==
  /\ at[c][s] \in {"offer", "close"} /\ Awake(c, s)
  /\ \/ /\ cell[c] = "empty"
        /\ Becomes(c, IF at[c][s] = "offer" THEN s ELSE "quit")
        /\ asleep' = [asleep EXCEPT ![c] = IF at[c][s] = "offer" THEN {s} ELSE {}]
        /\ flag' = [flag EXCEPT ![c] = TRUE]
        /\ at' = [at EXCEPT ![c][s] = IF @ = "offer" THEN "offered" ELSE "idle"]
     \/ /\ cell[c] = "quit"
        /\ at' = [at EXCEPT ![c][s] = IF @ = "offer" THEN "refused" ELSE "idle"]
        /\ UNCHANGED <<cell, asleep, flag>>
     \/ Lent(c) /\ Sleeps(c, s)

\* Mutant: share() does not wait for what it has lent.
TakeBackAtOnce(c, s) == Moves(c, s, "offered", "shared") /\ UNCHANGED <<cell, asleep, flag>>

\* The second loop of set(): what is lent is out of the cell.  (It may be
\* another thread's loan that is in the cell: then this one waits for it too.)
TakeBack(c, s) ==
  /\ at[c][s] = "offered" /\ Awake(c, s)
  /\ \/ /\ ~Lent(c)
        /\ Moves(c, s, "offered", "shared")
        /\ UNCHANGED <<cell, asleep, flag>>
     \/ Lent(c) /\ Sleeps(c, s)

\* share() has returned true or false.
Return(c, s) ==
  /\ at[c][s] \in {"shared", "refused"}
  /\ at' = [at EXCEPT ![c][s] = "idle"]
  /\ UNCHANGED <<cell, asleep, flag>>

-----------------------------------------------------------------------------
\* Receiver::get_shared(), and its asynchronous form, which waits for
\* notify_full instead and takes no part in the condition variable.
Ask(c)      == Moves(c, "reader", "idle", "get") /\ UNCHANGED <<cell, asleep, flag>>
AskAsync(c) == Moves(c, "reader", "idle", "poll") /\ UNCHANGED <<cell, asleep, flag>>

Answered(c) ==
  /\ cell[c] # "empty"
  /\ at' = [at EXCEPT ![c]["reader"] = IF cell[c] = "quit" THEN "none" ELSE "using"]
  /\ UNCHANGED <<cell, asleep, flag>>

Get(c) ==
  /\ at[c]["reader"] = "get" /\ Awake(c, "reader")
  /\ Answered(c) \/ (cell[c] = "empty" /\ Sleeps(c, "reader"))

GetAsync(c) ==
  \/ /\ at[c]["reader"] = "poll"
     /\ \/ Answered(c)
        \/ /\ cell[c] = "empty"
           /\ Moves(c, "reader", "poll", "await")
           /\ UNCHANGED <<cell, asleep, flag>>
  \/ /\ flag[c]
     /\ Moves(c, "reader", "await", "poll")
     /\ flag' = [flag EXCEPT ![c] = FALSE]
     /\ UNCHANGED <<cell, asleep>>

\* The reader leaves the call, or drops the future in the middle of it.
Leave(c) ==
  /\ at[c]["reader"] \in {"using", "none", "poll", "await"}
  /\ at' = [at EXCEPT ![c]["reader"] = "idle"]
  /\ UNCHANGED <<cell, asleep, flag>>

\* Mutant: the lender is not notified.
DoneSilently(c) ==
  /\ at[c]["reader"] = "idle"
  /\ IF Lent(c) THEN Becomes(c, "empty") ELSE UNCHANGED cell
  /\ UNCHANGED <<asleep, flag, at>>

\* Receiver::done(), also when there is nothing to be done with.
Done(c) ==
  /\ at[c]["reader"] = "idle"
  /\ IF Lent(c) THEN Becomes(c, "empty") /\ WakeAll(c) ELSE UNCHANGED <<cell, asleep>>
  /\ UNCHANGED <<flag, at>>

\* The drop of the Receiver.
Hangup(c) ==
  /\ Moves(c, "reader", "idle", "gone")
  /\ Becomes(c, "quit") /\ WakeAll(c)
  /\ UNCHANGED flag

HandoffNext(c) ==
  \/ \E s \in Sharers : \/ Share(c, s) \/ Close(c, s) \/ Put(c, s)
                        \/ TakeBack(c, s) \/ Return(c, s)
  \/ Ask(c) \/ AskAsync(c) \/ Get(c) \/ GetAsync(c) \/ Leave(c) \/ Done(c) \/ Hangup(c)

\* The channels, used by whoever may use them.
HandoffSpec == HandoffInit /\ [][\E c \in Channels : HandoffNext(c)]_handoffVars

-----------------------------------------------------------------------------
\* What a thread reads belongs to a thread that is still blocked in share():
\* no reference outlives the call that lent it, however many threads lend,
\* quit and drop.
BorrowSafe ==
  \A c \in Channels :
    at[c]["reader"] = "using" => Lent(c) /\ at[c][cell[c]] = "offered"

\* No notification is lost: a thread sleeps only while what it waits for has
\* not happened, and a reader that awaits has a notification coming.
NobodyOversleeps ==
  \A c \in Channels :
    /\ \A s \in asleep[c] \cap Sharers : Lent(c)
    /\ "reader" \in asleep[c] => cell[c] = "empty"
    /\ at[c]["reader"] = "await" /\ cell[c] # "empty" => flag[c]
=============================================================================
