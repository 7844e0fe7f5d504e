--------------------------------- MODULE Sntp ---------------------------------
(***************************************************************************)
(* sntp.rs of the vendored esp-idf-svc: EspSntp, of which there is one at  *)
(* a time (TAKEN), and the closure that it keeps in the static SYNC_CB.    *)
(* The network task (external) calls sync_cb when the time is set.         *)
(***************************************************************************)
EXTENDS Integers

CONSTANT SntpTakers   \* the threads that want the service, positive numbers

ASSUME SntpAssumption == SntpTakers \subseteq Nat \ {0}

VARIABLES sntpTaken,   \* TAKEN
          sntpLock,    \* the thread that holds TAKEN's lock, or 0
          sntpAt,      \* each thread: "out", "new", "init", "held" or "drop"
          syncCb,      \* SYNC_CB: whose closure, or 0
          syncIn,      \* whose closure runs, under SYNC_CB's lock, or 0
          sntpOn,      \* does SNTP run?
          syncDue,     \* is sync_cb called, and about to take SYNC_CB's lock?
          sntpSpoilt   \* history: has init failed after the closure was stored?

sntpVars == <<sntpTaken, sntpLock, sntpAt, syncCb, syncIn, sntpOn, syncDue, sntpSpoilt>>

SntpInit ==
  /\ sntpTaken = FALSE /\ sntpLock = 0 /\ sntpAt = [t \in SntpTakers |-> "out"]
  /\ syncCb = 0 /\ syncIn = 0 /\ sntpOn = FALSE /\ syncDue = FALSE /\ sntpSpoilt = FALSE

SntpGoes(t, where) == sntpAt' = [sntpAt EXCEPT ![t] = where]

\* new and internal_new_with_callback: the lock, and nobody has it; the second
\* stores its closure first, the first leaves SYNC_CB as it finds it.
NewSntp(t, way) ==
  /\ sntpAt[t] = "out" /\ sntpLock = 0 /\ ~sntpTaken
  /\ sntpLock' = t /\ SntpGoes(t, IF way = "callback" THEN "new" ELSE "init")
  /\ UNCHANGED <<sntpTaken, syncCb, syncIn, sntpOn, syncDue, sntpSpoilt>>

StoreSync(t) ==
  /\ sntpAt[t] = "new" /\ syncIn = 0 /\ syncCb' = t /\ SntpGoes(t, "init")
  /\ UNCHANGED <<sntpTaken, sntpLock, syncIn, sntpOn, syncDue, sntpSpoilt>>

\* init fails if a server's name is none; the closure stays.
InitSntp(t) ==
  /\ sntpAt[t] = "init" /\ sntpLock' = 0
  /\ \/ SntpGoes(t, "held") /\ sntpTaken' = TRUE /\ sntpOn' = TRUE /\ UNCHANGED sntpSpoilt
     \/ /\ SntpGoes(t, "out") /\ sntpSpoilt' = (sntpSpoilt \/ syncCb = t)
        /\ UNCHANGED <<sntpTaken, sntpOn>>
  /\ UNCHANGED <<syncCb, syncIn, syncDue>>

\* The time was set.  The call may still be on its way when SNTP is stopped.
TimeIsSet ==
  /\ sntpOn /\ ~syncDue /\ syncDue' = TRUE
  /\ UNCHANGED <<sntpTaken, sntpLock, sntpAt, syncCb, syncIn, sntpOn, sntpSpoilt>>

\* sync_cb: the closure, if there is one, is called with SYNC_CB locked.
SyncCallback ==
  /\ syncDue /\ syncIn = 0 /\ syncIn' = syncCb /\ syncDue' = FALSE
  /\ UNCHANGED <<sntpTaken, sntpLock, sntpAt, syncCb, sntpOn, sntpSpoilt>>
SyncReturns ==
  /\ syncIn # 0 /\ syncIn' = 0
  /\ UNCHANGED <<sntpTaken, sntpLock, sntpAt, syncCb, sntpOn, syncDue, sntpSpoilt>>

\* The drop: sntp_stop under TAKEN's lock, ...
DropSntp(t) ==
  /\ sntpAt[t] = "held" /\ sntpLock = 0 /\ sntpLock' = t
  /\ sntpOn' = FALSE /\ SntpGoes(t, "drop")
  /\ UNCHANGED <<sntpTaken, syncCb, syncIn, syncDue, sntpSpoilt>>

\* Mutant: unsubscribe does not wait for a closure that runs.
UnsubscribeAtOnce(t) ==
  /\ sntpAt[t] = "drop" /\ syncCb' = 0
  /\ SntpGoes(t, "out") /\ sntpTaken' = FALSE /\ sntpLock' = 0
  /\ UNCHANGED <<syncIn, sntpOn, syncDue, sntpSpoilt>>

\* ... and unsubscribe, which waits for SYNC_CB's lock.
UnsubscribeSync(t) ==
  /\ sntpAt[t] = "drop" /\ syncIn = 0 /\ syncCb' = 0
  /\ SntpGoes(t, "out") /\ sntpTaken' = FALSE /\ sntpLock' = 0
  /\ UNCHANGED <<syncIn, sntpOn, syncDue, sntpSpoilt>>

SntpNext ==
  \/ TimeIsSet \/ SyncCallback \/ SyncReturns
  \/ \E t \in SntpTakers :
       \/ \E way \in {"plain", "callback"} : NewSntp(t, way)
       \/ StoreSync(t) \/ InitSntp(t) \/ DropSntp(t) \/ UnsubscribeSync(t)

-----------------------------------------------------------------------------
\* A closure that runs is the one of a service that lives: the drop waits for it,
\* and no later service, made without a callback, is given an earlier one's; but
\* for a closure that a failed init has left behind.
SntpClosures ==
  ~sntpSpoilt => /\ syncIn # 0 => sntpAt[syncIn] # "out"
                 /\ syncCb # 0 => sntpAt[syncCb] # "out"
=============================================================================
