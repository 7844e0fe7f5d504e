----------------------------- MODULE EventLoop -----------------------------
(***************************************************************************)
(* eventloop.rs of the vendored esp-idf-svc, for the system event loop:    *)
(* who keeps it alive, who may post to it, and whose callbacks its task    *)
(* may still call.  The Arc around EventLoopHandle is the set of those who *)
(* hold it.  The queue, the task and the loop's mutex, which a handler     *)
(* runs under and which unregistering and deleting need, are ESP-IDF's     *)
(* (external).                                                             *)
(***************************************************************************)
EXTENDS Integers, Sequences, FiniteSets

CONSTANTS Holders,    \* the variables that may hold an EspEventLoop
          Subs,       \* the subscriptions
          QueueSize,  \* queue_size
          LastPost    \* bound: posted events

ASSUME EventLoopAssumption ==
  /\ Holders \cap Subs = {} /\ QueueSize \in Nat \ {0} /\ LastPost \in Nat

VARIABLES taken,      \* TAKEN
          created,    \* does the loop exist in ESP-IDF?
          strong,     \* who holds an Arc of the handle
          sub,        \* each subscription: "none", "strong", "weak" or "dropped";
                    \* "orphaned" if it was dropped when the loop had no owner left
          registered, \* the callbacks ESP-IDF may call
          freed,      \* the callbacks whose box is gone
          queue,      \* the events that wait
          posted,     \* how many events were posted
          calls,      \* the callbacks still to be called for the present event
          misled      \* history: a callback was called after its box was gone

loopVars == <<taken, created, strong, sub, registered, freed, queue, posted, calls, misled>>

LoopInit ==
  /\ taken = FALSE /\ created = FALSE /\ strong = {}
  /\ sub = [s \in Subs |-> "none"]
  /\ registered = {} /\ freed = {}
  /\ queue = <<>> /\ posted = 0 /\ calls = {}
  /\ misled = {}

MutexFree == calls = {}
eventVars == <<queue, posted, calls, misled>>

-----------------------------------------------------------------------------
\* take(): only one at a time.
Take(h) ==
  /\ ~taken
  /\ created' = TRUE /\ taken' = TRUE
  /\ strong' = {h}
  /\ UNCHANGED <<sub, registered, freed, eventVars>>

CloneLoop(h, g) ==
  /\ h \in strong /\ g \notin strong
  /\ strong' = strong \cup {g}
  /\ UNCHANGED <<taken, created, sub, registered, freed, eventVars>>

DropLoop(h) ==
  /\ h \in strong
  /\ strong' = strong \ {h}
  /\ UNCHANGED <<taken, created, sub, registered, freed, eventVars>>

\* Mutant: the mark is taken away before the loop is.
DropHandleEarly ==
  /\ strong = {} /\ taken
  /\ taken' = FALSE
  /\ UNCHANGED <<created, strong, sub, registered, freed, eventVars>>

\* The drop of EventLoopHandle, some time after the last Arc went.
DropHandle ==
  /\ strong = {} /\ taken /\ created
  /\ MutexFree
  /\ created' = FALSE /\ taken' = FALSE
  /\ registered' = {} /\ queue' = <<>>
  /\ UNCHANGED <<strong, sub, freed, posted, calls, misled>>

-----------------------------------------------------------------------------
\* subscribe, subscribe_nonstatic and subscribe_async, by way of subscribe_raw.
Subscribe(h, s) ==
  /\ h \in strong \cap Holders /\ sub[s] = "none" /\ MutexFree
  /\ sub' = [sub EXCEPT ![s] = "strong"]
  /\ registered' = registered \cup {s}
  /\ strong' = strong \cup {s}
  /\ UNCHANGED <<taken, created, freed, eventVars>>

MakeWeak(s) ==
  /\ sub[s] = "strong"
  /\ sub' = [sub EXCEPT ![s] = "weak"]
  /\ strong' = strong \ {s}
  /\ UNCHANGED <<taken, created, registered, freed, eventVars>>

\* upgrade(): a strong subscription has the loop; a weak one that ESP-IDF knows
\* has it while anybody owns it.
Upgrades(s) == sub[s] = "strong" \/ (sub[s] = "weak" /\ strong # {} /\ s \in registered)

\* The subscription is dropped after the last Arc of its loop went and before the
\* handle's own drop has deleted the loop.
Orphans(s) == sub[s] = "weak" /\ strong = {} /\ created

Dropped(s) ==
  /\ sub[s] \in {"strong", "weak"}
  /\ sub' = [sub EXCEPT ![s] = IF Orphans(s) THEN "orphaned" ELSE "dropped"]
  /\ freed' = freed \cup {s}
  /\ strong' = strong \ {s}

\* Mutant: the callback of a weak subscription is freed without being unregistered.
UnsubscribeLate(s) ==
  /\ Dropped(s)
  /\ IF sub[s] = "strong"
     THEN MutexFree /\ registered' = registered \ {s}
     ELSE UNCHANGED registered
  /\ UNCHANGED <<taken, created, eventVars>>

\* The drop of EspSubscription: the callback is unregistered if the loop can be
\* had, and then freed.
Unsubscribe(s) ==
  /\ Dropped(s)
  /\ IF Upgrades(s)
     THEN MutexFree /\ registered' = registered \ {s}
     ELSE UNCHANGED registered
  /\ UNCHANGED <<taken, created, eventVars>>

-----------------------------------------------------------------------------
\* post, isr_post_raw and post_async: false, or one more try, when it is full.
Post(h) ==
  /\ h \in strong \cap Holders
  /\ posted < LastPost /\ Len(queue) < QueueSize
  /\ posted' = posted + 1
  /\ queue' = Append(queue, posted')
  /\ UNCHANGED <<taken, created, strong, sub, registered, freed, calls, misled>>

\* The loop's task takes an event and calls the handlers one by one.
Dispatch ==
  /\ created /\ MutexFree /\ queue # <<>>
  /\ queue' = Tail(queue) /\ calls' = registered
  /\ UNCHANGED <<taken, created, strong, sub, registered, freed, posted, misled>>

Call(s) ==
  /\ s \in calls
  /\ calls' = calls \ {s}
  /\ misled' = IF s \in freed THEN misled \cup {s} ELSE misled
  /\ UNCHANGED <<taken, created, strong, sub, registered, freed, queue, posted>>

LoopNext ==
  \/ \E h \in Holders : Take(h) \/ DropLoop(h) \/ Post(h)
  \/ \E h, g \in Holders : CloneLoop(h, g)
  \/ \E h \in Holders, s \in Subs : Subscribe(h, s)
  \/ \E s \in Subs : MakeWeak(s) \/ Unsubscribe(s) \/ Call(s)
  \/ DropHandle \/ Dispatch

LoopSpec == LoopInit /\ [][LoopNext]_loopVars

-----------------------------------------------------------------------------
\* The loop exists exactly while TAKEN says so, and as long as anybody who
\* could post to it or receive from it holds it.
LoopOutlivesUsers ==
  /\ created <=> taken
  /\ strong # {} => created
  /\ \A s \in Subs : sub[s] = "strong" => s \in registered

\* In whatever order the loop's users drop what they have, and whatever its task is
\* doing, no callback is called after it was freed, be its subscription strong or
\* weak; the one exception is a weak one that was dropped when the loop had no owner
\* left and had not been deleted yet.
StrongNeverMisled == \A s \in misled : sub[s] = "orphaned"
=============================================================================
