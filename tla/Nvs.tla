--------------------------------- MODULE Nvs ---------------------------------
(***************************************************************************)
(* nvs.rs of the vendored esp-idf-svc: partitions that are taken once and  *)
(* shared by counted references, and one key of a namespace.  The flash    *)
(* keeps an entry per data type under the key; set_raw stores few bytes as *)
(* a u64 whose low byte is their number and more bytes as a blob, erasing  *)
(* what was there first.  Each call of ESP-IDF that a setter makes may     *)
(* fail, the erase without the setter taking notice, and power may fail    *)
(* between them.                                                           *)
(***************************************************************************)
EXTENDS Integers, Sequences, SequencesExt

CONSTANTS Base,       \* bound: the number of values of a byte (256)
          Width,      \* bound: the bytes of a u64 (8)
          Raws,       \* the byte strings that are stored
          LastSet,    \* bound: how often the key is set
          NoEntry,    \* there is no entry of a type
          Panic       \* what reading a u64 whose low byte is no length ends in

ASSUME NvsAssumption ==
  /\ Base \in Nat \ {0} /\ Width \in 1..Base /\ LastSet \in Nat
  /\ Raws \subseteq Seq(0..Base-1) /\ NoEntry \notin Raws \cup Nat

Types == {"u64", "blob", "str", "u8"}
NvsKinds == {"default", "custom", "encrypted"}

VARIABLES trail,     \* what the flash has held since the last commit, oldest first
          call,      \* the call in progress: [op, v, pc]
          sets,      \* how often the key has been set
          typed,     \* history: has an integer been set by set_u8, ..., set_i64?
          missed,    \* history: did nvs_erase_key of the present call fail?
          mixed,     \* history: was a value written beside what was not erased?
          may,       \* history: what the readers may find
          nvsKind,   \* the partition: NvsDefault, NvsCustom or NvsEncrypted
          nvsTaken,  \* the partition is registered (taken)
          inited,    \* the partition is initialised
          refs,      \* references to the partition: EspNvsPartition and open EspNvs
          leaving    \* the last reference is gone, its drop has not run yet

nvsVars == <<trail, call, sets, typed, missed, mixed, may, nvsKind, nvsTaken, inited, refs,
             leaving>>

-----------------------------------------------------------------------------
\* set_raw makes the u64 of a short byte string: from the last byte to the first,
\* each moves up what is there, and their number comes last.
Built(b) ==
  LET built[i \in 0..Len(b)] == IF i = 0 THEN 0
                                ELSE (Base * built[i - 1]) + b[Len(b) + 1 - i]
  IN  built
Encode(b) == (Base * Built(b)[Len(b)]) + Len(b)

\* get_raw: the low byte is the number of the bytes, each shift brings down the next.
Shifted(u) ==
  LET shifted[i \in 0..Width] == IF i = 0 THEN u ELSE shifted[i - 1] \div Base
  IN  shifted
Decode(u) ==
  IF u % Base > Width - 1 THEN Panic
  ELSE [i \in 1..(u % Base) |-> Shifted(u)[i] % Base]

\* A short byte string is what reading its u64 gives back.
CodecExact == \A b \in Raws : Len(b) < Width => Encode(b) # NoEntry /\ Decode(Encode(b)) = b

\* get_raw and len look for a u64 first and then for a blob.
GetRaw(e) == IF e["u64"] # NoEntry THEN Decode(e["u64"]) ELSE e["blob"]

\* What get_raw, get_blob and get_str find.
Seen(e) == [raw |-> GetRaw(e), blob |-> e["blob"], str |-> e["str"]]

Empty == [t \in Types |-> NoEntry]
Now == Last(trail)

\* The entry that each setter writes.
TypeOf(op, v) == CASE op = "raw"  -> IF Len(v) < Width THEN "u64" ELSE "blob"
                   [] op = "blob" -> "blob"
                   [] op = "str"  -> "str"
EntryOf(op, v) == IF TypeOf(op, v) = "u64" THEN Encode(v) ELSE v

\* What a reader is to find after the call alone.
After(op, v) ==
  IF op = "remove" THEN Seen(Empty)
  ELSE [raw |-> IF op = "str" THEN NoEntry ELSE v,
        blob |-> IF op = "str" \/ TypeOf(op, v) = "u64" THEN NoEntry ELSE v,
        str |-> IF op = "str" THEN v ELSE NoEntry]

-----------------------------------------------------------------------------
NvsInit ==
  /\ trail = <<Empty>> /\ call = [op |-> "none", v |-> <<>>, pc |-> "idle"]
  /\ sets = 0 /\ typed = FALSE /\ missed = FALSE /\ mixed = FALSE /\ may = {Seen(Empty)}
  /\ nvsKind \in NvsKinds
  /\ nvsTaken = FALSE /\ inited = FALSE /\ refs = 0 /\ leaving = FALSE

partitionVars == <<nvsKind, nvsTaken, inited, refs, leaving>>
keyVars == <<trail, call, sets, typed, missed, mixed, may>>
Goes(pc) == call' = [call EXCEPT !.pc = pc]

\* A namespace is open: nvs_open, in EspNvs::new, refuses a partition that is not ready.
Open == refs > 0 /\ inited

\* set_raw, set_blob, set_str or remove is called on an open namespace.
CallSet(op, v) ==
  /\ call.pc = "idle" /\ Open /\ sets < LastSet
  /\ call' = [op |-> op, v |-> v, pc |-> "erase"]
  /\ sets' = sets + 1 /\ missed' = FALSE
  /\ may' = may \cup {Seen(Empty), After(op, v)}
  /\ UNCHANGED <<trail, typed, mixed, partitionVars>>

\* Mutant: the setters do not clear the key first.
EraseKeyNot ==
  /\ call.pc = "erase" /\ call.op # "remove"
  /\ Goes("write")
  /\ UNCHANGED <<trail, sets, typed, missed, mixed, may, partitionVars>>

\* nvs_erase_key erases one entry of the key, of whatever type; or there is none,
\* or it fails and leaves what is there.  Only remove looks at its result: without
\* success it stops, and commits nothing, not even what a call that failed has
\* erased before.  The setters go on in any case.
EraseKey ==
  /\ call.pc = "erase"
  /\ \/ /\ \E t \in Types : /\ Now[t] # NoEntry
                            /\ trail' = Append(trail, [Now EXCEPT ![t] = NoEntry])
        /\ Goes(IF call.op = "remove" THEN "commit" ELSE "write")
        /\ UNCHANGED missed
     \/ /\ missed' = (Now # Empty)
        /\ Goes(IF call.op = "remove" THEN "idle" ELSE "write")
        /\ UNCHANGED trail
  /\ UNCHANGED <<sets, typed, mixed, may, partitionVars>>

\* Has the key an entry of another type than the one that is written?
Beside(type) == \E t \in Types \ {type} : Now[t] # NoEntry

\* nvs_set_u64, nvs_set_blob or nvs_set_str, or its failure: an early return
\* that leaves the key as it is.
WriteEntry ==
  /\ call.pc = "write"
  /\ \/ /\ trail' = Append(trail, [Now EXCEPT ![TypeOf(call.op, call.v)] =
                                                 EntryOf(call.op, call.v)])
        /\ mixed' = (mixed \/ (missed /\ Beside(TypeOf(call.op, call.v))))
        /\ Goes("commit")
     \/ Goes("idle") /\ UNCHANGED <<trail, mixed>>
  /\ UNCHANGED <<sets, typed, missed, may, partitionVars>>

\* nvs_commit; the call returns Ok, or its failure, after which what was written
\* is read all the same, but may be lost.
Commit ==
  /\ call.pc = "commit" /\ Goes("idle")
  /\ \/ trail' = <<Now>> /\ may' = {After(call.op, call.v)}
     \/ UNCHANGED <<trail, may>>
  /\ UNCHANGED <<sets, typed, missed, mixed, partitionVars>>

\* set_u8, ..., set_i64: no erase, the entry of that type is written.
SetInt(t, n) ==
  /\ call.pc = "idle" /\ Open /\ sets < LastSet
  /\ trail' = <<[Now EXCEPT ![t] = n]>>
  /\ sets' = sets + 1 /\ typed' = TRUE
  /\ UNCHANGED <<call, missed, mixed, may, partitionVars>>

\* The power fails: what had not been committed may be there or not.
PowerFails ==
  /\ \E i \in DOMAIN trail : trail' = <<trail[i]>>
  /\ Goes("idle")
  /\ nvsTaken' = FALSE /\ inited' = FALSE /\ refs' = 0 /\ leaving' = FALSE
  /\ UNCHANGED <<sets, typed, missed, mixed, may, nvsKind>>

-----------------------------------------------------------------------------
\* take() in its parts.  The partition is registered, with what it held or as new.
Enlists == nvsTaken' = TRUE /\ refs' = 1
Kept == UNCHANGED <<trail, typed, missed, mixed, may>>
Formatted ==
  /\ ~inited /\ trail' = <<Empty>> /\ may' = {Seen(Empty)}
  /\ typed' = FALSE /\ missed' = FALSE /\ mixed' = FALSE

\* A partition that is full or of another version is erased and initialised again;
\* when the second initialisation fails it is not registered.
InitCustom ==
  \/ inited' = TRUE /\ Enlists /\ (Kept \/ Formatted)
  \/ Formatted /\ UNCHANGED <<inited, nvsTaken, refs>>

\* The same, but that any other failure of nvs_flash_init goes for a success.
InitDefault == InitCustom \/ (~inited /\ Kept /\ Enlists /\ UNCHANGED inited)

\* It is never erased, but keys made anew leave what it held unreadable.
InitEncrypted == inited' = TRUE /\ Enlists /\ (Kept \/ Formatted)

\* take(): under the lock of the registrations.
TakePartition ==
  /\ ~nvsTaken /\ refs = 0
  /\ \/ nvsKind = "default" /\ InitDefault
     \/ nvsKind = "custom" /\ InitCustom
     \/ nvsKind = "encrypted" /\ InitEncrypted
  /\ UNCHANGED <<call, sets, nvsKind, leaving>>

\* clone, and EspNvs::new, which keeps the partition it is given.
CloneRef ==
  /\ refs \in 1..2
  /\ refs' = refs + 1 /\ UNCHANGED <<keyVars, nvsKind, nvsTaken, inited, leaving>>

\* A reference is dropped; the last one has the partition's drop to run.
DropRef ==
  /\ refs > 0 /\ call.pc = "idle" /\ ~leaving
  /\ refs' = refs - 1 /\ leaving' = (refs = 1)
  /\ UNCHANGED <<keyVars, nvsKind, nvsTaken, inited>>

\* Mutant: the partition is given back in one step and deinitialised in another.
DropPartitionUnlocked ==
  /\ leaving
  /\ IF nvsTaken /\ refs = 0 THEN nvsTaken' = FALSE /\ UNCHANGED <<inited, leaving>>
                          ELSE inited' = FALSE /\ leaving' = FALSE /\ UNCHANGED nvsTaken
  /\ UNCHANGED <<keyVars, nvsKind, refs>>

\* The partition's drop: given back under the lock, NvsCustom and NvsEncrypted
\* deinitialised before; NvsDefault stays initialised.
DropPartition ==
  /\ leaving
  /\ nvsTaken' = FALSE /\ leaving' = FALSE
  /\ inited' = (nvsKind = "default" /\ inited)
  /\ UNCHANGED <<keyVars, nvsKind, refs>>

NvsNext ==
  \/ \E op \in {"raw", "blob", "str"}, v \in Raws : CallSet(op, v)
  \/ CallSet("remove", <<>>)
  \/ EraseKey \/ WriteEntry \/ Commit \/ PowerFails
  \/ \E t \in {"u64", "u8"} : SetInt(t, 1)
  \/ TakePartition \/ CloneRef \/ DropRef \/ DropPartition

-----------------------------------------------------------------------------
\* Whatever was stored under the key before, as whatever type, and wherever
\* the power has failed or a call stopped: between calls the readers find the
\* value last set, or, after an interrupted or failed call, the one before or
\* nothing; never an older value and never a mix.  Two things are excepted, until
\* the partition is formatted: the key was set by an integer setter, which does
\* not clear it (typed); or a setter wrote its value beside an entry of another
\* type that nvs_erase_key had failed to erase (mixed).
ReadsWhatWasSet == call.pc = "idle" /\ ~typed /\ ~mixed => Seen(Now) \in may

\* A partition somebody holds is registered and initialised: the drop of one owner
\* never undoes the take of the next.  When nobody holds it, it can be taken again
\* and is not left initialised.  (NvsDefault goes without a successful
\* initialisation, and is never deinitialised.)
HeldIsReady ==
  /\ refs > 0 => nvsTaken /\ (inited \/ nvsKind = "default")
  /\ refs = 0 /\ ~leaving => ~nvsTaken /\ (~inited \/ nvsKind = "default")
=============================================================================
