--------------------------------- MODULE Ota ---------------------------------
(***************************************************************************)
(* ota.rs of the vendored esp-idf-svc: one EspOta, which lends itself to   *)
(* one EspOtaUpdate at a time, and the handles that ESP-IDF (external)     *)
(* gives out for an update.  A handle is valid until esp_ota_end, whether  *)
(* it succeeds or not, or esp_ota_abort.  Any call of ESP-IDF may fail.    *)
(***************************************************************************)
EXTENDS Integers

CONSTANTS Slots,        \* the app partitions; the update goes to the next one
          LastHandle    \* bound: updates begun

ASSUME OtaAssumption == LastHandle \in Nat /\ (\E s, t \in Slots : s # t)

VARIABLES otaTaken,    \* TAKEN
          whole,       \* the slots with a whole image
          boot,        \* the slot that boots next
          running,     \* the slot that runs
          update,      \* the update: [at, handle, slot]
          opened,      \* the handles that are valid
          handles,     \* handles given out so far
          otaEnded,       \* history: how often each handle was ended or aborted
          failed       \* history: the handles whose end or activation failed

otaVars == <<otaTaken, whole, boot, running, update, opened, handles, otaEnded, failed>>

NoUpdate == [at |-> "none", handle |-> 0, slot |-> CHOOSE s \in Slots : TRUE]

OtaInit ==
  /\ otaTaken = FALSE /\ whole = Slots
  /\ boot \in Slots /\ running = boot
  /\ update = NoUpdate /\ opened = {} /\ handles = 0
  /\ otaEnded = [h \in 1..LastHandle |-> 0] /\ failed = {}

history == <<otaEnded, failed>>
At(place) == update' = [update EXCEPT !.at = place]

\* esp_ota_end and esp_ota_abort: both fail if the handle is not valid.
Ends(handle) ==
  /\ opened' = opened \ {handle}
  /\ otaEnded' = [otaEnded EXCEPT ![handle] = @ + 1]

-----------------------------------------------------------------------------
\* EspOta::new, and the drop of EspOta, which an update forbids: it borrows it.
TakeOta ==
  /\ ~otaTaken /\ otaTaken' = TRUE
  /\ UNCHANGED <<whole, boot, running, update, opened, handles, history>>
DropOta ==
  /\ otaTaken /\ update.at = "none" /\ otaTaken' = FALSE
  /\ UNCHANGED <<whole, boot, running, update, opened, handles, history>>

\* initiate_update: a slot that does not run is erased, also when it is the one
\* that was activated before.
InitiateUpdate(s) ==
  /\ otaTaken /\ update.at = "none" /\ s # running /\ handles < LastHandle
  /\ handles' = handles + 1 /\ opened' = opened \cup {handles'}
  /\ whole' = whole \ {s}
  /\ update' = [at |-> "open", handle |-> handles', slot |-> s]
  /\ UNCHANGED <<otaTaken, boot, running, history>>

\* write and flush; the last write makes the image whole.
WriteOta ==
  /\ update.at = "open"
  /\ whole' = whole \cup {update.slot}
  /\ UNCHANGED <<otaTaken, boot, running, update, opened, handles, history>>

\* finish, up to its return: the update is forgotten when it has been ended, and
\* dropped when esp_ota_end fails.
FinishUpdate ==
  /\ update.at = "open"
  /\ Ends(update.handle)
  /\ \/ update.slot \in whole /\ At("finished") /\ UNCHANGED failed
     \/ At("dropping") /\ failed' = failed \cup {update.handle}
  /\ UNCHANGED <<otaTaken, whole, boot, running, handles>>

\* activate: EspOtaUpdateFinished has no drop of its own.
Activate ==
  /\ update.at = "finished" /\ update' = NoUpdate
  /\ boot' \in {boot, update.slot}
  /\ UNCHANGED <<otaTaken, whole, running, opened, handles, history>>

\* complete, its first call.
CompleteEnds ==
  /\ update.at = "open"
  /\ Ends(update.handle)
  /\ \/ update.slot \in whole /\ At("completing") /\ UNCHANGED failed
     \/ At("dropping") /\ failed' = failed \cup {update.handle}
  /\ UNCHANGED <<otaTaken, whole, boot, running, handles>>

\* Mutant: complete does not forget the update at its end.
CompleteForgetsNot ==
  /\ update.at = "completing" /\ At("dropping")
  /\ boot' = update.slot
  /\ UNCHANGED <<otaTaken, whole, running, opened, handles, history>>

\* complete, its second call; the early return of its failure drops the update.
CompleteBoots ==
  /\ update.at = "completing"
  /\ \/ boot' = update.slot /\ update' = NoUpdate /\ UNCHANGED failed
     \/ At("dropping") /\ failed' = failed \cup {update.handle} /\ UNCHANGED boot
  /\ UNCHANGED <<otaTaken, whole, running, opened, handles, otaEnded>>

\* The drop of EspOtaUpdate: by abort(), by whoever owns it, or by a failure.
DropUpdate ==
  /\ update.at \in {"open", "dropping"}
  /\ Ends(update.handle) /\ update' = NoUpdate
  /\ UNCHANGED <<otaTaken, whole, boot, running, handles, failed>>

\* factory_reset and the rollback choose the slot that boots next.
ChooseBoot(s) ==
  /\ otaTaken /\ update.at = "none" /\ s \in whole
  /\ boot' = s
  /\ UNCHANGED <<otaTaken, whole, running, update, opened, handles, history>>

\* The device restarts, at any moment; the boot loader falls back on a slot that
\* is whole.
Reset_ ==
  /\ otaTaken' = FALSE /\ update' = NoUpdate /\ opened' = {}
  /\ IF boot \in whole THEN UNCHANGED boot ELSE boot' \in whole
  /\ running' = boot'
  /\ UNCHANGED <<whole, handles, history>>

OtaNext ==
  \/ TakeOta \/ DropOta \/ WriteOta
  \/ \E s \in Slots : InitiateUpdate(s) \/ ChooseBoot(s)
  \/ FinishUpdate \/ Activate \/ CompleteEnds \/ CompleteBoots \/ DropUpdate
  \/ Reset_

-----------------------------------------------------------------------------
\* The comment of EspOtaUpdate's drop says that the handle it aborts is valid,
\* and nothing is to be left open: in whatever order updates are written,
\* finished, completed, aborted and dropped, a handle whose calls succeeded is
\* ended exactly once, and none is valid that no update holds.  (After a
\* failure of esp_ota_end or esp_ota_set_boot_partition the comment is wrong.)
HandleEndedOnce ==
  /\ opened \subseteq (IF update.at = "open" THEN {update.handle} ELSE {})
  /\ \A h \in DOMAIN otaEnded \ failed : otaEnded[h] <= 1
=============================================================================
