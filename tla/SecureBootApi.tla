---------------------------- MODULE SecureBootApi ----------------------------
(***************************************************************************)
(* The calls of secure_boot.c: which image runs after a reset, which slot  *)
(* an update may overwrite, and how the status record moves an image from  *)
(* update to trial to confirmed.                                           *)
(*                                                                         *)
(* One operator per call up to its status commit; the commit runs in the   *)
(* journal, one Flash step at a time, and the call continues or returns    *)
(* once it has an outcome.  Nothing is assumed about the caller: module    *)
(* SecureBoot says what a caller owes these calls, module BootController   *)
(* is the caller.                                                          *)
(*                                                                         *)
(* Simplifications:                                                        *)
(*   - an image stands for its bytes: equal hashes mean equal images;      *)
(*   - a stored manifest is the signed image it describes, or torn; the    *)
(*     signature over any other manifest does not verify;                  *)
(*   - the public key is provisioned.                                      *)
(***************************************************************************)
EXTENDS Naturals

CONSTANTS
    Images,         \* signed releases: the slot they are linked for, the version
    Blank,          \* erased Flash
    Partial,        \* Flash that is neither erased nor completely programmed
    FactorySlots    \* slot contents the device may leave the factory with

AppSlots == {"APP1", "APP2"}
Slots == AppSlots \cup {"NONE"}

SlotContents == [image : Images \cup {Blank, Partial},
                 manifest : Images \cup {Blank, Partial}]

ASSUME ImagesAssumption ==
    /\ Images \subseteq [linked_slot : AppSlots, image_version : Nat]
    /\ Blank \notin Images
    /\ Partial \notin Images

ASSUME FactoryAssumption == FactorySlots \subseteq [AppSlots -> SlotContents]

(* SECURE_BOOT_TRIAL_BOOT_LIMIT *)
TrialBootLimit == 1

(* secure_boot_status_t without its metadata, generation and CRC. *)
BootStatus == [active_slot : Slots, confirmed_slot : Slots, trial_slot : Slots,
               trial_boot_count : Nat, minimum_version : Nat,
               update_slot : Slots,
               update_state : {"IDLE", "RECEIVING", "COMMITTING"}]

(* secure_boot_default_status *)
DefaultStatus == [active_slot |-> "NONE", confirmed_slot |-> "NONE",
                  trial_slot |-> "NONE", trial_boot_count |-> 0,
                  minimum_version |-> 0, update_slot |-> "NONE",
                  update_state |-> "IDLE"]

VARIABLES
    pages,    \* the two status pages
    write,    \* the status commit in progress
    slots,    \* Flash of each application slot
    phase,    \* "recover" after a reset, "ready" once recovery ran, or the running slot
    call      \* the call waiting for its status commit

apiVars == <<pages, write, slots, phase, call>>

Journal == INSTANCE StatusJournal WITH
    Contents <- BootStatus, DefaultContents <- DefaultStatus

Status == Journal!Status

UpdateCalls == {"recover", "begin_update", "mark_committing", "abort_update",
                "request_trial", "confirm"}
BootCalls == {"boot_trial", "boot_expired", "boot_active"}

ApiTypeOK ==
    /\ Journal!TypeOK
    /\ slots \in [AppSlots -> SlotContents]
    /\ phase \in {"recover", "ready"} \cup AppSlots
    /\ call \in {"none"} \cup UpdateCalls \cup BootCalls

-----------------------------------------------------------------------------
(* Verification. *)

(* secure_boot_verify_slot: a complete manifest, whose image is the one in  *)
(* the slot (hash), linked for this slot (vector table).                    *)
Verified(slot) ==
    /\ slots[slot].manifest \in Images
    /\ slots[slot].image = slots[slot].manifest
    /\ slots[slot].image.linked_slot = slot

(* secure_boot_verify_acceptable_slot *)
Acceptable(slot, minimum_version) ==
    /\ slot \in AppSlots
    /\ Verified(slot)
    /\ slots[slot].manifest.image_version >= minimum_version

OppositeSlot(slot) == IF slot = "APP1" THEN "APP2" ELSE "APP1"

(* Mutant of SelectFallback: a signed manifest is enough. *)
SelectFallbackByManifest(status) ==
    LET valid == {slot \in AppSlots : slots[slot].manifest \in Images}
    IN  IF "APP1" \in valid THEN "APP1" ELSE IF "APP2" \in valid THEN "APP2" ELSE "NONE"

(* secure_boot_select_fallback: the acceptable slot with the newer image. *)
SelectFallback(status) ==
    LET valid == {slot \in AppSlots : Acceptable(slot, status.minimum_version)}
    IN  IF /\ "APP1" \in valid
           /\ "APP2" \in valid =>
                  slots["APP1"].manifest.image_version
                      >= slots["APP2"].manifest.image_version
        THEN "APP1"
        ELSE IF "APP2" \in valid THEN "APP2" ELSE "NONE"

(* secure_boot_select_active_slot: the slot an update must not erase. *)
SelectActiveSlot(status) ==
    IF Acceptable(status.active_slot, status.minimum_version)
    THEN status.active_slot
    ELSE IF /\ status.trial_boot_count > 0
            /\ Acceptable(status.trial_slot, status.minimum_version)
         THEN status.trial_slot
         ELSE IF Acceptable(status.confirmed_slot, status.minimum_version)
              THEN status.confirmed_slot
              ELSE SelectFallback(status)

-----------------------------------------------------------------------------
(* Changes to a loaded status record. *)

(* Mutant of ClearUpdateMarker: the two fields get each other's value. *)
ClearUpdateMarkerSwapped(status) ==
    [status EXCEPT !.update_slot = "IDLE", !.update_state = "NONE"]

(* secure_boot_clear_update_marker *)
ClearUpdateMarker(status) ==
    [status EXCEPT !.update_slot = "NONE", !.update_state = "IDLE"]

(* Mutant of PutOnTrial: the update marker stays set. *)
PutOnTrialUnderMarker(status, slot) ==
    [status EXCEPT !.trial_slot = slot, !.trial_boot_count = 0, !.active_slot = slot]

(* The assignments secure_boot_request_trial and recovery share. *)
PutOnTrial(status, slot) ==
    ClearUpdateMarker([status EXCEPT !.trial_slot = slot,
                                     !.trial_boot_count = 0,
                                     !.active_slot = slot])

(* secure_boot_boot gives up a trial that was consumed or does not verify. *)
ExpireTrial(status) ==
    [status EXCEPT !.trial_slot = "NONE",
                   !.trial_boot_count = 0,
                   !.active_slot = IF @ = status.trial_slot
                                   THEN status.confirmed_slot ELSE @]

-----------------------------------------------------------------------------
ApiInit ==
    /\ Journal!Init
    /\ slots \in FactorySlots
    /\ phase = "recover"
    /\ call = "none"

(* A call computes its new record from the one it loaded and commits it. *)
Commit(name, status) ==
    /\ call = "none"
    /\ Journal!CommitStatus(status)
    /\ call' = name
    /\ UNCHANGED <<slots, phase>>

(* Mutant of RecoverInterruptedUpdate: every interrupted update is dropped. *)
RecoverByClearing ==
    /\ phase = "recover"
    /\ call = "none"
    /\ IF Status.update_state = "IDLE"
       THEN phase' = "ready" /\ UNCHANGED <<pages, write, slots, call>>
       ELSE Commit("recover", ClearUpdateMarker(Status))

(* secure_boot_recover_interrupted_update, first thing after a reset. *)
RecoverInterruptedUpdate ==
    /\ phase = "recover"
    /\ call = "none"
    /\ \/ /\ Status.update_state = "IDLE"
          /\ phase' = "ready"
          /\ UNCHANGED <<pages, write, slots, call>>
       \/ /\ Status.update_state = "COMMITTING"
          /\ Acceptable(Status.update_slot, Status.minimum_version)
          /\ Commit("recover", PutOnTrial(Status, Status.update_slot))
       \/ /\ Status.update_state # "IDLE"
          /\ ~ /\ Status.update_state = "COMMITTING"
               /\ Acceptable(Status.update_slot, Status.minimum_version)
          /\ Commit("recover", ClearUpdateMarker(Status))

(* Mutants of MaySelectUpdateSlot and SelectedUpdateSlot: a pending trial   *)
(* does not block the update; only a confirmed image is spared.             *)
MaySelectUpdateSlotDuringTrial == Status.update_state = "IDLE"

SelectedUpdateSlotUnconfirmed ==
    IF Status.confirmed_slot = "APP1" THEN "APP2" ELSE "APP1"

(* secure_boot_select_update_slot: when it succeeds, and the slot it names. *)
MaySelectUpdateSlot ==
    /\ Status.update_state = "IDLE"
    /\ ~Acceptable(Status.trial_slot, Status.minimum_version)

SelectedUpdateSlot ==
    LET active == SelectActiveSlot(Status)
    IN  IF active = "NONE" THEN "APP1" ELSE OppositeSlot(active)

(* secure_boot_begin_update(slot) *)
BeginUpdate(slot) ==
    /\ slot \in AppSlots
    /\ Status.update_state = "IDLE"
    /\ Commit("begin_update", [Status EXCEPT !.update_slot = slot,
                                             !.update_state = "RECEIVING"])

(* secure_boot_mark_update_committing(slot) *)
MarkUpdateCommitting(slot) ==
    /\ slot \in AppSlots
    /\ Status.update_state = "RECEIVING"
    /\ Status.update_slot = slot
    /\ Commit("mark_committing", [Status EXCEPT !.update_state = "COMMITTING"])

(* secure_boot_abort_update, when there is a marker to clear. *)
AbortUpdate ==
    /\ Status.update_state # "IDLE"
    /\ Commit("abort_update", ClearUpdateMarker(Status))

(* secure_boot_request_trial(slot) *)
RequestTrial(slot) ==
    /\ Acceptable(slot, Status.minimum_version)
    /\ Commit("request_trial", PutOnTrial(Status, slot))

(* secure_boot_confirm_running_image(slot), called by the application. *)
ConfirmRunningImage(slot) ==
    /\ slot \in AppSlots
    /\ Status.trial_slot = slot
    /\ Status.trial_boot_count = TrialBootLimit
    /\ Acceptable(slot, Status.minimum_version)
    /\ Commit("confirm",
              [Status EXCEPT !.confirmed_slot = slot,
                             !.active_slot = slot,
                             !.trial_slot = "NONE",
                             !.trial_boot_count = 0,
                             !.minimum_version = slots[slot].manifest.image_version])

-----------------------------------------------------------------------------
(* secure_boot_boot *)

(* Mutant of BootSelection: the newest valid image wins. *)
BootSelectionNewest(status) == SelectFallback(status)

(* The image to start when no trial is due. *)
BootSelection(status) ==
    IF Acceptable(status.confirmed_slot, status.minimum_version)
    THEN status.confirmed_slot
    ELSE SelectFallback(status)

(* The end of secure_boot_boot: remember the selected slot as active, then  *)
(* jump, which does not return.  The commit uses the caller's copy of       *)
(* generation and source, even when an earlier commit of the same call made *)
(* them old.  Without a valid image the caller resets the processor.        *)
BootInto(selected, status, generation, source) ==
    /\ UNCHANGED slots
    /\ \/ /\ selected = "NONE"
          /\ phase' = "recover"
          /\ call' = "none"
          /\ Journal!PowerLoss
       \/ /\ selected # "NONE"
          /\ status.active_slot = selected
          /\ phase' = selected
          /\ call' = "none"
          /\ Journal!PowerLoss
       \/ /\ selected # "NONE"
          /\ status.active_slot # selected
          /\ Journal!CommitFrom([status EXCEPT !.active_slot = selected],
                                generation, source)
          /\ call' = "boot_active"
          /\ UNCHANGED phase

TrialDue(status) ==
    /\ Acceptable(status.trial_slot, status.minimum_version)
    /\ status.trial_boot_count < TrialBootLimit

(* Mutant of BootTrial: the trial is put on record without being counted. *)
BootTrialUncounted ==
    /\ TrialDue(Status)
    /\ Commit("boot_trial", Status)

(* A trial is charged before it runs. *)
BootTrial ==
    /\ TrialDue(Status)
    /\ Commit("boot_trial", [Status EXCEPT !.trial_boot_count = @ + 1])

BootExpiredTrial ==
    /\ Status.trial_slot \in AppSlots
    /\ ~TrialDue(Status)
    /\ Commit("boot_expired", ExpireTrial(Status))

BootWithoutTrial ==
    /\ call = "none"
    /\ Status.trial_slot \notin AppSlots
    /\ BootInto(BootSelection(Status), Status, Journal!Generation, Journal!Source)

BootCall == BootTrial \/ BootExpiredTrial \/ BootWithoutTrial

(* A commit of secure_boot_boot succeeded; write still holds its copy. *)
ContinueBoot ==
    /\ write.stage = "done"
    /\ LET status == write.contents
           continue(selected) ==
               BootInto(selected, status, write.generation, write.source)
       IN  \/ call = "boot_trial" /\ continue(status.trial_slot)
           \/ call = "boot_expired" /\ continue(BootSelection(status))
           \/ call = "boot_active" /\ continue(status.active_slot)

-----------------------------------------------------------------------------
(* The commit of the pending call, and its return. *)

EraseStatusPage == Journal!EraseStatusPage /\ UNCHANGED <<slots, phase, call>>

ProgramStatusPage == Journal!ProgramStatusPage /\ UNCHANGED <<slots, phase, call>>

StatusWriteFails == Journal!StatusWriteFails /\ UNCHANGED <<slots, phase, call>>

(* A call returns: with an error, or as the last thing it does.  Recovery   *)
(* is not repeated when it fails.                                           *)
Return ==
    /\ write.stage = "failed" \/ call \in UpdateCalls
    /\ Journal!Return
    /\ call' = "none"
    /\ phase' = IF call = "recover" THEN "ready" ELSE phase
    /\ UNCHANGED slots

-----------------------------------------------------------------------------
(* What happens to the Flash of a slot. *)

WriteSlot(slot, contents) ==
    /\ call = "none"
    /\ slots' = [slots EXCEPT ![slot] = contents]
    /\ UNCHANGED <<pages, write, phase, call>>

(* boot_flash_erase_slot erases upwards: the image goes before the manifest. *)
StartSlotErase(slot) == WriteSlot(slot, [slots[slot] EXCEPT !.image = Partial])

FinishSlotErase(slot) == WriteSlot(slot, [image |-> Blank, manifest |-> Blank])

(* boot_flash_writer_write: some of the image, or the rest of it. *)
ProgramImage(slot, image) ==
    /\ slots[slot].image \in {Blank, Partial}
    /\ WriteSlot(slot, [slots[slot] EXCEPT !.image = image])

(* boot_flash_write_manifest *)
ProgramManifest(slot, manifest) ==
    /\ slots[slot].manifest \in {Blank, Partial}
    /\ WriteSlot(slot, [slots[slot] EXCEPT !.manifest = manifest])

(* Power loss, watchdog or software reset: Flash survives, RAM does not. *)
PowerLoss ==
    /\ Journal!PowerLoss
    /\ phase' = "recover"
    /\ call' = "none"
    /\ UNCHANGED slots
=============================================================================
