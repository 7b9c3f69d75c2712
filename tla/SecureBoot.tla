----------------------------- MODULE SecureBoot -----------------------------
(***************************************************************************)
(* The secure boot policy as a system: any client that keeps to the        *)
(* contract of the calls, a device that can lose power in every state and  *)
(* a Flash that can refuse every write.                                    *)
(*                                                                         *)
(* The contract is what secure_boot.h asks of the update path: select a    *)
(* slot, put RECEIVING on record before erasing or programming it, put     *)
(* COMMITTING on record before its manifest, and write no other slot.      *)
(* Module BootController, the client this device has, implements it.       *)
(***************************************************************************)
EXTENDS SecureBootApi

VARIABLE
    target    \* the slot the client selected for an update, or "NONE"

vars == <<pages, write, slots, phase, call, target>>

TypeOK == ApiTypeOK /\ target \in Slots

Init == ApiInit /\ target = "NONE"

-----------------------------------------------------------------------------
Recover == RecoverInterruptedUpdate /\ UNCHANGED target

Select ==
    /\ phase = "ready"
    /\ call = "none"
    /\ target = "NONE"
    /\ MaySelectUpdateSlot
    /\ target' = SelectedUpdateSlot
    /\ UNCHANGED apiVars

Begin == BeginUpdate(target) /\ UNCHANGED target

MarkCommitting == MarkUpdateCommitting(target) /\ UNCHANGED target

(* The marker is cleared.  A client that has not committed yet may keep the *)
(* slot it selected: the controller does when an erase fails.               *)
Abort ==
    /\ phase = "ready"
    /\ AbortUpdate
    /\ \/ target' = "NONE"
       \/ Status.update_state = "RECEIVING" /\ UNCHANGED target

Trial ==
    /\ Status.update_state = "COMMITTING"
    /\ Status.update_slot = target
    /\ RequestTrial(target)
    /\ UNCHANGED target

(* The client gives the update up, whatever the marker says. *)
Release ==
    /\ call = "none"
    /\ target # "NONE"
    /\ target' = "NONE"
    /\ UNCHANGED apiVars

Boot ==
    /\ phase = "ready"
    /\ target = "NONE"
    /\ BootCall
    /\ UNCHANGED target

Continue == ContinueBoot /\ UNCHANGED target

(* The running application confirms itself. *)
Confirm == ConfirmRunningImage(phase) /\ UNCHANGED target

ErasePage == EraseStatusPage /\ UNCHANGED target

ProgramPage == ProgramStatusPage /\ UNCHANGED target

FailPage == StatusWriteFails /\ UNCHANGED target

(* Once the trial is on record the update is over. *)
EndCall ==
    /\ Return
    /\ target' = IF call = "request_trial" /\ write.stage = "done"
                 THEN "NONE" ELSE target

(* The client may write the target slot while the marker says so. *)
Marked(update_state) ==
    /\ target \in AppSlots
    /\ Status.update_state = update_state
    /\ Status.update_slot = target

EraseSlot ==
    /\ Marked("RECEIVING")
    /\ StartSlotErase(target) \/ FinishSlotErase(target)
    /\ UNCHANGED target

(* Chunks go to a slot that was erased up to its manifest. *)
WriteImage(image) ==
    /\ Marked("RECEIVING")
    /\ slots[target].manifest = Blank
    /\ ProgramImage(target, image)
    /\ UNCHANGED target

WriteManifest(manifest) ==
    /\ Marked("COMMITTING")
    /\ ProgramManifest(target, manifest)
    /\ UNCHANGED target

Crash == PowerLoss /\ target' = "NONE"

Next ==
    \/ Recover
    \/ Select
    \/ Begin
    \/ MarkCommitting
    \/ Abort
    \/ Trial
    \/ Release
    \/ Boot
    \/ Continue
    \/ Confirm
    \/ ErasePage
    \/ ProgramPage
    \/ FailPage
    \/ EndCall
    \/ EraseSlot
    \/ \E image \in Images \cup {Partial} : WriteImage(image)
    \/ \E manifest \in Images \cup {Partial} : WriteManifest(manifest)
    \/ Crash

Spec == Init /\ [][Next]_vars

-----------------------------------------------------------------------------
(* The confirmed image survives every update, power loss and Flash error:   *)
(* the slot that the status names as confirmed always holds an image that   *)
(* verifies and is not older than the minimum version.                      *)
ConfirmedIntact ==
    Status.confirmed_slot # "NONE" =>
        Acceptable(Status.confirmed_slot, Status.minimum_version)

(* A slot on trial holds a verified image, is the active slot, and no       *)
(* update is under way that could overwrite an image.                       *)
TrialIntact ==
    Status.trial_slot # "NONE" =>
        /\ Acceptable(Status.trial_slot, Status.minimum_version)
        /\ Status.active_slot = Status.trial_slot
        /\ Status.update_state = "IDLE"

(* Only a verified image that is not older than the minimum version ever    *)
(* runs, and it stays verified for as long as it runs.                      *)
RunningVerified ==
    phase \in AppSlots => Acceptable(phase, Status.minimum_version)

(* What runs is what the status calls for: the image on trial, else the     *)
(* confirmed image.  A fallback runs only while nothing is confirmed.       *)
RunningIsDue ==
    phase \in AppSlots =>
        IF Status.trial_slot # "NONE"
        THEN phase = Status.trial_slot
        ELSE Status.confirmed_slot # "NONE" => phase = Status.confirmed_slot

(* The boot of a trial is on record before the trial image gets control:    *)
(* no power loss can give it a second boot as a trial.                      *)
TrialChargedBeforeRun ==
    phase = Status.trial_slot => Status.trial_boot_count = TrialBootLimit

(* Once some slot holds an image the policy would boot, some slot always    *)
(* does: an update never destroys the last bootable image.                  *)
Bootable == \E slot \in AppSlots : Acceptable(slot, Status.minimum_version)
BootableNeverLost == [][Bootable => Bootable']_vars

(* Neither the anti-rollback minimum nor the fact that an image has been    *)
(* confirmed is ever forgotten, although the record that holds them is      *)
(* rewritten all the time.                                                  *)
ConfirmationNeverLost ==
    [][/\ Status.minimum_version <= Status.minimum_version'
       /\ Status.confirmed_slot # "NONE" => Status.confirmed_slot' # "NONE"]_vars

(* Recovery promotes an update that was complete when power was lost, and   *)
(* drops every other: what a reset interrupted is resolved, never kept.     *)
RecoveryResolves ==
    [][call = "recover" /\ Status' # Status =>
        /\ Status'.update_state = "IDLE"
        /\ (Status'.trial_slot # "NONE") <=>
               /\ Status.update_state = "COMMITTING"
               /\ Verified(Status.update_slot)
               /\ slots[Status.update_slot].manifest.image_version
                      >= Status.minimum_version]_vars
=============================================================================
