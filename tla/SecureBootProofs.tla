-------------------------- MODULE SecureBootProofs --------------------------
(***************************************************************************)
(* The safety of the secure boot policy, for every set of releases, every  *)
(* factory state and any number of updates, power losses and Flash errors. *)
(* Inv is the inductive invariant: it speaks of every valid status page,   *)
(* not only of the one a load takes, because a power loss during a commit  *)
(* can bring the other one back.  KeptOK, RecoverOK and SpareOK, further    *)
(* down, add what it takes to compare a step's two states.                 *)
(***************************************************************************)
EXTENDS SecureBoot, SecureBootApiProofs

USE DEF ApiTypeOK

(* What a record may say about the slots, whether or not a load takes it. *)
RecordOK(status) ==
    /\ status.confirmed_slot # "NONE" =>
           Acceptable(status.confirmed_slot, status.minimum_version)
    /\ status.trial_slot # "NONE" =>
           /\ Acceptable(status.trial_slot, status.minimum_version)
           /\ status.active_slot = status.trial_slot
           /\ status.update_state = "IDLE"
    /\ status.trial_slot = "NONE" /\ status.confirmed_slot # "NONE" =>
           status.active_slot = status.confirmed_slot
    /\ status.update_state # "IDLE" =>
           /\ status.update_slot \in AppSlots
           /\ status.update_slot # status.confirmed_slot

PagesOK == \A p \in Pages : pages[p].valid => RecordOK(pages[p].contents)

WriteOK == write.stage \in {"erase", "program", "done"} => RecordOK(write.contents)

(* Which call runs when. *)
CallOK ==
    /\ call = "none" <=> write.stage = "none"
    /\ call \in BootCalls => phase = "ready" /\ target = "NONE"
    /\ call \in {"begin_update", "mark_committing", "abort_update",
                 "request_trial"} => phase = "ready"
    /\ call = "recover" => phase = "recover"
    /\ call = "confirm" => phase \in AppSlots

(* A commit in progress wins the next load; only the second commit of       *)
(* secure_boot_boot may destroy the record a load returns meanwhile.        *)
CommitOK ==
    /\ write.stage \in {"erase", "program", "done"} =>
           \A p \in Pages : p # Journal!CommitPage(write.source) /\ pages[p].valid =>
               pages[p].generation < write.generation
    /\ Journal!Writing /\ call # "boot_active" => write.source = Journal!Source
    /\ write.stage = "done" => Status = write.contents

(* The selected slot holds neither the confirmed image nor a trial. *)
TargetOK ==
    target \in AppSlots =>
        /\ phase = "ready"
        /\ ~(call = "request_trial" /\ write.stage = "done") =>
               /\ Status.trial_slot = "NONE"
               /\ Status.confirmed_slot # target
        /\ Journal!Writing /\ call # "request_trial" =>
               /\ write.contents.trial_slot = "NONE"
               /\ write.contents.confirmed_slot # target
        /\ Journal!Writing /\ call = "request_trial" =>
               write.contents.update_state = "IDLE"

(* Once the marker is on record, no page names the target. *)
MarkerOK ==
    target \in AppSlots /\ Status.update_state # "IDLE" =>
        \A p \in Pages : pages[p].valid =>
            /\ pages[p].contents.confirmed_slot # target
            /\ pages[p].contents.trial_slot # target

Due(slot, status) ==
    IF status.trial_slot # "NONE"
    THEN slot = status.trial_slot
    ELSE status.confirmed_slot # "NONE" => slot = status.confirmed_slot

(* What runs, and what secure_boot_boot is about to run. *)
RunOK ==
    phase \in AppSlots =>
        /\ Acceptable(phase, Status.minimum_version)
        /\ phase = Status.trial_slot => Status.trial_boot_count = TrialBootLimit
        /\ Due(phase, Status)
        /\ Journal!Writing =>
               /\ Acceptable(phase, write.contents.minimum_version)
               /\ write.contents.trial_slot = "NONE"
               /\ write.contents.confirmed_slot = phase

BootOK ==
    /\ call = "boot_trial" =>
           /\ write.contents.trial_slot \in AppSlots
           /\ write.contents.trial_boot_count = TrialBootLimit
    /\ call = "boot_expired" => write.contents.trial_slot = "NONE"
    /\ call = "boot_active" =>
           /\ write.contents.trial_slot = "NONE"
           /\ Acceptable(write.contents.active_slot, write.contents.minimum_version)

Inv ==
    /\ TypeOK
    /\ PagesOK
    /\ WriteOK
    /\ CallOK
    /\ CommitOK
    /\ TargetOK
    /\ MarkerOK
    /\ RunOK
    /\ BootOK

-----------------------------------------------------------------------------
(* Types. *)

LEMMA InitType == Init => TypeOK
BY InitialType DEF Init, TypeOK, Slots

LEMMA NextType == TypeOK /\ [Next]_vars => TypeOK'
<1> SUFFICES ASSUME TypeOK, [Next]_vars
             PROVE  TypeOK'
    OBVIOUS
<1>a. ApiTypeOK /\ target \in Slots
    BY DEF TypeOK
<1> HIDE DEF ApiTypeOK
<1>1. CASE Recover \/ Begin \/ MarkCommitting \/ Trial \/ Boot \/ Continue
    BY <1>1, <1>a, CallType
    DEF TypeOK, Recover, Begin, MarkCommitting, Trial, Boot, Continue
<1>2. CASE Abort
    BY <1>2, <1>a, CallType DEF TypeOK, Abort, Slots
<1>3. CASE Select \/ Release \/ UNCHANGED vars
    <2>1. UNCHANGED apiVars /\ target' \in Slots
        BY <1>3, <1>a DEF Select, SelectedUpdateSlot, OppositeSlot, Release, vars, apiVars, Slots,
                          AppSlots
    <2> QED BY <1>a, <2>1 DEF TypeOK, ApiTypeOK, Journal!TypeOK, apiVars
<1>4. CASE Confirm
    BY <1>4, <1>a, CallType DEF TypeOK, Confirm, ConfirmRunningImage, Slots
<1>5. CASE ErasePage \/ ProgramPage \/ FailPage \/ EndCall \/ Crash
    BY <1>5, <1>a, CommitStepType
    DEF TypeOK, ErasePage, ProgramPage, FailPage, EndCall, Crash, Slots
<1>6. CASE \/ EraseSlot
           \/ \E image \in Images \cup {Partial} : WriteImage(image)
           \/ \E manifest \in Images \cup {Partial} : WriteManifest(manifest)
    BY <1>6, <1>a, SlotStepType DEF TypeOK, EraseSlot, WriteImage, WriteManifest
<1> QED BY <1>1, <1>2, <1>3, <1>4, <1>5, <1>6 DEF Next

(* Every variable always has its type. *)
THEOREM TypeCorrect == Spec => []TypeOK
BY InitType, NextType, PTL DEF Spec
-----------------------------------------------------------------------------
(* Records. *)

(* What a load returns is a record on a valid page, or the default. *)
LEMMA StatusOK == TypeOK /\ PagesOK => RecordOK(Status)
BY DEF PagesOK, RecordOK, Status, Journal!Status, Journal!Source, DefaultStatus,
       Pages, Journal!Pages

(* Every change a call makes to a record keeps it in order. *)
LEMMA ClearOK ==
    ASSUME NEW status \in BootStatus, RecordOK(status)
    PROVE  RecordOK(ClearUpdateMarker(status))
BY DEF RecordOK, ClearUpdateMarker, BootStatus

LEMMA PutOnTrialFields ==
    ASSUME NEW status \in BootStatus, NEW slot \in Slots
    PROVE  /\ PutOnTrial(status, slot).confirmed_slot = status.confirmed_slot
           /\ PutOnTrial(status, slot).minimum_version = status.minimum_version
           /\ PutOnTrial(status, slot).trial_slot = slot
           /\ PutOnTrial(status, slot).active_slot = slot
           /\ PutOnTrial(status, slot).update_state = "IDLE"
<1> DEFINE trial == [status EXCEPT !.trial_slot = slot, !.trial_boot_count = 0,
                                   !.active_slot = slot]
<1>1. /\ trial \in BootStatus
      /\ trial.confirmed_slot = status.confirmed_slot
      /\ trial.minimum_version = status.minimum_version
      /\ trial.trial_slot = slot
      /\ trial.active_slot = slot
    BY DEF BootStatus, Slots
<1>2. PutOnTrial(status, slot) = [trial EXCEPT !.update_slot = "NONE",
                                               !.update_state = "IDLE"]
    BY DEF PutOnTrial, ClearUpdateMarker
<1> HIDE DEF trial
<1> QED BY <1>1, <1>2 DEF BootStatus

LEMMA PutOnTrialOK ==
    ASSUME NEW status \in BootStatus, RecordOK(status), NEW slot,
           Acceptable(slot, status.minimum_version)
    PROVE  RecordOK(PutOnTrial(status, slot))
<1>1. slot \in AppSlots /\ slot \in Slots /\ slot # "NONE"
    BY DEF Acceptable, Slots, AppSlots
<1> QED BY <1>1, PutOnTrialFields DEF RecordOK

LEMMA ExpireOK ==
    ASSUME NEW status \in BootStatus, RecordOK(status),
           status.trial_slot \in AppSlots
    PROVE  /\ RecordOK(ExpireTrial(status))
           /\ ExpireTrial(status).trial_slot = "NONE"
BY DEF RecordOK, ExpireTrial, BootStatus, AppSlots

LEMMA MarkerRecordOK ==
    ASSUME NEW status \in BootStatus, RecordOK(status),
           NEW slot \in AppSlots,
           status.trial_slot = "NONE", status.confirmed_slot # slot
    PROVE  RecordOK([status EXCEPT !.update_slot = slot,
                                   !.update_state = "RECEIVING"])
BY DEF RecordOK, BootStatus

LEMMA CommittingOK ==
    ASSUME NEW status \in BootStatus, RecordOK(status),
           status.update_state = "RECEIVING"
    PROVE  RecordOK([status EXCEPT !.update_state = "COMMITTING"])
BY DEF RecordOK, BootStatus

LEMMA ChargeOK ==
    ASSUME NEW status \in BootStatus, RecordOK(status)
    PROVE  RecordOK([status EXCEPT !.trial_boot_count = @ + 1])
BY DEF RecordOK, BootStatus

LEMMA ActiveOK ==
    ASSUME NEW status \in BootStatus, RecordOK(status), NEW slot,
           status.trial_slot = "NONE", status.confirmed_slot = "NONE"
    PROVE  RecordOK([status EXCEPT !.active_slot = slot])
BY DEF RecordOK, BootStatus

LEMMA ConfirmOK ==
    ASSUME NEW status \in BootStatus, RecordOK(status), TypeOK,
           NEW slot \in AppSlots, status.trial_slot = slot,
           Acceptable(slot, status.minimum_version)
    PROVE  RecordOK([status EXCEPT
                         !.confirmed_slot = slot,
                         !.active_slot = slot,
                         !.trial_slot = "NONE",
                         !.trial_boot_count = 0,
                         !.minimum_version = slots[slot].manifest.image_version])
<1>1. /\ slot # "NONE"
      /\ status.update_state = "IDLE"
      /\ slots[slot].manifest.image_version \in Nat
    BY AcceptableType DEF TypeOK, RecordOK, AppSlots
<1>2. Acceptable(slot, slots[slot].manifest.image_version)
    BY <1>1 DEF Acceptable
<1> QED BY <1>1, <1>2 DEF RecordOK, BootStatus

(* Without a trial, a confirmed image is what boots, and it is the active   *)
(* one: secure_boot_boot then needs no commit.                              *)
LEMMA SelectionAcceptable ==
    ASSUME NEW status \in BootStatus, RecordOK(status),
           BootSelection(status) # "NONE"
    PROVE  /\ Acceptable(BootSelection(status), status.minimum_version)
           /\ status.trial_slot = "NONE" /\ status.active_slot # BootSelection(status)
                  => status.confirmed_slot = "NONE"
           /\ status.trial_slot = "NONE" => Due(BootSelection(status), status)
BY DEF BootSelection, SelectFallback, RecordOK, Due, AppSlots
-----------------------------------------------------------------------------
(* Steps, by what they do to the journal and the slots. *)

(* The same slots are as acceptable as they were. *)
LEMMA SameSlots ==
    ASSUME UNCHANGED slots
    PROVE  \A slot, minimum : Acceptable(slot, minimum)' <=> Acceptable(slot, minimum)
<1> SUFFICES ASSUME NEW slot, NEW minimum
             PROVE  Acceptable(slot, minimum)' <=> Acceptable(slot, minimum)
    OBVIOUS
<1>1. slots'[slot] = slots[slot]
    OBVIOUS
<1> QED BY <1>1, Zenon DEF Acceptable, Verified

LEMMA SameRecords ==
    ASSUME UNCHANGED slots, NEW status
    PROVE  RecordOK(status)' <=> RecordOK(status)
BY DEF RecordOK, Acceptable, Verified

(* The journal's side of a commit that starts from some page. *)
LEMMA CommitFromStep ==
    ASSUME Inv, NEW status \in BootStatus, RecordOK(status),
           NEW generation \in Nat, NEW source \in Pages \cup {"NONE"},
           Journal!CommitFrom(status, generation, source), UNCHANGED slots
    PROVE  /\ PagesOK' /\ WriteOK'
           /\ write'.stage = "erase" /\ Journal!Writing'
           /\ write'.contents = status
           /\ write'.source = source /\ write'.generation = generation + 1
           /\ Status' = Status /\ Journal!Source' = Journal!Source
<1>1. UNCHANGED pages
    BY DEF Journal!CommitFrom
<1>2. PagesOK'
    BY <1>1 DEF Inv, PagesOK, RecordOK, Acceptable, Verified
<1>3. /\ write'.stage = "erase"
      /\ write'.contents = status
      /\ write'.source = source
      /\ write'.generation = generation + 1
    BY DEF Journal!CommitFrom
<1>4. RecordOK(write.contents)'
    BY <1>3, SameRecords DEF RecordOK, Acceptable, Verified
<1> QED BY <1>1, <1>2, <1>3, <1>4, SamePages DEF WriteOK, Journal!Writing

(* The journal's side of an ordinary commit. *)
LEMMA CommitStep ==
    ASSUME Inv, NEW status \in BootStatus, RecordOK(status),
           Journal!CommitStatus(status), UNCHANGED slots,
           target' \in {target, "NONE"}
    PROVE  /\ PagesOK' /\ WriteOK' /\ CommitOK' /\ MarkerOK'
           /\ write'.stage = "erase" /\ Journal!Writing'
           /\ write'.contents = status
           /\ Status' = Status
           /\ UNCHANGED pages
<1>1. /\ Journal!CommitFrom(status, Journal!Generation, Journal!Source)
      /\ Journal!Generation \in Nat
      /\ Journal!Source \in Pages \cup {"NONE"}
    BY StatusType DEF TypeOK, Journal!CommitStatus, Inv
<1>2. /\ PagesOK' /\ WriteOK'
      /\ write'.stage = "erase" /\ Journal!Writing'
      /\ write'.contents = status
      /\ write'.source = Journal!Source
      /\ write'.generation = Journal!Generation + 1
      /\ Status' = Status /\ Journal!Source' = Journal!Source
    BY <1>1, CommitFromStep
<1>3. UNCHANGED pages
    BY <1>1 DEF Journal!CommitFrom
<1>4. \A p \in Pages : pages'[p].valid => pages'[p].generation < write'.generation
    BY <1>1, <1>2, <1>3, SourceNewest
    DEF Inv, TypeOK, Journal!TypeOK, Journal!PageRecord, Pages
<1>5. CommitOK'
    BY <1>2, <1>4 DEF CommitOK
<1>6. MarkerOK'
    BY <1>2, <1>3 DEF Inv, MarkerOK, AppSlots
<1> QED BY <1>2, <1>3, <1>5, <1>6

(* The commit writes its page without touching the record of the load. *)
LEMMA EraseStep ==
    ASSUME TypeOK, Journal!EraseStatusPage, write.source = Journal!Source
    PROVE  Status' = Status /\ Journal!Source' = Journal!Source
BY DEF TypeOK, Journal!TypeOK, Journal!EraseStatusPage, Status, Journal!Status,
       Journal!Source, Journal!CommitPage, Journal!ErasedPage, Journal!Pages,
       Journal!PageRecord

-----------------------------------------------------------------------------
(* Every action preserves Inv. *)

LEMMA RecoverInv == Inv /\ TypeOK' /\ Recover => Inv'
<1> SUFFICES ASSUME Inv, TypeOK', Recover
             PROVE  Inv'
    OBVIOUS
<1> USE DEF Recover, RecoverInterruptedUpdate
<1>1. /\ Status \in BootStatus
      /\ RecordOK(Status)
      /\ target \notin AppSlots
    BY StatusType, StatusOK DEF TypeOK, Inv, TargetOK
<1>2. CASE Status.update_state = "IDLE"
    <2>1. UNCHANGED <<pages, write, slots, call, target>> /\ phase' = "ready"
        BY <1>2
    <2>2. Status' = Status /\ Journal!Source' = Journal!Source
        BY <2>1, SamePages
    <2>3. PagesOK' /\ WriteOK'
        BY <2>1, SameSlots DEF Inv, PagesOK, WriteOK, RecordOK
    <2>4. CallOK' /\ CommitOK' /\ BootOK'
        BY <2>1, <2>2, SameSlots
        DEF Inv, CallOK, CommitOK, BootOK, Journal!Writing, BootCalls, AppSlots
    <2>5. TargetOK' /\ MarkerOK' /\ RunOK'
        BY <1>1, <2>1 DEF TargetOK, MarkerOK, RunOK, AppSlots
    <2> QED BY <2>3, <2>4, <2>5 DEF Inv
<1>3. CASE Status.update_state # "IDLE"
    <2>1. PICK status \in BootStatus :
              /\ RecordOK(status)
              /\ Commit("recover", status)
              /\ UNCHANGED <<slots, target, phase>>
        BY <1>1, <1>3, ClearOK, PutOnTrialOK, UpdateType DEF BootStatus, Commit
    <2>2. /\ PagesOK' /\ WriteOK' /\ CommitOK' /\ MarkerOK'
          /\ write'.stage = "erase" /\ call' = "recover"
        BY <2>1, CommitStep DEF Commit
    <2> QED BY <1>1, <2>1, <2>2
        DEF Inv, CallOK, TargetOK, RunOK, BootOK, BootCalls, AppSlots
<1> QED BY <1>2, <1>3

LEMMA SelectInv == Inv /\ TypeOK' /\ Select => Inv'
<1> SUFFICES ASSUME Inv, TypeOK', Select
             PROVE  Inv'
    OBVIOUS
<1> USE DEF Select, SelectedUpdateSlot, MaySelectUpdateSlot, apiVars
<1>1. /\ Status \in BootStatus
      /\ RecordOK(Status)
      /\ Status' = Status /\ Journal!Source' = Journal!Source
    BY StatusType, StatusOK, SamePages DEF TypeOK, Inv
<1>2. Status.trial_slot = "NONE"
    BY <1>1 DEF RecordOK
<1>3. target' # Status.confirmed_slot
    <2>1. CASE Status.confirmed_slot = "NONE"
        BY <2>1 DEF OppositeSlot
    <2>2. CASE Status.confirmed_slot # "NONE"
        <3>1. /\ SelectActiveSlot(Status) = Status.confirmed_slot
              /\ Status.confirmed_slot \in AppSlots
            BY <1>1, <1>2, <2>2 DEF RecordOK, SelectActiveSlot, Acceptable
        <3> QED BY <3>1 DEF OppositeSlot, AppSlots
    <2> QED BY <2>1, <2>2
<1>4. /\ UNCHANGED <<pages, write, slots, phase, call>>
      /\ phase = "ready" /\ call = "none"
    OBVIOUS
<1>5. write.stage = "none" /\ ~Journal!Writing
    BY <1>4 DEF Inv, CallOK, Journal!Writing
<1>6. PagesOK' /\ WriteOK'
    BY <1>4, SameSlots DEF Inv, PagesOK, WriteOK, RecordOK
<1>7. CallOK' /\ CommitOK' /\ BootOK' /\ RunOK'
    BY <1>1, <1>4, <1>5
    DEF Inv, CallOK, CommitOK, BootOK, RunOK, BootCalls, AppSlots, Journal!Writing
<1>8. TargetOK'
    BY <1>1, <1>2, <1>3, <1>4, <1>5 DEF TargetOK, Journal!Writing
<1>9. MarkerOK'
    BY <1>1, <1>4
    DEF MarkerOK
<1> QED BY <1>6, <1>7, <1>8, <1>9 DEF Inv

LEMMA BeginInv == Inv /\ TypeOK' /\ Begin => Inv'
<1> SUFFICES ASSUME Inv, TypeOK', Begin
             PROVE  Inv'
    OBVIOUS
<1> DEFINE status == [Status EXCEPT !.update_slot = target,
                                    !.update_state = "RECEIVING"]
<1>1. /\ Status \in BootStatus /\ RecordOK(Status)
      /\ target \in AppSlots /\ phase = "ready"
      /\ Status.trial_slot = "NONE" /\ Status.confirmed_slot # target
    BY StatusType, StatusOK DEF TypeOK, Inv, Begin, BeginUpdate, TargetOK, Commit
<1>2. /\ status \in BootStatus
      /\ RecordOK(status)
      /\ status.trial_slot = "NONE" /\ status.confirmed_slot # target
    <2>1. status \in BootStatus
        BY <1>1 DEF BootStatus, Slots
    <2>2. RecordOK(status)
        BY <1>1, MarkerRecordOK
    <2>3. status.trial_slot = "NONE" /\ status.confirmed_slot # target
        BY <1>1 DEF BootStatus
    <2> QED BY <2>1, <2>2, <2>3
<1> HIDE DEF status
<1>3. /\ Journal!CommitStatus(status)
      /\ UNCHANGED <<slots, phase, target>> /\ call' = "begin_update"
    BY DEF Begin, BeginUpdate, Commit, status
<1>4. /\ PagesOK' /\ WriteOK' /\ CommitOK' /\ MarkerOK'
      /\ write'.stage = "erase" /\ write'.contents = status /\ Status' = Status
    BY <1>2, <1>3, CommitStep
<1> QED BY <1>1, <1>2, <1>3, <1>4
    DEF Inv, CallOK, TargetOK, RunOK, BootOK, BootCalls, AppSlots

LEMMA CommittingInv == Inv /\ TypeOK' /\ MarkCommitting => Inv'
<1> SUFFICES ASSUME Inv, TypeOK', MarkCommitting
             PROVE  Inv'
    OBVIOUS
<1> DEFINE status == [Status EXCEPT !.update_state = "COMMITTING"]
<1>1. /\ Status \in BootStatus /\ RecordOK(Status)
      /\ target \in AppSlots /\ phase = "ready"
      /\ Status.trial_slot = "NONE" /\ Status.confirmed_slot # target
      /\ Status.update_state = "RECEIVING"
    BY StatusType, StatusOK DEF TypeOK, Inv, MarkCommitting, MarkUpdateCommitting, TargetOK, Commit
<1>2. /\ status \in BootStatus
      /\ RecordOK(status)
      /\ status.trial_slot = "NONE" /\ status.confirmed_slot # target
    <2>1. status \in BootStatus
        BY <1>1 DEF BootStatus, Slots
    <2>2. RecordOK(status)
        BY <1>1, CommittingOK
    <2>3. status.trial_slot = "NONE" /\ status.confirmed_slot # target
        BY <1>1 DEF BootStatus
    <2> QED BY <2>1, <2>2, <2>3
<1> HIDE DEF status
<1>3. /\ Journal!CommitStatus(status)
      /\ UNCHANGED <<slots, phase, target>> /\ call' = "mark_committing"
    BY DEF MarkCommitting, MarkUpdateCommitting, Commit, status
<1>4. /\ PagesOK' /\ WriteOK' /\ CommitOK' /\ MarkerOK'
      /\ write'.stage = "erase" /\ write'.contents = status /\ Status' = Status
    BY <1>2, <1>3, CommitStep
<1> QED BY <1>1, <1>2, <1>3, <1>4
    DEF Inv, CallOK, TargetOK, RunOK, BootOK, BootCalls, AppSlots

LEMMA AbortInv == Inv /\ TypeOK' /\ Abort => Inv'
<1> SUFFICES ASSUME Inv, TypeOK', Abort
             PROVE  Inv'
    OBVIOUS
<1> DEFINE status == ClearUpdateMarker(Status)
<1>1. /\ status \in BootStatus
      /\ RecordOK(status)
      /\ status.trial_slot = Status.trial_slot
      /\ status.confirmed_slot = Status.confirmed_slot
    <2>1. Status \in BootStatus /\ RecordOK(Status)
        BY StatusType, StatusOK DEF TypeOK, Inv
    <2>2. /\ status.trial_slot = Status.trial_slot
          /\ status.confirmed_slot = Status.confirmed_slot
        BY <2>1 DEF ClearUpdateMarker, BootStatus
    <2> QED BY <2>1, <2>2, UpdateType, ClearOK DEF Slots
<1> HIDE DEF status
<1>2. /\ Journal!CommitStatus(status)
      /\ UNCHANGED <<slots, phase>> /\ target' \in {target, "NONE"}
      /\ phase = "ready" /\ call = "none" /\ call' = "abort_update"
    BY DEF Abort, AbortUpdate, Commit, status
<1>3. /\ PagesOK' /\ WriteOK' /\ CommitOK' /\ MarkerOK'
      /\ write'.stage = "erase" /\ write'.contents = status /\ Status' = Status
    BY <1>1, <1>2, CommitStep
<1>4. TargetOK'
    BY <1>1, <1>2, <1>3 DEF Inv, TargetOK, AppSlots
<1> QED BY <1>2, <1>3, <1>4
    DEF Inv, CallOK, RunOK, BootOK, BootCalls, AppSlots

LEMMA TrialInv == Inv /\ TypeOK' /\ Trial => Inv'
<1> SUFFICES ASSUME Inv, TypeOK', Trial
             PROVE  Inv'
    OBVIOUS
<1> DEFINE status == PutOnTrial(Status, target)
<1>1. /\ Status \in BootStatus /\ RecordOK(Status)
      /\ target \in AppSlots /\ target \in Slots /\ phase = "ready"
    BY StatusType, StatusOK DEF TypeOK, Inv, Trial, RequestTrial, TargetOK, Acceptable, Slots
<1>2. /\ status \in BootStatus
      /\ RecordOK(status)
      /\ status.update_state = "IDLE"
    BY <1>1, UpdateType, PutOnTrialOK, PutOnTrialFields DEF Trial, RequestTrial
<1> HIDE DEF status
<1>3. /\ Journal!CommitStatus(status)
      /\ UNCHANGED <<slots, phase, target>>
      /\ call = "none" /\ call' = "request_trial"
    BY DEF Trial, RequestTrial, Commit, status
<1>4. /\ PagesOK' /\ WriteOK' /\ CommitOK' /\ MarkerOK'
      /\ write'.stage = "erase" /\ write'.contents = status /\ Status' = Status
    BY <1>2, <1>3, CommitStep
<1> QED BY <1>1, <1>2, <1>3, <1>4
    DEF Inv, CallOK, TargetOK, RunOK, BootOK, BootCalls, AppSlots

LEMMA ReleaseInv == Inv /\ TypeOK' /\ Release => Inv'
<1> SUFFICES ASSUME Inv, TypeOK', Release
             PROVE  Inv'
    OBVIOUS
<1> USE DEF Release, apiVars
<1>1. Status' = Status /\ Journal!Source' = Journal!Source
    BY SamePages
<1> QED BY <1>1
    DEF Inv, PagesOK, WriteOK, RecordOK, Acceptable, Verified, CallOK, CommitOK,
        TargetOK, MarkerOK, RunOK, BootOK, Journal!Writing, BootCalls, AppSlots
LEMMA BootTrialInv == Inv /\ TypeOK' /\ Boot /\ BootTrial => Inv'
<1> SUFFICES ASSUME Inv, TypeOK', Boot, BootTrial
             PROVE  Inv'
    OBVIOUS
<1> DEFINE status == [Status EXCEPT !.trial_boot_count = @ + 1]
<1>1. /\ Status \in BootStatus /\ RecordOK(Status)
      /\ Status.trial_slot \in AppSlots
      /\ Status.trial_boot_count < TrialBootLimit
    BY StatusType, StatusOK DEF TypeOK, Inv, Boot, BootTrial, TrialDue, Acceptable
<1>2. /\ status \in BootStatus
      /\ RecordOK(status)
      /\ status.trial_slot \in AppSlots
      /\ status.trial_boot_count = TrialBootLimit
    <2>1. status \in BootStatus
        BY <1>1 DEF BootStatus
    <2>2. RecordOK(status)
        BY <1>1, ChargeOK
    <2>3. /\ status.trial_slot \in AppSlots
          /\ status.trial_boot_count = TrialBootLimit
        BY <1>1 DEF BootStatus, TrialBootLimit
    <2> QED BY <2>1, <2>2, <2>3
<1> HIDE DEF status
<1>3. /\ Journal!CommitStatus(status)
      /\ UNCHANGED <<slots, phase, target>> /\ call' = "boot_trial"
      /\ phase = "ready" /\ target = "NONE"
    BY DEF Boot, BootTrial, Commit, status
<1>4. /\ PagesOK' /\ WriteOK' /\ CommitOK' /\ MarkerOK'
      /\ write'.stage = "erase" /\ write'.contents = status /\ Status' = Status
    BY <1>2, <1>3, CommitStep
<1> QED BY <1>1, <1>2, <1>3, <1>4
    DEF Inv, CallOK, TargetOK, RunOK, BootOK, BootCalls, AppSlots

LEMMA BootExpiredInv == Inv /\ TypeOK' /\ Boot /\ BootExpiredTrial => Inv'
<1> SUFFICES ASSUME Inv, TypeOK', Boot, BootExpiredTrial
             PROVE  Inv'
    OBVIOUS
<1> DEFINE status == ExpireTrial(Status)
<1>1. /\ status \in BootStatus
      /\ RecordOK(status)
      /\ status.trial_slot = "NONE"
    <2>1. /\ Status \in BootStatus /\ RecordOK(Status)
          /\ Status.trial_slot \in AppSlots
        BY StatusType, StatusOK DEF TypeOK, Inv, Boot, BootExpiredTrial
    <2>2. status \in BootStatus
        BY <2>1 DEF ExpireTrial, BootStatus, Slots
    <2> QED BY <2>1, <2>2, ExpireOK
<1> HIDE DEF status
<1>2. /\ Journal!CommitStatus(status)
      /\ UNCHANGED <<slots, phase, target>> /\ call' = "boot_expired"
      /\ phase = "ready" /\ target = "NONE"
    BY DEF Boot, BootExpiredTrial, Commit, status
<1>3. /\ PagesOK' /\ WriteOK' /\ CommitOK' /\ MarkerOK'
      /\ write'.stage = "erase" /\ write'.contents = status /\ Status' = Status
    BY <1>1, <1>2, CommitStep
<1> QED BY <1>1, <1>2, <1>3
    DEF Inv, CallOK, TargetOK, RunOK, BootOK, BootCalls, AppSlots

(* The call leaves the boot loader: nothing is in progress any more. *)
LEMMA NoWriteStep ==
    ASSUME Inv, TypeOK', Journal!PowerLoss, UNCHANGED slots, call' = "none",
           target' = "NONE",
           phase' \in AppSlots =>
               /\ Acceptable(phase', Status.minimum_version)
               /\ phase' = Status.trial_slot => Status.trial_boot_count = TrialBootLimit
               /\ Due(phase', Status)
    PROVE  Inv'
<1>1. /\ UNCHANGED pages
      /\ write'.stage = "none"
    BY DEF Journal!PowerLoss, Journal!NoWrite
<1>2. Status' = Status
    BY <1>1, SamePages
<1>3. PagesOK' /\ WriteOK'
    BY <1>1 DEF Inv, PagesOK, WriteOK, RecordOK, Acceptable, Verified
<1>4. RunOK'
    BY <1>1, <1>2, SameSlots DEF RunOK, Due, Journal!Writing, Acceptable, Verified
<1> QED BY <1>1, <1>2, <1>3, <1>4
    DEF Inv, CallOK, CommitOK, TargetOK, MarkerOK, BootOK, Journal!Writing,
        BootCalls, AppSlots

(* secure_boot_boot goes on with its own copy of the newest record. *)
LEMMA BootIntoInv ==
    ASSUME Inv, TypeOK', phase = "ready", target = "NONE", UNCHANGED <<slots, target>>,
           Status \in BootStatus,
           NEW selected \in Slots,
           selected # "NONE" =>
               /\ Acceptable(selected, Status.minimum_version)
               /\ selected = Status.trial_slot => Status.trial_boot_count = TrialBootLimit
               /\ Due(selected, Status)
               /\ Status.active_slot # selected =>
                      Status.trial_slot = "NONE" /\ Status.confirmed_slot = "NONE",
           NEW generation \in Nat, NEW source \in Pages \cup {"NONE"},
           \A p \in Pages : p # Journal!CommitPage(source) /\ pages[p].valid =>
               pages[p].generation < generation + 1,
           BootInto(selected, Status, generation, source)
    PROVE  Inv'
<1>1. CASE Journal!PowerLoss
    <2>1. /\ phase' \in {"recover", selected} /\ call' = "none"
          /\ phase' = "recover" \/ selected # "NONE"
        BY <1>1 DEF BootInto, Journal!PowerLoss, Journal!CommitFrom, Journal!NoWrite
    <2> QED BY <1>1, <2>1, NoWriteStep DEF AppSlots
<1>2. CASE /\ selected # "NONE"
           /\ Status.active_slot # selected
           /\ Journal!CommitFrom([Status EXCEPT !.active_slot = selected],
                                 generation, source)
           /\ call' = "boot_active"
           /\ UNCHANGED phase
    <2> DEFINE status == [Status EXCEPT !.active_slot = selected]
    <2>1. /\ Status.trial_slot = "NONE" /\ Status.confirmed_slot = "NONE"
          /\ Acceptable(selected, Status.minimum_version)
          /\ RecordOK(Status)
        BY <1>2, StatusOK DEF Inv
    <2>2. /\ status \in BootStatus
          /\ status.trial_slot = "NONE" /\ status.active_slot = selected
          /\ status.minimum_version = Status.minimum_version
        BY <2>1 DEF BootStatus
    <2>3. RecordOK(status)
        BY <2>1, ActiveOK
    <2> HIDE DEF status
    <2>4. Journal!CommitFrom(status, generation, source)
        BY <1>2 DEF status
    <2>5. /\ PagesOK' /\ WriteOK'
          /\ write'.stage = "erase" /\ write'.contents = status
          /\ write'.source = source /\ write'.generation = generation + 1
          /\ Status' = Status
        BY <2>2, <2>3, <2>4, CommitFromStep
    <2>6. UNCHANGED pages
        BY <2>4 DEF Journal!CommitFrom
    <2>7. CommitOK'
        BY <1>2, <2>5, <2>6 DEF CommitOK, Journal!CommitPage
    <2>8. Acceptable(selected, Status.minimum_version)'
        BY <2>1, <2>5 DEF Acceptable, Verified
    <2>9. BootOK'
        BY <1>2, <2>2, <2>5, <2>8 DEF BootOK, Acceptable, Verified
    <2> QED BY <1>2, <2>5, <2>7, <2>9
        DEF Inv, CallOK, TargetOK, MarkerOK, RunOK, BootCalls, AppSlots
<1> QED BY <1>1, <1>2 DEF BootInto

LEMMA BootWithoutInv == Inv /\ TypeOK' /\ Boot /\ BootWithoutTrial => Inv'
<1> SUFFICES ASSUME Inv, TypeOK', Boot, BootWithoutTrial
             PROVE  Inv'
    OBVIOUS
<1>1. /\ Status \in BootStatus /\ RecordOK(Status) /\ TypeOK
      /\ Journal!Generation \in Nat
      /\ Journal!Source \in Pages \cup {"NONE"}
      /\ BootSelection(Status) \in Slots
    BY StatusType, StatusOK, SelectionType DEF TypeOK, Inv
<1>2. Status.trial_slot = "NONE"
    BY <1>1 DEF Boot, BootWithoutTrial, BootStatus, Slots
<1>3. BootSelection(Status) # "NONE" =>
          /\ Acceptable(BootSelection(Status), Status.minimum_version)
          /\ BootSelection(Status) # Status.trial_slot
          /\ Due(BootSelection(Status), Status)
          /\ Status.active_slot # BootSelection(Status) =>
                 Status.confirmed_slot = "NONE"
    BY <1>1, <1>2, SelectionAcceptable
<1>4. \A p \in Pages : pages[p].valid => pages[p].generation < Journal!Generation + 1
    BY <1>1, SourceNewest DEF TypeOK, Journal!TypeOK, Journal!PageRecord, Pages
<1>5. /\ BootInto(BootSelection(Status), Status, Journal!Generation, Journal!Source)
      /\ phase = "ready" /\ target = "NONE" /\ UNCHANGED <<slots, target>>
    BY DEF Boot, BootWithoutTrial, BootInto
<1> QED BY <1>1, <1>2, <1>3, <1>4, <1>5, BootIntoInv

LEMMA ContinueInv == Inv /\ TypeOK' /\ Continue => Inv'
<1> SUFFICES ASSUME Inv, TypeOK', Continue
             PROVE  Inv'
    OBVIOUS
<1>1. /\ write.stage = "done" /\ call \in BootCalls
      /\ phase = "ready" /\ target = "NONE" /\ UNCHANGED <<slots, target>>
      /\ Status = write.contents
      /\ RecordOK(Status)
    BY DEF Continue, ContinueBoot, BootInto, Inv, CallOK, CommitOK, WriteOK, BootCalls
<1>2. /\ Status \in BootStatus /\ TypeOK
      /\ write.generation \in Nat /\ write.source \in Pages \cup {"NONE"}
    BY StatusType DEF Inv, TypeOK, Journal!TypeOK, Journal!WriteRecord, Pages
<1>3. \A p \in Pages : p # Journal!CommitPage(write.source) /\ pages[p].valid =>
          pages[p].generation < write.generation + 1
    BY <1>1, <1>2
    DEF Inv, CommitOK, TypeOK, Journal!TypeOK, Journal!PageRecord, Pages
<1>4. CASE call = "boot_trial"
    <2>1. /\ Status.trial_slot \in AppSlots /\ Status.trial_slot \in Slots
          /\ Status.trial_boot_count = TrialBootLimit
          /\ Acceptable(Status.trial_slot, Status.minimum_version)
          /\ Status.active_slot = Status.trial_slot
          /\ Due(Status.trial_slot, Status)
        BY <1>1, <1>2, <1>4 DEF Inv, BootOK, RecordOK, Due, AppSlots, Slots
    <2>2. BootInto(Status.trial_slot, Status, write.generation, write.source)
        BY <1>1, <1>4 DEF Continue, ContinueBoot
    <2> QED BY <1>1, <1>2, <1>3, <2>1, <2>2, BootIntoInv
<1>5. CASE call = "boot_expired"
    <2>1. /\ Status.trial_slot = "NONE"
          /\ BootSelection(Status) \in Slots
        BY <1>1, <1>2, <1>5, SelectionType DEF Inv, BootOK
    <2>2. BootSelection(Status) # "NONE" =>
              /\ Acceptable(BootSelection(Status), Status.minimum_version)
              /\ BootSelection(Status) # Status.trial_slot
              /\ Due(BootSelection(Status), Status)
              /\ Status.active_slot # BootSelection(Status) =>
                     Status.confirmed_slot = "NONE"
        BY <1>1, <1>2, <2>1, SelectionAcceptable
    <2>3. BootInto(BootSelection(Status), Status, write.generation, write.source)
        BY <1>1, <1>5 DEF Continue, ContinueBoot
    <2> QED BY <1>1, <1>2, <1>3, <2>1, <2>2, <2>3, BootIntoInv
<1>6. CASE call = "boot_active"
    <2>1. /\ Status.trial_slot = "NONE"
          /\ Acceptable(Status.active_slot, Status.minimum_version)
          /\ Status.active_slot \in AppSlots /\ Status.active_slot \in Slots
          /\ Due(Status.active_slot, Status)
        BY <1>1, <1>6 DEF Inv, BootOK, RecordOK, Due, Acceptable, Slots
    <2>2. BootInto(Status.active_slot, Status, write.generation, write.source)
        BY <1>1, <1>6 DEF Continue, ContinueBoot
    <2> QED BY <1>1, <1>2, <1>3, <2>1, <2>2, BootIntoInv DEF AppSlots
<1> QED BY <1>1, <1>4, <1>5, <1>6 DEF BootCalls
LEMMA ConfirmInv == Inv /\ TypeOK' /\ Confirm => Inv'
<1> SUFFICES ASSUME Inv, TypeOK', Confirm
             PROVE  Inv'
    OBVIOUS
<1> DEFINE version == slots[phase].manifest.image_version
           status == [Status EXCEPT !.confirmed_slot = phase,
                                    !.active_slot = phase,
                                    !.trial_slot = "NONE",
                                    !.trial_boot_count = 0,
                                    !.minimum_version = version]
<1>1. /\ Status \in BootStatus /\ RecordOK(Status) /\ TypeOK
      /\ phase \in AppSlots /\ phase \in Slots /\ Status.trial_slot = phase
      /\ Acceptable(phase, Status.minimum_version)
      /\ version \in Nat
      /\ target \notin AppSlots
    BY StatusType, StatusOK, AcceptableType
    DEF TypeOK, Inv, Confirm, ConfirmRunningImage, TargetOK, Slots, AppSlots
<1>2. /\ status \in BootStatus
      /\ RecordOK(status)
      /\ status.trial_slot = "NONE" /\ status.confirmed_slot = phase
      /\ Acceptable(phase, status.minimum_version)
    <2>1. status \in BootStatus
        BY <1>1, ConfirmType
    <2>2. RecordOK(status)
        BY <1>1, ConfirmOK
    <2>3. /\ status.trial_slot = "NONE" /\ status.confirmed_slot = phase
          /\ status.minimum_version = version
        BY <1>1 DEF BootStatus
    <2>4. Acceptable(phase, version)
        BY <1>1 DEF Acceptable
    <2> QED BY <2>1, <2>2, <2>3, <2>4
<1> HIDE DEF status
<1>3. /\ Journal!CommitStatus(status)
      /\ UNCHANGED <<slots, phase, target>> /\ call' = "confirm"
    BY DEF Confirm, ConfirmRunningImage, Commit, status
<1>4. /\ PagesOK' /\ WriteOK' /\ CommitOK' /\ MarkerOK'
      /\ write'.stage = "erase" /\ write'.contents = status /\ Status' = Status
    BY <1>2, <1>3, CommitStep
<1>5. RunOK'
    BY <1>1, <1>2, <1>3, <1>4 DEF Inv, RunOK, Due, Acceptable, Verified
<1> QED BY <1>1, <1>3, <1>4, <1>5
    DEF Inv, CallOK, TargetOK, BootOK, BootCalls, AppSlots

LEMMA EraseInv == Inv /\ TypeOK' /\ ErasePage => Inv'
<1> SUFFICES ASSUME Inv, TypeOK', ErasePage
             PROVE  Inv'
    OBVIOUS
<1> USE DEF ErasePage, EraseStatusPage
<1>1. /\ write.stage = "erase"
      /\ write' = [write EXCEPT !.stage = "program"]
      /\ pages' = [pages EXCEPT ![Journal!CommitPage(write.source)] = Journal!ErasedPage]
      /\ UNCHANGED <<slots, phase, call, target>>
      /\ Journal!Writing
    BY DEF Journal!EraseStatusPage, Journal!Writing
<1>2. /\ write'.stage = "program"
      /\ write'.contents = write.contents
      /\ write'.source = write.source
      /\ write'.generation = write.generation
      /\ Journal!Writing'
    BY <1>1 DEF Inv, TypeOK, Journal!TypeOK, Journal!WriteRecord, Journal!Writing
<1>3. \A p \in Pages : pages'[p].valid => pages'[p] = pages[p] /\ pages[p].valid
    BY <1>1 DEF Inv, TypeOK, Journal!TypeOK, Journal!ErasedPage, Pages
<1>4. PagesOK' /\ WriteOK'
    <2>1. PagesOK'
        BY <1>1, <1>3, SameSlots DEF Inv, PagesOK, RecordOK
    <2>2. WriteOK'
        BY <1>1, <1>2, SameSlots DEF Inv, WriteOK, RecordOK
    <2> QED BY <2>1, <2>2
<1>5. CASE call # "boot_active"
    <2>1. Status' = Status /\ Journal!Source' = Journal!Source
        BY <1>1, <1>5, EraseStep DEF Inv, CommitOK
    <2>2. CommitOK'
        BY <1>1, <1>2, <1>3, <2>1 DEF Inv, CommitOK, Journal!CommitPage
    <2>3. MarkerOK' /\ TargetOK' /\ RunOK'
        BY <1>1, <1>2, <1>3, <2>1
        DEF Inv, MarkerOK, TargetOK, RunOK, Due, Acceptable, Verified
    <2> QED BY <1>1, <1>2, <1>4, <2>2, <2>3
        DEF Inv, CallOK, BootOK, Acceptable, Verified
<1>6. CASE call = "boot_active"
    <2>1. phase = "ready" /\ target = "NONE"
        BY <1>6 DEF Inv, CallOK, BootCalls
    <2>2. CommitOK'
        BY <1>1, <1>2, <1>3, <1>6 DEF Inv, CommitOK, Journal!CommitPage
    <2> QED BY <1>1, <1>2, <1>4, <2>1, <2>2
        DEF Inv, CallOK, TargetOK, MarkerOK, RunOK, BootOK, AppSlots, Acceptable, Verified
<1> QED BY <1>5, <1>6

LEMMA ProgramInv == Inv /\ TypeOK' /\ ProgramPage => Inv'
<1> SUFFICES ASSUME Inv, TypeOK', ProgramPage
             PROVE  Inv'
    OBVIOUS
<1> USE DEF ProgramPage, ProgramStatusPage
<1> DEFINE page == Journal!CommitPage(write.source)
<1>1. /\ write.stage = "program"
      /\ write' = [write EXCEPT !.stage = "done"]
      /\ UNCHANGED <<slots, phase, call, target>>
      /\ Journal!Writing
    BY DEF Journal!ProgramStatusPage, Journal!Writing
<1>2. /\ write'.stage = "done"
      /\ write'.contents = write.contents
      /\ write'.source = write.source
      /\ write'.generation = write.generation
      /\ ~Journal!Writing'
    BY <1>1 DEF Inv, TypeOK, Journal!TypeOK, Journal!WriteRecord, Journal!Writing
<1>3. /\ page \in Pages
      /\ pages'[page].contents = write.contents
      /\ \A p \in Pages : p # page => pages'[p] = pages[p]
    BY DEF Journal!ProgramStatusPage, Journal!CommitPage, Inv, TypeOK, Journal!TypeOK,
           Pages, Journal!Pages
<1>4. Status' = write.contents
    BY ProgramStep DEF TypeOK, CommitOK, WinsNextLoad, Inv
<1>5. PagesOK' /\ WriteOK'
    <2>1. RecordOK(write.contents)
        BY <1>1 DEF Inv, WriteOK
    <2>2. ASSUME NEW p \in Pages, pages'[p].valid
          PROVE  RecordOK(pages'[p].contents)
        <3>1. CASE p = page
            BY <1>3, <2>1, <3>1
        <3>2. CASE p # page
            <4>1. pages'[p] = pages[p]
                BY <1>3, <3>2
            <4>2. pages[p].valid => RecordOK(pages[p].contents)
                BY DEF Inv, PagesOK
            <4> QED BY <2>2, <4>1, <4>2
        <3> QED BY <3>1, <3>2
    <2>3. PagesOK'
        BY <1>1, <2>2, SameSlots DEF PagesOK, RecordOK
    <2>4. WriteOK'
        BY <1>1, <1>2, <2>1, SameSlots DEF WriteOK, RecordOK
    <2> QED BY <2>3, <2>4
<1>6. CommitOK'
    BY <1>1, <1>2, <1>3, <1>4 DEF Inv, CommitOK, Journal!CommitPage
<1>7. TargetOK' /\ RunOK' /\ BootOK'
    <2>1. phase \in AppSlots /\ phase # "NONE" => call = "confirm" \/ call \notin BootCalls
        BY DEF Inv, CallOK, BootCalls, AppSlots
    <2>2. phase \in AppSlots => phase # "NONE"
        BY DEF AppSlots
    <2> QED BY <1>1, <1>2, <1>4, <2>1, <2>2
        DEF Inv, TargetOK, RunOK, Due, BootOK, Acceptable, Verified
<1>8. MarkerOK'
    <2> SUFFICES ASSUME target \in AppSlots, Status'.update_state # "IDLE"
                 PROVE  \A p \in Pages : pages'[p].valid =>
                            /\ pages'[p].contents.confirmed_slot # target
                            /\ pages'[p].contents.trial_slot # target
        BY <1>1 DEF MarkerOK
    <2>1. /\ call # "request_trial"
          /\ Status.trial_slot = "NONE" /\ Status.confirmed_slot # target
          /\ write.contents.trial_slot = "NONE"
          /\ write.contents.confirmed_slot # target
          /\ target # "NONE"
        BY <1>1, <1>4 DEF Inv, TargetOK, AppSlots
    <2>2. call # "boot_active"
        BY <2>1 DEF Inv, CallOK, BootCalls
    <2>3. write.source = Journal!Source
        BY <1>1, <2>2 DEF Inv, CommitOK
    <2>4. \A p \in Pages : p # page /\ pages[p].valid => Status = pages[p].contents
        BY <2>3 DEF Status, Journal!Status, Journal!Source, Journal!CommitPage,
                    Pages, Journal!Pages
    <2> QED BY <1>3, <2>1, <2>4
<1> QED BY <1>1, <1>2, <1>5, <1>6, <1>7, <1>8 DEF Inv, CallOK

LEMMA FailInv == Inv /\ TypeOK' /\ FailPage => Inv'
<1> SUFFICES ASSUME Inv, TypeOK', FailPage
             PROVE  Inv'
    OBVIOUS
<1>1. /\ write' = [write EXCEPT !.stage = "failed"]
      /\ write.stage \notin {"none", "done"}
      /\ UNCHANGED <<pages, slots, phase, call, target>>
    BY DEF FailPage, StatusWriteFails, Journal!StatusWriteFails, Journal!Writing
<1>2. /\ write'.stage = "failed"
      /\ write'.contents = write.contents
      /\ ~Journal!Writing'
    BY <1>1 DEF Inv, TypeOK, Journal!TypeOK, Journal!WriteRecord, Journal!Writing
<1>3. Status' = Status
    BY <1>1, SamePages
<1>4. PagesOK' /\ WriteOK'
    <2>1. PagesOK'
        BY <1>1, SameSlots DEF Inv, PagesOK, RecordOK
    <2>2. WriteOK'
        BY <1>1, <1>2, SameSlots DEF Inv, WriteOK, RecordOK
    <2> QED BY <2>1, <2>2
<1>5. TargetOK' /\ MarkerOK'
    BY <1>1, <1>2, <1>3 DEF Inv, TargetOK, MarkerOK
<1>6. RunOK' /\ BootOK'
    BY <1>1, <1>2, <1>3 DEF Inv, RunOK, Due, BootOK, Acceptable, Verified
<1> QED BY <1>1, <1>2, <1>4, <1>5, <1>6 DEF Inv, CallOK, CommitOK

LEMMA ReturnInv == Inv /\ TypeOK' /\ EndCall => Inv'
<1> SUFFICES ASSUME Inv, TypeOK', EndCall
             PROVE  Inv'
    OBVIOUS
<1>1. /\ write'.stage = "none"
      /\ UNCHANGED <<pages, slots>> /\ call' = "none"
      /\ phase' = IF call = "recover" THEN "ready" ELSE phase
      /\ target' = IF call = "request_trial" /\ write.stage = "done"
                   THEN "NONE" ELSE target
    BY DEF EndCall, Return, Journal!Return, Journal!NoWrite
<1>2. Status' = Status
    BY <1>1, SamePages
<1>3. PagesOK' /\ WriteOK'
    BY <1>1 DEF Inv, PagesOK, WriteOK, RecordOK, Acceptable, Verified
<1>4. TargetOK' /\ MarkerOK'
    BY <1>1, <1>2 DEF Inv, TargetOK, MarkerOK, Journal!Writing, AppSlots
<1>5. RunOK'
    BY <1>1, <1>2 DEF Inv, RunOK, Journal!Writing, AppSlots, Acceptable, Verified
<1> QED BY <1>1, <1>3, <1>4, <1>5
    DEF Inv, CallOK, CommitOK, BootOK, Journal!Writing, BootCalls

(* The client writes no slot that any record it can come back to relies on. *)
LEMMA SlotInv ==
    ASSUME Inv, TypeOK', NEW update_state \in {"RECEIVING", "COMMITTING"},
           Marked(update_state), NEW contents,
           WriteSlot(target, contents), UNCHANGED target
    PROVE  Inv'
<1>1. /\ call = "none" /\ target \in AppSlots /\ phase = "ready"
      /\ write.stage = "none"
      /\ Status.update_state # "IDLE"
      /\ UNCHANGED <<pages, write, phase, call, target>>
    BY DEF Marked, WriteSlot, Inv, TargetOK, CallOK
<1>2. Status' = Status
    BY <1>1, SamePages
<1>3. \A slot \in AppSlots : slot # target => slots'[slot] = slots[slot]
    BY <1>1 DEF WriteSlot, Inv, TypeOK
<1>4. \A slot, minimum :
          slot # target /\ Acceptable(slot, minimum) => Acceptable(slot, minimum)'
    BY <1>3 DEF Acceptable, Verified
<1>5. PagesOK'
    <2> SUFFICES ASSUME NEW p \in Pages, pages[p].valid
                 PROVE  RecordOK(pages[p].contents)'
        BY <1>1 DEF PagesOK
    <2>1. /\ RecordOK(pages[p].contents)
          /\ pages[p].contents.confirmed_slot # target
          /\ pages[p].contents.trial_slot # target
        BY <1>1 DEF Inv, PagesOK, MarkerOK
    <2> QED BY <1>1, <1>4, <2>1 DEF RecordOK
<1>6. WriteOK' /\ CommitOK' /\ TargetOK' /\ MarkerOK'
    BY <1>1, <1>2 DEF Inv, WriteOK, CommitOK, TargetOK, MarkerOK, Journal!Writing
<1> QED BY <1>1, <1>5, <1>6 DEF Inv, CallOK, RunOK, BootOK, AppSlots, BootCalls

LEMMA StutterInv == Inv /\ TypeOK' /\ UNCHANGED vars => Inv'
<1> SUFFICES ASSUME Inv, TypeOK', UNCHANGED vars
             PROVE  Inv'
    OBVIOUS
<1>1. Status' = Status /\ Journal!Source' = Journal!Source
    BY SamePages DEF vars
<1>2. UNCHANGED <<pages, write, slots, phase, call, target>>
    BY DEF vars
<1>3. PagesOK' /\ WriteOK'
    BY <1>2, SameSlots DEF Inv, PagesOK, WriteOK, RecordOK
<1>4. CallOK' /\ CommitOK' /\ TargetOK' /\ MarkerOK'
    BY <1>1, <1>2 DEF Inv, CallOK, CommitOK, TargetOK, MarkerOK, Journal!Writing
<1>5. RunOK' /\ BootOK'
    BY <1>1, <1>2, SameSlots DEF Inv, RunOK, Due, BootOK, Journal!Writing
<1> QED BY <1>3, <1>4, <1>5 DEF Inv

-----------------------------------------------------------------------------
LEMMA InitInv == Init => Inv
<1> SUFFICES ASSUME Init
             PROVE  Inv
    OBVIOUS
<1>1. /\ \A p \in Pages : ~pages[p].valid
      /\ write.stage = "none"
    BY DEF Init, ApiInit, Journal!Init, Journal!ErasedPage, Journal!NoWrite, Pages
<1> QED BY <1>1, InitType
    DEF Init, ApiInit, Inv, PagesOK, WriteOK, CallOK, CommitOK, TargetOK, MarkerOK, RunOK,
        BootOK, Journal!Writing, BootCalls, AppSlots

LEMMA NextInv == Inv /\ [Next]_vars => Inv'
<1> SUFFICES ASSUME Inv, [Next]_vars
             PROVE  Inv'
    OBVIOUS
<1>1. TypeOK'
    BY NextType DEF Inv
<1>2. CASE Crash
    BY <1>1, <1>2, NoWriteStep DEF Crash, PowerLoss, AppSlots
<1>3. CASE EraseSlot
    BY <1>1, <1>3, SlotInv DEF EraseSlot, StartSlotErase, FinishSlotErase
<1>4. ASSUME NEW image \in Images \cup {Partial}, WriteImage(image)
      PROVE  Inv'
    BY <1>1, <1>4, SlotInv DEF WriteImage, ProgramImage
<1>5. ASSUME NEW manifest \in Images \cup {Partial}, WriteManifest(manifest)
      PROVE  Inv'
    BY <1>1, <1>5, SlotInv DEF WriteManifest, ProgramManifest
<1>6. CASE Boot
    BY <1>1, <1>6, BootTrialInv, BootExpiredInv, BootWithoutInv DEF Boot, BootCall
<1> QED BY <1>1, <1>2, <1>3, <1>4, <1>5, <1>6, RecoverInv, SelectInv, BeginInv,
           CommittingInv, AbortInv, TrialInv, ReleaseInv, ContinueInv, ConfirmInv,
           EraseInv, ProgramInv, FailInv, ReturnInv, StutterInv
    DEF Next

LEMMA Invariant == Spec => []Inv
BY InitInv, NextInv, PTL DEF Spec

(* The confirmed image survives every update, power loss and Flash error. *)
THEOREM ConfirmedImageSafe == Spec => []ConfirmedIntact
<1>1. Inv => ConfirmedIntact
    BY StatusOK DEF Inv, RecordOK, ConfirmedIntact
<1> QED BY <1>1, Invariant, PTL

(* A pending trial is always bootable and never overlaps an update. *)
THEOREM TrialImageSafe == Spec => []TrialIntact
<1>1. Inv => TrialIntact
    BY StatusOK DEF Inv, RecordOK, TrialIntact
<1> QED BY <1>1, Invariant, PTL

(* Nothing but a verified image that is new enough ever gets control. *)
THEOREM OnlyVerifiedRuns == Spec => []RunningVerified
<1>1. Inv => RunningVerified
    BY DEF Inv, RunOK, RunningVerified
<1> QED BY <1>1, Invariant, PTL

(* The image on trial runs, else the confirmed one, and nothing instead. *)
THEOREM RunningDue == Spec => []RunningIsDue
<1>1. Inv => RunningIsDue
    BY DEF Inv, RunOK, Due, RunningIsDue
<1> QED BY <1>1, Invariant, PTL

(* A trial image that runs has its boot on record. *)
THEOREM TrialCharged == Spec => []TrialChargedBeforeRun
<1>1. Inv => TrialChargedBeforeRun
    <2> SUFFICES ASSUME Inv, phase = Status.trial_slot
                 PROVE  Status.trial_boot_count = TrialBootLimit
        BY DEF TrialChargedBeforeRun
    <2>1. phase \in AppSlots
        BY StatusType DEF Inv, TypeOK, BootStatus, Slots, AppSlots
    <2> QED BY <2>1 DEF Inv, RunOK
<1> QED BY <1>1, Invariant, PTL

-----------------------------------------------------------------------------
(* What no step may do.  A commit that begins with a stale source destroys  *)
(* the record in force, and the load falls back to the other page: it must  *)
(* agree on all that is never to be forgotten.                              *)

(* The record on the page that the commit leaves alone. *)
Fallback ==
    LET other == IF Journal!CommitPage(write.source) = "PRIMARY" THEN "BACKUP" ELSE "PRIMARY"
    IN  IF pages[other].valid THEN pages[other].contents ELSE DefaultStatus

Agree(old, new) ==
    /\ old.minimum_version = new.minimum_version
    /\ old.confirmed_slot = new.confirmed_slot

Keeps(old, new) ==
    /\ old.minimum_version <= new.minimum_version
    /\ old.confirmed_slot # "NONE" => new.confirmed_slot # "NONE"

(* The fallback knows the minimum and the confirmed slot as well. *)
KeptOK ==
    /\ write.stage \in {"erase", "program", "done"} =>
           /\ Keeps(Fallback, write.contents)
           /\ call # "confirm" => Agree(Fallback, write.contents)
    /\ Journal!Writing => Agree(Fallback, Status)

(* An update that was complete when power was lost. *)
Complete ==
    /\ Status.update_state = "COMMITTING"
    /\ Verified(Status.update_slot)
    /\ slots[Status.update_slot].manifest.image_version >= Status.minimum_version

(* What recovery is about to record. *)
RecoverOK ==
    Journal!Writing /\ call = "recover" =>
        /\ write.contents.update_state = "IDLE"
        /\ (write.contents.trial_slot # "NONE") <=> Complete

(* Where the marker stands while a call changes it. *)
MarkerCallOK ==
    /\ Journal!Writing /\ call = "mark_committing" =>
           write.contents.update_state = "COMMITTING"
    /\ Journal!Writing /\ call \in {"begin_update", "abort_update"} /\ target \in AppSlots =>
           Status.update_state # "COMMITTING"
    /\ call = "request_trial" /\ write.stage # "done" => Status.update_state = "COMMITTING"

Spare == \E slot \in AppSlots : slot # target /\ Acceptable(slot, Status.minimum_version)

(* As long as the target may be erased, it is not the last bootable slot. *)
SpareOK ==
    /\ target \in AppSlots
    /\ Status.update_state # "COMMITTING"
    /\ call # "request_trial"
    /\ Bootable
    => Spare

(* An erase takes away the record in force, if it takes away any. *)
LEMMA FallbackErased ==
    ASSUME TypeOK, Journal!EraseStatusPage
    PROVE  Fallback' = Fallback /\ Status' = Fallback
<1>1. /\ pages' = [pages EXCEPT ![Journal!CommitPage(write.source)] = Journal!ErasedPage]
      /\ write'.source = write.source
      /\ Journal!CommitPage(write.source) \in {"PRIMARY", "BACKUP"}
      /\ ~Journal!ErasedPage.valid
    BY DEF Journal!EraseStatusPage, Journal!CommitPage, Journal!ErasedPage, TypeOK,
           Journal!TypeOK, Journal!WriteRecord
<1>2. DOMAIN pages = {"PRIMARY", "BACKUP"}
    BY DEF TypeOK, Journal!TypeOK, Journal!Pages
<1>3. CASE Journal!CommitPage(write.source) = "PRIMARY"
    <2>1. ~pages'["PRIMARY"].valid /\ pages'["BACKUP"] = pages["BACKUP"]
        BY <1>1, <1>2, <1>3
    <2>2. Journal!CommitPage(write'.source) = "PRIMARY"
        BY <1>1, <1>3
    <2> QED BY <1>3, <2>1, <2>2
        DEF Fallback, Status, Journal!Status, Journal!Source, Journal!CommitPage
<1>4. CASE Journal!CommitPage(write.source) = "BACKUP"
    <2>1. ~pages'["BACKUP"].valid /\ pages'["PRIMARY"] = pages["PRIMARY"]
        BY <1>1, <1>2, <1>4
    <2>2. Journal!CommitPage(write'.source) = "BACKUP"
        BY <1>1, <1>4
    <2> QED BY <1>4, <2>1, <2>2
        DEF Fallback, Status, Journal!Status, Journal!Source, Journal!CommitPage
<1> QED BY <1>1, <1>3, <1>4

(* The record being completed is on the other page. *)
LEMMA FallbackProgrammed ==
    ASSUME TypeOK, Journal!ProgramStatusPage
    PROVE  Fallback' = Fallback
<1> DEFINE other == IF Journal!CommitPage(write.source) = "PRIMARY" THEN "BACKUP" ELSE "PRIMARY"
<1>1. /\ write'.source = write.source
      /\ pages'[other] = pages[other]
    BY DEF Journal!ProgramStatusPage, Journal!CommitPage, TypeOK, Journal!TypeOK,
           Journal!WriteRecord, Journal!Pages
<1> QED BY <1>1 DEF Fallback, Journal!CommitPage

(* A call commits a record it derives from the one in force. *)
LEMMA CommitKept ==
    ASSUME Inv, NEW name, NEW status \in BootStatus, Commit(name, status),
           Keeps(Status, status), name # "confirm" => Agree(Status, status)
    PROVE  KeptOK'
<1>1. /\ UNCHANGED pages
      /\ write'.source = Journal!Source /\ write'.contents = status
      /\ call' = name
    BY DEF Commit, Journal!CommitStatus, Journal!CommitFrom
<1>2. Fallback' = Status /\ Status' = Status
    <2>1. Status' = Status /\ Journal!Source' = Journal!Source
        BY <1>1, SamePages
    <2>2. Fallback' = Status'
        BY <1>1, <2>1
        DEF Fallback, Status, Journal!Status, Journal!Source, Journal!CommitPage, DefaultStatus,
            Journal!Pages, Pages
    <2> QED BY <2>1, <2>2
<1> QED BY <1>1, <1>2 DEF KeptOK, Agree

(* The second commit of secure_boot_boot. *)
LEMMA BootIntoKept ==
    ASSUME Inv, NEW selected \in Slots, NEW status \in BootStatus,
           NEW generation, NEW source,
           Agree(Status, status),
           \/ source = Journal!Source
           \/ source = write.source /\ Agree(Fallback, Status),
           BootInto(selected, status, generation, source)
    PROVE  KeptOK'
<1>1. CASE Journal!PowerLoss
    <2>1. write'.stage = "none"
        BY <1>1 DEF Journal!PowerLoss, Journal!NoWrite
    <2> QED BY <2>1 DEF KeptOK, Journal!Writing
<1>2. CASE Journal!CommitFrom([status EXCEPT !.active_slot = selected], generation, source)
    <2> DEFINE new == [status EXCEPT !.active_slot = selected]
    <2>1. Agree(Status, new)
        BY DEF Agree, BootStatus
    <2> HIDE DEF new
    <2>2. UNCHANGED pages /\ write'.source = source /\ write'.contents = new
        BY <1>2 DEF Journal!CommitFrom, new
    <2>3. Status' = Status
        BY <2>2, SamePages
    <2>4. CASE source = Journal!Source
        <3>1. Fallback' = Status'
            BY <2>2, <2>4, SamePages
            DEF Fallback, Status, Journal!Status, Journal!Source, Journal!CommitPage,
                DefaultStatus, Journal!Pages, Pages
        <3> QED BY <2>1, <2>2, <2>3, <3>1, StatusType DEF Inv, TypeOK, KeptOK, Agree, Keeps, BootStatus
    <2>5. CASE source = write.source /\ Agree(Fallback, Status)
        <3>1. Fallback' = Fallback
            BY <2>2, <2>5 DEF Fallback, Journal!CommitPage
        <3> QED BY <2>1, <2>2, <2>3, <2>5, <3>1, StatusType
                DEF Inv, TypeOK, KeptOK, Agree, Keeps, BootStatus
    <2> QED BY <2>4, <2>5
<1> QED BY <1>1, <1>2 DEF BootInto

(* Only a confirmation changes what is never to be forgotten. *)
LEMMA ChangesAgree ==
    ASSUME NEW status \in BootStatus, NEW slot \in Slots
    PROVE  /\ Agree(status, ClearUpdateMarker(status))
           /\ Agree(status, PutOnTrial(status, slot))
           /\ Agree(status, ExpireTrial(status))
           /\ Agree(status, [status EXCEPT !.update_slot = slot,
                                           !.update_state = "RECEIVING"])
           /\ Agree(status, [status EXCEPT !.update_state = "COMMITTING"])
           /\ Agree(status, [status EXCEPT !.trial_boot_count = @ + 1])
<1>1. Agree(status, PutOnTrial(status, slot))
    BY PutOnTrialFields DEF Agree
<1> QED BY <1>1 DEF Agree, ClearUpdateMarker, ExpireTrial, BootStatus

LEMMA AgreeKeeps ==
    ASSUME NEW old \in BootStatus, NEW new, Agree(old, new)
    PROVE  Keeps(old, new)
BY DEF Agree, Keeps, BootStatus

(* A call that only moves an image between its states keeps it. *)
LEMMA CallKept ==
    ASSUME Inv, NEW slot \in Slots,
           \/ RecoverInterruptedUpdate /\ Status.update_state # "IDLE"
           \/ BeginUpdate(slot) \/ MarkUpdateCommitting(slot) \/ AbortUpdate
           \/ RequestTrial(slot) \/ BootTrial \/ BootExpiredTrial
    PROVE  KeptOK'
<1>1. Status \in BootStatus
    BY StatusType DEF Inv, TypeOK
<1>2. Status.update_slot \in Slots
    BY <1>1 DEF BootStatus
<1>3. ASSUME NEW name \in UpdateCalls \cup BootCalls, NEW status \in BootStatus,
             Commit(name, status), Agree(Status, status), name # "confirm"
      PROVE  KeptOK'
    BY <1>1, <1>3, CommitKept, AgreeKeeps
<1> USE DEF UpdateCalls, BootCalls
<1>4. CASE RecoverInterruptedUpdate /\ Status.update_state # "IDLE"
    BY <1>1, <1>2, <1>3, <1>4, UpdateType, ChangesAgree DEF RecoverInterruptedUpdate
<1>5. CASE BeginUpdate(slot) \/ MarkUpdateCommitting(slot)
    BY <1>1, <1>3, <1>5, UpdateType, ChangesAgree DEF BeginUpdate, MarkUpdateCommitting
<1>6. CASE AbortUpdate \/ RequestTrial(slot)
    BY <1>1, <1>3, <1>6, UpdateType, ChangesAgree DEF AbortUpdate, RequestTrial
<1>7. CASE BootTrial \/ BootExpiredTrial
    BY <1>1, <1>2, <1>3, <1>7, UpdateType, ChangesAgree DEF BootTrial, BootExpiredTrial
<1> QED BY <1>4, <1>5, <1>6, <1>7

LEMMA ConfirmKept ==
    ASSUME Inv, ConfirmRunningImage(phase)
    PROVE  KeptOK'
<1> DEFINE version == slots[phase].manifest.image_version
           status == [Status EXCEPT !.confirmed_slot = phase,
                                    !.active_slot = phase,
                                    !.trial_slot = "NONE",
                                    !.trial_boot_count = 0,
                                    !.minimum_version = version]
<1>1. /\ Status \in BootStatus
      /\ phase \in AppSlots /\ phase \in Slots /\ phase # "NONE"
      /\ version \in Nat /\ version >= Status.minimum_version
    BY StatusType, AcceptableType
    DEF Inv, TypeOK, ConfirmRunningImage, Acceptable, Slots, AppSlots
<1>2. /\ status \in BootStatus
      /\ status.minimum_version = version
      /\ status.confirmed_slot = phase
    BY <1>1, ConfirmType DEF BootStatus
<1>3. Keeps(Status, status)
    BY <1>1, <1>2 DEF Keeps, BootStatus
<1>4. Commit("confirm", status)
    BY DEF ConfirmRunningImage
<1> HIDE DEF status
<1> QED BY <1>2, <1>3, <1>4, CommitKept

LEMMA ContinueKept ==
    ASSUME Inv, KeptOK, ContinueBoot
    PROVE  KeptOK'
<1>1. /\ write.stage = "done" /\ call \in BootCalls
      /\ Status = write.contents /\ Status \in BootStatus
      /\ Agree(Fallback, Status) /\ Agree(Status, Status)
    BY StatusType
    DEF ContinueBoot, Inv, TypeOK, CommitOK, KeptOK, Agree, BootCalls
<1>2. /\ Status.trial_slot \in Slots /\ Status.active_slot \in Slots
      /\ BootSelection(Status) \in Slots
    BY <1>1, SelectionType DEF BootStatus
<1>3. \E selected \in Slots : BootInto(selected, Status, write.generation, write.source)
    BY <1>1, <1>2 DEF ContinueBoot
<1> QED BY <1>1, <1>3, BootIntoKept

(* What is never to be forgotten is in the record a load would fall back    *)
(* to, at every point of every commit.                                      *)
LEMMA NextKept == Inv /\ KeptOK /\ [Next]_vars => KeptOK'
<1> SUFFICES ASSUME Inv, KeptOK, [Next]_vars
             PROVE  KeptOK'
    OBVIOUS
<1>1. Status \in BootStatus /\ target \in Slots /\ BootSelection(Status) \in Slots
    BY StatusType, SelectionType DEF Inv, TypeOK
<1>2. ASSUME UNCHANGED <<pages, write, call>>
      PROVE  KeptOK'
    BY <1>2, SamePages DEF KeptOK, Fallback, Journal!Writing, Journal!CommitPage
<1>3. CASE Recover
    <2>1. CASE Status.update_state = "IDLE"
        BY <1>2, <1>3, <2>1 DEF Recover, RecoverInterruptedUpdate
    <2>2. CASE Status.update_state # "IDLE"
        BY <1>1, <1>3, <2>2, CallKept DEF Recover
    <2> QED BY <2>1, <2>2
<1>4. CASE Begin \/ MarkCommitting \/ Abort \/ Trial
    BY <1>1, <1>4, CallKept DEF Begin, MarkCommitting, Abort, Trial
<1>5. CASE Boot
    <2>1. CASE BootTrial \/ BootExpiredTrial
        BY <1>1, <2>1, CallKept
    <2>2. CASE BootWithoutTrial
        BY <1>1, <2>2, BootIntoKept DEF BootWithoutTrial, Agree
    <2> QED BY <1>5, <2>1, <2>2 DEF Boot, BootCall
<1>6. CASE Continue
    BY <1>6, ContinueKept DEF Continue
<1>7. CASE Confirm
    BY <1>7, ConfirmKept DEF Confirm
<1>8. CASE ErasePage
    <2>1. Fallback' = Fallback /\ Status' = Fallback
        BY <1>8, FallbackErased DEF Inv, ErasePage, EraseStatusPage
    <2>2. /\ write.stage = "erase" /\ write'.contents = write.contents
          /\ call' = call
        BY <1>8 DEF ErasePage, EraseStatusPage, Journal!EraseStatusPage, Inv, TypeOK,
                    Journal!TypeOK, Journal!WriteRecord
    <2> QED BY <2>1, <2>2 DEF KeptOK, Agree
<1>9. CASE ProgramPage
    <2>1. Fallback' = Fallback
        BY <1>9, FallbackProgrammed DEF Inv, ProgramPage, ProgramStatusPage
    <2>2. /\ write.stage = "program" /\ write'.contents = write.contents
          /\ write'.stage = "done" /\ call' = call
        BY <1>9 DEF ProgramPage, ProgramStatusPage, Journal!ProgramStatusPage, Inv, TypeOK,
                    Journal!TypeOK, Journal!WriteRecord
    <2> QED BY <2>1, <2>2 DEF KeptOK, Journal!Writing
<1>10. CASE FailPage \/ EndCall \/ Crash
    <2>1. write'.stage \in {"failed", "none"}
        BY <1>10 DEF FailPage, StatusWriteFails, Journal!StatusWriteFails, EndCall, Return,
                     Journal!Return, Crash, PowerLoss, Journal!PowerLoss, Journal!NoWrite,
                     Inv, TypeOK, Journal!TypeOK, Journal!WriteRecord
    <2> QED BY <2>1 DEF KeptOK, Journal!Writing
<1>11. CASE Select \/ Release \/ UNCHANGED vars
    BY <1>2, <1>11 DEF Select, Release, apiVars, vars
<1>12. CASE \/ EraseSlot
            \/ \E image \in Images \cup {Partial} : WriteImage(image)
            \/ \E manifest \in Images \cup {Partial} : WriteManifest(manifest)
    BY <1>2, <1>12
    DEF EraseSlot, WriteImage, WriteManifest, StartSlotErase, FinishSlotErase, ProgramImage,
        ProgramManifest, WriteSlot
<1> QED BY <1>3, <1>4, <1>5, <1>6, <1>7, <1>8, <1>9, <1>10, <1>11, <1>12 DEF Next

LEMMA KeptInvariant == Spec => [](Inv /\ KeptOK)
<1>1. Init => KeptOK
    BY DEF Init, ApiInit, Journal!Init, Journal!NoWrite, KeptOK, Journal!Writing
<1> QED BY <1>1, InitInv, NextInv, NextKept, PTL DEF Spec

LEMMA PagesChange == [Next]_vars => ErasePage \/ ProgramPage \/ UNCHANGED pages
<1> SUFFICES ASSUME [Next]_vars
             PROVE  ErasePage \/ ProgramPage \/ UNCHANGED pages
    OBVIOUS
<1> USE DEF Commit, Journal!CommitStatus, Journal!CommitFrom, BootInto, Journal!PowerLoss
<1>1. CASE Recover \/ Begin \/ MarkCommitting \/ Abort \/ Trial \/ Confirm
    BY <1>1
    DEF Recover, Begin, MarkCommitting, Abort, Trial, Confirm, RecoverInterruptedUpdate,
        BeginUpdate, MarkUpdateCommitting, AbortUpdate, RequestTrial, ConfirmRunningImage
<1>2. CASE Boot \/ Continue
    BY <1>2
    DEF Boot, Continue, BootCall, BootTrial, BootExpiredTrial, BootWithoutTrial, ContinueBoot
<1>3. CASE FailPage \/ EndCall \/ Crash
    BY <1>3
    DEF FailPage, StatusWriteFails, Journal!StatusWriteFails, EndCall, Return,
        Journal!Return, Crash, PowerLoss
<1>4. CASE Select \/ Release \/ UNCHANGED vars
    BY <1>4 DEF Select, Release, apiVars, vars
<1>5. CASE \/ EraseSlot
           \/ \E image \in Images \cup {Partial} : WriteImage(image)
           \/ \E manifest \in Images \cup {Partial} : WriteManifest(manifest)
    BY <1>5
    DEF EraseSlot, WriteImage, WriteManifest, StartSlotErase, FinishSlotErase, ProgramImage,
        ProgramManifest, WriteSlot
<1> QED BY <1>1, <1>2, <1>3, <1>4, <1>5 DEF Next

(* What a load returns changes when the page it took is erased, and when a  *)
(* record is complete.                                                      *)
LEMMA StatusChange ==
    ASSUME Inv, [Next]_vars
    PROVE  \/ Status' = Status
           \/ ErasePage /\ call = "boot_active" /\ write.stage = "erase" /\ Status' = Fallback
           \/ ProgramPage /\ write.stage = "program" /\ Status' = write.contents
<1>1. CASE ErasePage
    <2>1. write.stage = "erase" /\ Status' = Fallback
        BY <1>1, FallbackErased DEF Inv, ErasePage, EraseStatusPage, Journal!EraseStatusPage
    <2>2. CASE call # "boot_active"
        BY <1>1, <2>1, <2>2, EraseStep
        DEF Inv, CommitOK, Journal!Writing, ErasePage, EraseStatusPage
    <2> QED BY <1>1, <2>1, <2>2
<1>2. CASE ProgramPage
    BY <1>2, ProgramStep
    DEF Inv, TypeOK, CommitOK, WinsNextLoad, ProgramPage, ProgramStatusPage,
        Journal!ProgramStatusPage
<1>3. CASE UNCHANGED pages
    BY <1>3, SamePages
<1> QED BY <1>1, <1>2, <1>3, PagesChange

(* The anti-rollback minimum never goes down, and a device that has         *)
(* confirmed an image never forgets it.                                     *)
THEOREM ConfirmationKept == Spec => ConfirmationNeverLost
<1>1. ASSUME Inv, KeptOK, [Next]_vars
      PROVE  Keeps(Status, Status')
    <2>1. Status \in BootStatus
        BY <1>1, StatusType DEF Inv, TypeOK
    <2>2. CASE Status' = Status
        BY <2>1, <2>2, AgreeKeeps DEF Agree
    <2>3. CASE write.stage = "erase" /\ Status' = Fallback
        BY <1>1, <2>1, <2>3 DEF KeptOK, Agree, Keeps, Journal!Writing, BootStatus
    <2>4. CASE write.stage = "program" /\ Status' = write.contents
        <3>1. Agree(Fallback, Status) /\ Keeps(Fallback, write.contents)
            BY <1>1, <2>4 DEF KeptOK, Journal!Writing
        <3> QED BY <2>4, <3>1 DEF Agree, Keeps
    <2> QED BY <1>1, <2>2, <2>3, <2>4, StatusChange
<1>2. Inv /\ KeptOK /\ [Next]_vars =>
          [/\ Status.minimum_version <= Status.minimum_version'
           /\ Status.confirmed_slot # "NONE" => Status.confirmed_slot' # "NONE"]_vars
    BY <1>1 DEF Keeps
<1> QED BY <1>2, KeptInvariant, PTL DEF Spec, ConfirmationNeverLost

(* Only recovery and the erase of its page leave its commit in progress. *)
LEMMA NextRecover == Inv /\ RecoverOK /\ [Next]_vars => RecoverOK'
<1> SUFFICES ASSUME Inv, RecoverOK, [Next]_vars, Journal!Writing', call' = "recover"
             PROVE  /\ write'.contents.update_state = "IDLE"
                    /\ (write'.contents.trial_slot # "NONE") <=> Complete'
    BY DEF RecoverOK
<1>1. ASSUME UNCHANGED <<slots, call>>, Status' = Status, Journal!Writing,
             write'.contents = write.contents
      PROVE  /\ write'.contents.update_state = "IDLE"
             /\ (write'.contents.trial_slot # "NONE") <=> Complete'
    BY <1>1 DEF RecoverOK, Complete, Verified
<1>2. CASE Recover
    <2>1. /\ Status \in BootStatus /\ RecordOK(Status)
          /\ phase = "recover" /\ call = "none"
          /\ write.stage = "none" /\ ~Journal!Writing
        BY <1>2, StatusType, StatusOK
        DEF Inv, TypeOK, CallOK, Recover, RecoverInterruptedUpdate, Journal!Writing
    <2>2. /\ Status.update_state # "IDLE"
          /\ Status.update_slot \in AppSlots /\ Status.update_slot \in Slots
          /\ Status.trial_slot = "NONE"
        BY <1>2, <2>1
        DEF Recover, RecoverInterruptedUpdate, RecordOK, Slots
    <2>3. Complete <=> /\ Status.update_state = "COMMITTING"
                       /\ Acceptable(Status.update_slot, Status.minimum_version)
        BY <2>2 DEF Complete, Acceptable
    <2>4. CASE Complete
        <3>1. Commit("recover", PutOnTrial(Status, Status.update_slot))
            BY <1>2, <2>2, <2>3, <2>4 DEF Recover, RecoverInterruptedUpdate
        <3>2. /\ write'.contents = PutOnTrial(Status, Status.update_slot)
              /\ Status' = Status /\ UNCHANGED slots
            BY <2>1, <2>2, <3>1, UpdateType, CommitEffect DEF Inv, TypeOK
        <3>3. Complete'
            BY <2>4, <3>2 DEF Complete, Verified
        <3> QED BY <2>1, <2>2, <3>2, <3>3, PutOnTrialFields DEF AppSlots
    <2>5. CASE ~Complete
        <3>1. Commit("recover", ClearUpdateMarker(Status))
            BY <1>2, <2>2, <2>3, <2>5 DEF Recover, RecoverInterruptedUpdate
        <3>2. /\ write'.contents = ClearUpdateMarker(Status)
              /\ Status' = Status /\ UNCHANGED slots
            BY <2>1, <2>2, <3>1, UpdateType, CommitEffect DEF Inv, TypeOK
        <3>3. ~Complete'
            BY <2>5, <3>2 DEF Complete, Verified
        <3>4. /\ ClearUpdateMarker(Status).update_state = "IDLE"
              /\ ClearUpdateMarker(Status).trial_slot = "NONE"
            BY <2>1, <2>2 DEF ClearUpdateMarker, BootStatus
        <3> QED BY <3>2, <3>3, <3>4
    <2> QED BY <2>4, <2>5
<1>3. CASE ErasePage
    <2>1. /\ write.stage = "erase" /\ write'.contents = write.contents
          /\ UNCHANGED <<slots, call>>
        BY <1>3 DEF ErasePage, EraseStatusPage, Journal!EraseStatusPage, Inv, TypeOK,
                    Journal!TypeOK, Journal!WriteRecord
    <2>2. Status' = Status
        BY <1>3, <2>1, EraseStep
        DEF Inv, CommitOK, Journal!Writing, ErasePage, EraseStatusPage
    <2> QED BY <1>1, <2>1, <2>2 DEF Journal!Writing
<1>4. CASE Begin \/ MarkCommitting \/ Abort \/ Trial \/ Confirm \/ Boot \/ Continue
    BY <1>4
    DEF Begin, MarkCommitting, Abort, Trial, Confirm, Boot, Continue, BeginUpdate,
        MarkUpdateCommitting, AbortUpdate, RequestTrial, ConfirmRunningImage, BootCall,
        BootTrial, BootExpiredTrial, BootWithoutTrial, ContinueBoot, BootInto, Commit
<1>5. CASE ProgramPage \/ FailPage \/ EndCall \/ Crash
    <2>1. write'.stage \in {"done", "failed", "none"}
        BY <1>5
        DEF ProgramPage, ProgramStatusPage, Journal!ProgramStatusPage, FailPage,
            StatusWriteFails, Journal!StatusWriteFails, EndCall, Return, Journal!Return,
            Crash, PowerLoss, Journal!PowerLoss, Journal!NoWrite, Inv, TypeOK,
            Journal!TypeOK, Journal!WriteRecord
    <2> QED BY <2>1 DEF Journal!Writing
<1>6. CASE UNCHANGED vars
    BY <1>1, <1>6, SamePages DEF vars, Journal!Writing
<1>7. CASE \/ Select \/ Release \/ EraseSlot
           \/ \E image \in Images \cup {Partial} : WriteImage(image)
           \/ \E manifest \in Images \cup {Partial} : WriteManifest(manifest)
    BY <1>7
    DEF Select, Release, apiVars, EraseSlot, WriteImage, WriteManifest, StartSlotErase,
        FinishSlotErase, ProgramImage, ProgramManifest, WriteSlot
<1> QED BY <1>2, <1>3, <1>4, <1>5, <1>6, <1>7 DEF Next

(* Recovery resolves what a power loss interrupted: a complete update goes  *)
(* on trial, and every other is dropped.                                    *)
THEOREM RecoveryResolved == Spec => RecoveryResolves
<1>1. Init => RecoverOK
    BY DEF Init, ApiInit, RecoverOK
<1>2. ASSUME Inv, RecoverOK, [Next]_vars, call = "recover", Status' # Status
      PROVE  /\ Status'.update_state = "IDLE"
             /\ (Status'.trial_slot # "NONE") <=> Complete
    BY <1>2, StatusChange DEF RecoverOK, Journal!Writing
<1>3. Inv /\ RecoverOK /\ [Next]_vars =>
          [call = "recover" /\ Status' # Status =>
              /\ Status'.update_state = "IDLE"
              /\ (Status'.trial_slot # "NONE") <=>
                     /\ Status.update_state = "COMMITTING"
                     /\ Verified(Status.update_slot)
                     /\ slots[Status.update_slot].manifest.image_version
                            >= Status.minimum_version]_vars
    BY <1>2 DEF Complete
<1> QED BY <1>1, <1>3, InitInv, NextInv, NextRecover, PTL DEF Spec, RecoveryResolves

LEMMA NextMarkerCall == Inv /\ MarkerCallOK /\ [Next]_vars => MarkerCallOK'
<1> SUFFICES ASSUME Inv, MarkerCallOK, [Next]_vars
             PROVE  MarkerCallOK'
    OBVIOUS
<1>1. Status \in BootStatus /\ target \in Slots
    BY StatusType DEF Inv, TypeOK
<1>2. CASE Begin \/ Abort
    <2>1. PICK status \in BootStatus :
              /\ Commit("begin_update", status) \/ Commit("abort_update", status)
              /\ target' \in AppSlots => Status.update_state # "COMMITTING"
        BY <1>1, <1>2, UpdateType DEF Begin, BeginUpdate, Abort, AbortUpdate, AppSlots
    <2>2. Status' = Status /\ call' \in {"begin_update", "abort_update"}
        BY <2>1, CommitEffect DEF Inv, TypeOK
    <2> QED BY <2>1, <2>2 DEF MarkerCallOK
<1>3. CASE MarkCommitting
    <2>1. /\ call' = "mark_committing"
          /\ write'.contents = [Status EXCEPT !.update_state = "COMMITTING"]
        BY <1>3
        DEF MarkCommitting, MarkUpdateCommitting, Commit, Journal!CommitStatus,
            Journal!CommitFrom
    <2> QED BY <1>1, <2>1 DEF MarkerCallOK, BootStatus
<1>4. CASE Trial
    <2>1. Status.update_state = "COMMITTING" /\ UNCHANGED pages /\ call' = "request_trial"
        BY <1>4 DEF Trial, RequestTrial, Commit, Journal!CommitStatus, Journal!CommitFrom
    <2> QED BY <2>1, SamePages DEF MarkerCallOK
<1>5. CASE ErasePage \/ FailPage
    <2>1. /\ Journal!Writing /\ write'.contents = write.contents
          /\ write.stage # "done"
          /\ UNCHANGED <<slots, call, target>>
        BY <1>5 DEF ErasePage, EraseStatusPage, Journal!EraseStatusPage, FailPage,
                    StatusWriteFails, Journal!StatusWriteFails, Journal!Writing, Inv,
                    TypeOK, Journal!TypeOK, Journal!WriteRecord
    <2>2. call # "boot_active" => Status' = Status
        BY <1>5, EraseStep, SamePages
        DEF Inv, CommitOK, Journal!Writing, ErasePage, EraseStatusPage, FailPage,
            StatusWriteFails, Journal!StatusWriteFails, Journal!EraseStatusPage
    <2> QED BY <2>1, <2>2 DEF MarkerCallOK
<1>6. CASE ProgramPage
    <2>1. write'.stage = "done" /\ call' = call
        BY <1>6
        DEF ProgramPage, ProgramStatusPage, Journal!ProgramStatusPage, Inv, TypeOK,
            Journal!TypeOK, Journal!WriteRecord
    <2> QED BY <2>1 DEF MarkerCallOK, Journal!Writing
<1>7. CASE Recover \/ Confirm \/ Boot \/ Continue \/ EndCall \/ Crash
    <2>1. call' \in {"none", "recover", "confirm"} \cup BootCalls
        BY <1>7
        DEF Recover, Confirm, Boot, Continue, EndCall, Crash, RecoverInterruptedUpdate,
            ConfirmRunningImage, BootCall, BootTrial, BootExpiredTrial, BootWithoutTrial,
            ContinueBoot, BootInto, Commit, Return, PowerLoss, BootCalls
    <2> QED BY <2>1 DEF MarkerCallOK, BootCalls
<1>8. CASE UNCHANGED vars
    BY <1>8, SamePages DEF vars, MarkerCallOK, Journal!Writing
<1>9. CASE \/ Select \/ Release \/ EraseSlot
           \/ \E image \in Images \cup {Partial} : WriteImage(image)
           \/ \E manifest \in Images \cup {Partial} : WriteManifest(manifest)
    <2>1. call' = "none"
        BY <1>9
        DEF Select, Release, apiVars, EraseSlot, WriteImage, WriteManifest, StartSlotErase,
            FinishSlotErase, ProgramImage, ProgramManifest, WriteSlot
    <2> QED BY <2>1 DEF MarkerCallOK
<1> QED BY <1>2, <1>3, <1>4, <1>5, <1>6, <1>7, <1>8, <1>9 DEF Next

(* An update is steered away from the slot that would boot. *)
LEMMA SelectSpare ==
    ASSUME Inv, Select, Bootable
    PROVE  Spare'
<1>1. /\ Status \in BootStatus /\ Status' = Status /\ UNCHANGED slots
      /\ SelectActiveSlot(Status) \in AppSlots
      /\ Acceptable(SelectActiveSlot(Status), Status.minimum_version)
    BY StatusType, SamePages
    DEF Inv, TypeOK, Select, apiVars, Bootable, SelectActiveSlot, SelectFallback, Acceptable,
        AppSlots
<1>2. target' # SelectActiveSlot(Status)
    BY <1>1 DEF Select, SelectedUpdateSlot, OppositeSlot, AppSlots
<1> QED BY <1>1, <1>2, SameSlots DEF Spare

(* A commit other than a confirmation leaves every slot as acceptable as it *)
(* was.                                                                     *)
LEMMA SameMinimum ==
    ASSUME Inv, KeptOK, [Next]_vars, Status' = Status \/ call # "confirm"
    PROVE  Status'.minimum_version = Status.minimum_version
<1>1. CASE Status' = Status
    BY <1>1
<1>2. CASE write.stage = "erase" /\ Status' = Fallback
    BY <1>2 DEF KeptOK, Agree, Journal!Writing
<1>3. CASE write.stage = "program" /\ Status' = write.contents /\ call # "confirm"
    BY <1>3 DEF KeptOK, Agree, Journal!Writing
<1> QED BY <1>1, <1>2, <1>3, StatusChange

(* While the target may be erased, or its image written, it is not what     *)
(* boots.                                                                   *)
LEMMA TargetWritten ==
    ASSUME Inv,
           \/ EraseSlot
           \/ \E image \in Images \cup {Partial} : WriteImage(image)
    PROVE  /\ target \in AppSlots /\ target' = target /\ call = "none" /\ call' = "none"
           /\ Status.update_state = "RECEIVING" /\ Status' = Status
           /\ \A slot \in AppSlots : slot # target => slots'[slot] = slots[slot]
           /\ \A minimum : ~Acceptable(target, minimum)'
<1>1. PICK contents :
          /\ Marked("RECEIVING") /\ WriteSlot(target, contents) /\ target' = target
          /\ contents.manifest \notin Images \/ contents.image \notin Images
    <2>1. slots[target] \in SlotContents
        BY DEF EraseSlot, WriteImage, Marked, Inv, TypeOK
    <2>2. CASE EraseSlot /\ StartSlotErase(target)
        BY <2>1, <2>2, ImagesAssumption DEF EraseSlot, StartSlotErase, SlotContents
    <2>3. CASE EraseSlot /\ FinishSlotErase(target)
        BY <2>3, ImagesAssumption DEF EraseSlot, FinishSlotErase
    <2>4. CASE \E image \in Images \cup {Partial} : WriteImage(image)
        BY <2>1, <2>4, ImagesAssumption DEF WriteImage, ProgramImage, SlotContents
    <2> QED BY <2>2, <2>3, <2>4 DEF EraseSlot
<1>2. /\ slots' = [slots EXCEPT ![target] = contents]
      /\ slots \in [AppSlots -> SlotContents] /\ target \in AppSlots
      /\ UNCHANGED pages
      /\ call = "none" /\ call' = "none" /\ Status.update_state = "RECEIVING"
    BY <1>1 DEF WriteSlot, Marked, Inv, TypeOK
<1>3. /\ \A slot \in AppSlots : slot # target => slots'[slot] = slots[slot]
      /\ slots'[target] = contents
    BY <1>2
<1>4. \A minimum : ~Acceptable(target, minimum)'
    BY <1>1, <1>3 DEF Acceptable, Verified
<1> QED BY <1>1, <1>2, <1>3, <1>4, SamePages

LEMMA NextSpare == Inv /\ KeptOK /\ MarkerCallOK /\ SpareOK /\ [Next]_vars => SpareOK'
<1> SUFFICES ASSUME Inv, KeptOK, MarkerCallOK, SpareOK, [Next]_vars,
                    target' \in AppSlots, Status'.update_state # "COMMITTING",
                    call' # "request_trial", Bootable'
             PROVE  Spare'
    BY DEF SpareOK
<1>1. ASSUME target' = target, UNCHANGED slots,
             Status'.minimum_version = Status.minimum_version,
             Status.update_state # "COMMITTING", call # "request_trial"
      PROVE  Spare'
    BY <1>1, SameSlots DEF SpareOK, Spare, Bootable
<1>2. CASE Select
    <2>1. Bootable
        BY <1>2, SameSlots, SamePages DEF Select, apiVars, Bootable
    <2> QED BY <1>2, <2>1, SelectSpare
<1>3. CASE \/ Recover \/ Begin \/ MarkCommitting \/ Abort \/ Trial \/ Confirm \/ Boot
           \/ Continue \/ FailPage \/ UNCHANGED vars
    <2>1. UNCHANGED <<pages, slots>> /\ target' \in {target, "NONE"}
        BY <1>3
        DEF Recover, Begin, MarkCommitting, Abort, Trial, Confirm, Boot, Continue, FailPage,
            vars, RecoverInterruptedUpdate, BeginUpdate, MarkUpdateCommitting, AbortUpdate,
            RequestTrial, ConfirmRunningImage, BootCall, BootTrial, BootExpiredTrial,
            BootWithoutTrial, ContinueBoot, BootInto, Commit, Journal!CommitStatus,
            Journal!CommitFrom, Journal!PowerLoss, StatusWriteFails,
            Journal!StatusWriteFails
    <2>2. call # "request_trial"
        BY <1>3
        DEF Recover, Begin, MarkCommitting, Abort, Trial, Confirm, Boot, Continue, FailPage,
            vars, RecoverInterruptedUpdate, BeginUpdate, MarkUpdateCommitting, AbortUpdate,
            RequestTrial, ConfirmRunningImage, BootCall, BootTrial, BootExpiredTrial,
            BootWithoutTrial, ContinueBoot, Commit, StatusWriteFails
    <2> QED BY <1>1, <2>1, <2>2, SamePages DEF AppSlots
<1>4. CASE ErasePage
    <2>1. UNCHANGED <<slots, call, target>> /\ call # "boot_active"
        BY <1>4 DEF ErasePage, EraseStatusPage, Inv, CallOK, BootCalls, AppSlots
    <2>2. Status' = Status
        BY <1>4, <2>1, StatusChange
        DEF ErasePage, EraseStatusPage, Journal!EraseStatusPage, ProgramPage,
            ProgramStatusPage, Journal!ProgramStatusPage
    <2> QED BY <1>1, <2>1, <2>2
<1>5. CASE ProgramPage
    <2>1. /\ UNCHANGED <<slots, call, target>>
          /\ write.stage = "program" /\ Journal!Writing
        BY <1>5
        DEF ProgramPage, ProgramStatusPage, Journal!ProgramStatusPage, Journal!Writing
    <2>2. call \in {"begin_update", "mark_committing", "abort_update"}
        BY <2>1
        DEF Inv, TypeOK, CallOK, TargetOK, UpdateCalls, BootCalls, AppSlots, Journal!Writing
    <2>3. Status' = write.contents
        BY <1>5, ProgramStep
        DEF Inv, TypeOK, CommitOK, WinsNextLoad, ProgramPage, ProgramStatusPage
    <2>4. call # "mark_committing" /\ Status.update_state # "COMMITTING"
        BY <2>1, <2>2, <2>3 DEF MarkerCallOK
    <2>5. Status'.minimum_version = Status.minimum_version
        BY <2>2, SameMinimum
    <2> QED BY <1>1, <2>1, <2>2, <2>4, <2>5
<1>6. CASE EndCall
    <2>1. UNCHANGED <<pages, slots>>
        BY <1>6 DEF EndCall, Return, Journal!Return
    <2>2. Status' = Status
        BY <2>1, SamePages
    <2>3. call # "request_trial" /\ target' = target
        BY <1>6, <2>2 DEF EndCall, MarkerCallOK, AppSlots
    <2> QED BY <1>1, <2>1, <2>2, <2>3
<1>7. CASE Release \/ Crash
    BY <1>7 DEF Release, Crash, AppSlots
<1>8. CASE EraseSlot \/ \E image \in Images \cup {Partial} : WriteImage(image)
    BY <1>8, TargetWritten DEF Bootable, Spare
<1>9. CASE \E manifest \in Images \cup {Partial} : WriteManifest(manifest)
    <2>1. Status.update_state = "COMMITTING" /\ UNCHANGED pages
        BY <1>9 DEF WriteManifest, Marked, ProgramManifest, WriteSlot
    <2> QED BY <2>1, SamePages
<1> QED BY <1>2, <1>3, <1>4, <1>5, <1>6, <1>7, <1>8, <1>9 DEF Next

LEMMA ManifestStep ==
    ASSUME Inv, NEW manifest, WriteManifest(manifest), Bootable
    PROVE  Bootable'
<1>1. /\ slots \in [AppSlots -> SlotContents] /\ target \in AppSlots
      /\ slots[target].manifest \notin Images
      /\ \A slot \in AppSlots : slot # target => slots'[slot] = slots[slot]
      /\ Status' = Status
    BY ImagesAssumption, SamePages
    DEF WriteManifest, ProgramManifest, WriteSlot, Marked, Inv, TypeOK
<1>2. PICK slot \in AppSlots : Acceptable(slot, Status.minimum_version)
    BY DEF Bootable
<1>3. slot # target
    BY <1>1, <1>2 DEF Acceptable, Verified
<1>4. Acceptable(slot, Status.minimum_version)'
    BY <1>1, <1>2, <1>3 DEF Acceptable, Verified
<1> QED BY <1>4 DEF Bootable

(* A confirmation raises the minimum to the version of the running image.   *)
LEMMA ConfirmStep ==
    ASSUME Inv, ProgramPage, call = "confirm"
    PROVE  Bootable'
<1>1. Status' = write.contents /\ UNCHANGED slots /\ Journal!Writing
    BY ProgramStep
    DEF Inv, TypeOK, CommitOK, WinsNextLoad, ProgramPage, ProgramStatusPage,
        Journal!ProgramStatusPage, Journal!Writing
<1>2. phase \in AppSlots /\ Acceptable(phase, Status'.minimum_version)
    BY <1>1 DEF Inv, CallOK, RunOK
<1> QED BY <1>1, <1>2, SameSlots DEF Bootable

(* Once some slot holds an image the policy would boot, some slot always    *)
(* does.                                                                    *)
THEOREM BootableKept == Spec => BootableNeverLost
<1>1. Init => KeptOK /\ MarkerCallOK /\ SpareOK
    BY DEF Init, ApiInit, Journal!Init, Journal!NoWrite, KeptOK, MarkerCallOK, SpareOK,
           Journal!Writing, AppSlots
<1>2. ASSUME Inv, KeptOK, SpareOK, [Next]_vars, Bootable
      PROVE  Bootable'
    <2> USE <1>2
    <2>1. CASE EraseSlot \/ \E image \in Images \cup {Partial} : WriteImage(image)
        <3>1. PICK slot \in AppSlots :
                  slot # target /\ Acceptable(slot, Status.minimum_version)
            BY <2>1, TargetWritten DEF SpareOK, Spare
        <3>2. Acceptable(slot, Status.minimum_version)' /\ Status' = Status
            BY <2>1, <3>1, TargetWritten DEF Acceptable, Verified
        <3> QED BY <3>2 DEF Bootable
    <2>2. CASE \E manifest \in Images \cup {Partial} : WriteManifest(manifest)
        BY <2>2, ManifestStep
    <2>3. CASE ProgramPage /\ call = "confirm"
        BY <2>3, ConfirmStep
    <2>4. CASE UNCHANGED slots /\ (Status' = Status \/ call # "confirm")
        BY <2>4, SameMinimum, SameSlots DEF Bootable
    <2>5. CASE ErasePage
        BY <2>5, StatusChange, <2>4
        DEF ErasePage, EraseStatusPage, ProgramPage, ProgramStatusPage,
            Journal!EraseStatusPage, Journal!ProgramStatusPage
    <2>6. CASE ProgramPage
        BY <2>3, <2>4, <2>6 DEF ProgramPage, ProgramStatusPage
    <2>7. CASE \/ Recover \/ Begin \/ MarkCommitting \/ Abort \/ Trial \/ Confirm \/ Boot
               \/ Continue
        <3>1. UNCHANGED <<pages, slots>>
            BY <2>7
            DEF Recover, Begin, MarkCommitting, Abort, Trial, Confirm, Boot, Continue,
                RecoverInterruptedUpdate, BeginUpdate, MarkUpdateCommitting, AbortUpdate,
                RequestTrial, ConfirmRunningImage, BootCall, BootTrial, BootExpiredTrial,
                BootWithoutTrial, ContinueBoot, BootInto, Commit,
                Journal!CommitStatus, Journal!CommitFrom, Journal!PowerLoss
        <3> QED BY <2>4, <3>1, SamePages
    <2>8. CASE Select \/ Release \/ FailPage \/ EndCall \/ Crash \/ UNCHANGED vars
        <3>1. UNCHANGED <<pages, slots>>
            BY <2>8
            DEF Select, Release, apiVars, FailPage, StatusWriteFails,
                Journal!StatusWriteFails, EndCall, Return, Journal!Return, Crash, PowerLoss,
                Journal!PowerLoss, vars
        <3> QED BY <2>4, <3>1, SamePages
    <2> QED BY <2>1, <2>2, <2>5, <2>6, <2>7, <2>8 DEF Next
<1>3. Inv /\ KeptOK /\ SpareOK /\ [Next]_vars => [Bootable => Bootable']_vars
    BY <1>2
<1> QED BY <1>1, <1>3, InitInv, NextInv, NextKept, NextMarkerCall, NextSpare, PTL
        DEF Spec, BootableNeverLost
=============================================================================
