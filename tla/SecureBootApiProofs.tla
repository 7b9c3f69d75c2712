------------------------- MODULE SecureBootApiProofs -------------------------
(***************************************************************************)
(* What every client of secure_boot.c can rely on, whatever it does with   *)
(* the calls: they commit records, and the status record changes only when *)
(* a commit erases or completes a page.                                    *)
(***************************************************************************)
EXTENDS SecureBootApi, TLAPS

Pages == Journal!Pages

-----------------------------------------------------------------------------
(* Types. *)

LEMMA DefaultType == DefaultStatus \in BootStatus
BY DEF DefaultStatus, BootStatus, Slots

LEMMA StatusType ==
    ASSUME ApiTypeOK
    PROVE  /\ Status \in BootStatus
           /\ Journal!Generation \in Nat
           /\ Journal!Source \in Pages \cup {"NONE"}
BY DefaultType DEF ApiTypeOK, Journal!TypeOK, Status, Journal!Status,
    Journal!Generation, Journal!Source, Pages, Journal!Pages, Journal!PageRecord

(* The records the calls commit are records. *)
LEMMA UpdateType ==
    ASSUME NEW status \in BootStatus, NEW slot \in Slots
    PROVE  /\ ClearUpdateMarker(status) \in BootStatus
           /\ PutOnTrial(status, slot) \in BootStatus
           /\ ExpireTrial(status) \in BootStatus
           /\ [status EXCEPT !.active_slot = slot] \in BootStatus
           /\ [status EXCEPT !.update_slot = slot,
                             !.update_state = "RECEIVING"] \in BootStatus
           /\ [status EXCEPT !.update_state = "COMMITTING"] \in BootStatus
           /\ [status EXCEPT !.trial_boot_count = @ + 1] \in BootStatus
<1> USE DEF BootStatus, Slots
<1>1. ClearUpdateMarker(status) \in BootStatus
    BY DEF ClearUpdateMarker
<1>2. PutOnTrial(status, slot) \in BootStatus
    <2>1. [status EXCEPT !.trial_slot = slot, !.trial_boot_count = 0,
                         !.active_slot = slot] \in BootStatus
        OBVIOUS
    <2> QED BY <2>1 DEF PutOnTrial, ClearUpdateMarker
<1>3. ExpireTrial(status) \in BootStatus
    BY DEF ExpireTrial
<1>4. [status EXCEPT !.active_slot = slot] \in BootStatus
    OBVIOUS
<1>5. [status EXCEPT !.update_slot = slot,
                     !.update_state = "RECEIVING"] \in BootStatus
    OBVIOUS
<1>6. [status EXCEPT !.update_state = "COMMITTING"] \in BootStatus
    OBVIOUS
<1>7. [status EXCEPT !.trial_boot_count = @ + 1] \in BootStatus
    OBVIOUS
<1> QED BY <1>1, <1>2, <1>3, <1>4, <1>5, <1>6, <1>7

LEMMA ConfirmType ==
    ASSUME NEW status \in BootStatus, NEW slot \in Slots, NEW version \in Nat
    PROVE  [status EXCEPT !.confirmed_slot = slot,
                          !.active_slot = slot,
                          !.trial_slot = "NONE",
                          !.trial_boot_count = 0,
                          !.minimum_version = version] \in BootStatus
BY DEF BootStatus, Slots

LEMMA AcceptableType ==
    ASSUME ApiTypeOK, NEW slot, NEW minimum, Acceptable(slot, minimum)
    PROVE  /\ slot \in AppSlots
           /\ slots[slot].manifest.image_version \in Nat
BY ImagesAssumption DEF Acceptable, Verified

LEMMA SelectionType ==
    ASSUME NEW status \in BootStatus
    PROVE  /\ SelectFallback(status) \in Slots
           /\ BootSelection(status) \in Slots
           /\ SelectActiveSlot(status) \in Slots
BY DEF SelectFallback, BootSelection, SelectActiveSlot, Acceptable, Slots, AppSlots

(* Every commit leaves the journal well typed. *)
LEMMA CommitType ==
    ASSUME ApiTypeOK,
           NEW status \in BootStatus, NEW generation \in Nat,
           NEW source \in Pages \cup {"NONE"},
           Journal!CommitFrom(status, generation, source)
    PROVE  Journal!TypeOK'
BY DEF ApiTypeOK, Journal!TypeOK, Journal!CommitFrom, Journal!WriteRecord, Pages

LEMMA CommitStatusType ==
    ASSUME ApiTypeOK, NEW status \in BootStatus, Journal!CommitStatus(status)
    PROVE  Journal!TypeOK'
BY StatusType, CommitType DEF Journal!CommitStatus

LEMMA NoWriteType ==
    ASSUME ApiTypeOK, write' = Journal!NoWrite, UNCHANGED pages
    PROVE  Journal!TypeOK'
BY DefaultType DEF ApiTypeOK, Journal!TypeOK, Journal!NoWrite, Journal!WriteRecord

LEMMA BootIntoType ==
    ASSUME ApiTypeOK, NEW selected \in Slots, NEW status \in BootStatus,
           NEW generation \in Nat, NEW source \in Pages \cup {"NONE"},
           BootInto(selected, status, generation, source)
    PROVE  /\ Journal!TypeOK'
           /\ phase' \in {"recover", "ready"} \cup AppSlots
           /\ call' \in {"none", "boot_active"}
           /\ UNCHANGED slots
<1>1. CASE Journal!PowerLoss
    <2>1. Journal!TypeOK'
        BY <1>1, NoWriteType DEF Journal!PowerLoss
    <2> QED BY <1>1, <2>1 DEF BootInto, ApiTypeOK, Slots
<1>2. CASE Journal!CommitFrom([status EXCEPT !.active_slot = selected],
                              generation, source)
    <2>1. Journal!TypeOK'
        BY <1>2, UpdateType, CommitType
    <2> QED BY <1>2, <2>1 DEF BootInto, ApiTypeOK, Slots
<1> QED BY <1>1, <1>2 DEF BootInto

LEMMA InitialType == ApiInit => ApiTypeOK
BY DefaultType, FactoryAssumption
DEF ApiInit, ApiTypeOK, Journal!Init, Journal!TypeOK, Journal!NoWrite, Journal!WriteRecord,
    Journal!ErasedPage, Journal!PageRecord, Journal!Pages

(* Whatever a call does leaves the variables well typed. *)
LEMMA CallType ==
    ASSUME ApiTypeOK, NEW slot \in Slots,
           \/ RecoverInterruptedUpdate \/ BeginUpdate(slot) \/ MarkUpdateCommitting(slot)
           \/ AbortUpdate \/ RequestTrial(slot) \/ ConfirmRunningImage(slot)
           \/ BootCall \/ ContinueBoot
    PROVE  ApiTypeOK'
<1> USE DEF UpdateCalls, BootCalls
<1>a. /\ Status \in BootStatus
      /\ Journal!Generation \in Nat
      /\ Journal!Source \in Pages \cup {"NONE"}
      /\ Status.update_slot \in Slots
      /\ BootSelection(Status) \in Slots
    BY StatusType, SelectionType DEF BootStatus
<1>b. ASSUME NEW name \in UpdateCalls \cup BootCalls, NEW status \in BootStatus,
             Commit(name, status)
      PROVE  ApiTypeOK'
    BY <1>b, CommitStatusType DEF Commit, ApiTypeOK
<1>1. CASE RecoverInterruptedUpdate
    <2>1. CASE \E status \in BootStatus : Commit("recover", status)
        BY <1>b, <2>1
    <2>2. CASE phase' = "ready" /\ UNCHANGED <<pages, write, slots, call>>
        BY <2>2 DEF ApiTypeOK, Journal!TypeOK
    <2> QED BY <1>1, <1>a, <2>1, <2>2, UpdateType DEF RecoverInterruptedUpdate
<1>2. CASE BeginUpdate(slot) \/ MarkUpdateCommitting(slot) \/ AbortUpdate \/ RequestTrial(slot)
    BY <1>2, <1>a, <1>b, UpdateType
    DEF BeginUpdate, MarkUpdateCommitting, AbortUpdate, RequestTrial
<1>3. CASE ConfirmRunningImage(slot)
    <2>1. slots[slot].manifest.image_version \in Nat
        BY <1>3, AcceptableType DEF ConfirmRunningImage
    <2> QED BY <1>3, <1>a, <1>b, <2>1, ConfirmType DEF ConfirmRunningImage
<1>4. CASE BootTrial \/ BootExpiredTrial
    BY <1>4, <1>a, <1>b, UpdateType DEF BootTrial, BootExpiredTrial
<1>5. CASE BootWithoutTrial
    BY <1>5, <1>a, BootIntoType DEF BootWithoutTrial, ApiTypeOK
<1>6. CASE ContinueBoot
    <2>1. /\ write.contents \in BootStatus
          /\ write.generation \in Nat
          /\ write.source \in Pages \cup {"NONE"}
          /\ write.contents.trial_slot \in Slots
          /\ write.contents.active_slot \in Slots
          /\ BootSelection(write.contents) \in Slots
        BY SelectionType DEF ApiTypeOK, Journal!TypeOK, Journal!WriteRecord, BootStatus, Pages
    <2>2. \E selected \in {write.contents.trial_slot, BootSelection(write.contents),
                           write.contents.active_slot} :
              BootInto(selected, write.contents, write.generation, write.source)
        BY <1>6 DEF ContinueBoot
    <2> QED BY <2>1, <2>2, BootIntoType DEF ApiTypeOK
<1> QED BY <1>1, <1>2, <1>3, <1>4, <1>5, <1>6 DEF BootCall

(* So do the steps of its commit, its return and a power loss ... *)
LEMMA CommitStepType ==
    ASSUME ApiTypeOK,
           EraseStatusPage \/ ProgramStatusPage \/ StatusWriteFails \/ Return \/ PowerLoss
    PROVE  ApiTypeOK'
<1>1. CASE EraseStatusPage
    BY <1>1, DefaultType
    DEF EraseStatusPage, Journal!EraseStatusPage, Journal!CommitPage, Journal!ErasedPage,
        Journal!Pages, Journal!PageRecord, Journal!WriteRecord, ApiTypeOK, Journal!TypeOK
<1>2. CASE ProgramStatusPage
    BY <1>2
    DEF ProgramStatusPage, Journal!ProgramStatusPage, Journal!CommitPage, Journal!Pages,
        Journal!PageRecord, Journal!WriteRecord, ApiTypeOK, Journal!TypeOK
<1>3. CASE StatusWriteFails
    BY <1>3 DEF StatusWriteFails, Journal!StatusWriteFails, Journal!WriteRecord,
                ApiTypeOK, Journal!TypeOK
<1>4. CASE Return \/ PowerLoss
    <2>1. Journal!TypeOK'
        BY <1>4, NoWriteType DEF Return, Journal!Return, PowerLoss, Journal!PowerLoss
    <2> QED BY <1>4, <2>1 DEF Return, PowerLoss, ApiTypeOK
<1> QED BY <1>1, <1>2, <1>3, <1>4

(* ... and what is written to a slot. *)
LEMMA SlotStepType ==
    ASSUME ApiTypeOK, NEW slot, NEW contents \in Images \cup {Partial},
           \/ StartSlotErase(slot) \/ FinishSlotErase(slot)
           \/ ProgramImage(slot, contents) \/ ProgramManifest(slot, contents)
    PROVE  ApiTypeOK'
<1>1. slots' \in [AppSlots -> SlotContents] /\ UNCHANGED <<pages, write, phase, call>>
    BY DEF StartSlotErase, FinishSlotErase, ProgramImage, ProgramManifest, WriteSlot,
           SlotContents, ApiTypeOK
<1> QED BY <1>1 DEF ApiTypeOK, Journal!TypeOK

-----------------------------------------------------------------------------
(* What a load returns. *)

LEMMA SamePages ==
    ASSUME UNCHANGED pages
    PROVE  /\ Status' = Status
           /\ Journal!Source' = Journal!Source
           /\ Journal!Generation' = Journal!Generation
BY DEF Status, Journal!Status, Journal!Source, Journal!Generation

(* A load takes the newest of the valid records. *)
LEMMA SourceNewest ==
    ASSUME ApiTypeOK
    PROVE  \A p \in Pages : pages[p].valid =>
               /\ pages[p].generation <= Journal!Generation
               /\ Journal!Source # "NONE"
BY DEF ApiTypeOK, Journal!TypeOK, Journal!Source, Journal!Generation, Pages,
       Journal!Pages, Journal!PageRecord

(* The record being committed is newer than the one it does not overwrite. *)
WinsNextLoad ==
    write.stage \in {"erase", "program", "done"} =>
        \A p \in Pages : p # Journal!CommitPage(write.source) /\ pages[p].valid =>
            pages[p].generation < write.generation

LEMMA CommitWins ==
    ASSUME ApiTypeOK, NEW status \in BootStatus, Journal!CommitStatus(status)
    PROVE  WinsNextLoad'
BY StatusType, SourceNewest
DEF WinsNextLoad, Journal!CommitStatus, Journal!CommitFrom, ApiTypeOK, Journal!TypeOK,
    Journal!PageRecord, Pages

LEMMA EraseWins ==
    ASSUME ApiTypeOK, WinsNextLoad, Journal!EraseStatusPage
    PROVE  WinsNextLoad'
BY DEF WinsNextLoad, Journal!EraseStatusPage, ApiTypeOK, Journal!TypeOK, Journal!ErasedPage,
       Journal!CommitPage, Journal!Pages, Pages

LEMMA ProgramWins ==
    ASSUME ApiTypeOK, WinsNextLoad, Journal!ProgramStatusPage
    PROVE  WinsNextLoad'
BY DEF WinsNextLoad, Journal!ProgramStatusPage, ApiTypeOK, Journal!TypeOK,
       Journal!CommitPage, Journal!Pages, Pages

(* A completed record wins the next load. *)
LEMMA ProgramStep ==
    ASSUME ApiTypeOK, WinsNextLoad, Journal!ProgramStatusPage
    PROVE  Status' = write.contents
<1> DEFINE page == Journal!CommitPage(write.source)
           other == IF page = "PRIMARY" THEN "BACKUP" ELSE "PRIMARY"
<1>1. /\ page \in Pages /\ other \in Pages /\ other # page
      /\ pages[other].valid => pages[other].generation < write.generation
    BY DEF Journal!CommitPage, WinsNextLoad, Journal!ProgramStatusPage,
           Pages, Journal!Pages
<1>2. /\ pages'[page] = [valid |-> TRUE, generation |-> write.generation,
                         contents |-> write.contents]
      /\ pages'[other] = pages[other]
    BY <1>1 DEF Journal!ProgramStatusPage, ApiTypeOK, Journal!TypeOK, Pages
<1>3. /\ pages[other].generation \in Nat
      /\ write.generation \in Nat
    BY <1>1 DEF ApiTypeOK, Journal!TypeOK, Journal!PageRecord, Journal!WriteRecord, Pages
<1>4. CASE page = "PRIMARY"
    BY <1>1, <1>2, <1>3, <1>4 DEF Status, Journal!Status, Journal!Source
<1>5. CASE page = "BACKUP"
    BY <1>1, <1>2, <1>3, <1>5 DEF Status, Journal!Status, Journal!Source
<1> QED BY <1>1, <1>4, <1>5 DEF Pages, Journal!Pages

(* A call that commits leaves what a load returns alone for now. *)
LEMMA CommitEffect ==
    ASSUME ApiTypeOK, NEW name, NEW status \in BootStatus, Commit(name, status)
    PROVE  /\ call = "none" /\ call' = name
           /\ write'.stage = "erase" /\ write'.contents = status
           /\ Status' = Status
           /\ UNCHANGED <<slots, phase>>
           /\ WinsNextLoad'
BY CommitWins, SamePages
DEF Commit, Journal!CommitStatus, Journal!CommitFrom

LEMMA ReturnEffect ==
    ASSUME ApiTypeOK, Return
    PROVE  /\ write.stage \in {"done", "failed"} /\ write'.stage = "none" /\ call' = "none"
           /\ phase' = IF call = "recover" THEN "ready" ELSE phase
           /\ Status' = Status
           /\ UNCHANGED slots
BY SamePages DEF Return, Journal!Return, Journal!NoWrite
=============================================================================
