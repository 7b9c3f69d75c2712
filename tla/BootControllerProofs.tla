------------------------ MODULE BootControllerProofs ------------------------
(***************************************************************************)
(* The boot controller implements the secure boot policy, for every set of *)
(* releases, every image size and every factory state, with power losses   *)
(* and Flash errors anywhere: what SecureBootProofs proves of the policy   *)
(* holds for the device.                                                   *)
(***************************************************************************)
EXTENDS FlashHistory, SecureBootApiProofs

-----------------------------------------------------------------------------
(* The instance of the policy has its own copy of the calls: they are the   *)
(* controller's.                                                            *)

LEMMA SameLoad ==
    /\ Policy!AppSlots = AppSlots
    /\ Policy!Status = Status
    /\ Policy!Journal!Generation = Journal!Generation
    /\ Policy!Journal!Source = Journal!Source
    /\ Policy!Journal!NoWrite = Journal!NoWrite
    /\ Policy!Journal!ErasedPage = Journal!ErasedPage
    /\ Policy!Journal!Pages = Journal!Pages
BY DEF Policy!AppSlots, AppSlots, Policy!Status, Status, Policy!Journal!Status,
       Journal!Status, Policy!DefaultStatus, DefaultStatus, Policy!Journal!Source,
       Journal!Source, Policy!Journal!Generation, Journal!Generation,
       Policy!Journal!NoWrite, Journal!NoWrite, Policy!Journal!ErasedPage,
       Journal!ErasedPage, Policy!Journal!Pages, Journal!Pages

LEMMA SameAcceptable ==
    ASSUME NEW slot, NEW minimum
    PROVE  Policy!Acceptable(slot, minimum) <=> Acceptable(slot, minimum)
BY SameLoad DEF Policy!Acceptable, Acceptable, Policy!Verified, Verified

LEMMA SameFallback ==
    ASSUME NEW status
    PROVE  Policy!SelectFallback(status) = SelectFallback(status)
<1>1. {slot \in Policy!AppSlots : Policy!Acceptable(slot, status.minimum_version)}
          = {slot \in AppSlots : Acceptable(slot, status.minimum_version)}
    BY SameLoad, SameAcceptable
<1> QED BY <1>1 DEF Policy!SelectFallback, SelectFallback

LEMMA SameSelection ==
    /\ Policy!MaySelectUpdateSlot <=> MaySelectUpdateSlot
    /\ Policy!SelectedUpdateSlot = SelectedUpdateSlot
    /\ \A status : Policy!BootSelection(status) = BootSelection(status)
<1>1. Policy!SelectActiveSlot(Status) = SelectActiveSlot(Status)
    BY SameAcceptable, SameFallback DEF Policy!SelectActiveSlot, SelectActiveSlot
<1>2. \A status : Policy!BootSelection(status) = BootSelection(status)
    BY SameAcceptable, SameFallback DEF Policy!BootSelection, BootSelection
<1> QED
    BY <1>1, <1>2, SameLoad, SameAcceptable
    DEF Policy!MaySelectUpdateSlot, MaySelectUpdateSlot, Policy!SelectedUpdateSlot,
        SelectedUpdateSlot, Policy!OppositeSlot, OppositeSlot

LEMMA SameCommit ==
    ASSUME NEW name, NEW status
    PROVE  Policy!Commit(name, status) <=> Commit(name, status)
BY SameLoad
DEF Policy!Commit, Commit, Policy!Journal!CommitStatus, Journal!CommitStatus,
    Policy!Journal!CommitFrom, Journal!CommitFrom

LEMMA SameUpdateCalls ==
    ASSUME NEW slot
    PROVE  /\ Policy!BeginUpdate(slot) <=> BeginUpdate(slot)
           /\ Policy!MarkUpdateCommitting(slot) <=> MarkUpdateCommitting(slot)
           /\ Policy!AbortUpdate <=> AbortUpdate
           /\ Policy!RequestTrial(slot) <=> RequestTrial(slot)
           /\ Policy!ConfirmRunningImage(slot) <=> ConfirmRunningImage(slot)
BY SameLoad, SameAcceptable, SameCommit
DEF Policy!BeginUpdate, BeginUpdate, Policy!MarkUpdateCommitting, MarkUpdateCommitting,
    Policy!AbortUpdate, AbortUpdate, Policy!RequestTrial, RequestTrial,
    Policy!ConfirmRunningImage, ConfirmRunningImage, Policy!PutOnTrial, PutOnTrial,
    Policy!ClearUpdateMarker, ClearUpdateMarker, Policy!TrialBootLimit, TrialBootLimit

LEMMA SameRecovery == Policy!RecoverInterruptedUpdate <=> RecoverInterruptedUpdate
BY SameLoad, SameAcceptable, SameCommit
DEF Policy!RecoverInterruptedUpdate, RecoverInterruptedUpdate, Policy!PutOnTrial,
    PutOnTrial, Policy!ClearUpdateMarker, ClearUpdateMarker

LEMMA SameBootInto ==
    ASSUME NEW selected, NEW status, NEW generation, NEW source
    PROVE  Policy!BootInto(selected, status, generation, source)
               <=> BootInto(selected, status, generation, source)
BY SameLoad
DEF Policy!BootInto, BootInto, Policy!Journal!PowerLoss, Journal!PowerLoss,
    Policy!Journal!CommitFrom, Journal!CommitFrom

LEMMA SameBoot ==
    /\ Policy!BootCall <=> BootCall
    /\ Policy!ContinueBoot <=> ContinueBoot
<1>1. Policy!BootTrial <=> BootTrial
    BY SameLoad, SameAcceptable, SameCommit
    DEF Policy!BootTrial, BootTrial, Policy!TrialDue, TrialDue, Policy!TrialBootLimit,
        TrialBootLimit
<1>2. Policy!BootExpiredTrial <=> BootExpiredTrial
    BY SameLoad, SameAcceptable, SameCommit
    DEF Policy!BootExpiredTrial, BootExpiredTrial, Policy!TrialDue, TrialDue,
        Policy!TrialBootLimit, TrialBootLimit, Policy!ExpireTrial, ExpireTrial
<1>3. Policy!BootWithoutTrial <=> BootWithoutTrial
    BY SameLoad, SameSelection, SameBootInto DEF Policy!BootWithoutTrial, BootWithoutTrial
<1>4. Policy!ContinueBoot <=> ContinueBoot
    BY SameSelection, SameBootInto DEF Policy!ContinueBoot, ContinueBoot
<1> QED BY <1>1, <1>2, <1>3, <1>4 DEF Policy!BootCall, BootCall

LEMMA SameSteps ==
    /\ Policy!EraseStatusPage <=> EraseStatusPage
    /\ Policy!ProgramStatusPage <=> ProgramStatusPage
    /\ Policy!StatusWriteFails <=> StatusWriteFails
    /\ Policy!Return <=> Return
    /\ Policy!PowerLoss <=> PowerLoss
BY SameLoad
DEF Policy!EraseStatusPage, EraseStatusPage, Policy!ProgramStatusPage, ProgramStatusPage,
    Policy!StatusWriteFails, StatusWriteFails, Policy!Return, Return, Policy!PowerLoss,
    PowerLoss, Policy!Journal!EraseStatusPage, Journal!EraseStatusPage,
    Policy!Journal!ProgramStatusPage, Journal!ProgramStatusPage,
    Policy!Journal!StatusWriteFails, Journal!StatusWriteFails, Policy!Journal!Return,
    Journal!Return, Policy!Journal!PowerLoss, Journal!PowerLoss,
    Policy!Journal!CommitPage, Journal!CommitPage, Policy!Journal!Writing,
    Journal!Writing, Policy!UpdateCalls, UpdateCalls

LEMMA SameSlotSteps ==
    ASSUME NEW slot, NEW contents
    PROVE  /\ Policy!StartSlotErase(slot) <=> StartSlotErase(slot)
           /\ Policy!FinishSlotErase(slot) <=> FinishSlotErase(slot)
           /\ Policy!ProgramImage(slot, contents) <=> ProgramImage(slot, contents)
           /\ Policy!ProgramManifest(slot, contents) <=> ProgramManifest(slot, contents)
BY DEF Policy!StartSlotErase, StartSlotErase, Policy!FinishSlotErase, FinishSlotErase,
       Policy!ProgramImage, ProgramImage, Policy!ProgramManifest, ProgramManifest,
       Policy!WriteSlot, WriteSlot
-----------------------------------------------------------------------------
(* The inductive invariant. *)

(* Handlers run once recovery is over, and wait for the call they made. *)
CallOK ==
    /\ call = "none" => write.stage = "none"
    /\ phase # "ready" =>
           state = "WAIT_UPDATE" /\ handler = "none" /\ call \in {"none", "recover", "confirm"}
    /\ phase = "ready" /\ handler = "none" => call = "none"
    /\ handler \in {"chunk_erase", "chunk_write", "end_flush", "end_verify", "end_manifest",
                   "end_trial", "end_failed", "hung"} => call = "none"
    /\ handler = "chunk_begin" => call = "begin_update"
    /\ handler \in {"chunk_abort", "end_abort", "abort", "timeout"} => call = "abort_update"
    /\ handler = "end_committing" => call = "mark_committing"
    /\ handler = "end_requested" => call = "request_trial"

ChunkHandlers == {"chunk_begin", "chunk_erase", "chunk_abort", "chunk_write"}
EndHandlers == {"end_flush", "end_verify", "end_committing", "end_manifest", "end_trial",
                "end_requested", "end_failed"}

(* Where a handler is decides the state, but for an abort. *)
StateOK ==
    /\ handler \in ChunkHandlers => state = "RECEIVING"
    /\ handler \in EndHandlers => state = "VERIFYING"
    /\ handler = "end_abort" => state = "RECOVERY"
    /\ handler = "boot" => state = "BOOT_PENDING"
    /\ handler \in {"abort", "timeout"} => transfer = NoTransfer

(* An update has a target and an image; nothing is received before the      *)
(* target is erased; the chunk in hand fits.                                *)
TransferOK ==
    /\ Updating /\ handler \notin {"abort", "timeout"} =>
           transfer.target_slot \in AppSlots /\ transfer.image \in Images
    /\ transfer.received # 0 =>
           transfer.writer_slot # "NONE" /\ transfer.programmed \in Images \cup {Partial}
    /\ transfer.alignment # "even" => transfer.received # 0
    /\ handler \in ChunkHandlers \ {"chunk_write"} => transfer.writer_slot = "NONE"
    /\ handler = "chunk_write" => transfer.writer_slot # "NONE"
    /\ handler \in ChunkHandlers =>
           chunk \in Chunk /\ chunk.length # 0 /\ chunk.length <= ImageSize - transfer.received
    /\ handler \in EndHandlers => transfer.received = ImageSize

(* The marker is on record for the target slot. *)
Marker(status, update_state) ==
    status.update_state = update_state /\ status.update_slot = transfer.target_slot

(* The Flash writer is open. *)
WriterReady ==
    \/ state = "RECEIVING" /\ transfer.writer_slot # "NONE"
    \/ handler \in {"end_flush", "end_verify"}

(* No byte of an image or a manifest is written without its marker, and no  *)
(* byte of an image under an old manifest.                                  *)
MarkerOK ==
    /\ WriterReady =>
           /\ Marker(Status, "RECEIVING")
           /\ transfer.writer_slot = transfer.target_slot
           /\ slots[transfer.target_slot].manifest = Blank
    /\ handler = "chunk_erase" => Marker(Status, "RECEIVING")
    /\ handler \in {"end_manifest", "end_trial"} => Marker(Status, "COMMITTING")

(* What the two commits of a marker put on record. *)
JournalOK ==
    /\ call \in {"begin_update", "mark_committing"} =>
           WinsNextLoad /\ (write.stage = "done" => Status = write.contents)
    /\ handler = "chunk_begin" => Marker(write.contents, "RECEIVING")
    /\ handler = "end_committing" => Marker(write.contents, "COMMITTING")

Inv == TypeOK /\ CallOK /\ StateOK /\ TransferOK /\ MarkerOK /\ JournalOK
-----------------------------------------------------------------------------
(* Every step of the controller is a step of a client that keeps the        *)
(* contract, or none.                                                       *)

LEMMA GiveUpMaps ==
    ASSUME Inv, Idle, NEW next, NEW report, NEW command, GiveUp(next, report, command)
    PROVE  Policy!Next \/ UNCHANGED Policy!vars
<1> USE DEF Policy!vars, Policy!apiVars, apiVars, Updating, Idle
<1>1. transfer'.target_slot = "NONE"
    BY DEF GiveUp, NoTransfer
<1>2. CASE AbortUpdate
    <2>1. Policy!Abort
        BY <1>1, <1>2, SameUpdateCalls DEF GiveUp, Policy!Abort
    <2> QED BY <2>1 DEF Policy!Next
<1>3. CASE UNCHANGED <<pages, write, slots, phase, call>>
    <2>1. Policy!Release \/ UNCHANGED Policy!vars
        BY <1>1, <1>3 DEF Policy!Release
    <2> QED BY <2>1 DEF Policy!Next
<1> QED BY <1>2, <1>3 DEF GiveUp

(* What the packets that start a handler, or end at once, do. *)
LEMMA PacketMaps ==
    ASSUME Inv, Packet
    PROVE  Policy!Next \/ UNCHANGED Policy!vars
<1> USE DEF Policy!vars, Policy!apiVars, apiVars, Updating, Idle
<1>1. CASE \E image \in Images, signed \in BOOLEAN : OnUpdateBegin(image, signed)
    <2>1. PICK image \in Images, signed \in BOOLEAN : OnUpdateBegin(image, signed)
        BY <1>1
    <2>2. /\ transfer'.target_slot = SelectedUpdateSlot
          /\ state' = "RECEIVING" /\ state \in {"WAIT_UPDATE", "RECOVERY"}
          /\ phase = "ready" /\ call = "none" /\ MaySelectUpdateSlot
          /\ UNCHANGED <<pages, write, slots, phase, call>>
        BY <2>1 DEF OnUpdateBegin, NoTransfer
    <2>3. Policy!Select
        BY <2>2, SameSelection DEF Policy!Select
    <2> QED BY <2>3 DEF Policy!Next
<1>2. CASE \E received \in Chunk : OnMislinkedChunk(received) \/ OnNextChunk(received)
    BY <1>2 DEF OnMislinkedChunk, OnNextChunk
<1>3. CASE \E received \in Chunk : OnFirstChunk(received)
    <2>1. PICK received \in Chunk : OnFirstChunk(received)
        BY <1>3
    <2>2. CASE BeginUpdate(transfer.target_slot)
        <3>1. Policy!Begin
            BY <2>1, <2>2, SameUpdateCalls DEF OnFirstChunk, InSequence, Policy!Begin
        <3> QED BY <3>1 DEF Policy!Next
    <2>3. CASE UNCHANGED <<pages, write, slots, phase, call>>
        BY <2>1, <2>3 DEF OnFirstChunk
    <2> QED BY <2>1, <2>2, <2>3 DEF OnFirstChunk
<1>4. CASE OnUpdateEnd
    BY <1>4 DEF OnUpdateEnd, Continue
<1>5. CASE OnBootNow
    BY <1>5 DEF OnBootNow, ScheduleBoot
<1>6. CASE OnReset
    <2>1. Policy!Crash
        BY <1>6, SameSteps DEF OnReset, StartController, Policy!Crash
    <2> QED BY <2>1 DEF Policy!Next
<1>7. CASE \/ \E report \in {"STATUS", "SLOT_INFO"} : OnQuery(report)
           \/ \E command \in Commands \ NeverRefused : OnRefusedPacket(command)
    BY <1>7 DEF OnQuery, OnRefusedPacket
<1>8. CASE OnUpdateAbort
    BY <1>8, GiveUpMaps DEF OnUpdateAbort
<1> QED
    BY <1>1, <1>2, <1>3, <1>4, <1>5, <1>6, <1>7, <1>8 DEF Packet

LEMMA ChunkWorkMaps ==
    ASSUME Inv,
           \/ ChunkMarked \/ StartErase \/ FinishErase \/ ChunkAborted \/ WriteChunk
           \/ DeferByte \/ HardFault \/ EraseFails \/ WriteFails \/ DeferredByteLost
    PROVE  Policy!Next \/ UNCHANGED Policy!vars
<1> USE DEF Policy!vars, Policy!apiVars, apiVars, controllerVars, Updating, Continue, Finish,
            Inv, StateOK, ChunkHandlers
<1>1. CASE ChunkMarked \/ ChunkAborted
    <2>1. /\ Return /\ call # "request_trial"
          /\ state = "RECEIVING" /\ UNCHANGED <<state, transfer>>
        BY <1>1 DEF ChunkMarked, ChunkAborted, Succeeded, Failed, CallOK
    <2>2. Policy!EndCall
        BY <2>1, SameSteps DEF Policy!EndCall
    <2> QED BY <2>2 DEF Policy!Next
<1>2. CASE StartErase \/ FinishErase
    <2>1. /\ StartSlotErase(transfer.target_slot) \/ FinishSlotErase(transfer.target_slot)
          /\ state = "RECEIVING" /\ state' = state
          /\ transfer'.target_slot = transfer.target_slot
          /\ handler = "chunk_erase"
        BY <1>2 DEF StartErase, FinishErase, TypeOK, Transfer
    <2>2. transfer.target_slot \in AppSlots /\ Marker(Status, "RECEIVING")
        BY <2>1 DEF TransferOK, MarkerOK
    <2>3. Policy!EraseSlot
        BY <2>1, <2>2, SameLoad, SameSlotSteps DEF Policy!EraseSlot, Policy!Marked, Marker
    <2> QED BY <2>3 DEF Policy!Next
<1>3. CASE EraseFails
    <2>1. /\ AbortUpdate /\ phase = "ready" /\ state = "RECEIVING"
          /\ handler = "chunk_erase" /\ UNCHANGED <<state, transfer>>
        BY <1>3 DEF EraseFails, CallOK
    <2>2. Status.update_state = "RECEIVING"
        BY <2>1 DEF MarkerOK, Marker
    <2>3. Policy!Abort
        BY <2>1, <2>2, SameLoad, SameUpdateCalls DEF Policy!Abort
    <2> QED BY <2>3 DEF Policy!Next
<1>4. CASE WriteChunk \/ WriteFails \/ DeferredByteLost
    <2>1. /\ handler = "chunk_write" /\ state = "RECEIVING" /\ state' = state
          /\ transfer'.target_slot = transfer.target_slot
        BY <1>4 DEF WriteChunk, WriteFails, DeferredByteLost, TypeOK, Transfer
    <2>2. /\ transfer.target_slot \in AppSlots
          /\ WriterReady /\ chunk \in Chunk
        BY <2>1 DEF TransferOK, WriterReady
    <2>3. /\ Marker(Status, "RECEIVING")
          /\ transfer.writer_slot = transfer.target_slot
          /\ slots[transfer.target_slot].manifest = Blank
        BY <2>2 DEF MarkerOK
    <2>4. Extended(transfer.programmed, chunk.image) \in Images \cup {Partial}
        BY <2>2 DEF Extended, Chunk
    <2>5. \/ \E image \in Images \cup {Partial} : ProgramImage(transfer.target_slot, image)
          \/ UNCHANGED <<pages, write, slots, phase, call>>
        BY <1>4, <2>3, <2>4 DEF WriteChunk, WriteFails, DeferredByteLost
    <2>6. \/ \E image \in Images \cup {Partial} : Policy!WriteImage(image)
          \/ UNCHANGED Policy!vars
        BY <2>1, <2>2, <2>3, <2>5, SameLoad, SameSlotSteps
        DEF Policy!WriteImage, Policy!Marked, Marker
    <2> QED BY <2>6 DEF Policy!Next
<1>5. CASE DeferByte \/ HardFault
    BY <1>5 DEF DeferByte, HardFault, TypeOK, Transfer
<1> QED BY <1>1, <1>2, <1>3, <1>4, <1>5

LEMMA EndWorkMaps ==
    ASSUME Inv,
           \/ Flush \/ VerifyTransfer \/ UpdateCommitting \/ StartManifest \/ FinishManifest
           \/ PutTransferOnTrial \/ UpdateAccepted \/ TrialNotRecorded \/ UpdateFailed
           \/ UpdateFailureReported \/ FlushFails \/ ManifestFails
    PROVE  Policy!Next \/ UNCHANGED Policy!vars
<1> USE DEF Policy!vars, Policy!apiVars, apiVars, controllerVars, Updating, Continue, Finish,
            Inv, StateOK, EndHandlers
<1>0. handler \in EndHandlers => transfer.target_slot \in AppSlots /\ transfer.image \in Images
    BY DEF TransferOK
<1>1. CASE Flush
    <2>1. WriterReady /\ state = "VERIFYING" /\ UNCHANGED <<state, transfer>>
        BY <1>1 DEF Flush, WriterReady
    <2>2. /\ Marker(Status, "RECEIVING")
          /\ transfer.writer_slot = transfer.target_slot
          /\ slots[transfer.target_slot].manifest = Blank
        BY <2>1 DEF MarkerOK
    <2>3. transfer.programmed \in Images \cup {Partial}
        BY <1>1, ImageSizeAssumption DEF Flush, TransferOK, TypeOK, Transfer
    <2>4. CASE ProgramImage(transfer.writer_slot, transfer.programmed)
        <3>1. Policy!WriteImage(transfer.programmed)
            BY <1>0, <1>1, <2>1, <2>2, <2>4, SameLoad, SameSlotSteps
            DEF Flush, Policy!WriteImage, Policy!Marked, Marker
        <3> QED BY <2>3, <3>1 DEF Policy!Next
    <2> QED BY <1>1, <2>1, <2>4 DEF Flush
<1>2. CASE VerifyTransfer
    <2>1. CASE MarkUpdateCommitting(transfer.target_slot)
        <3>1. Policy!MarkCommitting
            BY <1>2, <2>1, SameUpdateCalls DEF VerifyTransfer, Policy!MarkCommitting
        <3> QED BY <3>1 DEF Policy!Next
    <2> QED BY <1>2, <2>1 DEF VerifyTransfer
<1>3. CASE UpdateCommitting \/ UpdateAccepted \/ TrialNotRecorded \/ UpdateFailureReported
    <2>1. /\ Return
          /\ IF call = "request_trial" /\ write.stage = "done"
             THEN ~Updating' ELSE UNCHANGED <<state, transfer>>
        BY <1>3 DEF UpdateCommitting, UpdateAccepted, TrialNotRecorded, UpdateFailureReported,
                    Succeeded, Failed, CallOK, ScheduleBoot
    <2>2. Policy!EndCall
        BY <2>1, SameSteps DEF Policy!EndCall
    <2> QED BY <2>2 DEF Policy!Next
<1>4. CASE StartManifest \/ FinishManifest
    <2>1. /\ handler = "end_manifest" /\ state = "VERIFYING" /\ UNCHANGED <<state, transfer>>
          /\ Marker(Status, "COMMITTING")
        BY <1>4 DEF StartManifest, FinishManifest, MarkerOK
    <2>2. \E manifest \in Images \cup {Partial} : ProgramManifest(transfer.target_slot, manifest)
        BY <1>0, <1>4, <2>1 DEF StartManifest, FinishManifest
    <2>3. \E manifest \in Images \cup {Partial} : Policy!WriteManifest(manifest)
        BY <1>0, <2>1, <2>2, SameLoad, SameSlotSteps
        DEF Policy!WriteManifest, Policy!Marked, Marker
    <2> QED BY <2>3 DEF Policy!Next
<1>5. CASE PutTransferOnTrial
    <2>1. Marker(Status, "COMMITTING") /\ state = "VERIFYING"
        BY <1>5 DEF PutTransferOnTrial, MarkerOK
    <2>2. CASE RequestTrial(transfer.target_slot)
        <3>1. Policy!Trial
            BY <1>5, <2>1, <2>2, SameLoad, SameUpdateCalls
            DEF PutTransferOnTrial, Policy!Trial, Marker
        <3> QED BY <3>1 DEF Policy!Next
    <2> QED BY <1>5, <2>2 DEF PutTransferOnTrial
<1>6. CASE UpdateFailed
    <2>1. handler = "end_failed" /\ state = "VERIFYING" /\ state' = "RECOVERY"
        BY <1>6 DEF UpdateFailed
    <2>2. CASE AbortUpdate
        <3>1. Policy!Abort
            BY <2>1, <2>2, SameUpdateCalls DEF CallOK, Policy!Abort
        <3> QED BY <3>1 DEF Policy!Next
    <2>3. CASE UNCHANGED apiVars
        <3>1. Policy!Release
            BY <1>0, <2>1, <2>3 DEF Policy!Release, AppSlots, CallOK
        <3> QED BY <3>1 DEF Policy!Next
    <2> QED BY <1>6, <2>2, <2>3 DEF UpdateFailed
<1>7. CASE FlushFails \/ ManifestFails
    BY <1>7 DEF FlushFails, ManifestFails
<1> QED BY <1>1, <1>2, <1>3, <1>4, <1>5, <1>6, <1>7

LEMMA OtherMaps ==
    ASSUME Inv,
           \/ GivenUp \/ BootContinues \/ BootFails \/ Recover \/ Recovered \/ CommitSteps
           \/ (\E tx_idle \in BOOLEAN : Poll(tx_idle)) \/ CommitFails \/ TimePasses
           \/ Confirm \/ Crash
    PROVE  Policy!Next \/ UNCHANGED Policy!vars
<1> USE DEF Policy!vars, Policy!apiVars, apiVars, controllerVars, Updating, Inv
<1>1. CASE GivenUp \/ BootFails
    <2>1. Return /\ (state' = "RECOVERY" /\ UNCHANGED transfer)
        BY <1>1 DEF GivenUp, BootFails, Failed
    <2>2. ~Updating \/ transfer.target_slot = "NONE"
        BY <1>1 DEF GivenUp, BootFails, StateOK, NoTransfer
    <2>3. Policy!EndCall
        BY <2>1, <2>2, SameSteps DEF Policy!EndCall
    <2> QED BY <2>3 DEF Policy!Next
<1>2. CASE BootContinues
    <2>1. /\ state = "BOOT_PENDING" /\ state' \in {"BOOT_PENDING", "WAIT_UPDATE"}
          /\ ContinueBoot
        BY <1>2 DEF BootContinues, StateOK, LeaveOrContinue, StartController
    <2>2. Policy!Continue
        BY <2>1, SameBoot DEF Policy!Continue
    <2> QED BY <2>2 DEF Policy!Next
<1>3. CASE \E tx_idle \in BOOLEAN : PollBoot(tx_idle)
    <2>1. /\ state = "BOOT_PENDING" /\ state' \in {"BOOT_PENDING", "WAIT_UPDATE"}
          /\ phase = "ready" /\ BootCall
        BY <1>3 DEF PollBoot, Idle, LeaveOrContinue, StartController
    <2>2. Policy!Boot
        BY <2>1, SameBoot DEF Policy!Boot
    <2> QED BY <2>2 DEF Policy!Next
<1>4. CASE PollUpdateTimeout
    BY <1>4, GiveUpMaps DEF PollUpdateTimeout
<1>5. CASE PollStartupTimeout \/ TimePasses
    BY <1>5 DEF PollStartupTimeout, TimePasses, ScheduleBoot
<1>6. CASE Recover
    <2>1. Policy!Recover
        BY <1>6, SameRecovery DEF Recover, Policy!Recover
    <2> QED BY <2>1 DEF Policy!Next
<1>7. CASE Recovered
    <2>1. Policy!EndCall
        BY <1>7, SameSteps DEF Recovered, Policy!EndCall
    <2> QED BY <2>1 DEF Policy!Next
<1>8. CASE CommitSteps
    <2>1. Policy!ErasePage \/ Policy!ProgramPage
        BY <1>8, SameSteps DEF CommitSteps, Policy!ErasePage, Policy!ProgramPage
    <2> QED BY <2>1 DEF Policy!Next
<1>9. CASE CommitFails
    <2>1. Policy!FailPage
        BY <1>9, SameSteps DEF CommitFails, Policy!FailPage
    <2> QED BY <2>1 DEF Policy!Next
<1>10. CASE Confirm
    <2>1. Policy!Confirm \/ Policy!EndCall
        BY <1>10, SameSteps, SameUpdateCalls DEF Confirm, Policy!Confirm, Policy!EndCall
    <2> QED BY <2>1 DEF Policy!Next
<1>11. CASE Crash
    <2>1. Policy!Crash
        BY <1>11, SameSteps DEF Crash, StartController, Policy!Crash
    <2> QED BY <2>1 DEF Policy!Next
<1> QED
    BY <1>1, <1>2, <1>3, <1>4, <1>5, <1>6, <1>7, <1>8, <1>9, <1>10, <1>11 DEF Poll

LEMMA StepMaps == Inv /\ [Next]_vars => [Policy!Next]_(Policy!vars)
<1> SUFFICES ASSUME Inv, [Next]_vars
             PROVE  Policy!Next \/ UNCHANGED Policy!vars
    OBVIOUS
<1>1. CASE UNCHANGED vars
    BY <1>1 DEF vars, controllerVars, apiVars, Policy!vars, Updating
<1>2. CASE Next
    BY <1>2, PacketMaps, ChunkWorkMaps, EndWorkMaps, OtherMaps DEF Next, Work, FlashError
<1> QED BY <1>1, <1>2

LEMMA InitMaps == Init => Policy!Init
BY SameLoad DEF Init, ApiInit, Policy!Init, Policy!ApiInit, Journal!Init, Policy!Journal!Init,
                Updating
-----------------------------------------------------------------------------
(* Every step preserves the invariant. *)

LEMMA InitInv == Init => Inv
<1> SUFFICES ASSUME Init PROVE Inv
    OBVIOUS
<1>1. ApiTypeOK
    BY InitialType DEF Init
<1>2. TypeOK
    BY <1>1, ImageSizeAssumption
    DEF Init, TypeOK, NoTransfer, Transfer, Slots, Reply, Commands, ControllerStates, Handlers
<1>3. CallOK /\ StateOK /\ TransferOK /\ MarkerOK /\ JournalOK
    BY DEF Init, ApiInit, Journal!Init, Journal!NoWrite, CallOK, StateOK, TransferOK, MarkerOK,
           JournalOK, NoTransfer, Updating, ChunkHandlers, EndHandlers, WriterReady
<1> QED BY <1>2, <1>3 DEF Inv

LEMMA ResetInv == Inv /\ Crash => Inv'
<1> SUFFICES ASSUME Inv, Crash PROVE Inv'
    OBVIOUS
<1>1. ApiTypeOK'
    BY CommitStepType DEF Crash, Inv, TypeOK
<1>2. TypeOK'
    BY <1>1, ImageSizeAssumption
    DEF Crash, StartController, TypeOK, NoTransfer, Transfer, Slots, Reply, Commands,
        ControllerStates, Handlers
<1>3. call' = "none" /\ write'.stage = "none" /\ phase' = "recover"
    BY DEF Crash, PowerLoss, Journal!PowerLoss, Journal!NoWrite
<1>4. CallOK' /\ StateOK' /\ TransferOK' /\ MarkerOK' /\ JournalOK'
    BY <1>3 DEF Crash, StartController, CallOK, StateOK, TransferOK, MarkerOK,
           JournalOK, NoTransfer, Updating, ChunkHandlers, EndHandlers, WriterReady
<1> QED BY <1>2, <1>4 DEF Inv

LEMMA GiveUpInv ==
    ASSUME Inv, Idle, NEW next \in {"abort", "timeout"}, NEW report \in {"ACK", "NACK"},
           NEW command \in Commands, GiveUp(next, report, command)
    PROVE  Inv'
<1> USE DEF Inv
<1>1. CASE AbortUpdate
    <2>1. /\ call' = "abort_update" /\ phase' = phase
          /\ handler' = next /\ transfer' = NoTransfer
          /\ UNCHANGED <<state, timer, chunk, reply>>
        BY <1>1 DEF GiveUp, AbortUpdate, Commit, Continue, Idle
    <2>2. ApiTypeOK'
        BY <1>1, CallType DEF TypeOK, Slots
    <2>3. NoTransfer \in Transfer
        BY ImageSizeAssumption DEF NoTransfer, Transfer, Slots
    <2>4. TypeOK'
        BY <2>1, <2>2, <2>3 DEF TypeOK, Handlers
    <2> QED
        BY <2>1, <2>4
        DEF Idle, CallOK, StateOK, TransferOK, MarkerOK, JournalOK, ChunkHandlers, EndHandlers,
            WriterReady, NoTransfer, Updating
<1>2. CASE UNCHANGED apiVars
    <2>1. /\ state' = "RECOVERY" /\ handler' = "none" /\ transfer' = NoTransfer
          /\ chunk' = NoChunk /\ reply' \in Reply /\ UNCHANGED timer
          /\ UNCHANGED <<pages, write, slots, phase, call>>
        BY <1>2 DEF GiveUp, Finish, Answer, Reply, Continue, AbortUpdate, Commit, apiVars, Idle
    <2>2. NoTransfer \in Transfer
        BY ImageSizeAssumption DEF NoTransfer, Transfer, Slots
    <2>3. TypeOK'
        BY <2>1, <2>2
        DEF TypeOK, ApiTypeOK, Journal!TypeOK, Handlers, ControllerStates
    <2> QED
        BY <2>1, <2>3
        DEF Idle, CallOK, StateOK, TransferOK, MarkerOK, JournalOK, ChunkHandlers, EndHandlers,
            WriterReady, NoTransfer, Updating
<1> QED BY <1>1, <1>2 DEF GiveUp

(* Steps that leave Flash and the transfer alone. *)
LEMMA QuietInv ==
    ASSUME Inv, UNCHANGED <<apiVars, transfer, handler>>, handler = "none",
           UNCHANGED state \/ (state' = "BOOT_PENDING" /\ phase = "ready"),
           chunk' \in Chunk \cup {NoChunk},
           timer' \in {"running", "expired", "overdue"}, reply' \in Reply
    PROVE  Inv'
<1>1. UNCHANGED <<pages, write, slots, phase, call>> /\ Status' = Status
    BY SamePages DEF apiVars
<1>2. TypeOK'
    BY <1>1 DEF Inv, TypeOK, ApiTypeOK, Journal!TypeOK, ControllerStates
<1> QED
    BY <1>1, <1>2
    DEF Inv, CallOK, StateOK, TransferOK, MarkerOK, Marker, JournalOK, WinsNextLoad,
        ChunkHandlers, EndHandlers, WriterReady, Updating

LEMMA UpdateBeginInv ==
    ASSUME Inv, NEW image \in Images, NEW signed \in BOOLEAN, OnUpdateBegin(image, signed)
    PROVE  Inv'
<1>1. /\ transfer' = [NoTransfer EXCEPT !.image = image, !.signed = signed,
                                        !.target_slot = SelectedUpdateSlot]
      /\ handler = "none" /\ phase = "ready" /\ call = "none"
      /\ state' = "RECEIVING" /\ timer' = "running" /\ reply' \in Reply
      /\ UNCHANGED <<pages, write, slots, phase, call, handler, chunk>>
    BY DEF OnUpdateBegin, Idle, apiVars, Answer, Reply, Commands
<1>2. SelectedUpdateSlot \in AppSlots
    BY DEF SelectedUpdateSlot, OppositeSlot, AppSlots
<1>3. /\ transfer' \in Transfer
      /\ transfer'.target_slot \in AppSlots /\ transfer'.image \in Images
      /\ transfer'.received = 0 /\ transfer'.writer_slot = "NONE"
      /\ transfer'.alignment = "even"
    <2>1. transfer' = [image |-> image, signed |-> signed,
                       target_slot |-> SelectedUpdateSlot, writer_slot |-> "NONE",
                       received |-> 0, streamed |-> Blank, programmed |-> Blank,
                       alignment |-> "even"]
        BY <1>1 DEF NoTransfer
    <2>2. 0 \in 0 .. ImageSize /\ SelectedUpdateSlot \in Slots /\ "NONE" \in Slots
        BY <1>2, ImageSizeAssumption DEF Slots
    <2> QED BY <1>2, <2>1, <2>2 DEF Transfer
<1>4. TypeOK'
    BY <1>1, <1>3 DEF Inv, TypeOK, ApiTypeOK, Journal!TypeOK, ControllerStates
<1> QED
    BY <1>1, <1>3, <1>4
    DEF Inv, CallOK, StateOK, TransferOK, MarkerOK, JournalOK, ChunkHandlers, EndHandlers,
        WriterReady, Updating

LEMMA FirstChunkInv ==
    ASSUME Inv, NEW received \in Chunk, OnFirstChunk(received)
    PROVE  Inv'
<1> USE DEF Inv
<1>1. /\ handler = "none" /\ phase = "ready" /\ call = "none"
      /\ state = "RECEIVING" /\ transfer.writer_slot = "NONE"
      /\ received.length # 0 /\ received.length <= ImageSize - transfer.received
      /\ UNCHANGED <<state, transfer, timer>>
    BY DEF OnFirstChunk, Idle, InSequence
<1>2. CASE BeginUpdate(transfer.target_slot)
    <2> DEFINE status == [Status EXCEPT !.update_slot = transfer.target_slot,
                                        !.update_state = "RECEIVING"]
    <2>1. /\ handler' = "chunk_begin" /\ chunk' = received /\ UNCHANGED reply
          /\ Commit("begin_update", status)
        BY <1>1, <1>2 DEF OnFirstChunk, BeginUpdate, Commit
    <2>2. Status \in BootStatus /\ transfer.target_slot \in Slots
        BY StatusType DEF TypeOK, Transfer
    <2>3. /\ status \in BootStatus
          /\ status.update_slot = transfer.target_slot /\ status.update_state = "RECEIVING"
        BY <2>2, UpdateType DEF BootStatus
    <2> HIDE DEF status
    <2>4. /\ call' = "begin_update" /\ write'.stage = "erase" /\ write'.contents = status
          /\ UNCHANGED <<slots, phase>> /\ WinsNextLoad'
        BY <2>1, <2>3, CommitEffect DEF TypeOK
    <2>5. TypeOK'
        BY <1>1, <1>2, <2>1, <2>2, CallType DEF TypeOK, Handlers
    <2> QED
        BY <1>1, <2>1, <2>3, <2>4, <2>5
        DEF CallOK, StateOK, TransferOK, MarkerOK, Marker, JournalOK, ChunkHandlers,
            EndHandlers, WriterReady, Updating
<1>3. CASE UNCHANGED apiVars
    <2>1. /\ UNCHANGED <<handler, chunk>> /\ reply' \in Reply
        BY <1>1, <1>3 DEF OnFirstChunk, BeginUpdate, Commit, Answer, Reply, Commands, apiVars
    <2> QED BY <1>1, <1>3, <2>1, QuietInv DEF TypeOK
<1> QED BY <1>2, <1>3 DEF OnFirstChunk

LEMMA PacketInv == Inv /\ Packet => Inv'
<1> SUFFICES ASSUME Inv, Packet PROVE Inv'
    OBVIOUS
<1>1. CASE \E image \in Images, signed \in BOOLEAN : OnUpdateBegin(image, signed)
    BY <1>1, UpdateBeginInv
<1>2. CASE \E received \in Chunk : OnFirstChunk(received)
    BY <1>2, FirstChunkInv
<1>3. CASE \E received \in Chunk : OnNextChunk(received)
    <2>1. PICK received \in Chunk : OnNextChunk(received)
        BY <1>3
    <2>2. /\ handler = "none" /\ call = "none" /\ phase = "ready" /\ state = "RECEIVING"
          /\ handler' = "chunk_write" /\ chunk' = received
          /\ received.length # 0 /\ received.length <= ImageSize - transfer.received
          /\ transfer.writer_slot # "NONE"
          /\ UNCHANGED <<pages, write, slots, phase, call, state, transfer, timer, reply>>
          /\ Status' = Status
        BY <2>1, SamePages DEF OnNextChunk, Idle, InSequence, apiVars
    <2>3. TypeOK'
        BY <2>2 DEF Inv, TypeOK, ApiTypeOK, Journal!TypeOK, Handlers
    <2> QED
        BY <2>2, <2>3
        DEF Inv, CallOK, StateOK, TransferOK, MarkerOK, Marker, JournalOK, ChunkHandlers,
            EndHandlers, WriterReady, Updating
<1>4. CASE OnUpdateEnd
    <2>1. /\ handler = "none" /\ call = "none" /\ phase = "ready" /\ state = "RECEIVING"
          /\ handler' = "end_flush" /\ state' = "VERIFYING"
          /\ transfer.received = ImageSize /\ transfer.received # 0
          /\ UNCHANGED <<pages, write, slots, phase, call, transfer, chunk, timer, reply>>
          /\ Status' = Status
        BY <1>4, SamePages, ImageSizeAssumption DEF OnUpdateEnd, Idle, Continue, apiVars
    <2>2. TypeOK'
        BY <2>1 DEF Inv, TypeOK, ApiTypeOK, Journal!TypeOK, Handlers, ControllerStates
    <2> QED
        BY <2>1, <2>2
        DEF Inv, CallOK, StateOK, TransferOK, MarkerOK, Marker, JournalOK, ChunkHandlers,
            EndHandlers, WriterReady, Updating
<1>5. CASE OnUpdateAbort
    BY <1>5, GiveUpInv DEF OnUpdateAbort, Commands
<1>6. CASE OnReset
    BY <1>6, ResetInv DEF OnReset, Crash
<1>7. CASE \/ \E received \in Chunk : OnMislinkedChunk(received)
           \/ OnBootNow
           \/ \E report \in {"STATUS", "SLOT_INFO"} : OnQuery(report)
           \/ \E command \in Commands \ NeverRefused : OnRefusedPacket(command)
    <2>1. /\ handler = "none" /\ phase = "ready" /\ reply' \in Reply
          /\ UNCHANGED <<apiVars, transfer, handler, chunk>>
          /\ UNCHANGED <<state, timer>> \/ (state' = "BOOT_PENDING" /\ timer' = "running")
        BY <1>7
        DEF OnMislinkedChunk, OnBootNow, OnQuery, OnRefusedPacket, Idle, ScheduleBoot, Answer,
            Reply, Commands, NeverRefused
    <2> QED BY <2>1, QuietInv DEF Inv, TypeOK
<1> QED BY <1>1, <1>2, <1>3, <1>4, <1>5, <1>6, <1>7 DEF Packet

(* A commit that reports success is the record the next load returns. *)
LEMMA CommitOutcome ==
    ASSUME ApiTypeOK, WinsNextLoad, CommitSteps \/ CommitFails
    PROVE  WinsNextLoad' /\ (write'.stage = "done" => Status' = write'.contents)
<1>1. CASE EraseStatusPage
    BY <1>1, EraseWins
    DEF EraseStatusPage, Journal!EraseStatusPage, ApiTypeOK, Journal!TypeOK,
        Journal!WriteRecord
<1>2. CASE ProgramStatusPage
    <2>1. write'.contents = write.contents
        BY <1>2
        DEF ProgramStatusPage, Journal!ProgramStatusPage, ApiTypeOK, Journal!TypeOK,
            Journal!WriteRecord
    <2> QED BY <1>2, <2>1, ProgramWins, ProgramStep DEF ProgramStatusPage
<1>3. CASE StatusWriteFails
    BY <1>3
    DEF StatusWriteFails, Journal!StatusWriteFails, WinsNextLoad, ApiTypeOK,
        Journal!TypeOK, Journal!WriteRecord
<1> QED BY <1>1, <1>2, <1>3 DEF CommitSteps, CommitFails

(* The Flash steps of a commit: nobody but the call that waits looks.       *)
LEMMA CommitStepsInv == Inv /\ (CommitSteps \/ CommitFails) => Inv'
<1> SUFFICES ASSUME Inv, CommitSteps \/ CommitFails PROVE Inv'
    OBVIOUS
<1> USE DEF Inv
<1>1. /\ EraseStatusPage \/ ProgramStatusPage \/ StatusWriteFails
      /\ UNCHANGED <<slots, phase, call, controllerVars>>
    BY DEF CommitSteps, CommitFails, EraseStatusPage, ProgramStatusPage, StatusWriteFails
<1>2. ApiTypeOK'
    BY <1>1, CommitStepType DEF TypeOK
<1>3. TypeOK'
    BY <1>1, <1>2 DEF TypeOK, controllerVars
<1>4. /\ write.stage # "none" /\ write'.stage # "none"
      /\ write'.contents = write.contents
    BY <1>1
    DEF EraseStatusPage, ProgramStatusPage, StatusWriteFails, Journal!EraseStatusPage,
        Journal!ProgramStatusPage, Journal!StatusWriteFails, Journal!Writing,
        TypeOK, ApiTypeOK, Journal!TypeOK, Journal!WriteRecord
<1>5. ~WriterReady /\ handler \notin {"chunk_erase", "end_manifest", "end_trial"}
    <2>1. call # "none"
        BY <1>4 DEF CallOK
    <2> QED
        BY <2>1
        DEF CallOK, StateOK, TransferOK, WriterReady, ChunkHandlers, EndHandlers, NoTransfer,
            TypeOK, Handlers
<1>6. CallOK' /\ StateOK' /\ TransferOK' /\ MarkerOK'
    BY <1>1, <1>4, <1>5
    DEF controllerVars, CallOK, StateOK, TransferOK, MarkerOK, WriterReady, Updating
<1>7. JournalOK'
    BY <1>1, <1>4, CommitOutcome DEF JournalOK, Marker, controllerVars, TypeOK
<1> QED BY <1>3, <1>6, <1>7

(* The steps of a handler, of the recovery or of the application that       *)
(* consume the result of a call.                                            *)
LEMMA ReturnInv ==
    ASSUME Inv,
           \/ ChunkMarked \/ ChunkAborted \/ UpdateCommitting \/ UpdateAccepted
           \/ TrialNotRecorded \/ UpdateFailureReported \/ GivenUp \/ BootFails
           \/ Recovered \/ (call = "confirm" /\ Return /\ UNCHANGED controllerVars)
    PROVE  Inv'
<1> USE DEF Inv
<1>1. /\ Return /\ UNCHANGED transfer
      /\ timer' \in {timer, "running"} /\ chunk' \in {chunk, NoChunk} /\ reply' \in Reply
    BY DEF ChunkMarked, ChunkAborted, UpdateCommitting, UpdateAccepted, TrialNotRecorded,
           UpdateFailureReported, GivenUp, BootFails, Recovered, controllerVars, Succeeded,
           Failed, Continue, Finish, Answer, Reply, Commands, TypeOK, ScheduleBoot
<1>2. /\ write'.stage = "none" /\ call' = "none" /\ Status' = Status
      /\ phase' = IF call = "recover" THEN "ready" ELSE phase
      /\ UNCHANGED slots /\ call # "none"
    BY <1>1, ReturnEffect DEF TypeOK, CallOK
<1>3. ApiTypeOK'
    BY <1>1, CommitStepType DEF TypeOK
<1>4. CASE ChunkMarked \/ ChunkAborted
    <2>1. /\ handler \in {"chunk_begin", "chunk_abort"} /\ UNCHANGED state
          /\ \/ handler' = "none"
             \/ /\ handler = "chunk_begin" /\ write.stage = "done"
                /\ handler' = "chunk_erase" /\ UNCHANGED chunk
        BY <1>4 DEF ChunkMarked, ChunkAborted, Succeeded, Continue, Finish
    <2>2. handler' = "chunk_erase" => Marker(Status, "RECEIVING")
        BY <2>1 DEF JournalOK, CallOK, Marker
    <2>3. TypeOK'
        BY <1>1, <1>3, <2>1 DEF TypeOK, Handlers
    <2> QED
        BY <1>1, <1>2, <2>1, <2>2, <2>3
        DEF CallOK, StateOK, TransferOK, MarkerOK, Marker, JournalOK, WriterReady, Updating,
            ChunkHandlers, EndHandlers
<1>5. CASE UpdateCommitting \/ UpdateAccepted \/ TrialNotRecorded
    <2>1. /\ handler \in {"end_committing", "end_requested"}
          /\ \/ state' = "BOOT_PENDING" /\ handler' = "none"
             \/ UNCHANGED state /\ handler' = "end_failed"
             \/ /\ handler = "end_committing" /\ write.stage = "done"
                /\ handler' = "end_manifest" /\ UNCHANGED state
        BY <1>5
        DEF UpdateCommitting, UpdateAccepted, TrialNotRecorded, Succeeded, Continue, Finish,
            ScheduleBoot
    <2>2. handler' = "end_manifest" => Marker(Status, "COMMITTING")
        BY <2>1 DEF JournalOK, CallOK, Marker
    <2>3. TypeOK'
        BY <1>1, <1>3, <2>1 DEF TypeOK, Handlers, ControllerStates
    <2>4. phase = "ready" /\ state = "VERIFYING"
        BY <2>1 DEF CallOK, StateOK, EndHandlers
    <2> QED
        BY <1>1, <1>2, <2>1, <2>2, <2>3, <2>4
        DEF CallOK, StateOK, TransferOK, MarkerOK, Marker, JournalOK, WriterReady, Updating,
            ChunkHandlers, EndHandlers
<1>6. CASE UpdateFailureReported \/ GivenUp \/ BootFails
    <2>1. /\ handler \in {"end_abort", "abort", "timeout", "boot"}
          /\ state' = "RECOVERY" /\ handler' = "none"
        BY <1>6
        DEF UpdateFailureReported, GivenUp, BootFails, Finish, StateOK
    <2>2. TypeOK'
        BY <1>1, <1>3, <2>1 DEF TypeOK, Handlers, ControllerStates
    <2>3. phase = "ready"
        BY <2>1 DEF CallOK
    <2> QED
        BY <1>1, <1>2, <2>1, <2>2, <2>3
        DEF CallOK, StateOK, TransferOK, MarkerOK, JournalOK, WriterReady, Updating,
            ChunkHandlers, EndHandlers
<1>7. CASE Recovered \/ (call = "confirm" /\ Return /\ UNCHANGED controllerVars)
    <2>1. /\ call \in {"recover", "confirm"} /\ UNCHANGED controllerVars
        BY <1>7 DEF Recovered
    <2>2. ~WriterReady /\ handler \in {"none", "boot"}
        BY <1>2, <2>1 DEF CallOK, StateOK, TransferOK, WriterReady, Handlers, TypeOK, NoTransfer
    <2>3. TypeOK'
        BY <1>3, <2>1 DEF TypeOK, controllerVars
    <2> QED
        BY <1>2, <2>1, <2>2, <2>3
        DEF controllerVars, CallOK, StateOK, TransferOK, MarkerOK, JournalOK, WriterReady,
            Updating, ChunkHandlers, EndHandlers
<1> QED BY <1>4, <1>5, <1>6, <1>7

(* What erasing or programming a slot leaves alone.                         *)
LEMMA SlotStepFacts ==
    ASSUME ApiTypeOK, NEW slot \in AppSlots, NEW contents \in Images \cup {Partial},
           \/ StartSlotErase(slot) \/ FinishSlotErase(slot)
           \/ ProgramImage(slot, contents) \/ ProgramManifest(slot, contents)
    PROVE  /\ ApiTypeOK' /\ call = "none" /\ UNCHANGED <<pages, write, phase, call>>
           /\ Status' = Status
           /\ FinishSlotErase(slot) => slots'[slot].manifest = Blank
           /\ ProgramImage(slot, contents) => slots'[slot].manifest = slots[slot].manifest
<1>1. ApiTypeOK'
    BY SlotStepType
<1>2. call = "none" /\ UNCHANGED <<pages, write, phase, call>>
    BY DEF StartSlotErase, FinishSlotErase, ProgramImage, ProgramManifest, WriteSlot
<1>3. slots \in [AppSlots -> SlotContents]
    BY DEF ApiTypeOK
<1> QED
    BY <1>1, <1>2, <1>3, SamePages
    DEF FinishSlotErase, ProgramImage, WriteSlot, SlotContents

(* The first chunk erases the slot. *)
LEMMA EraseInv == Inv /\ (StartErase \/ FinishErase \/ EraseFails) => Inv'
<1> SUFFICES ASSUME Inv, StartErase \/ FinishErase \/ EraseFails PROVE Inv'
    OBVIOUS
<1> USE DEF Inv
<1>1. /\ handler = "chunk_erase" /\ state = "RECEIVING" /\ phase = "ready" /\ call = "none"
      /\ write.stage = "none" /\ transfer.target_slot \in AppSlots
      /\ transfer.received = 0 /\ transfer.writer_slot = "NONE"
      /\ chunk \in Chunk /\ chunk.length # 0 /\ chunk.length <= ImageSize - transfer.received
      /\ Marker(Status, "RECEIVING")
    BY DEF StartErase, FinishErase, EraseFails, CallOK, StateOK, TransferOK, MarkerOK,
           ChunkHandlers, Updating
<1>2. Partial \in Images \cup {Partial}
    OBVIOUS
<1>3. CASE StartErase
    <2>1. /\ ApiTypeOK' /\ UNCHANGED <<pages, write, phase, call, controllerVars>>
          /\ Status' = Status
        BY <1>1, <1>2, <1>3, SlotStepFacts DEF StartErase, TypeOK
    <2> QED
        BY <1>1, <2>1
        DEF controllerVars, TypeOK, CallOK, StateOK, TransferOK, MarkerOK, Marker, JournalOK,
            WriterReady, Updating
<1>4. CASE FinishErase
    <2>1. /\ ApiTypeOK' /\ UNCHANGED <<pages, write, phase, call>> /\ Status' = Status
          /\ slots'[transfer.target_slot].manifest = Blank
        BY <1>1, <1>2, <1>4, SlotStepFacts DEF FinishErase, TypeOK
    <2>2. /\ handler' = "chunk_write" /\ UNCHANGED <<state, chunk, timer, reply>>
          /\ transfer' = [transfer EXCEPT !.writer_slot = transfer.target_slot]
        BY <1>4 DEF FinishErase, Continue
    <2>3. transfer' \in Transfer
        BY <1>1, <2>2 DEF TypeOK, Transfer, Slots
    <2>4. /\ transfer'.writer_slot = transfer.target_slot
          /\ transfer'.target_slot = transfer.target_slot
          /\ transfer'.image = transfer.image /\ transfer'.received = 0
          /\ transfer'.alignment = transfer.alignment
        BY <1>1, <2>2 DEF TypeOK, Transfer
    <2>5. TypeOK'
        BY <2>1, <2>2, <2>3 DEF TypeOK, Handlers
    <2> QED
        BY <1>1, <2>1, <2>2, <2>4, <2>5
        DEF CallOK, StateOK, TransferOK, MarkerOK, Marker, JournalOK, WriterReady, Updating,
            ChunkHandlers, EndHandlers, AppSlots
<1>5. CASE EraseFails
    <2>1. /\ AbortUpdate /\ handler' = "chunk_abort"
          /\ UNCHANGED <<state, transfer, chunk, timer, reply>>
        BY <1>5 DEF EraseFails, Continue
    <2>2. call' = "abort_update" /\ UNCHANGED phase
        BY <2>1 DEF AbortUpdate, Commit
    <2>3. ApiTypeOK'
        BY <2>1, CallType DEF TypeOK, Slots
    <2>4. TypeOK'
        BY <2>1, <2>3 DEF TypeOK, Handlers
    <2> QED
        BY <1>1, <2>1, <2>2, <2>4
        DEF CallOK, StateOK, TransferOK, MarkerOK, JournalOK, WriterReady, Updating,
            ChunkHandlers, EndHandlers
<1> QED BY <1>3, <1>4, <1>5

(* A chunk, taken, deferred or refused by the Flash. *)
LEMMA WriteInv == Inv /\ (WriteChunk \/ WriteFails \/ DeferredByteLost \/ DeferByte) => Inv'
<1> SUFFICES ASSUME Inv, WriteChunk \/ WriteFails \/ DeferredByteLost \/ DeferByte
             PROVE  Inv'
    OBVIOUS
<1> USE DEF Inv
<1> DEFINE received == transfer.received + chunk.length
           programmed == Extended(transfer.programmed, chunk.image)
<1>1. /\ handler = "chunk_write" /\ state = "RECEIVING" /\ phase = "ready" /\ call = "none"
      /\ write.stage = "none" /\ transfer.target_slot \in AppSlots /\ transfer.image \in Images
      /\ transfer.writer_slot = transfer.target_slot
      /\ chunk \in Chunk /\ chunk.length # 0 /\ chunk.length <= ImageSize - transfer.received
      /\ Marker(Status, "RECEIVING") /\ slots[transfer.target_slot].manifest = Blank
    BY DEF WriteChunk, WriteFails, DeferredByteLost, DeferByte, CallOK, StateOK, TransferOK,
           MarkerOK, WriterReady, ChunkHandlers, Updating
<1>2. /\ received \in 0 .. ImageSize /\ received # 0
      /\ programmed \in Images \cup {Partial}
      /\ Extended(transfer.streamed, chunk.image) \in Images \cup {Partial}
    BY <1>1, ImageSizeAssumption DEF Chunk, TypeOK, Transfer, Extended
<1>3. /\ handler' = "none" /\ chunk' = NoChunk /\ UNCHANGED state
      /\ timer' \in {timer, "running"} /\ reply' \in Reply
    BY DEF WriteChunk, WriteFails, DeferredByteLost, DeferByte, Finish, Answer, Reply, Commands
<1>4. /\ ApiTypeOK' /\ UNCHANGED <<pages, write, phase, call>> /\ Status' = Status
      /\ slots'[transfer.target_slot].manifest = Blank
    <2>1. CASE \E image \in Images \cup {Partial} : ProgramImage(transfer.target_slot, image)
        BY <1>1, <2>1, SlotStepFacts DEF TypeOK
    <2>2. CASE UNCHANGED apiVars
        BY <1>1, <2>2, SamePages DEF apiVars, TypeOK, ApiTypeOK, Journal!TypeOK
    <2> QED BY <1>1, <1>2, <2>1, <2>2 DEF WriteChunk, WriteFails, DeferredByteLost, DeferByte
<1>5. /\ transfer' \in Transfer
      /\ transfer'.target_slot = transfer.target_slot /\ transfer'.image = transfer.image
      /\ transfer'.writer_slot = transfer.writer_slot
      /\ transfer'.received # 0 => transfer'.programmed \in Images \cup {Partial}
      /\ transfer'.alignment # "even" => transfer'.received # 0
    <2>1. CASE WriteChunk
        BY <1>2, <2>1 DEF WriteChunk, TypeOK, Transfer
    <2>2. CASE WriteFails
        BY <2>2 DEF WriteFails, TypeOK, Transfer, TransferOK
    <2>3. CASE DeferByte
        <3>1. /\ received = transfer.received + 1
              /\ transfer.programmed \in Images \cup {Partial}
            BY <2>3 DEF DeferByte, TransferOK
        <3> QED BY <1>2, <2>3, <3>1 DEF DeferByte, TypeOK, Transfer
    <2>4. CASE DeferredByteLost
        <3>1. /\ transfer' = [transfer EXCEPT !.programmed = Partial, !.alignment = "odd"]
              /\ transfer \in Transfer /\ transfer.received # 0
            BY <2>4 DEF DeferredByteLost, TypeOK, Transfer
        <3> QED BY <3>1 DEF Transfer
    <2> QED BY <2>1, <2>2, <2>3, <2>4
<1>6. TypeOK'
    BY <1>3, <1>4, <1>5 DEF TypeOK, Handlers
<1> QED
    BY <1>1, <1>3, <1>4, <1>5, <1>6
    DEF CallOK, StateOK, TransferOK, MarkerOK, Marker, JournalOK, WriterReady, Updating,
        ChunkHandlers, EndHandlers, AppSlots

(* The hard fault changes nothing: the update stays where it was. *)
LEMMA HardFaultInv == Inv /\ HardFault => Inv'
<1> SUFFICES ASSUME Inv, HardFault PROVE Inv'
    OBVIOUS
<1> USE DEF Inv
<1>1. /\ handler \in {"chunk_write", "end_flush"} /\ handler' = "hung"
      /\ UNCHANGED <<pages, write, slots, phase, call, state, transfer, chunk, timer, reply>>
      /\ Status' = Status
    BY SamePages DEF HardFault, Continue, apiVars
<1>2. TypeOK'
    BY <1>1 DEF TypeOK, ApiTypeOK, Journal!TypeOK, Handlers
<1> QED
    BY <1>1, <1>2
    DEF CallOK, StateOK, TransferOK, MarkerOK, Marker, JournalOK, WriterReady, Updating,
        ChunkHandlers, EndHandlers

(* UPDATE_END, from one point of the handler to the next. *)
LEMMA EndInv ==
    ASSUME Inv,
           \/ Flush \/ FlushFails \/ VerifyTransfer \/ StartManifest \/ FinishManifest
           \/ ManifestFails \/ PutTransferOnTrial \/ UpdateFailed
    PROVE  Inv'
<1> USE DEF Inv
<1>1. /\ handler \in {"end_flush", "end_verify", "end_manifest", "end_trial", "end_failed"}
      /\ state = "VERIFYING" /\ phase = "ready" /\ call = "none" /\ write.stage = "none"
      /\ transfer.target_slot \in AppSlots /\ transfer.image \in Images
      /\ transfer.received = ImageSize
      /\ transfer.programmed \in Images \cup {Partial}
      /\ UNCHANGED <<transfer, timer>>
    BY ImageSizeAssumption
    DEF Flush, FlushFails, VerifyTransfer, StartManifest, FinishManifest, ManifestFails,
        PutTransferOnTrial, UpdateFailed, CallOK, StateOK, TransferOK, EndHandlers, Updating,
        controllerVars
<1>2. CASE Flush \/ FlushFails
    <2>1. /\ WriterReady /\ handler' \in {"end_verify", "end_failed"}
          /\ UNCHANGED <<state, chunk, reply>>
        BY <1>2 DEF Flush, FlushFails, WriterReady, Continue
    <2>2. /\ Marker(Status, "RECEIVING") /\ transfer.writer_slot = transfer.target_slot
          /\ slots[transfer.target_slot].manifest = Blank
        BY <2>1 DEF MarkerOK
    <2>3. /\ ApiTypeOK' /\ UNCHANGED <<pages, write, phase, call>> /\ Status' = Status
          /\ slots'[transfer.target_slot].manifest = Blank
        <3>1. CASE ProgramImage(transfer.target_slot, transfer.programmed)
            BY <1>1, <2>2, <3>1, SlotStepFacts DEF TypeOK
        <3>2. CASE UNCHANGED apiVars
            BY <2>2, <3>2, SamePages DEF apiVars, TypeOK, ApiTypeOK, Journal!TypeOK
        <3> QED BY <1>2, <2>2, <3>1, <3>2 DEF Flush, FlushFails
    <2>4. TypeOK'
        BY <1>1, <2>1, <2>3 DEF TypeOK, Handlers
    <2> QED
        BY <1>1, <2>1, <2>2, <2>3, <2>4
        DEF CallOK, StateOK, TransferOK, MarkerOK, Marker, JournalOK, WriterReady, Updating,
            ChunkHandlers, EndHandlers, AppSlots
<1>3. CASE VerifyTransfer /\ MarkUpdateCommitting(transfer.target_slot)
    <2> DEFINE status == [Status EXCEPT !.update_state = "COMMITTING"]
    <2>1. Status \in BootStatus /\ status \in BootStatus
        BY StatusType, UpdateType DEF TypeOK, BootStatus
    <2>2. /\ status.update_state = "COMMITTING"
          /\ status.update_slot = transfer.target_slot
          /\ Commit("mark_committing", status)
        BY <1>3, <2>1 DEF MarkUpdateCommitting, BootStatus
    <2> HIDE DEF status
    <2>3. /\ call' = "mark_committing" /\ write'.stage = "erase" /\ write'.contents = status
          /\ UNCHANGED <<slots, phase>> /\ WinsNextLoad'
        BY <2>1, <2>2, CommitEffect DEF TypeOK
    <2>4. /\ handler' = "end_committing" /\ UNCHANGED <<state, chunk, reply>>
        BY <1>3 DEF VerifyTransfer, Continue, MarkUpdateCommitting, Commit, Journal!CommitStatus,
                    Journal!CommitFrom, apiVars
    <2>5. ApiTypeOK'
        BY <1>1, <1>3, CallType DEF TypeOK, Slots
    <2>6. TypeOK'
        BY <1>1, <2>4, <2>5 DEF TypeOK, Handlers
    <2> QED
        BY <1>1, <2>2, <2>3, <2>4, <2>6
        DEF CallOK, StateOK, TransferOK, MarkerOK, Marker, JournalOK, WriterReady, Updating,
            ChunkHandlers, EndHandlers
<1>4. CASE (VerifyTransfer \/ ManifestFails \/ PutTransferOnTrial) /\ UNCHANGED apiVars
    <2>1. handler' \in {"end_failed", "end_committing", "end_requested"}
          /\ UNCHANGED <<state, chunk, reply>>
        BY <1>4 DEF VerifyTransfer, ManifestFails, PutTransferOnTrial, Continue
    <2>2. handler' = "end_failed"
        BY <1>1, <1>4
        DEF VerifyTransfer, ManifestFails, PutTransferOnTrial, Continue, MarkUpdateCommitting,
            RequestTrial, Commit, apiVars
    <2>3. TypeOK'
        BY <1>1, <1>4, <2>1, <2>2 DEF TypeOK, Handlers, apiVars, ApiTypeOK, Journal!TypeOK
    <2> QED
        BY <1>1, <1>4, <2>1, <2>2, <2>3
        DEF apiVars, CallOK, StateOK, TransferOK, MarkerOK, JournalOK, WriterReady, Updating,
            ChunkHandlers, EndHandlers
<1>5. CASE StartManifest \/ FinishManifest
    <2>1. /\ Marker(Status, "COMMITTING") /\ UNCHANGED <<state, chunk, reply>>
          /\ handler' \in {"end_manifest", "end_trial"}
        BY <1>5 DEF StartManifest, FinishManifest, MarkerOK, Continue, controllerVars
    <2>2. \E manifest \in Images \cup {Partial} : ProgramManifest(transfer.target_slot, manifest)
        BY <1>1, <1>5 DEF StartManifest, FinishManifest
    <2>3. ApiTypeOK' /\ UNCHANGED <<pages, write, phase, call>> /\ Status' = Status
        BY <1>1, <2>2, SlotStepFacts DEF TypeOK
    <2>4. TypeOK'
        BY <1>1, <2>1, <2>3 DEF TypeOK, Handlers
    <2> QED
        BY <1>1, <2>1, <2>3, <2>4
        DEF CallOK, StateOK, TransferOK, MarkerOK, Marker, JournalOK, WriterReady, Updating,
            ChunkHandlers, EndHandlers
<1>6. CASE PutTransferOnTrial /\ RequestTrial(transfer.target_slot)
    <2>1. call' = "request_trial" /\ UNCHANGED phase
        BY <1>6 DEF RequestTrial, Commit
    <2>2. /\ handler' = "end_requested" /\ UNCHANGED <<state, chunk, reply>>
        BY <1>1, <1>6, <2>1 DEF PutTransferOnTrial, Continue, apiVars
    <2>3. ApiTypeOK'
        BY <1>1, <1>6, CallType DEF TypeOK, Slots
    <2>4. TypeOK'
        BY <1>1, <2>2, <2>3 DEF TypeOK, Handlers
    <2> QED
        BY <1>1, <2>1, <2>2, <2>4
        DEF CallOK, StateOK, TransferOK, MarkerOK, JournalOK, WriterReady, Updating,
            ChunkHandlers, EndHandlers
<1>7. CASE UpdateFailed
    <2>1. /\ state' = "RECOVERY"
          /\ \/ AbortUpdate /\ handler' = "end_abort" /\ UNCHANGED <<chunk, reply>>
             \/ /\ UNCHANGED apiVars /\ handler' = "none" /\ chunk' = NoChunk
                /\ reply' \in Reply
        BY <1>7 DEF UpdateFailed, Continue, Finish, Answer, Reply, Commands
    <2>2. /\ ApiTypeOK' /\ UNCHANGED phase
          /\ \/ handler' = "end_abort" /\ call' = "abort_update"
             \/ handler' = "none" /\ call' = "none" /\ write'.stage = "none"
        <3>1. CASE AbortUpdate /\ handler' = "end_abort"
            BY <3>1, <1>1, CallType DEF TypeOK, Slots, AbortUpdate, Commit
        <3>2. CASE UNCHANGED apiVars /\ handler' = "none"
            BY <3>2, <1>1 DEF apiVars, TypeOK, ApiTypeOK, Journal!TypeOK
        <3> QED BY <2>1, <3>1, <3>2
    <2>3. TypeOK'
        BY <1>1, <2>1, <2>2 DEF TypeOK, Handlers, ControllerStates
    <2> QED
        BY <1>1, <2>1, <2>2, <2>3
        DEF CallOK, StateOK, TransferOK, MarkerOK, JournalOK, WriterReady, Updating,
            ChunkHandlers, EndHandlers
<1> QED
    BY <1>2, <1>3, <1>4, <1>5, <1>6, <1>7 DEF VerifyTransfer, ManifestFails, PutTransferOnTrial

(* secure_boot_boot commits, or the boot loader is left. *)
LEMMA BootInv ==
    ASSUME Inv, (\E tx_idle \in BOOLEAN : PollBoot(tx_idle)) \/ BootContinues
    PROVE  Inv'
<1> USE DEF Inv
<1>1. /\ BootCall \/ ContinueBoot
      /\ LeaveOrContinue /\ phase = "ready" /\ state = "BOOT_PENDING"
      /\ handler \in {"none", "boot"}
    BY DEF PollBoot, BootContinues, Idle, CallOK, StateOK
<1>2. ApiTypeOK'
    BY <1>1, CallType DEF TypeOK, Slots
<1>3. \/ UNCHANGED phase /\ call' \in BootCalls
      \/ call' = "none" /\ write'.stage = "none"
    BY <1>1
    DEF BootCall, BootTrial, BootExpiredTrial, BootWithoutTrial, ContinueBoot, BootInto,
        Commit, Journal!PowerLoss, Journal!NoWrite, BootCalls
<1>4. CASE call' # "none"
    <2>1. /\ UNCHANGED <<state, transfer, timer, chunk, reply, phase>> /\ handler' = "boot"
          /\ call' \in BootCalls
        BY <1>1, <1>3, <1>4 DEF LeaveOrContinue, Continue
    <2>2. TypeOK'
        BY <1>2, <2>1 DEF TypeOK, Handlers
    <2> QED
        BY <1>1, <2>1, <2>2
        DEF CallOK, StateOK, TransferOK, MarkerOK, JournalOK, WriterReady, Updating,
            ChunkHandlers, EndHandlers, BootCalls
<1>5. CASE call' = "none"
    <2>1. StartController /\ write'.stage = "none"
        BY <1>1, <1>3, <1>5 DEF LeaveOrContinue, BootCalls
    <2>2. NoTransfer \in Transfer
        BY ImageSizeAssumption DEF NoTransfer, Transfer, Slots
    <2>3. TypeOK'
        BY <1>2, <2>1, <2>2
        DEF StartController, TypeOK, Reply, Commands, ControllerStates, Handlers
    <2> QED
        BY <1>5, <2>1, <2>3
        DEF StartController, CallOK, StateOK, TransferOK, MarkerOK, JournalOK, WriterReady,
            Updating, ChunkHandlers, EndHandlers, NoTransfer
<1> QED BY <1>4, <1>5

(* The recovery and the application start their calls. *)
LEMMA OutsideInv ==
    ASSUME Inv, Recover \/ (ConfirmRunningImage(phase) /\ UNCHANGED controllerVars)
    PROVE  Inv'
<1> USE DEF Inv
<1>1. /\ phase # "ready" /\ call = "none" /\ handler = "none" /\ state = "WAIT_UPDATE"
      /\ UNCHANGED controllerVars
    BY DEF Recover, RecoverInterruptedUpdate, ConfirmRunningImage, Commit, AppSlots, CallOK
<1>2. ApiTypeOK'
    <2>1. CASE Recover
        <3>1. "NONE" \in Slots /\ RecoverInterruptedUpdate
            BY <2>1 DEF Slots, Recover
        <3> QED BY <3>1, CallType DEF TypeOK
    <2>2. CASE ConfirmRunningImage(phase)
        BY <2>2, CallType DEF ConfirmRunningImage, TypeOK, Slots
    <2> QED BY <2>1, <2>2
<1>3. TypeOK'
    BY <1>1, <1>2 DEF TypeOK, controllerVars
<1>4. \/ phase' = "ready" /\ UNCHANGED <<write, call>>
      \/ UNCHANGED phase /\ call' \in {"recover", "confirm"}
    BY DEF Recover, RecoverInterruptedUpdate, ConfirmRunningImage, Commit
<1> QED
    BY <1>1, <1>3, <1>4
    DEF controllerVars, CallOK, StateOK, TransferOK, MarkerOK, JournalOK, WriterReady,
        Updating, ChunkHandlers, EndHandlers

LEMMA PollInv ==
    ASSUME Inv, (\E tx_idle \in BOOLEAN : Poll(tx_idle)) \/ TimePasses
    PROVE  Inv'
<1>1. CASE PollUpdateTimeout
    BY <1>1, GiveUpInv DEF PollUpdateTimeout, Commands
<1>2. CASE PollStartupTimeout \/ TimePasses
    BY <1>2, QuietInv
    DEF PollStartupTimeout, TimePasses, ScheduleBoot, Idle, Inv, TypeOK
<1>3. CASE \E tx_idle \in BOOLEAN : PollBoot(tx_idle)
    BY <1>3, BootInv
<1> QED BY <1>1, <1>2, <1>3 DEF Poll

LEMMA NextInv == Inv /\ [Next]_vars => Inv'
<1> SUFFICES ASSUME Inv, [Next]_vars PROVE Inv'
    OBVIOUS
<1>1. CASE UNCHANGED vars
    <2>1. UNCHANGED <<pages, write, slots, phase, call>> /\ Status' = Status
        BY <1>1, SamePages DEF vars, apiVars
    <2> QED
        BY <1>1, <2>1
        DEF vars, controllerVars, Inv, TypeOK, ApiTypeOK, Journal!TypeOK, CallOK, StateOK,
            TransferOK, MarkerOK, Marker, JournalOK, WinsNextLoad, WriterReady, Updating
<1>2. CASE Packet \/ TimePasses \/ Crash \/ (\E tx_idle \in BOOLEAN : Poll(tx_idle))
    BY <1>2, PacketInv, PollInv, ResetInv
<1>3. CASE Confirm
    BY <1>3, OutsideInv, ReturnInv DEF Confirm
<1>4. CASE Work
    BY <1>4, ReturnInv, EraseInv, WriteInv, HardFaultInv, EndInv, BootInv, OutsideInv,
       CommitStepsInv
    DEF Work
<1>5. CASE FlashError
    BY <1>5, EraseInv, WriteInv, EndInv, CommitStepsInv DEF FlashError
<1> QED BY <1>1, <1>2, <1>3, <1>4, <1>5 DEF Next
-----------------------------------------------------------------------------
(* What an acknowledged UPDATE_END rests on, on top of the invariant.        *)

Acknowledged == [report |-> "ACK", command |-> "UPDATE_END"]

SignedHandlers == {"end_committing", "end_manifest", "end_trial", "end_requested"}

(* UPDATE_END gets past its checks with a signed image only, its manifest   *)
(* is stored before the trial is requested, and the request verifies the    *)
(* image against that manifest.                                             *)
Durable ==
    /\ Updating => reply # Acknowledged
    /\ handler \in SignedHandlers => transfer.signed
    /\ handler \in {"end_trial", "end_requested"} =>
           slots[transfer.target_slot].manifest = transfer.image
    /\ handler = "end_requested" =>
           /\ slots[transfer.target_slot].image = transfer.image
           /\ write.contents.trial_slot = transfer.target_slot
           /\ WinsNextLoad
           /\ write.stage = "done" => Status = write.contents

(* Only UpdateAccepted acknowledges, and it ends the update. *)
LEMMA ReplyStep ==
    ASSUME Inv, [Next]_vars, reply' = Acknowledged
    PROVE  UNCHANGED reply \/ UpdateAccepted
<1> USE DEF Acknowledged, Answer, Finish, Continue
<1>1. CASE UNCHANGED vars
    BY <1>1 DEF vars, controllerVars
<1>2. CASE Packet
    BY <1>2
    DEF Packet, OnUpdateBegin, OnMislinkedChunk, OnFirstChunk, OnNextChunk, OnUpdateEnd,
        OnUpdateAbort, GiveUp, OnBootNow, OnReset, StartController, OnQuery, OnRefusedPacket
<1>3. CASE Work
    BY <1>3
    DEF Work, ChunkMarked, StartErase, FinishErase, ChunkAborted, WriteChunk, DeferByte,
        HardFault, Flush, VerifyTransfer, UpdateCommitting, StartManifest, FinishManifest,
        PutTransferOnTrial, TrialNotRecorded, UpdateFailed, UpdateFailureReported, GivenUp,
        BootContinues, BootFails, Recover, Recovered, CommitSteps, LeaveOrContinue,
        StartController, controllerVars
<1>4. CASE \E tx_idle \in BOOLEAN : Poll(tx_idle)
    BY <1>4
    DEF Poll, PollUpdateTimeout, GiveUp, PollStartupTimeout, PollBoot, LeaveOrContinue,
        StartController
<1>5. CASE FlashError \/ TimePasses \/ Confirm \/ Crash
    BY <1>5
    DEF FlashError, EraseFails, WriteFails, DeferredByteLost, FlushFails, ManifestFails,
        CommitFails, TimePasses, Confirm, Crash, StartController, controllerVars
<1> QED BY <1>1, <1>2, <1>3, <1>4, <1>5 DEF Next

(* An update begins with another answer. *)
LEMMA UpdatingStep ==
    ASSUME Inv, [Next]_vars, Updating', ~Updating
    PROVE  reply' # Acknowledged
<1>1. \E image \in Images, signed \in BOOLEAN : OnUpdateBegin(image, signed)
    <2> USE DEF Updating, Continue, Finish, ScheduleBoot
    <2>1. CASE UNCHANGED vars
        BY <2>1 DEF vars, controllerVars
    <2>2. CASE Packet
        BY <2>2
        DEF Packet, OnMislinkedChunk, OnFirstChunk, OnNextChunk, InSequence, OnUpdateEnd,
            OnUpdateAbort, GiveUp, OnBootNow, OnReset, StartController, OnQuery, OnRefusedPacket
    <2>3. CASE Work
        BY <2>3
        DEF Work, ChunkMarked, StartErase, FinishErase, ChunkAborted, WriteChunk, DeferByte,
            HardFault, Flush, VerifyTransfer, UpdateCommitting, StartManifest, FinishManifest,
            PutTransferOnTrial, UpdateAccepted, TrialNotRecorded, UpdateFailed,
            UpdateFailureReported, GivenUp, BootContinues, BootFails, Recover, Recovered,
            CommitSteps, LeaveOrContinue, StartController, controllerVars
    <2>4. CASE \E tx_idle \in BOOLEAN : Poll(tx_idle)
        BY <2>4
        DEF Poll, PollUpdateTimeout, GiveUp, PollStartupTimeout, PollBoot, LeaveOrContinue,
            StartController
    <2>5. CASE FlashError \/ TimePasses \/ Confirm \/ Crash
        BY <2>5
        DEF FlashError, EraseFails, WriteFails, DeferredByteLost, FlushFails, ManifestFails,
            CommitFails, TimePasses, Confirm, Crash, StartController, controllerVars
    <2> QED BY <2>1, <2>2, <2>3, <2>4, <2>5 DEF Next
<1> QED BY <1>1 DEF OnUpdateBegin, Answer, Acknowledged

(* How the handler of UPDATE_END gets past its checks. *)
LEMMA SignedStep ==
    ASSUME Inv, [Next]_vars, handler' \in SignedHandlers
    PROVE  \/ UNCHANGED vars \/ CommitSteps \/ CommitFails
           \/ VerifyTransfer \/ UpdateCommitting \/ StartManifest \/ FinishManifest
           \/ PutTransferOnTrial
<1> USE DEF SignedHandlers, Continue, Finish
<1>1. CASE Packet
    BY <1>1
    DEF Packet, OnUpdateBegin, OnMislinkedChunk, OnFirstChunk, OnNextChunk, OnUpdateEnd,
        OnUpdateAbort, GiveUp, OnBootNow, OnReset, StartController, OnQuery, OnRefusedPacket,
        Idle
<1>2. CASE Work
    BY <1>2
    DEF Work, ChunkMarked, StartErase, FinishErase, ChunkAborted, WriteChunk, DeferByte,
        HardFault, Flush, UpdateAccepted, TrialNotRecorded, UpdateFailed,
        UpdateFailureReported, GivenUp, BootContinues, BootFails, Recover, Recovered,
        LeaveOrContinue, StartController, controllerVars, RecoverInterruptedUpdate, Inv,
        CallOK
<1>3. CASE \E tx_idle \in BOOLEAN : Poll(tx_idle)
    BY <1>3
    DEF Poll, PollUpdateTimeout, GiveUp, PollStartupTimeout, PollBoot, LeaveOrContinue,
        StartController, Idle
<1>4. CASE FlashError \/ TimePasses \/ Confirm \/ Crash
    BY <1>4
    DEF FlashError, EraseFails, WriteFails, DeferredByteLost, FlushFails, ManifestFails,
        TimePasses, Confirm, ConfirmRunningImage, Commit, AppSlots, Crash, StartController,
        controllerVars, Idle, Inv, CallOK
<1> QED BY <1>1, <1>2, <1>3, <1>4 DEF Next

LEMMA DurableStep == Inv /\ Durable /\ [Next]_vars => Durable'
<1> SUFFICES ASSUME Inv, Durable, [Next]_vars PROVE Durable'
    OBVIOUS
<1>1. Updating' => reply' # Acknowledged
    <2> SUFFICES ASSUME Updating', reply' = Acknowledged PROVE FALSE
        OBVIOUS
    <2>1. Updating
        BY UpdatingStep
    <2>2. ~UNCHANGED reply
        BY <2>1 DEF Durable
    <2>3. UpdateAccepted
        BY <2>2, ReplyStep
    <2> QED BY <2>3 DEF UpdateAccepted, ScheduleBoot, Updating
<1>2. CASE handler' \notin SignedHandlers
    BY <1>1, <1>2 DEF Durable, SignedHandlers
<1>3. CASE UNCHANGED vars
    BY <1>3, SamePages
    DEF vars, apiVars, controllerVars, Durable, WinsNextLoad, Updating
<1>4. CASE CommitSteps \/ CommitFails
    <2>1. UNCHANGED <<slots, call, controllerVars>>
        BY <1>4
        DEF CommitSteps, CommitFails, EraseStatusPage, ProgramStatusPage, StatusWriteFails
    <2>2. write'.contents = write.contents
        BY <1>4
        DEF CommitSteps, CommitFails, EraseStatusPage, ProgramStatusPage, StatusWriteFails,
            Journal!EraseStatusPage, Journal!ProgramStatusPage, Journal!StatusWriteFails,
            Inv, TypeOK, ApiTypeOK, Journal!TypeOK, Journal!WriteRecord
    <2>3. ASSUME WinsNextLoad
          PROVE  WinsNextLoad' /\ (write'.stage = "done" => Status' = write'.contents)
        BY <1>4, <2>3, CommitOutcome DEF Inv, TypeOK
    <2> QED BY <1>1, <2>1, <2>2, <2>3 DEF Durable, controllerVars, Updating
<1>5. CASE VerifyTransfer
    <2>1. UNCHANGED transfer /\ handler' \in {"end_committing", "end_failed"}
        BY <1>5 DEF VerifyTransfer, Continue
    <2>2. handler' = "end_committing" => Authentic
        BY <1>5 DEF VerifyTransfer, Continue
    <2>3. handler' = "end_committing" => transfer'.signed
        BY <2>1, <2>2, Zenon DEF Authentic
    <2> QED BY <1>1, <2>1, <2>3 DEF Durable, SignedHandlers
<1>6. CASE UpdateCommitting \/ StartManifest
    <2>1. handler \in SignedHandlers /\ UNCHANGED transfer
        BY <1>6 DEF UpdateCommitting, StartManifest, SignedHandlers, controllerVars
    <2>2. handler' \notin {"end_trial", "end_requested"}
        BY <1>6 DEF UpdateCommitting, StartManifest, Continue, controllerVars
    <2> QED BY <1>1, <2>1, <2>2 DEF Durable
<1>7. CASE FinishManifest
    <2>1. /\ handler = "end_manifest" /\ handler' = "end_trial" /\ UNCHANGED transfer
          /\ transfer.target_slot \in AppSlots
          /\ slots \in [AppSlots -> SlotContents]
          /\ slots' = [slots EXCEPT ![transfer.target_slot] =
                           [slots[transfer.target_slot] EXCEPT !.manifest = transfer.image]]
        BY <1>7 DEF FinishManifest, ProgramManifest, WriteSlot, Continue, Inv, StateOK,
                    TransferOK, EndHandlers, Updating, TypeOK, ApiTypeOK
    <2>2. slots'[transfer.target_slot].manifest = transfer.image
        BY <2>1 DEF SlotContents
    <2> QED BY <1>1, <2>1, <2>2 DEF Durable, SignedHandlers
<1>8. CASE PutTransferOnTrial
    <2>1. /\ handler = "end_trial" /\ UNCHANGED transfer
          /\ handler' = "end_requested" => RequestTrial(transfer.target_slot)
          /\ handler' \in {"end_requested", "end_failed"}
        BY <1>8 DEF PutTransferOnTrial, Continue
    <2>2. CASE RequestTrial(transfer.target_slot)
        <3> DEFINE status == PutOnTrial(Status, transfer.target_slot)
        <3>1. /\ transfer.target_slot \in Slots /\ Status \in BootStatus
              /\ status \in BootStatus
            BY StatusType, UpdateType DEF Inv, TypeOK, Transfer
        <3>2. status.trial_slot = transfer.target_slot
            BY <3>1 DEF PutOnTrial, ClearUpdateMarker, BootStatus
        <3>3. /\ slots[transfer.target_slot].image = transfer.image
              /\ slots[transfer.target_slot].manifest = transfer.image
              /\ Commit("request_trial", status)
            BY <2>1, <2>2 DEF Durable, RequestTrial, Acceptable, Verified
        <3> HIDE DEF status
        <3>4. /\ write'.stage = "erase" /\ write'.contents = status
              /\ UNCHANGED slots /\ WinsNextLoad'
            BY <3>1, <3>3, CommitEffect DEF Inv, TypeOK
        <3> QED
            BY <1>1, <2>1, <3>2, <3>3, <3>4 DEF Durable, SignedHandlers
    <2> QED BY <1>2, <2>1, <2>2 DEF SignedHandlers
<1> QED
    BY <1>2, <1>3, <1>4, <1>5, <1>6, <1>7, <1>8, SignedStep

LEMMA InitDurable == Init => Durable
BY DEF Init, Durable, Updating, SignedHandlers

-----------------------------------------------------------------------------
(* What MarkerFollowsTransfer rests on, on top of the invariant.             *)

(* Where the boot and the end of an update are. *)
ProgressOK ==
    /\ handler = "boot" => call \in BootCalls
    /\ state = "VERIFYING" => handler \in EndHandlers \cup {"hung"}

(* The calls that leave a record without a marker. *)
ClearingCalls == {"recover", "abort_update", "request_trial"}

Unmarked(contents) == contents.update_state # "RECEIVING"

(* The only marker a finished call leaves behind is that of the transfer:   *)
(* the calls that clear one clear it in what they commit, and succeed, or   *)
(* the update is still there to try again (request_trial); a boot finds no  *)
(* marker, and finds none either when its commit fails, even the second one *)
(* of a call, which overwrites the newest record.                           *)
MarkerOwned ==
    /\ phase = "ready" /\ call = "none" => Updating \/ Unmarked(Status)
    /\ call \in ClearingCalls =>
           /\ write.contents.update_state = "IDLE"
           /\ WinsNextLoad
           /\ write.stage = "done" => Status = write.contents
           /\ write.stage = "failed" => call = "request_trial"
    /\ call \in BootCalls =>
           /\ Unmarked(Status)
           /\ Unmarked(write.contents)
           /\ \A p \in Pages : p # Journal!CommitPage(write.source) /\ pages[p].valid =>
                  Unmarked(pages[p].contents)

LEMMA OwnedRest ==
    ASSUME MarkerOwned, UNCHANGED <<pages, write, phase, call>>,
           Updating => Updating' \/ Unmarked(Status)
    PROVE  MarkerOwned'
BY SamePages DEF MarkerOwned, WinsNextLoad, Unmarked

LEMMA OwnedReset ==
    ASSUME call' \notin ClearingCalls \cup BootCalls, phase' # "ready" \/ call' # "none"
    PROVE  MarkerOwned'
BY DEF MarkerOwned

(* A boot that begins to write spares the record it has found. *)
LEMMA OwnedCommit ==
    ASSUME Inv, NEW name, name # "none", NEW status \in BootStatus, Commit(name, status),
           name \in ClearingCalls => status.update_state = "IDLE",
           name \in BootCalls => Unmarked(Status) /\ Unmarked(status)
    PROVE  MarkerOwned'
<1>1. /\ call' = name /\ write'.stage = "erase" /\ write'.contents = status
      /\ WinsNextLoad' /\ Status' = Status /\ UNCHANGED pages
      /\ write'.source = Journal!Source
    BY CommitEffect
    DEF Inv, TypeOK, Commit, Journal!CommitStatus, Journal!CommitFrom
<1>2. name \in BootCalls =>
          \A p \in Pages : p # Journal!CommitPage(Journal!Source) /\ pages[p].valid =>
              Unmarked(pages[p].contents)
    BY DEF Status, Journal!Status, Journal!Source, Journal!CommitPage, Pages, Journal!Pages
<1> QED BY <1>1, <1>2 DEF MarkerOwned, Journal!CommitPage

LEMMA OwnedReturn ==
    ASSUME Inv, MarkerOwned, Return,
           \/ Updating'
           \/ call \in ClearingCalls /\ write.stage # "failed"
           \/ call \in BootCalls
           \/ phase # "ready" /\ call # "recover"
    PROVE  MarkerOwned'
<1>1. /\ write.stage \in {"done", "failed"} /\ write'.stage = "none" /\ call' = "none"
      /\ phase' = IF call = "recover" THEN "ready" ELSE phase
      /\ Status' = Status
    BY ReturnEffect DEF Inv, TypeOK
<1>2. Updating' \/ Unmarked(Status) \/ phase' # "ready"
    BY <1>1 DEF MarkerOwned, Unmarked
<1> QED BY <1>1, <1>2 DEF MarkerOwned, ClearingCalls, BootCalls

(* The records of the calls that clear the marker. *)
LEMMA ClearedRecord ==
    ASSUME NEW status \in BootStatus, NEW slot \in Slots
    PROVE  /\ ClearUpdateMarker(status) \in BootStatus
           /\ ClearUpdateMarker(status).update_state = "IDLE"
           /\ PutOnTrial(status, slot) \in BootStatus
           /\ PutOnTrial(status, slot).update_state = "IDLE"
BY UpdateType DEF ClearUpdateMarker, PutOnTrial, BootStatus

LEMMA OwnedAbort == Inv /\ AbortUpdate => MarkerOwned'
<1> SUFFICES ASSUME Inv, AbortUpdate PROVE MarkerOwned'
    OBVIOUS
<1>1. Status \in BootStatus /\ "NONE" \in Slots
    BY StatusType DEF Inv, TypeOK, Slots
<1>2. /\ ClearUpdateMarker(Status) \in BootStatus
      /\ ClearUpdateMarker(Status).update_state = "IDLE"
      /\ Commit("abort_update", ClearUpdateMarker(Status))
    BY <1>1, ClearedRecord DEF AbortUpdate
<1> QED BY <1>2, OwnedCommit DEF BootCalls

LEMMA OwnedGiveUp ==
    ASSUME Inv, MarkerOwned, NEW next, NEW report, NEW command,
           GiveUp(next, report, command)
    PROVE  MarkerOwned'
<1>1. CASE AbortUpdate
    BY <1>1, OwnedAbort
<1>2. CASE Status.update_state = "IDLE" /\ UNCHANGED apiVars
    BY <1>2, OwnedRest DEF apiVars, Unmarked
<1> QED BY <1>1, <1>2 DEF GiveUp

LEMMA OwnedPacket ==
    ASSUME Inv, ProgressOK, MarkerOwned, Packet
    PROVE  MarkerOwned'
<1>1. CASE OnReset
    BY <1>1, OwnedReset DEF OnReset, PowerLoss, ClearingCalls, BootCalls
<1>2. CASE OnUpdateAbort
    BY <1>2, OwnedGiveUp DEF OnUpdateAbort
<1>3. CASE \E received \in Chunk : OnFirstChunk(received)
    <2>1. PICK received \in Chunk : OnFirstChunk(received)
        BY <1>3
    <2>2. CASE BeginUpdate(transfer.target_slot)
        <3> DEFINE status == [Status EXCEPT !.update_slot = transfer.target_slot,
                                            !.update_state = "RECEIVING"]
        <3>1. status \in BootStatus
            BY StatusType, UpdateType DEF Inv, TypeOK, Transfer
        <3>2. Commit("begin_update", status)
            BY <2>2 DEF BeginUpdate
        <3> HIDE DEF status
        <3> QED BY <3>1, <3>2, OwnedCommit DEF ClearingCalls, BootCalls
    <2>3. CASE UNCHANGED <<apiVars, state>>
        BY <2>3, OwnedRest DEF apiVars, Updating
    <2> QED BY <2>1, <2>2, <2>3 DEF OnFirstChunk
<1>4. CASE OnBootNow
    BY <1>4, OwnedRest DEF OnBootNow, apiVars
<1>5. CASE \/ \E image \in Images, signed \in BOOLEAN : OnUpdateBegin(image, signed)
           \/ OnUpdateEnd
    BY <1>5, OwnedRest DEF OnUpdateBegin, OnUpdateEnd, apiVars, Updating
<1>6. CASE \/ \E received \in Chunk : OnMislinkedChunk(received) \/ OnNextChunk(received)
           \/ \E report \in {"STATUS", "SLOT_INFO"} : OnQuery(report)
           \/ \E command \in Commands \ NeverRefused : OnRefusedPacket(command)
    <2>1. UNCHANGED <<apiVars, state>>
        BY <1>6 DEF OnMislinkedChunk, OnNextChunk, OnQuery, OnRefusedPacket
    <2> QED BY <2>1, OwnedRest DEF apiVars, Updating
<1> QED BY <1>1, <1>2, <1>3, <1>4, <1>5, <1>6 DEF Packet

(* The steps of a transfer that write its slot or nothing, failed or not. *)
LEMMA OwnedSlotWork ==
    ASSUME Inv, MarkerOwned,
           \/ StartErase \/ FinishErase \/ WriteChunk \/ DeferByte \/ HardFault \/ Flush
           \/ StartManifest \/ FinishManifest
           \/ WriteFails \/ DeferredByteLost \/ FlushFails \/ ManifestFails
    PROVE  MarkerOwned'
<1>1. UNCHANGED <<pages, write, phase, call>>
    BY DEF StartErase, FinishErase, WriteChunk, DeferByte, HardFault, Flush, StartManifest,
           FinishManifest, WriteFails, DeferredByteLost, FlushFails, ManifestFails,
           StartSlotErase, FinishSlotErase, ProgramImage, ProgramManifest, WriteSlot, apiVars
<1>2. UNCHANGED state
    BY DEF StartErase, FinishErase, WriteChunk, DeferByte, HardFault, Flush, StartManifest,
           FinishManifest, WriteFails, DeferredByteLost, FlushFails, ManifestFails,
           controllerVars
<1> QED BY <1>1, <1>2, OwnedRest DEF Updating

LEMMA OwnedReturns ==
    ASSUME Inv, ProgressOK, MarkerOwned,
           \/ ChunkMarked \/ ChunkAborted \/ UpdateCommitting \/ UpdateAccepted
           \/ TrialNotRecorded \/ UpdateFailureReported \/ GivenUp \/ BootFails
           \/ Recovered \/ (call = "confirm" /\ Return /\ UNCHANGED controllerVars)
    PROVE  MarkerOwned'
<1>1. CASE ChunkMarked \/ ChunkAborted \/ UpdateCommitting
    <2>1. Return /\ UNCHANGED state
        BY <1>1 DEF ChunkMarked, ChunkAborted, UpdateCommitting, Succeeded, Failed
    <2>2. Updating
        BY <1>1
        DEF ChunkMarked, ChunkAborted, UpdateCommitting, Inv, StateOK, ChunkHandlers,
            EndHandlers, Updating
    <2> QED BY <2>1, <2>2, OwnedReturn DEF Updating
<1>2. CASE UpdateFailureReported \/ GivenUp \/ Recovered
    <2>1. Return /\ call \in {"abort_update", "recover"}
        BY <1>2 DEF UpdateFailureReported, GivenUp, Recovered, Inv, CallOK
    <2>2. call \in ClearingCalls /\ write.stage # "failed"
        BY <2>1 DEF MarkerOwned, ClearingCalls
    <2> QED BY <2>1, <2>2, OwnedReturn
<1>3. CASE UpdateAccepted \/ TrialNotRecorded
    <2>1. Return /\ call = "request_trial" /\ Updating
        BY <1>3
        DEF UpdateAccepted, TrialNotRecorded, Succeeded, Failed, Inv, CallOK, StateOK,
            EndHandlers, Updating
    <2>2. Updating' \/ write.stage # "failed"
        BY <1>3, <2>1
        DEF UpdateAccepted, TrialNotRecorded, Succeeded, Updating
    <2> QED BY <2>1, <2>2, OwnedReturn DEF ClearingCalls
<1>4. CASE BootFails
    BY <1>4, OwnedReturn DEF BootFails, Failed, ProgressOK
<1>5. CASE call = "confirm" /\ Return /\ UNCHANGED controllerVars
    <2>1. phase # "ready"
        BY <1>5 DEF Inv, CallOK, ProgressOK, TypeOK, Handlers, BootCalls
    <2> QED BY <1>5, <2>1, OwnedReturn
<1> QED BY <1>1, <1>2, <1>3, <1>4, <1>5

(* The calls of UPDATE_END, of the recovery and of the application. *)
LEMMA OwnedCalls ==
    ASSUME Inv, MarkerOwned,
           \/ VerifyTransfer \/ PutTransferOnTrial \/ UpdateFailed \/ Recover
           \/ (ConfirmRunningImage(phase) /\ UNCHANGED controllerVars)
    PROVE  MarkerOwned'
<1>0. /\ ApiTypeOK /\ Status \in BootStatus
      /\ transfer.target_slot \in Slots /\ Status.update_slot \in Slots
    BY StatusType DEF Inv, TypeOK, Transfer, BootStatus
<1>1. CASE VerifyTransfer
    <2>1. UNCHANGED state
        BY <1>1 DEF VerifyTransfer
    <2>2. CASE MarkUpdateCommitting(transfer.target_slot)
        <3>1. [Status EXCEPT !.update_state = "COMMITTING"] \in BootStatus
            BY <1>0, UpdateType
        <3> QED BY <2>2, <3>1, OwnedCommit DEF MarkUpdateCommitting, ClearingCalls, BootCalls
    <2>3. CASE UNCHANGED apiVars
        BY <2>1, <2>3, OwnedRest DEF apiVars, Updating
    <2> QED BY <1>1, <2>2, <2>3 DEF VerifyTransfer
<1>2. CASE PutTransferOnTrial
    <2>1. UNCHANGED state
        BY <1>2 DEF PutTransferOnTrial
    <2>2. CASE RequestTrial(transfer.target_slot)
        BY <1>0, <2>2, ClearedRecord, OwnedCommit DEF RequestTrial, BootCalls
    <2>3. CASE UNCHANGED apiVars
        BY <2>1, <2>3, OwnedRest DEF apiVars, Updating
    <2> QED BY <1>2, <2>2, <2>3 DEF PutTransferOnTrial
<1>3. CASE UpdateFailed
    <2>1. CASE AbortUpdate
        BY <2>1, OwnedAbort
    <2>2. CASE Status.update_state = "COMMITTING" /\ UNCHANGED apiVars
        BY <2>2, OwnedRest DEF apiVars, Unmarked
    <2> QED BY <1>3, <2>1, <2>2 DEF UpdateFailed
<1>4. CASE Recover
    <2>1. CASE Status.update_state = "IDLE" /\ UNCHANGED <<pages, write, slots, call>>
        <3>1. call = "none" /\ Unmarked(Status)'
            BY <1>4, <2>1, SamePages DEF Recover, RecoverInterruptedUpdate, Commit, Unmarked
        <3> QED BY <2>1, <3>1 DEF MarkerOwned, ClearingCalls, BootCalls
    <2>2. CASE Commit("recover", PutOnTrial(Status, Status.update_slot))
        BY <1>0, <2>2, ClearedRecord, OwnedCommit DEF BootCalls
    <2>3. CASE Commit("recover", ClearUpdateMarker(Status))
        BY <1>0, <2>3, ClearedRecord, OwnedCommit DEF BootCalls
    <2> QED BY <1>4, <2>1, <2>2, <2>3 DEF Recover, RecoverInterruptedUpdate
<1>5. CASE ConfirmRunningImage(phase)
    BY <1>5, OwnedReset
    DEF ConfirmRunningImage, Commit, ClearingCalls, BootCalls
<1> QED BY <1>1, <1>2, <1>3, <1>4, <1>5

(* secure_boot_boot ends busy with a commit, or leaves the boot loader.      *)
LEMMA BootLeaves ==
    ASSUME Inv, BootCall \/ ContinueBoot
    PROVE  \/ call' \in BootCalls /\ UNCHANGED phase
           \/ call' = "none" /\ phase' # "ready"
<1>1. ASSUME NEW selected \in Slots, NEW status, NEW generation, NEW source,
             BootInto(selected, status, generation, source)
      PROVE  \/ call' \in BootCalls /\ UNCHANGED phase
             \/ call' = "none" /\ phase' # "ready"
    BY <1>1 DEF BootInto, BootCalls, Slots, AppSlots
<1>2. CASE BootTrial \/ BootExpiredTrial
    BY <1>2 DEF BootTrial, BootExpiredTrial, Commit, BootCalls
<1>3. CASE BootWithoutTrial
    <2>1. BootSelection(Status) \in Slots
        BY StatusType, SelectionType DEF Inv, TypeOK
    <2> QED BY <1>1, <1>3, <2>1 DEF BootWithoutTrial
<1>4. CASE ContinueBoot
    <2>1. write.contents \in BootStatus
        BY DEF Inv, TypeOK, ApiTypeOK, Journal!TypeOK, Journal!WriteRecord
    <2>2. /\ write.contents.trial_slot \in Slots
          /\ write.contents.active_slot \in Slots
          /\ BootSelection(write.contents) \in Slots
        BY <2>1, SelectionType DEF BootStatus
    <2> QED BY <1>1, <1>4, <2>2 DEF ContinueBoot
<1> QED BY <1>2, <1>3, <1>4 DEF BootCall

(* What secure_boot_boot writes has no marker when what it found has none.   *)
LEMMA BootRecords ==
    ASSUME NEW status \in BootStatus, Unmarked(status)
    PROVE  /\ Unmarked(ExpireTrial(status))
           /\ Unmarked([status EXCEPT !.trial_boot_count = @ + 1])
           /\ \A slot : Unmarked([status EXCEPT !.active_slot = slot])
BY DEF ExpireTrial, Unmarked, BootStatus

LEMMA OwnedBootInto ==
    ASSUME Inv, NEW selected \in Slots, NEW status \in BootStatus, NEW generation,
           NEW source \in Pages \cup {"NONE"},
           BootInto(selected, status, generation, source), Unmarked(Status), Unmarked(status),
           \A p \in Pages : p # Journal!CommitPage(source) /\ pages[p].valid =>
               Unmarked(pages[p].contents)
    PROVE  MarkerOwned'
<1>1. CASE Journal!CommitFrom([status EXCEPT !.active_slot = selected], generation, source)
           /\ call' = "boot_active"
    <2>1. /\ write'.source = source /\ UNCHANGED pages /\ Status' = Status
          /\ write'.contents = [status EXCEPT !.active_slot = selected]
        BY <1>1, SamePages DEF Journal!CommitFrom
    <2>2. Unmarked([status EXCEPT !.active_slot = selected])
        BY BootRecords
    <2> QED
        BY <1>1, <2>1, <2>2
        DEF MarkerOwned, ClearingCalls, Unmarked, Journal!CommitPage
<1>2. CASE call' = "none" /\ phase' # "ready"
    BY <1>2, OwnedReset DEF ClearingCalls, BootCalls
<1> QED BY <1>1, <1>2 DEF BootInto, Slots, AppSlots

(* A boot is started when no update is under way, so it finds no marker.     *)
LEMMA OwnedBoot ==
    ASSUME Inv, ProgressOK, MarkerOwned,
           (\E tx_idle \in BOOLEAN : PollBoot(tx_idle)) \/ BootContinues
    PROVE  MarkerOwned'
<1>0. ApiTypeOK
    BY DEF Inv, TypeOK
<1>1. CASE \E tx_idle \in BOOLEAN : PollBoot(tx_idle)
    <2>1. BootCall /\ Unmarked(Status)
        BY <1>1 DEF PollBoot, Idle, MarkerOwned, Updating
    <2>2. /\ Status \in BootStatus /\ Journal!Source \in Pages \cup {"NONE"}
          /\ BootSelection(Status) \in Slots
        BY <1>0, StatusType, SelectionType
    <2>3. CASE BootTrial
        <3>1. /\ [Status EXCEPT !.trial_boot_count = @ + 1] \in BootStatus
              /\ Unmarked([Status EXCEPT !.trial_boot_count = @ + 1])
            BY <2>1, <2>2, UpdateType, BootRecords DEF Slots
        <3> QED
            BY <2>1, <2>3, <3>1, OwnedCommit DEF BootTrial, ClearingCalls
    <2>4. CASE BootExpiredTrial
        <3>1. ExpireTrial(Status) \in BootStatus /\ Unmarked(ExpireTrial(Status))
            BY <2>1, <2>2, UpdateType, BootRecords DEF Slots
        <3> QED
            BY <2>1, <2>4, <3>1, OwnedCommit DEF BootExpiredTrial, ClearingCalls
    <2>5. CASE BootWithoutTrial
        <3>1. \A p \in Pages :
                  p # Journal!CommitPage(Journal!Source) /\ pages[p].valid =>
                      Unmarked(pages[p].contents)
            BY <2>1
            DEF Status, Journal!Status, Journal!Source, Journal!CommitPage, Pages,
                Journal!Pages
        <3> QED BY <2>1, <2>2, <2>5, <3>1, OwnedBootInto DEF BootWithoutTrial
    <2> QED BY <2>1, <2>3, <2>4, <2>5 DEF BootCall
<1>2. CASE BootContinues
    <2>1. ContinueBoot /\ call \in BootCalls
        BY <1>2 DEF BootContinues, ProgressOK
    <2>2. /\ Unmarked(Status) /\ Unmarked(write.contents)
          /\ \A p \in Pages : p # Journal!CommitPage(write.source) /\ pages[p].valid =>
                 Unmarked(pages[p].contents)
        BY <2>1 DEF MarkerOwned
    <2>3. write.contents \in BootStatus /\ write.source \in Pages \cup {"NONE"}
        BY <1>0 DEF ApiTypeOK, Journal!TypeOK, Journal!WriteRecord, Pages
    <2>4. /\ write.contents.trial_slot \in Slots
          /\ write.contents.active_slot \in Slots
          /\ BootSelection(write.contents) \in Slots
        BY <2>3, SelectionType DEF BootStatus
    <2>5. \E selected \in Slots :
              BootInto(selected, write.contents, write.generation, write.source)
        BY <2>1, <2>4 DEF ContinueBoot
    <2> QED BY <2>2, <2>3, <2>5, OwnedBootInto
<1> QED BY <1>1, <1>2

(* A commit of secure_boot_boot has no marked record to uncover. *)
LEMMA OwnedBootCommit ==
    ASSUME Inv, MarkerOwned, call \in BootCalls, EraseStatusPage \/ ProgramStatusPage
    PROVE  MarkerOwned'
<1> DEFINE page == Journal!CommitPage(write.source)
<1>1. /\ Unmarked(write.contents)
      /\ \A p \in Pages : p # page /\ pages[p].valid => Unmarked(pages[p].contents)
    BY DEF MarkerOwned
<1>2. /\ UNCHANGED <<phase, call>> /\ page \in Pages
      /\ write'.contents = write.contents /\ write'.source = write.source
      /\ \A p \in Pages : p # page => pages'[p] = pages[p]
      /\ pages'[page].valid => pages'[page].contents = write.contents
    BY DEF EraseStatusPage, ProgramStatusPage, Journal!EraseStatusPage,
           Journal!ProgramStatusPage, Journal!CommitPage, Journal!ErasedPage, Pages,
           Journal!Pages, Inv, TypeOK, ApiTypeOK, Journal!TypeOK, Journal!WriteRecord
<1>3. \A p \in Pages : pages'[p].valid => Unmarked(pages'[p].contents)
    BY <1>1, <1>2
<1>4. Unmarked(Status)'
    BY <1>3
    DEF Unmarked, Status, Journal!Status, Journal!Source, DefaultStatus, Pages, Journal!Pages
<1>5. Journal!CommitPage(write'.source) = page
    BY <1>2
<1> QED
    BY <1>1, <1>2, <1>3, <1>4, <1>5
    DEF MarkerOwned, Unmarked, ClearingCalls, BootCalls, Journal!CommitPage

(* A commit that fails leaves what a load returns alone.                     *)
LEMMA OwnedCommitSteps ==
    ASSUME Inv, MarkerOwned,
           \/ CommitSteps
           \/ CommitFails /\ call \notin {"recover", "abort_update"}
    PROVE  MarkerOwned'
<1>1. /\ EraseStatusPage \/ ProgramStatusPage \/ StatusWriteFails
      /\ UNCHANGED <<phase, call>> /\ write.stage # "none"
      /\ write'.contents = write.contents /\ write'.source = write.source
    BY DEF CommitSteps, CommitFails, EraseStatusPage, ProgramStatusPage, StatusWriteFails,
           Journal!EraseStatusPage, Journal!ProgramStatusPage, Journal!StatusWriteFails,
           Journal!Writing, Inv, TypeOK, ApiTypeOK, Journal!TypeOK, Journal!WriteRecord
<1>2. call # "none"
    BY <1>1 DEF Inv, CallOK
<1>3. CASE call \in ClearingCalls
    <2>1. WinsNextLoad' /\ (write'.stage = "done" => Status' = write'.contents)
        BY <1>3, CommitOutcome DEF MarkerOwned, Inv, TypeOK
    <2>2. write'.stage = "failed" => call = "request_trial"
        BY <1>3
        DEF CommitSteps, CommitFails, EraseStatusPage, ProgramStatusPage,
            Journal!EraseStatusPage, Journal!ProgramStatusPage, ClearingCalls, Inv, TypeOK,
            ApiTypeOK, Journal!TypeOK, Journal!WriteRecord
    <2> QED BY <1>1, <1>3, <2>1, <2>2 DEF MarkerOwned, ClearingCalls, BootCalls
<1>4. CASE call \in BootCalls /\ StatusWriteFails
    <2>1. UNCHANGED pages /\ Status' = Status
        BY <1>4, SamePages DEF StatusWriteFails, Journal!StatusWriteFails
    <2> QED
        BY <1>1, <1>4, <2>1
        DEF MarkerOwned, Unmarked, ClearingCalls, BootCalls, Journal!CommitPage
<1>5. CASE call \in BootCalls /\ ~StatusWriteFails
    BY <1>1, <1>5, OwnedBootCommit
<1>6. CASE call \notin ClearingCalls \cup BootCalls
    BY <1>1, <1>2, <1>6, OwnedReset
<1> QED BY <1>3, <1>4, <1>5, <1>6

(* Unless a commit that clears a marker fails, the marker stays owned. *)
LEMMA OwnedStep ==
    ASSUME Inv, ProgressOK, MarkerOwned, [Next]_vars,
           ~ (CommitFails /\ call \in {"recover", "abort_update"})
    PROVE  MarkerOwned'
<1>1. CASE UNCHANGED vars
    BY <1>1, OwnedRest DEF vars, apiVars, controllerVars, Updating
<1>2. CASE Packet
    BY <1>2, OwnedPacket
<1>3. CASE Work
    BY <1>3, OwnedSlotWork, OwnedReturns, OwnedCalls, OwnedBoot, OwnedCommitSteps DEF Work
<1>4. CASE \E tx_idle \in BOOLEAN : Poll(tx_idle)
    <2>1. CASE PollUpdateTimeout
        BY <2>1, OwnedGiveUp DEF PollUpdateTimeout
    <2>2. CASE PollStartupTimeout
        BY <2>2, OwnedRest DEF PollStartupTimeout, apiVars, Updating
    <2>3. CASE \E tx_idle \in BOOLEAN : PollBoot(tx_idle)
        BY <2>3, OwnedBoot
    <2> QED BY <1>4, <2>1, <2>2, <2>3 DEF Poll
<1>5. CASE TimePasses
    BY <1>5, OwnedRest DEF TimePasses, apiVars, Updating
<1>6. CASE Confirm
    BY <1>6, OwnedReturns, OwnedCalls DEF Confirm
<1>7. CASE Crash
    BY <1>7, OwnedReset DEF Crash, PowerLoss, ClearingCalls, BootCalls
<1>8. CASE FlashError
    <2>1. CASE EraseFails
        BY <2>1, OwnedAbort DEF EraseFails
    <2>2. CASE CommitFails
        BY <2>2, OwnedCommitSteps
    <2> QED BY <1>8, <2>1, <2>2, OwnedSlotWork DEF FlashError
<1> QED BY <1>1, <1>2, <1>3, <1>4, <1>5, <1>6, <1>7, <1>8 DEF Next

(* A reset forgets the failure, and with it the call that met it. *)
LEMMA ResetStep ==
    ASSUME Inv, ProgressOK, Next, phase # "recover", phase' = "recover"
    PROVE  MarkerOwned'
<1>1. CASE Crash \/ OnReset
    BY <1>1, OwnedReset DEF Crash, OnReset, PowerLoss, ClearingCalls, BootCalls
<1>2. CASE BootCall \/ ContinueBoot
    <2>1. call' = "none"
        BY <1>2, BootLeaves
    <2> QED BY <2>1, OwnedReset DEF BootCalls, ClearingCalls
<1>3. CASE Return
    BY <1>3 DEF Return
<1> QED
    <2> USE DEF apiVars
    <2>1. CASE Packet
        BY <1>1, <2>1
        DEF Packet, OnUpdateBegin, OnMislinkedChunk, OnFirstChunk, BeginUpdate, OnNextChunk,
            OnUpdateEnd, OnUpdateAbort, GiveUp, AbortUpdate, Commit, OnBootNow, OnQuery,
            OnRefusedPacket
    <2>2. CASE Work
        BY <1>2, <1>3, <2>2
        DEF Work, ChunkMarked, StartErase, FinishErase, ChunkAborted, WriteChunk, DeferByte,
            HardFault, Flush, VerifyTransfer, UpdateCommitting, StartManifest, FinishManifest,
            PutTransferOnTrial, UpdateAccepted, TrialNotRecorded, UpdateFailed,
            UpdateFailureReported, GivenUp, BootContinues, BootFails, Recover, Recovered,
            CommitSteps, EraseStatusPage, ProgramStatusPage, Succeeded, Failed,
            StartSlotErase, FinishSlotErase, ProgramImage, ProgramManifest, WriteSlot,
            MarkUpdateCommitting, RequestTrial, AbortUpdate, Commit, RecoverInterruptedUpdate
    <2>3. CASE \E tx_idle \in BOOLEAN : Poll(tx_idle)
        BY <1>2, <2>3
        DEF Poll, PollUpdateTimeout, GiveUp, AbortUpdate, Commit, PollStartupTimeout, PollBoot
    <2>4. CASE FlashError
        BY <2>4
        DEF FlashError, EraseFails, WriteFails, DeferredByteLost, FlushFails, ManifestFails,
            CommitFails, StatusWriteFails, AbortUpdate, Commit, ProgramImage, WriteSlot
    <2>5. CASE TimePasses \/ Confirm \/ Crash
        BY <1>1, <1>3, <2>5 DEF TimePasses, Confirm, ConfirmRunningImage, Commit
    <2> QED BY <2>1, <2>2, <2>3, <2>4, <2>5 DEF Next

LEMMA ProgressStep ==
    ASSUME Inv, ProgressOK, [Next]_vars
    PROVE  ProgressOK'
<1> USE DEF Continue, Finish, EndHandlers
<1>1. CASE UNCHANGED vars
    BY <1>1 DEF vars, apiVars, controllerVars, ProgressOK
<1>2. CASE Packet
    BY <1>2
    DEF Packet, OnUpdateBegin, OnMislinkedChunk, OnFirstChunk, OnNextChunk, InSequence,
        OnUpdateEnd, OnUpdateAbort, GiveUp, OnBootNow, ScheduleBoot, OnReset,
        StartController, OnQuery, OnRefusedPacket, Idle, ProgressOK
<1>3. CASE (\E tx_idle \in BOOLEAN : PollBoot(tx_idle)) \/ BootContinues
    <2>1. state = "BOOT_PENDING" /\ LeaveOrContinue /\ call' \in BootCalls \cup {"none"}
        BY <1>3, BootLeaves DEF PollBoot, BootContinues, Inv, StateOK
    <2> QED BY <2>1 DEF LeaveOrContinue, StartController, ProgressOK
<1>4. CASE Work /\ ~BootContinues
    BY <1>4
    DEF Work, ChunkMarked, StartErase, FinishErase, ChunkAborted, WriteChunk, DeferByte,
        HardFault, Flush, VerifyTransfer, UpdateCommitting, StartManifest, FinishManifest,
        PutTransferOnTrial, UpdateAccepted, TrialNotRecorded, UpdateFailed,
        UpdateFailureReported, GivenUp, BootFails, Recover, Recovered, ScheduleBoot,
        CommitSteps, EraseStatusPage, ProgramStatusPage, controllerVars, ProgressOK, Inv,
        CallOK, StateOK, BootCalls, RecoverInterruptedUpdate
<1>5. CASE PollUpdateTimeout \/ PollStartupTimeout \/ TimePasses
    BY <1>5
    DEF PollUpdateTimeout, GiveUp, PollStartupTimeout, ScheduleBoot, TimePasses, Idle,
        ProgressOK
<1>6. CASE FlashError
    BY <1>6
    DEF FlashError, EraseFails, WriteFails, DeferredByteLost, FlushFails, ManifestFails,
        CommitFails, StatusWriteFails, controllerVars, ProgressOK, Inv, StateOK
<1>7. CASE Confirm \/ Crash
    BY <1>7
    DEF Confirm, ConfirmRunningImage, Commit, AppSlots, Crash, StartController,
        controllerVars, ProgressOK, Inv, CallOK, BootCalls
<1> QED BY <1>1, <1>2, <1>3, <1>4, <1>5, <1>6, <1>7 DEF Next, Poll

LEMMA HistoryInvariance ==
    HistorySpec => [](Inv /\ ProgressOK /\ (~clearing_failed => MarkerOwned))
<1> DEFINE HistoryInv == Inv /\ ProgressOK /\ (~clearing_failed => MarkerOwned)
<1>1. HistoryInit => HistoryInv
    BY InitInv
    DEF HistoryInit, Init, ApiInit, Journal!Init, Journal!NoWrite, ProgressOK, MarkerOwned,
        ClearingCalls, BootCalls, EndHandlers
<1>2. HistoryInv /\ [Next /\ RecordFailure]_<<vars, clearing_failed>> => HistoryInv'
    <2> SUFFICES ASSUME HistoryInv, [Next /\ RecordFailure]_<<vars, clearing_failed>>
                 PROVE  HistoryInv'
        OBVIOUS
    <2>1. [Next]_vars
        OBVIOUS
    <2>2. Inv' /\ ProgressOK'
        BY <2>1, NextInv, ProgressStep
    <2>3. ASSUME ~clearing_failed' PROVE MarkerOwned'
        <3>1. CASE UNCHANGED <<vars, clearing_failed>>
            BY <2>3, <3>1, OwnedRest DEF vars, apiVars, controllerVars, Updating
        <3>2. CASE Next /\ RecordFailure
            <4>1. /\ ~ (CommitFails /\ call \in {"recover", "abort_update"})
                  /\ ~clearing_failed \/ (phase' = "recover" /\ phase # "recover")
                BY <2>3, <3>2 DEF RecordFailure
            <4> QED BY <3>2, <4>1, OwnedStep, ResetStep
        <3> QED BY <3>1, <3>2
    <2> QED BY <2>2, <2>3
<1> QED BY <1>1, <1>2, PTL DEF HistorySpec
-----------------------------------------------------------------------------
LEMMA Invariance == Spec => []Inv
BY InitInv, NextInv, PTL DEF Spec

(* The variables of boot_controller.c and of Flash keep their types through *)
(* every packet, power loss and Flash error.                                *)
THEOREM TypeCorrect == Spec => []TypeOK
<1>1. Inv => TypeOK
    BY DEF Inv
<1> QED BY <1>1, Invariance, PTL

(* No byte of an image reaches Flash before the RECEIVING marker of its     *)
(* slot is on record (boot_prepare_flash_target), whatever fails on the way.*)
THEOREM WriterMarked == Spec => []WriterIsMarked
<1>1. Inv => WriterIsMarked
    BY DEF Inv, MarkerOK, Marker, WriterReady, WriterIsMarked
<1> QED BY <1>1, Invariance, PTL

(* No abort, timeout, failed erase, chunk, verification or commit, and no   *)
(* reset, leaves a RECEIVING marker behind that would make                  *)
(* secure_boot_select_update_slot refuse the next update; unless the Flash  *)
(* fails in the very commit that clears the marker.                         *)
THEOREM MarkerFollows == HistorySpec => []MarkerFollowsTransfer
<1>1. Inv /\ ProgressOK /\ (~clearing_failed => MarkerOwned) => MarkerFollowsTransfer
    BY DEF MarkerOwned, Unmarked, MarkerFollowsTransfer, ProgressOK, EndHandlers, Idle,
           Updating
<1> QED BY <1>1, HistoryInvariance, PTL

(* An acknowledged UPDATE_END cannot be lost by a power loss that follows:   *)
(* the signed image, its manifest and its trial are on record by then.      *)
THEOREM AcknowledgedDurable == Spec => AcknowledgedUpdateIsDurable
<1>1. ASSUME Inv, Durable, [Next]_vars,
             state = "VERIFYING", reply' = Acknowledged
      PROVE  /\ Status'.trial_slot = transfer.target_slot
             /\ slots'[transfer.target_slot] = [image |-> transfer.image,
                                                manifest |-> transfer.image]
             /\ transfer.signed
             /\ state' = "BOOT_PENDING"
    <2>1. UpdateAccepted
        BY <1>1, ReplyStep DEF Durable, Updating
    <2>2. /\ handler = "end_requested" /\ write.stage = "done" /\ state' = "BOOT_PENDING"
          /\ Status' = Status /\ UNCHANGED slots
        BY <1>1, <2>1, ReturnEffect
        DEF UpdateAccepted, Succeeded, ScheduleBoot, Inv, TypeOK
    <2>3. /\ Status.trial_slot = transfer.target_slot /\ transfer.signed
          /\ slots[transfer.target_slot].image = transfer.image
          /\ slots[transfer.target_slot].manifest = transfer.image
        BY <1>1, <2>2 DEF Durable, SignedHandlers
    <2>4. slots[transfer.target_slot] \in SlotContents
        BY <1>1, <2>2 DEF Inv, TypeOK, ApiTypeOK, TransferOK, EndHandlers, StateOK, Updating
    <2> QED BY <2>2, <2>3, <2>4 DEF SlotContents
<1>2. Inv /\ Durable /\ [Next]_vars =>
          [state = "VERIFYING" /\ reply' = [report |-> "ACK", command |-> "UPDATE_END"] =>
            /\ Status'.trial_slot = transfer.target_slot
            /\ slots'[transfer.target_slot] = [image |-> transfer.image,
                                               manifest |-> transfer.image]
            /\ transfer.signed
            /\ state' = "BOOT_PENDING"]_vars
    BY <1>1 DEF Acknowledged
<1>3. Spec => []Inv /\ []Durable
    BY Invariance, InitDurable, DurableStep, PTL DEF Spec
<1> QED BY <1>2, <1>3, PTL DEF Spec, AcknowledgedUpdateIsDurable

(* boot_controller.c is a client that keeps the contract of secure_boot.h:  *)
(* every step it takes is one module SecureBoot allows a client, so what    *)
(* SecureBootProofs proves of the policy holds for the device.              *)
THEOREM ControllerImplementsPolicy == Spec => ImplementsPolicy
<1>1. Spec => Policy!Init /\ [][Policy!Next]_(Policy!vars)
    BY Invariance, InitMaps, StepMaps, PTL DEF Spec
<1> QED BY <1>1 DEF ImplementsPolicy, Policy!Spec
=============================================================================
