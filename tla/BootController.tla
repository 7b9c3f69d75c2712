--------------------------- MODULE BootController ---------------------------
(***************************************************************************)
(* boot_controller.c: the firmware update protocol, and the client of the  *)
(* secure boot policy.  The main loop hands over one packet or one poll at *)
(* a time; a handler that changes Flash takes several steps here, because  *)
(* power can fail and the Flash can refuse between any two of them.        *)
(*                                                                         *)
(* Simplifications:                                                        *)
(*   - an image is ImageSize units of any number of bytes; its vector      *)
(*     table is in the first, and no two images have a unit in common;     *)
(*   - last_result and the status reports only inform the host: of what    *)
(*     is sent, `reply` keeps the answer to the last packet;               *)
(*   - state_timer and force_boot_timer are one clock: past its first      *)
(*     deadline it has "expired", past BOOT_JUMP_MAX_WAIT_MS also          *)
(*     "overdue".  A wait may take any time, deadlines keep their order.   *)
(***************************************************************************)
EXTENDS SecureBootApi

CONSTANTS
    ImageSize,       \* units in an image
    FlashMayFail     \* whether the Flash driver may report errors

ASSUME ImageSizeAssumption == ImageSize \in Nat \ {0}
ASSUME FlashAssumption == FlashMayFail \in BOOLEAN

VARIABLES
    state,       \* boot_controller_state_t
    handler,     \* where the handler in progress goes on, or "none"
    transfer,    \* the update being received
    chunk,       \* the UPDATE_CHUNK being handled
    timer,       \* "running", "expired" or "overdue"
    reply        \* the last answer to the host

controllerVars == <<state, handler, transfer, chunk, timer, reply>>
vars == <<apiVars, controllerVars>>

ControllerStates == {"WAIT_UPDATE", "RECEIVING", "VERIFYING", "BOOT_PENDING", "RECOVERY"}

Handlers == {"none", "chunk_begin", "chunk_erase", "chunk_abort", "chunk_write",
             "end_flush", "end_verify", "end_committing", "end_manifest", "end_trial",
             "end_requested", "end_failed", "end_abort", "abort", "timeout", "boot",
             "hung"}

Commands == {"STATUS", "SLOT_INFO", "BOOT_NOW", "RESET", "UPDATE_BEGIN",
             "UPDATE_CHUNK", "UPDATE_END", "UPDATE_ABORT", "UNKNOWN"}

(* A command the handlers know no reason to refuse. *)
NeverRefused == {"STATUS", "UPDATE_ABORT"}

Reply == [report : {"BOOT", "ACK", "NACK", "STATUS", "SLOT_INFO"}, command : Commands]

Chunk == [offset : 0 .. ImageSize, length : 0 .. ImageSize, image : Images]

NoChunk == [offset |-> 0, length |-> 0, image |-> Blank]

(* What UPDATE_BEGIN declared and what came since.  `streamed` is the image *)
(* the bytes received so far belong to (the streaming hash), `programmed`   *)
(* the image the Flash writer has put together from them.  `alignment` is   *)
(* where the writer's next half-word goes: to an even address, as it must;  *)
(* or, after it lost the byte it had deferred, to an odd one ("odd"), also  *)
(* when it has deferred another byte since ("odd_deferred").                *)
Transfer == [image : Images \cup {Blank},
             signed : BOOLEAN,
             target_slot : Slots,
             writer_slot : Slots,
             received : 0 .. ImageSize,
             streamed : Images \cup {Blank, Partial},
             programmed : Images \cup {Blank, Partial},
             alignment : {"even", "odd", "odd_deferred"}]

(* boot_reset_transfer *)
NoTransfer == [image |-> Blank, signed |-> FALSE, target_slot |-> "NONE",
               writer_slot |-> "NONE", received |-> 0,
               streamed |-> Blank, programmed |-> Blank, alignment |-> "even"]

TypeOK ==
    /\ ApiTypeOK
    /\ state \in ControllerStates
    /\ handler \in Handlers
    /\ transfer \in Transfer
    /\ chunk \in Chunk \cup {NoChunk}
    /\ timer \in {"running", "expired", "overdue"}
    /\ reply \in Reply

-----------------------------------------------------------------------------
(* boot_controller_init, up to the call of the recovery. *)
StartController ==
    /\ state' = "WAIT_UPDATE"
    /\ handler' = "none"
    /\ transfer' = NoTransfer
    /\ chunk' = NoChunk
    /\ timer' = "running"
    /\ reply' = [report |-> "BOOT", command |-> "STATUS"]

Init ==
    /\ ApiInit
    /\ state = "WAIT_UPDATE"
    /\ handler = "none"
    /\ transfer = NoTransfer
    /\ chunk = NoChunk
    /\ timer = "running"
    /\ reply = [report |-> "BOOT", command |-> "STATUS"]

(* The main loop is between two handlers. *)
Idle == phase = "ready" /\ call = "none" /\ handler = "none"

Updating == state \in {"RECEIVING", "VERIFYING"}

Answer(report, command) == reply' = [report |-> report, command |-> command]

(* A handler ends: with an answer, and without waiting for anything. *)
Finish(report, command) ==
    /\ handler' = "none"
    /\ chunk' = NoChunk
    /\ Answer(report, command)

(* A handler goes on at another point. *)
Continue(next) == handler' = next /\ UNCHANGED <<chunk, reply>>

(* The call the handler waits for returned: SECURE_BOOT_OK, or an error. *)
Succeeded == Return /\ write.stage = "done"
Failed == Return /\ write.stage = "failed"

ScheduleBoot == state' = "BOOT_PENDING" /\ timer' = "running"

-----------------------------------------------------------------------------
(* UPDATE_BEGIN *)

OnUpdateBegin(image, signed) ==
    /\ Idle
    /\ state \in {"WAIT_UPDATE", "RECOVERY"}
    /\ MaySelectUpdateSlot
    /\ transfer' = [NoTransfer EXCEPT !.image = image, !.signed = signed,
                                      !.target_slot = SelectedUpdateSlot]
    /\ state' = "RECEIVING"
    /\ timer' = "running"
    /\ Answer("ACK", "UPDATE_BEGIN")
    /\ UNCHANGED <<apiVars, handler, chunk>>

(* STATUS is always answered, SLOT_INFO while no update is received. *)
OnQuery(report) ==
    /\ Idle
    /\ Updating => report = "STATUS"
    /\ Answer(report, report)
    /\ UNCHANGED <<apiVars, state, handler, transfer, chunk, timer>>

(* Every refusal that leaves all but last_result alone: a frame the parser  *)
(* rejects, a packet of the wrong length or out of turn, a chunk out of     *)
(* sequence, an unknown command.                                            *)
OnRefusedPacket(command) ==
    /\ Idle
    /\ Answer("NACK", command)
    /\ UNCHANGED <<apiVars, state, handler, transfer, chunk, timer>>

-----------------------------------------------------------------------------
(* UPDATE_CHUNK *)

(* Mutant of InSequence: the end of the image is not checked. *)
InSequenceUnbounded(received) ==
    /\ state = "RECEIVING"
    /\ received.offset = transfer.received
    /\ received.length # 0

InSequence(received) ==
    /\ state = "RECEIVING"
    /\ received.offset = transfer.received
    /\ received.length # 0
    /\ received.length <= ImageSize - transfer.received

(* boot_vector_matches_slot: on the first chunk, which tells where the      *)
(* image is linked.                                                         *)
OnMislinkedChunk(received) ==
    /\ Idle
    /\ InSequence(received)
    /\ transfer.writer_slot = "NONE"
    /\ received.image.linked_slot # transfer.target_slot
    /\ Answer("NACK", "UPDATE_CHUNK")
    /\ UNCHANGED <<apiVars, state, handler, transfer, chunk, timer>>

(* boot_prepare_flash_target puts the marker on record before the erase. *)
OnFirstChunk(received) ==
    /\ Idle
    /\ InSequence(received)
    /\ transfer.writer_slot = "NONE"
    /\ received.image.linked_slot = transfer.target_slot
    /\ \/ /\ BeginUpdate(transfer.target_slot)
          /\ handler' = "chunk_begin"
          /\ chunk' = received
          /\ UNCHANGED reply
       \/ /\ Status.update_state # "IDLE"
          /\ Answer("NACK", "UPDATE_CHUNK")
          /\ UNCHANGED <<apiVars, handler, chunk>>
    /\ UNCHANGED <<state, transfer, timer>>

OnNextChunk(received) ==
    /\ Idle
    /\ InSequence(received)
    /\ transfer.writer_slot # "NONE"
    /\ handler' = "chunk_write"
    /\ chunk' = received
    /\ UNCHANGED <<apiVars, state, transfer, timer, reply>>

ChunkMarked ==
    /\ handler = "chunk_begin"
    /\ \/ Succeeded /\ Continue("chunk_erase")
       \/ Failed /\ Finish("NACK", "UPDATE_CHUNK")
    /\ UNCHANGED <<state, transfer, timer>>

StartErase ==
    /\ handler = "chunk_erase"
    /\ slots[transfer.target_slot].image # Partial
    /\ StartSlotErase(transfer.target_slot)
    /\ UNCHANGED controllerVars

(* boot_flash_writer_begin once the whole slot is blank. *)
FinishErase ==
    /\ handler = "chunk_erase"
    /\ FinishSlotErase(transfer.target_slot)
    /\ transfer' = [transfer EXCEPT !.writer_slot = transfer.target_slot]
    /\ Continue("chunk_write")
    /\ UNCHANGED <<state, timer>>

(* Mutant of EraseFails: the transfer goes on although the marker is cleared. *)
EraseFailsUnnoticed ==
    /\ FlashMayFail
    /\ handler = "chunk_erase"
    /\ AbortUpdate
    /\ transfer' = [transfer EXCEPT !.writer_slot = transfer.target_slot]
    /\ Continue("chunk_abort")
    /\ UNCHANGED <<state, timer>>

(* The marker is cleared again; the state stays RECEIVING. *)
EraseFails ==
    /\ FlashMayFail
    /\ handler = "chunk_erase"
    /\ AbortUpdate
    /\ Continue("chunk_abort")
    /\ UNCHANGED <<state, transfer, timer>>

(* The result of secure_boot_abort_update is dropped. *)
ChunkAborted ==
    /\ handler = "chunk_abort"
    /\ Return
    /\ Finish("NACK", "UPDATE_CHUNK")
    /\ UNCHANGED <<state, transfer, timer>>

(* An image continued with a unit of `image`. *)
Extended(image, unit) == IF image \in {Blank, unit} THEN unit ELSE Partial

(* boot_flash_writer_write holds back an odd last byte until the flush. *)
WriteChunk ==
    /\ handler = "chunk_write"
    /\ transfer.alignment = "even"
    /\ LET received == transfer.received + chunk.length
           programmed == Extended(transfer.programmed, chunk.image)
           complete == IF received = ImageSize THEN {programmed} ELSE {}
       IN  /\ \E image \in {Partial} \cup complete :
                  ProgramImage(transfer.writer_slot, image)
           /\ transfer' = [transfer EXCEPT
                  !.received = received,
                  !.streamed = Extended(@, chunk.image),
                  !.programmed = programmed]
    /\ timer' = "running"
    /\ Finish("ACK", "UPDATE_CHUNK")
    /\ UNCHANGED state

(* The chunk was not counted; its first half-words may be in Flash. *)
WriteFails ==
    /\ FlashMayFail
    /\ handler = "chunk_write"
    /\ transfer.alignment = "even"
    /\ \/ UNCHANGED <<apiVars, transfer>>
       \/ /\ ProgramImage(transfer.writer_slot, Partial)
          /\ transfer' = [transfer EXCEPT !.programmed = Partial]
    /\ Finish("NACK", "UPDATE_CHUNK")
    /\ UNCHANGED <<state, timer>>

(* The byte an earlier chunk left was programmed before a later half-word   *)
(* failed: it is not deferred any more, and not counted as programmed.      *)
DeferredByteLost ==
    /\ FlashMayFail
    /\ handler = "chunk_write"
    /\ transfer.alignment = "even"
    /\ transfer.received > 0
    /\ ProgramImage(transfer.writer_slot, Partial)
    /\ transfer' = [transfer EXCEPT !.programmed = Partial, !.alignment = "odd"]
    /\ Finish("NACK", "UPDATE_CHUNK")
    /\ UNCHANGED <<state, timer>>

(* A chunk of one byte, with nothing deferred, programs nothing. *)
DeferByte ==
    /\ handler = "chunk_write"
    /\ transfer.alignment = "odd"
    /\ chunk.length = 1
    /\ transfer' = [transfer EXCEPT !.received = @ + 1,
                                    !.streamed = Extended(@, chunk.image),
                                    !.alignment = "odd_deferred"]
    /\ timer' = "running"
    /\ Finish("ACK", "UPDATE_CHUNK")
    /\ UNCHANGED <<apiVars, state>>

(* A half-word store to an odd address: a bus fault, and HardFault_Handler  *)
(* loops for ever.  Interrupts of the UART and the timer have a lower       *)
(* priority; only a reset ends it.                                          *)
HardFault ==
    /\ \/ handler = "chunk_write" /\ transfer.alignment # "even"
       \/ handler = "end_flush" /\ transfer.alignment = "odd_deferred"
    /\ Continue("hung")
    /\ UNCHANGED <<apiVars, state, transfer, timer>>

HardFaulted == handler = "hung"

-----------------------------------------------------------------------------
(* UPDATE_END *)

OnUpdateEnd ==
    /\ Idle
    /\ state = "RECEIVING"
    /\ transfer.target_slot # "NONE"
    /\ transfer.received = ImageSize
    /\ state' = "VERIFYING"
    /\ Continue("end_flush")
    /\ UNCHANGED <<apiVars, transfer, timer>>

Flush ==
    /\ handler = "end_flush"
    /\ transfer.alignment # "odd_deferred"
    /\ \/ /\ slots[transfer.writer_slot].image = transfer.programmed
          /\ UNCHANGED apiVars
       \/ ProgramImage(transfer.writer_slot, transfer.programmed)
    /\ Continue("end_verify")
    /\ UNCHANGED <<state, transfer, timer>>

FlushFails ==
    /\ FlashMayFail
    /\ handler = "end_flush"
    /\ transfer.alignment # "odd_deferred"
    /\ Continue("end_failed")
    /\ UNCHANGED <<apiVars, state, transfer, timer>>

(* Mutant of Authentic: a hash that matches is enough. *)
AuthenticUnsigned == transfer.streamed = transfer.image

(* The hash the host declared is that of the bytes received, and            *)
(* crypto_manager_build_signed_manifest accepts the signature.              *)
Authentic == transfer.streamed = transfer.image /\ transfer.signed

(* boot_commit_verified_update checks, and puts COMMITTING on record. *)
VerifyTransfer ==
    /\ handler = "end_verify"
    /\ \/ /\ Authentic
          /\ MarkUpdateCommitting(transfer.target_slot)
          /\ Continue("end_committing")
       \/ /\ ~Authentic
          /\ UNCHANGED apiVars
          /\ Continue("end_failed")
    /\ UNCHANGED <<state, transfer, timer>>

(* Mutant of UpdateCommitting: the result of the commit is not looked at. *)
UpdateCommittingUnchecked ==
    /\ handler = "end_committing"
    /\ Return
    /\ Continue("end_manifest")
    /\ UNCHANGED <<state, transfer, timer>>

UpdateCommitting ==
    /\ handler = "end_committing"
    /\ \/ Succeeded /\ Continue("end_manifest")
       \/ Failed /\ Continue("end_failed")
    /\ UNCHANGED <<state, transfer, timer>>

StartManifest ==
    /\ handler = "end_manifest"
    /\ slots[transfer.target_slot].manifest = Blank
    /\ ProgramManifest(transfer.target_slot, Partial)
    /\ UNCHANGED controllerVars

FinishManifest ==
    /\ handler = "end_manifest"
    /\ ProgramManifest(transfer.target_slot, transfer.image)
    /\ Continue("end_trial")
    /\ UNCHANGED <<state, transfer, timer>>

ManifestFails ==
    /\ FlashMayFail
    /\ handler = "end_manifest"
    /\ Continue("end_failed")
    /\ UNCHANGED <<apiVars, state, transfer, timer>>

(* secure_boot_request_trial, which verifies what Flash now holds. *)
PutTransferOnTrial ==
    /\ handler = "end_trial"
    /\ \/ /\ RequestTrial(transfer.target_slot)
          /\ Continue("end_requested")
       \/ /\ ~Acceptable(transfer.target_slot, Status.minimum_version)
          /\ UNCHANGED apiVars
          /\ Continue("end_failed")
    /\ UNCHANGED <<state, transfer, timer>>

UpdateAccepted ==
    /\ handler = "end_requested"
    /\ Succeeded
    /\ ScheduleBoot
    /\ Finish("ACK", "UPDATE_END")
    /\ UNCHANGED transfer

TrialNotRecorded ==
    /\ handler = "end_requested"
    /\ Failed
    /\ Continue("end_failed")
    /\ UNCHANGED <<state, transfer, timer>>

(* Mutant of UpdateFailed: the marker is not cleared. *)
UpdateFailedMarked ==
    /\ handler = "end_failed"
    /\ state' = "RECOVERY"
    /\ UNCHANGED apiVars
    /\ Finish("NACK", "UPDATE_END")
    /\ UNCHANGED <<transfer, timer>>

(* The end of boot_finish_update when the verification failed: the marker   *)
(* is cleared unless the commit had begun.                                  *)
UpdateFailed ==
    /\ handler = "end_failed"
    /\ state' = "RECOVERY"
    /\ \/ /\ Status.update_state # "COMMITTING"
          /\ AbortUpdate
          /\ Continue("end_abort")
       \/ /\ Status.update_state = "COMMITTING"
          /\ UNCHANGED apiVars
          /\ Finish("NACK", "UPDATE_END")
    /\ UNCHANGED <<transfer, timer>>

UpdateFailureReported ==
    /\ handler = "end_abort"
    /\ Return
    /\ Finish("NACK", "UPDATE_END")
    /\ UNCHANGED <<state, transfer, timer>>

-----------------------------------------------------------------------------
(* UPDATE_ABORT and the update timeout *)

(* boot_reset_transfer, then secure_boot_abort_update when a marker is set. *)
GiveUp(next, report, command) ==
    /\ transfer' = NoTransfer
    /\ \/ /\ AbortUpdate
          /\ Continue(next)
          /\ UNCHANGED state
       \/ /\ Status.update_state = "IDLE"
          /\ state' = "RECOVERY"
          /\ Finish(report, command)
          /\ UNCHANGED apiVars
    /\ UNCHANGED timer

OnUpdateAbort == Idle /\ GiveUp("abort", "ACK", "UPDATE_ABORT")

(* Mutant of PollUpdateTimeout: only the wait for the first chunk is limited. *)
PollUpdateTimeoutUnstarted ==
    /\ Idle
    /\ state = "RECEIVING"
    /\ timer # "running"
    /\ transfer.received = 0
    /\ GiveUp("timeout", "NACK", "UPDATE_END")

PollUpdateTimeout ==
    /\ Idle
    /\ state = "RECEIVING"
    /\ timer # "running"
    /\ GiveUp("timeout", "NACK", "UPDATE_END")

(* The result of secure_boot_abort_update is dropped. *)
GivenUp ==
    /\ \/ handler = "abort" /\ Finish("ACK", "UPDATE_ABORT")
       \/ handler = "timeout" /\ Finish("NACK", "UPDATE_END")
    /\ Return
    /\ state' = "RECOVERY"
    /\ UNCHANGED <<transfer, timer>>

-----------------------------------------------------------------------------
(* Booting *)

OnBootNow ==
    /\ Idle
    /\ ~Updating
    /\ ScheduleBoot
    /\ Answer("ACK", "BOOT_NOW")
    /\ UNCHANGED <<apiVars, handler, transfer, chunk>>

PollStartupTimeout ==
    /\ Idle
    /\ state = "WAIT_UPDATE"
    /\ timer # "running"
    /\ ScheduleBoot
    /\ UNCHANGED <<apiVars, handler, transfer, chunk, reply>>

(* secure_boot_boot is busy with a commit; otherwise it left the boot       *)
(* loader, for the application or (no valid image) through a system reset.  *)
LeaveOrContinue ==
    \/ /\ call' # "none"
       /\ Continue("boot")
       /\ UNCHANGED <<state, transfer, timer>>
    \/ /\ call' = "none"
       /\ StartController

(* Mutant of JumpDue: the boot waits for the transmitter, however long. *)
JumpDueWhenIdle(tx_idle) == timer # "running" /\ tx_idle

(* The delay is over, and the reports are sent or have had their time. *)
JumpDue(tx_idle) == timer = "overdue" \/ (timer = "expired" /\ tx_idle)

PollBoot(tx_idle) ==
    /\ Idle
    /\ state = "BOOT_PENDING"
    /\ JumpDue(tx_idle)
    /\ BootCall
    /\ LeaveOrContinue

BootContinues ==
    /\ handler = "boot"
    /\ ContinueBoot
    /\ LeaveOrContinue

BootFails ==
    /\ handler = "boot"
    /\ Failed
    /\ state' = "RECOVERY"
    /\ Finish("NACK", "STATUS")
    /\ UNCHANGED <<transfer, timer>>

-----------------------------------------------------------------------------
(* Around the controller *)

(* The RESET command. *)
OnReset == Idle /\ ~Updating /\ PowerLoss /\ StartController

Crash == PowerLoss /\ StartController

(* boot_controller_init: recovery runs before the first packet. *)
Recover == RecoverInterruptedUpdate /\ UNCHANGED controllerVars

Recovered == call = "recover" /\ Return /\ UNCHANGED controllerVars

(* The steps of a status commit, whoever waits for it. *)
CommitSteps == (EraseStatusPage \/ ProgramStatusPage) /\ UNCHANGED controllerVars

CommitFails == FlashMayFail /\ StatusWriteFails /\ UNCHANGED controllerVars

(* The application confirms itself. *)
Confirm ==
    /\ \/ ConfirmRunningImage(phase)
       \/ call = "confirm" /\ Return
    /\ UNCHANGED controllerVars

(* A deadline passes; deadlines are looked at between two handlers. *)
TimePasses ==
    /\ Idle
    /\ \/ /\ state \in {"WAIT_UPDATE", "RECEIVING", "BOOT_PENDING"}
          /\ timer = "running"
          /\ timer' = "expired"
       \/ /\ state = "BOOT_PENDING"
          /\ timer = "expired"
          /\ timer' = "overdue"
    /\ UNCHANGED <<apiVars, state, handler, transfer, chunk, reply>>

-----------------------------------------------------------------------------
Packet ==
    \/ \E image \in Images, signed \in BOOLEAN : OnUpdateBegin(image, signed)
    \/ \E received \in Chunk :
           \/ OnMislinkedChunk(received)
           \/ OnFirstChunk(received)
           \/ OnNextChunk(received)
    \/ OnUpdateEnd
    \/ OnUpdateAbort
    \/ OnBootNow
    \/ OnReset
    \/ \E report \in {"STATUS", "SLOT_INFO"} : OnQuery(report)
    \/ \E command \in Commands \ NeverRefused : OnRefusedPacket(command)

(* The packets that start an update or carry a part of its image: those     *)
(* that may restart its timeout.                                            *)
SendsImage ==
    \/ \E image \in Images, signed \in BOOLEAN : OnUpdateBegin(image, signed)
    \/ \E received \in Chunk : OnFirstChunk(received) \/ OnNextChunk(received)

(* The packets that are only answered. *)
OnlyAnswered ==
    \/ \E received \in Chunk : OnMislinkedChunk(received)
    \/ \E report \in {"STATUS", "SLOT_INFO"} : OnQuery(report)
    \/ \E command \in Commands \ NeverRefused : OnRefusedPacket(command)

(* What a handler, or the device before the main loop, does next. *)
Work ==
    \/ ChunkMarked
    \/ StartErase
    \/ FinishErase
    \/ ChunkAborted
    \/ WriteChunk
    \/ DeferByte
    \/ HardFault
    \/ Flush
    \/ VerifyTransfer
    \/ UpdateCommitting
    \/ StartManifest
    \/ FinishManifest
    \/ PutTransferOnTrial
    \/ UpdateAccepted
    \/ TrialNotRecorded
    \/ UpdateFailed
    \/ UpdateFailureReported
    \/ GivenUp
    \/ BootContinues
    \/ BootFails
    \/ Recover
    \/ Recovered
    \/ CommitSteps

(* boot_controller_poll *)
Poll(tx_idle) ==
    \/ PollUpdateTimeout
    \/ PollStartupTimeout
    \/ PollBoot(tx_idle)

FlashError ==
    \/ EraseFails
    \/ WriteFails
    \/ DeferredByteLost
    \/ FlushFails
    \/ ManifestFails
    \/ CommitFails

Next ==
    \/ Packet
    \/ Work
    \/ \E tx_idle \in BOOLEAN : Poll(tx_idle)
    \/ FlashError
    \/ TimePasses
    \/ Confirm
    \/ Crash

Spec == Init /\ [][Next]_vars

(* The processor runs what it has to do, the main loop polls, time passes.  *)
(* Neither the host nor the transmitter nor the application is fair.        *)
Fairness ==
    /\ WF_vars(Work)
    /\ WF_vars(Poll(FALSE))
    /\ WF_vars(TimePasses)

FairSpec == Spec /\ Fairness

(* A device left alone: no host, no power loss, no Flash error. *)
UndisturbedSpec ==
    /\ Init
    /\ [][Work \/ (\E tx_idle \in BOOLEAN : Poll(tx_idle)) \/ TimePasses]_vars
    /\ Fairness

-----------------------------------------------------------------------------
(* The controller is a client that keeps the contract of secure_boot.h:     *)
(* everything module SecureBoot promises holds for the device.              *)
Policy == INSTANCE SecureBoot WITH
    target <- IF Updating THEN transfer.target_slot ELSE "NONE"

ImplementsPolicy == Policy!Spec

(* When UPDATE_END is acknowledged, the image the host declared and signed  *)
(* is completely in the target slot and its trial is on record: a power     *)
(* loss right after the answer cannot lose the update.                      *)
AcknowledgedUpdateIsDurable ==
    [][state = "VERIFYING" /\ reply' = [report |-> "ACK", command |-> "UPDATE_END"] =>
        /\ Status'.trial_slot = transfer.target_slot
        /\ slots'[transfer.target_slot] = [image |-> transfer.image,
                                           manifest |-> transfer.image]
        /\ transfer.signed
        /\ state' = "BOOT_PENDING"]_vars

(* While the controller can take a chunk for the writer, the marker of the  *)
(* writer's slot is on record: no image byte reaches Flash unmarked.        *)
WriterIsMarked ==
    state = "RECEIVING" /\ transfer.writer_slot # "NONE" =>
        /\ Status.update_state = "RECEIVING"
        /\ Status.update_slot = transfer.writer_slot
        /\ transfer.writer_slot = transfer.target_slot

-----------------------------------------------------------------------------
(* Liveness. *)

NoImageSent == <>[][~SendsImage]_vars
NoCommand == <>[][Packet => OnlyAnswered]_vars
NoDisturbance == <>[][~FlashError /\ ~Crash]_vars

(* A host that goes away in the middle of an update, or goes on with other  *)
(* packets only, cannot keep the device in it: the transfer is given up or  *)
(* finished, whatever fails.  One way out is worse: the hard fault of a     *)
(* writer that has lost its deferred byte.                                  *)
UpdateEnds == NoImageSent => <>[](~Updating \/ HardFaulted)

(* Once the power is stable, the Flash works and the host gives no command, *)
(* a device with a bootable image ends up in the application or, after an   *)
(* update that failed, waits in RECOVERY, however often it is asked for its *)
(* status.  Again the hard fault is the exception: the Flash error before   *)
(* it may be long past.                                                     *)
DeviceSettles ==
    NoCommand /\ NoDisturbance /\ <>[]Policy!Bootable =>
        <>[](phase \in AppSlots \/ (Idle /\ state = "RECOVERY") \/ HardFaulted)

-----------------------------------------------------------------------------
(* What the documentation says, and the code does not do. *)

(* boot_controller.h: UPDATE_BEGIN can start a new recovery update from     *)
(* RECOVERY; README: a pending trial is the only reason to refuse one.      *)
RecoveryAcceptsUpdate ==
    Idle /\ state = "RECOVERY" /\ Status.trial_slot = "NONE" => MaySelectUpdateSlot

(* README: without a valid image BOOT_PENDING leads to RECOVERY, where the  *)
(* device stays for an update.                                              *)
EmptyDeviceWaits ==
    []~Policy!Bootable => <>(Idle /\ state = "RECOVERY")
=============================================================================
