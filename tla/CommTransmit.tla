----------------------------- MODULE CommTransmit -----------------------------
(***************************************************************************)
(* The transmitting half of comm_manager.c.  The main loop packs reports   *)
(* into the transmit queue; comm_control copies the oldest bytes into the  *)
(* active buffer and starts the UART, whose interrupts move the bytes to   *)
(* the line one by one and clear the busy flag.  An interrupt may strike   *)
(* between any two steps of comm_control.                                  *)
(*                                                                         *)
(* Only the main loop touches the queue, so it is a sequence here; that    *)
(* the ring behaves like one is what ByteQueue.tla shows.                  *)
(***************************************************************************)
EXTENDS Naturals, Sequences

CONSTANTS
    Bytes,
    Frames,         \* packed frames the main loop may queue
    Capacity,       \* UART_TX_QUEUE_SIZE - 1
    FrameLimit      \* COM_MAX_FRAME_SIZE, the size of the active buffer

ASSUME BytesAssumption == 0 \in Bytes
ASSUME LimitAssumption == Capacity \in Nat \ {0} /\ FrameLimit \in Nat \ {0}
ASSUME FramesAssumption ==
    \A frame \in Frames : frame \in Seq(Bytes) /\ Len(frame) \in 1 .. FrameLimit

VARIABLES
    tx_queue,       \* comm_tx_queue
    active,         \* comm_tx_active_buffer
    to_send,        \* local of comm_control
    step,           \* where comm_control is
    in_progress,    \* comm_tx_in_progress
    gState,         \* state of the UART driver
    pointer,        \* pTxBuffPtr, as an offset into the active buffer
    count,          \* TxXferCount
    sent            \* DR, the last byte put on the line

loop == <<tx_queue, active, to_send, step>>
uart == <<gState, pointer, count, sent>>
vars == <<loop, in_progress, uart>>

TypeOK ==
    /\ tx_queue \in Seq(Bytes) /\ Len(tx_queue) <= Capacity
    /\ active \in [1 .. FrameLimit -> Bytes]
    /\ to_send \in 0 .. FrameLimit
    /\ step \in {"idle", "peeked", "marked", "started"}
    /\ in_progress \in 0 .. 1
    /\ gState \in {"READY", "BUSY_TX"}
    /\ pointer \in 0 .. FrameLimit
    /\ count \in 0 .. FrameLimit
    /\ sent \in Bytes

Smaller(m, n) == IF m < n THEN m ELSE n

Init ==
    /\ tx_queue = <<>>
    /\ active = [i \in 1 .. FrameLimit |-> 0]
    /\ to_send = 0
    /\ step = "idle"
    /\ in_progress = 0
    /\ gState = "READY"
    /\ pointer = 0
    /\ count = 0
    /\ sent = 0

-----------------------------------------------------------------------------
(* comm_manager_send_data: the whole frame or nothing. *)
Send(frame) ==
    /\ step = "idle"
    /\ Len(frame) <= Capacity - Len(tx_queue)
    /\ tx_queue' = tx_queue \o frame
    /\ UNCHANGED <<active, to_send, step, in_progress, uart>>

(* It returns false, and its callers go on without the report. *)
SendRefused(frame) ==
    /\ step = "idle"
    /\ Len(frame) > Capacity - Len(tx_queue)
    /\ UNCHANGED vars

(* comm_control, with queue_peek_data. *)
Peek ==
    /\ step = "idle"
    /\ in_progress = 0
    /\ tx_queue # <<>>
    /\ to_send' = Smaller(Len(tx_queue), FrameLimit)
    /\ active' = [i \in 1 .. FrameLimit |->
                     IF i <= to_send' THEN tx_queue[i] ELSE active[i]]
    /\ step' = "peeked"
    /\ UNCHANGED <<tx_queue, in_progress, uart>>

(* Mutant: the flag is left to the interrupt. *)
MarkNothing ==
    /\ step = "peeked"
    /\ step' = "marked"
    /\ UNCHANGED <<tx_queue, active, to_send, in_progress, uart>>

Mark ==
    /\ step = "peeked"
    /\ in_progress' = 1
    /\ step' = "marked"
    /\ UNCHANGED <<tx_queue, active, to_send, uart>>

(* uart_send: HAL_UART_Transmit_IT. *)
Start ==
    /\ step = "marked"
    /\ gState = "READY"
    /\ gState' = "BUSY_TX"
    /\ pointer' = 0
    /\ count' = to_send
    /\ step' = "started"
    /\ UNCHANGED <<tx_queue, active, to_send, in_progress, sent>>

(* The transport returns false: the bytes stay in the queue. *)
StartRefused ==
    /\ step = "marked"
    /\ in_progress' = 0
    /\ step' = "idle"
    /\ UNCHANGED <<tx_queue, active, to_send, uart>>

(* Mutant: the flag is set once the transmission was started. *)
DiscardAndMark ==
    /\ step = "started"
    /\ tx_queue' = SubSeq(tx_queue, to_send + 1, Len(tx_queue))
    /\ in_progress' = 1
    /\ step' = "idle"
    /\ UNCHANGED <<active, to_send, uart>>

(* queue_discard; the transmission may have ended already. *)
Discard ==
    /\ step = "started"
    /\ tx_queue' = SubSeq(tx_queue, to_send + 1, Len(tx_queue))
    /\ step' = "idle"
    /\ UNCHANGED <<active, to_send, in_progress, uart>>

-----------------------------------------------------------------------------
(* The interrupt of an empty data register: UART_Transmit_IT. *)
TransmitByte ==
    /\ gState = "BUSY_TX"
    /\ count > 0
    /\ sent' = active[pointer + 1]
    /\ pointer' = pointer + 1
    /\ count' = count - 1
    /\ UNCHANGED <<loop, in_progress, gState>>

(* The interrupt of a complete transmission: UART_EndTransmit_IT, which     *)
(* calls onSendDone.                                                        *)
TransmitComplete ==
    /\ gState = "BUSY_TX"
    /\ count = 0
    /\ gState' = "READY"
    /\ in_progress' = 0
    /\ UNCHANGED <<loop, pointer, count, sent>>

CommControl == Peek \/ Mark \/ Start \/ StartRefused \/ Discard
Interrupt == TransmitByte \/ TransmitComplete

Next ==
    \/ \E frame \in Frames : Send(frame) \/ SendRefused(frame)
    \/ CommControl
    \/ Interrupt

Spec == Init /\ [][Next]_vars

(* The main loop comes round, the UART shifts out what it was given, and    *)
(* the transport does not refuse for ever.                                  *)
FairSpec == Spec /\ WF_vars(CommControl) /\ SF_vars(Start) /\ WF_vars(Interrupt)

-----------------------------------------------------------------------------
(* What the UART was given and still has to put on the line, and what it    *)
(* was not given yet.                                                       *)
Unsent == [i \in 1 .. count |-> active[pointer + i]]
Queued == IF step = "started" THEN SubSeq(tx_queue, to_send + 1, Len(tx_queue))
                              ELSE tx_queue

Stream == INSTANCE ByteStream WITH owed <- Unsent \o Queued

(* However interrupts interleave with comm_control, and whatever the        *)
(* transport refuses, no byte of an accepted frame is lost, repeated,       *)
(* reordered or overwritten in the active buffer; and each leaves in the    *)
(* end, for no completion is missed.                                        *)
ImplementsStream == Stream!FairSpec

(* comm_manager_tx_idle *)
TxIdle == in_progress = 0 /\ tx_queue = <<>>

(* When the boot controller sees an idle transmitter, and jumps, every      *)
(* report has left the device.                                              *)
IdleMeansSent ==
    step = "idle" /\ TxIdle => Unsent \o Queued = <<>> /\ gState = "READY"
=============================================================================
