----------------------------- MODULE CommReceive -----------------------------
(***************************************************************************)
(* The receiving half of comm_manager.c.  The receive interrupt puts the   *)
(* bytes of the line into the receive queue, or counts a drop when it is   *)
(* full; comm_control compares the drop count with the one it reported,    *)
(* resets the parser when they differ, and feeds it a batch.  An interrupt *)
(* may strike between any two of these steps.                              *)
(*                                                                         *)
(* The line first carries anything.  From some moment on the host repeats  *)
(* one request, and leaves the device the time to empty its queue.  Of the *)
(* bytes before that moment only the number matters until they are parsed: *)
(* they are chosen when the parser meets them, and one that the UART lost  *)
(* was never there.  The queue is a sequence, as ByteQueue.tla shows.      *)
(***************************************************************************)
EXTENDS FrameParser

CONSTANTS
    Capacity,       \* UART_RX_QUEUE_SIZE - 1
    BatchSize,      \* the size of comm_rx
    Request         \* the payload the host repeats

Frame == Pack(Request)

ASSUME CapacityAssumption ==
    Capacity \in Nat \ {0} /\ BatchSize \in Nat \ {0}
ASSUME RequestAssumption == Request \in Payloads
(* Of the frames the host sends, those with one byte of payload.            *)
ASSUME FrameAssumption == \A i \in 2 .. Len(Frame) : Frame[i] # START

VARIABLES
    rx_queue,       \* comm_rx_queue
    comm_rx,        \* what is left of the batch in comm_control
    step,           \* where comm_control is
    drop_pending,   \* comm_rx_drop_reported # comm_rx_drop_count
    line,           \* what the line carries next
    reset_owed,     \* a byte was dropped, and the parser not reset since
    heard           \* bytes of the host parsed since its last request was
                    \* delivered, counted up to one more than Misses

parser == vars
manager == <<rx_queue, comm_rx, step, drop_pending>>
history == <<line, reset_owed, heard>>
receiveVars == <<parser, manager, history>>

(* A byte of the line: a place in the repeated frame, or any byte.          *)
Unknown == 0
Places == 0 .. Len(Frame)

Carries(place, byte) == IF place = Unknown THEN byte \in Bytes ELSE byte = Frame[place]

After(place) == CASE place = Unknown    -> Unknown
                  [] place = Len(Frame) -> 1
                  [] OTHER              -> place + 1

(* The most bytes of the host that the parser should miss.                  *)
Misses == MaxPayload + 5 + 2 * (Len(Frame) - 1)

Repeating == line # Unknown

Steps == {"parse", "count", "reset", "pop"}

ReceiveTypeOK ==
    /\ rx_queue \in Seq(Places) /\ Len(rx_queue) <= Capacity
    /\ comm_rx \in Seq(Places) /\ Len(comm_rx) <= BatchSize
    /\ step \in Steps
    /\ drop_pending \in BOOLEAN
    /\ line \in Places
    /\ reset_owed \in BOOLEAN
    /\ heard \in 0 .. Misses + 1

(* comm_manager_init *)
ReceiveInit ==
    /\ Init
    /\ rx_queue = <<>>
    /\ comm_rx = <<>>
    /\ step = "parse"
    /\ drop_pending = FALSE
    /\ line = Unknown
    /\ reset_owed = FALSE
    /\ heard = 0

-----------------------------------------------------------------------------
(* The receive interrupt: onReceiveData with one byte. *)
Receive ==
    /\ Len(rx_queue) < Capacity
    /\ rx_queue' = Append(rx_queue, line)
    /\ line' = After(line)
    /\ UNCHANGED <<parser, comm_rx, step, drop_pending, reset_owed, heard>>

(* The repeating host does not overrun the queue. *)
Drop ==
    /\ Len(rx_queue) = Capacity
    /\ ~ Repeating
    /\ drop_pending' = TRUE
    /\ reset_owed' = TRUE
    /\ UNCHANGED <<parser, rx_queue, comm_rx, step, line, heard>>

HostRepeats ==
    /\ ~ Repeating
    /\ line' = 1
    /\ UNCHANGED <<parser, manager, reset_owed, heard>>

-----------------------------------------------------------------------------
(* comm_control, by its accesses to what the interrupt writes.  A call      *)
(* begins when the batch of the last one is parsed.                         *)
CheckDrop ==
    /\ step = "parse"
    /\ comm_rx = <<>>
    /\ step' = IF drop_pending THEN "count" ELSE "pop"
    /\ UNCHANGED <<parser, rx_queue, comm_rx, drop_pending, history>>

(* Mutant: the reported count is left as it was. *)
TakeNothing ==
    /\ step = "count"
    /\ step' = "reset"
    /\ UNCHANGED <<parser, rx_queue, comm_rx, drop_pending, history>>

(* The count is read once more. *)
TakeCount ==
    /\ step = "count"
    /\ drop_pending' = FALSE
    /\ step' = "reset"
    /\ UNCHANGED <<parser, rx_queue, comm_rx, history>>

ResetParser ==
    /\ step = "reset"
    /\ Reset
    /\ reset_owed' = FALSE
    /\ step' = "pop"
    /\ UNCHANGED <<rx_queue, comm_rx, drop_pending, line, heard>>

(* Mutant: the drops are marked as reported once the queue was popped. *)
PopAndReport ==
    /\ step = "pop"
    /\ \E taken \in 0 .. BatchSize :
           /\ taken = IF Len(rx_queue) < BatchSize THEN Len(rx_queue) ELSE BatchSize
           /\ comm_rx' = SubSeq(rx_queue, 1, taken)
           /\ rx_queue' = SubSeq(rx_queue, taken + 1, Len(rx_queue))
    /\ step' = "parse"
    /\ drop_pending' = FALSE
    /\ UNCHANGED <<parser, history>>

(* queue_pop *)
Pop ==
    /\ step = "pop"
    /\ \E taken \in 0 .. BatchSize :
           /\ taken = IF Len(rx_queue) < BatchSize THEN Len(rx_queue) ELSE BatchSize
           /\ comm_rx' = SubSeq(rx_queue, 1, taken)
           /\ rx_queue' = SubSeq(rx_queue, taken + 1, Len(rx_queue))
    /\ step' = "parse"
    /\ UNCHANGED <<parser, drop_pending, history>>

Delivers == result' = "success" /\ Payload' = Request

(* comm_packer->unpack. *)
ParseByte(byte) ==
    /\ step = "parse"
    /\ comm_rx # <<>>
    /\ Carries(Head(comm_rx), byte)
    /\ Parse(byte)
    /\ comm_rx' = Tail(comm_rx)
    /\ heard' = IF Head(comm_rx) = Unknown \/ Delivers THEN 0
                ELSE IF heard > Misses THEN heard ELSE heard + 1
    /\ UNCHANGED <<rx_queue, step, drop_pending, line, reset_owed>>

CommControl ==
    \/ CheckDrop
    \/ TakeCount
    \/ ResetParser
    \/ Pop
    \/ \E byte \in Bytes : ParseByte(byte)

ReceiveNext == Receive \/ Drop \/ HostRepeats \/ CommControl

ReceiveSpec == ReceiveInit /\ [][ReceiveNext]_receiveVars

(* The main loop comes round.  That the host goes on repeating is what the  *)
(* liveness property is about, so it is fair too once it has begun.         *)
FairReceiveSpec ==
    /\ ReceiveSpec
    /\ WF_receiveVars(CommControl)
    /\ WF_receiveVars(Repeating /\ Receive)

-----------------------------------------------------------------------------
(* Every dropped byte is followed by a reset of the parser, also one that   *)
(* is dropped while comm_control is between its check and its reset.        *)
NoDropForgotten == reset_owed => drop_pending \/ step \in {"count", "reset"}

(* Whatever the line carried before, and whatever was dropped, the device   *)
(* misses a bounded number of the host's bytes: what a broken frame may     *)
(* swallow, the rest of the frame in which that ends, and all of the next   *)
(* frame but its last byte.  The reset that a dropped byte still owes comes *)
(* before the first of them.                                                *)
HeardInTime == heard <= Misses

(* So a host that repeats its request is heard, again and again.            *)
RequestIsHeard == <>Repeating => []<><<heard' = 0>>_heard
=============================================================================
