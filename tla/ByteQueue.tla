------------------------------ MODULE ByteQueue ------------------------------
(***************************************************************************)
(* my_queue.c: a ring of Size bytes, one of which stays free to tell a     *)
(* full ring from an empty one.  No lock protects it: the producer is the  *)
(* UART interrupt, which may strike between any two accesses of the        *)
(* consumer, the main loop.                                                *)
(*                                                                         *)
(* The consumer pops (comm_control on the receive queue), or peeks and,    *)
(* once the transmission was started, discards (on the transmit queue).    *)
(* It copies a byte and moves the head in separate steps; a push, which    *)
(* the interrupt runs to its end, is one step.  `_overwrite` is left out:  *)
(* it is written and never read.                                           *)
(***************************************************************************)
EXTENDS Naturals, Sequences

CONSTANTS
    Bytes,
    Size     \* storage in bytes

ASSUME BytesAssumption == Bytes \subseteq Nat /\ 0 \in Bytes
ASSUME SizeAssumption == Size \in Nat /\ Size >= 2

VARIABLES
    buffer,     \* _buffer
    head,       \* _head, the read index
    tail,       \* _tail, the write index
    full,       \* whether the last push returned QUEUE_FULL
    step,       \* where the consumer's call is, or "none"
    left,       \* bytes the call still has to copy
    taken       \* bytes the call has copied

ring == <<buffer, head, tail, full>>
consumer == <<step, left, taken>>
vars == <<ring, consumer>>

Indices == 0 .. Size - 1

TypeOK ==
    /\ buffer \in [Indices -> Bytes]
    /\ head \in Indices
    /\ tail \in Indices
    /\ full \in BOOLEAN
    /\ step \in {"none", "pop", "advance", "peek", "peeked"}
    /\ left \in Nat
    /\ taken \in Seq(Bytes)

(* queue_get_data_length *)
DataLength == (tail + Size - head) % Size

(* The byte a peek copies after `offset` others. *)
Slot(offset) == (head + offset) % Size

Smaller(m, n) == IF m < n THEN m ELSE n

-----------------------------------------------------------------------------
(* queue_init *)
Init ==
    /\ buffer = [index \in Indices |-> 0]
    /\ head = 0
    /\ tail = 0
    /\ full = FALSE
    /\ step = "none"
    /\ left = 0
    /\ taken = <<>>

(* Mutant of PushByte: the last slot is used. *)
PushByteIntoLastSlot(byte) ==
    /\ buffer' = [buffer EXCEPT ![tail] = byte]
    /\ tail' = (tail + 1) % Size
    /\ full' = FALSE
    /\ UNCHANGED <<head, consumer>>

(* queue_push_byte *)
PushByte(byte) ==
    /\ (tail + 1) % Size # head
    /\ buffer' = [buffer EXCEPT ![tail] = byte]
    /\ tail' = (tail + 1) % Size
    /\ full' = FALSE
    /\ UNCHANGED <<head, consumer>>

PushFull ==
    /\ (tail + 1) % Size = head
    /\ full' = TRUE
    /\ UNCHANGED <<buffer, head, tail, consumer>>

(* queue_pop reads the length once; bytes pushed later wait. *)
StartPop(length) ==
    /\ step = "none"
    /\ left' = Smaller(DataLength, length)
    /\ step' = IF left' = 0 THEN "none" ELSE "pop"
    /\ taken' = <<>>
    /\ UNCHANGED ring

PopByte ==
    /\ step = "pop"
    /\ taken' = Append(taken, buffer[head])
    /\ step' = "advance"
    /\ UNCHANGED <<ring, left>>

PopAdvance ==
    /\ step = "advance"
    /\ head' = (head + 1) % Size
    /\ left' = left - 1
    /\ step' = IF left' = 0 THEN "none" ELSE "pop"
    /\ UNCHANGED <<buffer, tail, full, taken>>

(* queue_peek_data, which also reads the length once. *)
StartPeek(length) ==
    /\ step = "none"
    /\ left' = Smaller(DataLength, length)
    /\ step' = IF left' = 0 THEN "none" ELSE "peek"
    /\ taken' = <<>>
    /\ UNCHANGED ring

PeekByte ==
    /\ step = "peek"
    /\ taken' = Append(taken, buffer[Slot(Len(taken))])
    /\ left' = left - 1
    /\ step' = IF left' = 0 THEN "peeked" ELSE "peek"
    /\ UNCHANGED ring

(* queue_discard of what was peeked. *)
Discard ==
    /\ step = "peeked"
    /\ head' = (head + Smaller(DataLength, Len(taken))) % Size
    /\ step' = "none"
    /\ UNCHANGED <<buffer, tail, full, left, taken>>

(* The transmission did not start: the bytes stay. *)
Keep ==
    /\ step = "peeked"
    /\ step' = "none"
    /\ UNCHANGED <<ring, left, taken>>

Next ==
    \/ \E byte \in Bytes : PushByte(byte)
    \/ PushFull
    \/ \E length \in 1 .. Size : StartPop(length) \/ StartPeek(length)
    \/ PopByte
    \/ PopAdvance
    \/ PeekByte
    \/ Discard
    \/ Keep

Spec == Init /\ [][Next]_vars

-----------------------------------------------------------------------------
(* The state of the FIFO that a state of the ring stands for.  A byte that  *)
(* was copied by a pop counts as returned once the head has moved past it.  *)
Waiting == [i \in 1 .. DataLength |-> buffer[Slot(i - 1)]]

Call ==
    CASE step = "none" -> "none"
      [] step \in {"pop", "advance"} -> "take"
      [] step \in {"peek", "peeked"} -> "copy"

Returned == IF step = "advance" THEN SubSeq(taken, 1, Len(taken) - 1) ELSE taken

(* The ring is a bounded FIFO, however pushes and the steps of a pop or a   *)
(* peek interleave: no byte is lost, repeated, overtaken or overwritten     *)
(* before it is read, and a push is refused only when Size - 1 bytes wait.  *)
Fifo == INSTANCE ByteFifo WITH
    Capacity <- Size - 1,
    fifo <- Waiting,
    refused <- full,
    call <- Call,
    taken <- Returned

ImplementsFifo == Fifo!Spec
=============================================================================
