------------------------------- MODULE ByteFifo -------------------------------
(***************************************************************************)
(* What the users of a byte queue rely on: a bounded first-in first-out    *)
(* buffer between one producer and one consumer.  The producer puts bytes, *)
(* and is refused when the buffer is full.  The consumer makes one call at *)
(* a time: it takes bytes one by one, or copies some and then discards     *)
(* just those, while the producer keeps putting.                           *)
(***************************************************************************)
EXTENDS Naturals, Sequences

CONSTANTS Bytes, Capacity

VARIABLES
    fifo,       \* the bytes in the buffer
    refused,    \* whether the last put was refused
    call,       \* the consumer's call: "none", "take" or "copy"
    taken       \* what the call has returned so far

vars == <<fifo, refused, call, taken>>

Init == fifo = <<>> /\ refused = FALSE /\ call = "none" /\ taken = <<>>

Put(byte) ==
    /\ Len(fifo) < Capacity
    /\ fifo' = Append(fifo, byte)
    /\ refused' = FALSE
    /\ UNCHANGED <<call, taken>>

Refuse ==
    /\ Len(fifo) = Capacity
    /\ refused' = TRUE
    /\ UNCHANGED <<fifo, call, taken>>

Begin(kind) ==
    /\ call = "none"
    /\ call' \in {kind, "none"}
    /\ taken' = <<>>
    /\ UNCHANGED <<fifo, refused>>

(* The oldest byte, which may be the last one the call returns. *)
Take ==
    /\ call = "take"
    /\ fifo # <<>>
    /\ taken' = Append(taken, Head(fifo))
    /\ fifo' = Tail(fifo)
    /\ call' \in {"take", "none"}
    /\ UNCHANGED refused

Copy ==
    /\ call = "copy"
    /\ Len(taken) < Len(fifo)
    /\ taken' = Append(taken, fifo[Len(taken) + 1])
    /\ UNCHANGED <<fifo, refused, call>>

(* Exactly the copied bytes leave the buffer, or none of them. *)
Discard ==
    /\ call = "copy"
    /\ \/ fifo = taken \o fifo'
       \/ UNCHANGED fifo
    /\ call' = "none"
    /\ UNCHANGED <<refused, taken>>

Next ==
    \/ \E byte \in Bytes : Put(byte)
    \/ Refuse
    \/ \E kind \in {"take", "copy"} : Begin(kind)
    \/ Take
    \/ Copy
    \/ Discard

Spec == Init /\ [][Next]_vars
=============================================================================
