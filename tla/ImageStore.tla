------------------------------ MODULE ImageStore ------------------------------
(***************************************************************************)
(* What the boot controller relies on when it streams an image to the      *)
(* Flash writer: a chunk that is accepted is appended as a whole, one that *)
(* is refused leaves what was accepted before as it was, and the store is  *)
(* closed only when the announced number of bytes is in it.                *)
(***************************************************************************)
EXTENDS Naturals, Sequences

CONSTANTS
    Sizes,      \* of images
    Chunks      \* what one call may bring

VARIABLES
    expected,   \* the announced size of the image
    stored,     \* the bytes accepted since the transfer began
    closed      \* nothing is deferred any more

vars == <<expected, stored, closed>>

Open(size) == expected' = size /\ stored' = <<>> /\ closed' = FALSE

Extend(data) ==
    /\ ~closed
    /\ Len(stored) + Len(data) <= expected
    /\ stored' = stored \o data
    /\ UNCHANGED <<expected, closed>>

Close ==
    /\ Len(stored) = expected
    /\ closed' = TRUE
    /\ UNCHANGED <<expected, stored>>

Init == expected = 0 /\ stored = <<>> /\ closed = FALSE

Next ==
    \/ \E size \in Sizes : Open(size)
    \/ \E data \in Chunks : Extend(data)
    \/ Close

Spec == Init /\ [][Next]_vars
=============================================================================
