------------------------------ MODULE ByteStream ------------------------------
(***************************************************************************)
(* What the boot controller relies on when it sends a report: the bytes of *)
(* an accepted frame leave the device once, in order, with no byte of      *)
(* another frame between them, and in the end they all do.                 *)
(***************************************************************************)
EXTENDS Naturals, Sequences

CONSTANT Frames

VARIABLES
    owed,   \* accepted bytes that have not left yet
    sent    \* the last byte that left

vars == <<owed, sent>>

Init == owed = <<>> /\ sent = 0

Accept(frame) == owed' = owed \o frame /\ UNCHANGED sent

Emit ==
    /\ owed # <<>>
    /\ sent' = Head(owed)
    /\ owed' = Tail(owed)

Next == (\E frame \in Frames : Accept(frame)) \/ Emit

Spec == Init /\ [][Next]_vars

FairSpec == Spec /\ WF_vars(Emit)
=============================================================================
