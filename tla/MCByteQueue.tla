----------------------------- MODULE MCByteQueue -----------------------------
(***************************************************************************)
(* A ring of four: three bytes fit, and every position of head and tail    *)
(* relative to the end of the ring occurs.                                 *)
(***************************************************************************)
EXTENDS ByteQueue
=============================================================================
