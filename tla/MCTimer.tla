------------------------------- MODULE MCTimer -------------------------------
(***************************************************************************)
(* A counter of eight milliseconds, observed for more than two rounds.     *)
(***************************************************************************)
EXTENDS Timer

MCDurations == 0 .. Modulus - 1
=============================================================================
