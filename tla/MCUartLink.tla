------------------------------ MODULE MCUartLink ------------------------------
(***************************************************************************)
(* Frames of one and of two bytes, an active buffer of two and a queue of  *)
(* four: a frame can be cut, joined to the next one, or refused for lack   *)
(* of space.  Bytes arrive at any time.                                    *)
(***************************************************************************)
EXTENDS UartLink

MCFrames == {<<1>>, <<2, 0>>}
=============================================================================
