---------------------------- MODULE MCCommReceive ----------------------------
(***************************************************************************)
(* Model checking of the parser and of the half of the communication       *)
(* manager that feeds it: payloads of up to MaxPayload bytes, a queue and  *)
(* a batch of a few, and a checksum whose halves stay among the few bytes. *)
(* 172 and 187 occur as payload and as checksum too, and MaxPayload + 1 as *)
(* a length.                                                               *)
(***************************************************************************)
EXTENDS CommReceive, SequencesExt

MCBytes == (0 .. MaxPayload + 1) \cup {START, END}

(* The bytes in the order the checksum rotates them. *)
Ring == <<START, END>> \o [i \in 1 .. MaxPayload + 2 |-> i - 1]

Place == [byte \in MCBytes |-> CHOOSE i \in DOMAIN Ring : Ring[i] = byte]

Rotated == [byte \in MCBytes, by \in DOMAIN Ring |->
               Ring[((Place[byte] + by) % Len(Ring)) + 1]]

MCCrcInit == 257

MCCrcStep(check, byte) ==
    256 * Rotated[check % 256, Place[byte]] + Rotated[check \div 256, Len(Ring)]

MCCrcOf(bytes) == FoldLeft(MCCrcStep, MCCrcInit, bytes)

MCRequest == <<1>>
=============================================================================
