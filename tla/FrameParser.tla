----------------------------- MODULE FrameParser -----------------------------
(***************************************************************************)
(* my_packer.c: the UART frame                                             *)
(*                                                                         *)
(*     START | length, 2 bytes | payload | CRC, 2 bytes | END              *)
(*                                                                         *)
(* and its byte-at-a-time parser, which keeps its place between calls and  *)
(* hands a payload over only when the END byte closes a frame.  There is   *)
(* no time-out between bytes: a frame that loses some swallows the next    *)
(* ones, as far as the length it announced.                                *)
(*                                                                         *)
(* The CRC is a parameter: CrcStep is what one byte does to it, CrcOf what *)
(* a sequence of them makes of the initial value.                          *)
(***************************************************************************)
EXTENDS Naturals, Sequences

CONSTANTS
    Bytes,          \* the bytes the line can carry
    MaxPayload,     \* COM_MAX_PAYLOAD_SIZE
    CrcInit,        \* crc16_init
    CrcStep(_, _),  \* crc16_byte_cal
    CrcOf(_)

START == 172
END == 187

(* uint8_t and uint16_t *)
MaxByte == 255
MaxWord == 65535

Words == 0 .. MaxWord

Crcs == {c \in Words : c \div 256 \in Bytes /\ c % 256 \in Bytes}

ASSUME BytesAssumption == {0, START, END} \subseteq Bytes /\ Bytes \subseteq 0 .. MaxByte
ASSUME MaxPayloadAssumption ==
    MaxPayload \in Nat /\ 1 <= MaxPayload /\ MaxPayload <= 250
ASSUME CrcAssumption ==
    /\ CrcInit \in Crcs
    /\ \A c \in Crcs, byte \in Bytes : CrcStep(c, byte) \in Crcs
    /\ CrcOf(<<>>) = CrcInit
    /\ \A n \in 0 .. MaxPayload + 1 : \A s \in [1 .. n -> Bytes] : \A byte \in Bytes :
           CrcOf(Append(s, byte)) = CrcStep(CrcOf(s), byte)

VARIABLES
    state,      \* unpack_state
    offset,     \* unpack_offset
    length,     \* unpack_length
    crc,        \* unpack_crc
    buffer,     \* comm_rx_buffer
    result,     \* what the last call returned
    attempt     \* the bytes since the start byte: of the line, not of the code

vars == <<state, offset, length, crc, buffer, result, attempt>>

Payloads == UNION {[1 .. n -> Bytes] : n \in 1 .. MaxPayload}

Waiting == "WAIT_START"

States == {Waiting, "READ_LENGTH_HIGH", "READ_LENGTH_LOW", "READ_PAYLOAD",
           "READ_CRC_HIGH", "READ_CRC_LOW", "WAIT_END"}

Results == {"running", "success", "length", "crc", "end"}

Lines == Seq(Bytes)

TypeOK ==
    /\ state \in States
    /\ offset \in 0 .. MaxPayload
    /\ length \in Words
    /\ crc \in Crcs
    /\ buffer \in [0 .. MaxPayload - 1 -> Bytes]
    /\ result \in Results
    /\ attempt \in Lines

-----------------------------------------------------------------------------
(* my_pack_data *)
Pack(payload) ==
    LET header == <<Len(payload) \div 256, Len(payload) % 256>>
        check == CrcOf(header \o payload)
    IN  <<START>> \o header \o payload \o <<check \div 256, check % 256, END>>

(* my_unpack_data, which takes a frame at once. *)
Unpack(frame) ==
    LET announced == frame[2] * 256 + frame[3]
        payload == SubSeq(frame, 4, announced + 3)
        check == frame[announced + 4] * 256 + frame[announced + 5]
    IN  IF Len(frame) < 7 THEN [status |-> "length"]
        ELSE IF frame[1] # START THEN [status |-> "start"]
        ELSE IF announced \notin 1 .. MaxPayload \/ announced + 6 > Len(frame)
             THEN [status |-> "length"]
        ELSE IF CrcOf(SubSeq(frame, 2, announced + 3)) # check THEN [status |-> "crc"]
        ELSE IF frame[announced + 6] # END THEN [status |-> "end"]
        ELSE [status |-> "success", payload |-> payload]

-----------------------------------------------------------------------------
(* unit_packer_init_no_func; the buffer is as calloc made it. *)
Init ==
    /\ state = Waiting
    /\ offset = 0
    /\ length = 0
    /\ crc = 0
    /\ buffer = [index \in 0 .. MaxPayload - 1 |-> 0]
    /\ result = "running"
    /\ attempt = <<>>

(* my_unpack_data_state, by the state it is called in. *)
WaitStart(byte) ==
    /\ state = Waiting
    /\ offset' = 0
    /\ length' = 0
    /\ result' = "running"
    /\ IF byte = START
       THEN state' = "READ_LENGTH_HIGH" /\ crc' = CrcInit /\ attempt' = <<byte>>
       ELSE attempt' = <<>> /\ UNCHANGED <<state, crc>>
    /\ UNCHANGED buffer

ReadLengthHigh(byte) ==
    /\ state = "READ_LENGTH_HIGH"
    /\ length' = byte * 256
    /\ state' = "READ_LENGTH_LOW"
    /\ crc' = CrcStep(crc, byte)
    /\ attempt' = Append(attempt, byte)
    /\ UNCHANGED <<offset, buffer, result>>

(* Mutant: one byte more than the buffer holds is accepted. *)
LengthLowUnbounded(byte) ==
    /\ state = "READ_LENGTH_LOW"
    /\ length' = length + byte
    /\ crc' = CrcStep(crc, byte)
    /\ offset' = 0
    /\ IF length' \in 1 .. MaxPayload + 1
       THEN state' = "READ_PAYLOAD" /\ UNCHANGED result
       ELSE state' = Waiting /\ result' = "length"
    /\ attempt' = Append(attempt, byte)
    /\ UNCHANGED buffer

(* Mutant: the announced length is not part of the checksum. *)
LengthLowUnchecked(byte) ==
    /\ state = "READ_LENGTH_LOW"
    /\ length' = length + byte
    /\ offset' = 0
    /\ IF length' \in 1 .. MaxPayload
       THEN state' = "READ_PAYLOAD" /\ UNCHANGED result
       ELSE state' = Waiting /\ result' = "length"
    /\ attempt' = Append(attempt, byte)
    /\ UNCHANGED <<crc, buffer>>

ReadLengthLow(byte) ==
    /\ state = "READ_LENGTH_LOW"
    /\ length' = length + byte
    /\ crc' = CrcStep(crc, byte)
    /\ offset' = 0
    /\ IF length' \in 1 .. MaxPayload
       THEN state' = "READ_PAYLOAD" /\ UNCHANGED result
       ELSE state' = Waiting /\ result' = "length"
    /\ attempt' = Append(attempt, byte)
    /\ UNCHANGED buffer

ReadPayload(byte) ==
    /\ state = "READ_PAYLOAD"
    /\ buffer' = [buffer EXCEPT ![offset] = byte]
    /\ offset' = offset + 1
    /\ crc' = CrcStep(crc, byte)
    /\ state' = IF offset' >= length THEN "READ_CRC_HIGH" ELSE state
    /\ attempt' = Append(attempt, byte)
    /\ UNCHANGED <<length, result>>

ReadCrcHigh(byte) ==
    /\ state = "READ_CRC_HIGH"
    /\ IF byte = crc \div 256
       THEN state' = "READ_CRC_LOW" /\ UNCHANGED result
       ELSE state' = Waiting /\ result' = "crc"
    /\ attempt' = Append(attempt, byte)
    /\ UNCHANGED <<offset, length, crc, buffer>>

ReadCrcLow(byte) ==
    /\ state = "READ_CRC_LOW"
    /\ IF byte = crc % 256
       THEN state' = "WAIT_END" /\ UNCHANGED result
       ELSE state' = Waiting /\ result' = "crc"
    /\ attempt' = Append(attempt, byte)
    /\ UNCHANGED <<offset, length, crc, buffer>>

(* Mutant: a frame ends without its END byte. *)
WaitAnyEnd(byte) ==
    /\ state = "WAIT_END"
    /\ state' = Waiting
    /\ result' = "success"
    /\ attempt' = Append(attempt, byte)
    /\ UNCHANGED <<offset, length, crc, buffer>>

WaitEnd(byte) ==
    /\ state = "WAIT_END"
    /\ state' = Waiting
    /\ result' = IF byte = END THEN "success" ELSE "end"
    /\ attempt' = Append(attempt, byte)
    /\ UNCHANGED <<offset, length, crc, buffer>>

(* unit_packer_init_no_func, when the receive queue overflowed. *)
Reset ==
    /\ state' = Waiting
    /\ offset' = 0
    /\ length' = 0
    /\ crc' = 0
    /\ result' = "running"
    /\ attempt' = <<>>
    /\ UNCHANGED buffer

Parse(byte) ==
    \/ WaitStart(byte)
    \/ ReadLengthHigh(byte)
    \/ ReadLengthLow(byte)
    \/ ReadPayload(byte)
    \/ ReadCrcHigh(byte)
    \/ ReadCrcLow(byte)
    \/ WaitEnd(byte)

Next == (\E byte \in Bytes : Parse(byte)) \/ Reset

Spec == Init /\ [][Next]_vars

-----------------------------------------------------------------------------
(* The payload handed to the boot controller. *)
Payload == [i \in 1 .. length |-> buffer[i - 1]]

Begins(part, whole) ==
    Len(part) <= Len(whole) /\ part = SubSeq(whole, 1, Len(part))

(* A payload is delivered only if the bytes that just arrived, one after    *)
(* the other and none else, are the frame my_pack_data makes of it.         *)
DeliveredIsFramed == result = "success" => attempt = Pack(Payload)

(* A frame is refused only if the line was at fault: the bytes it consumed  *)
(* begin no frame.                                                          *)
RefusedIsNoFrame ==
    result \in {"length", "crc", "end"} =>
        \A payload \in Payloads : ~ Begins(attempt, Pack(payload))

(* A frame in progress leaves room for the byte that comes next: the        *)
(* announced length never carries a write outside comm_rx_buffer, and a     *)
(* damaged frame swallows no more than the longest frame holds.             *)
RoomForNextByte ==
    /\ state = "READ_PAYLOAD" => offset < MaxPayload
    /\ state # Waiting => Len(attempt) < MaxPayload + 6

(* my_unpack_data accepts just the byte sequences the streaming parser      *)
(* accepts, and finds the same payload in them.                             *)
BatchAgrees ==
    LET batch == Unpack(attempt)
    IN  /\ result = "success" <=> batch.status = "success"
        /\ result = "success" => batch.payload = Payload
=============================================================================
