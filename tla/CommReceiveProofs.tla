-------------------------- MODULE CommReceiveProofs --------------------------
(***************************************************************************)
(* The frame parser against my_pack_data, and the communication manager    *)
(* that feeds it, for every set of bytes, every payload size the           *)
(* configuration allows, every CRC, and every queue and batch size.        *)
(*                                                                         *)
(* ParserInv says what the parser's registers hold in terms of the bytes   *)
(* it was given since the start byte, state by state.  ReceiveInv adds the *)
(* bytes that are still to come - the rest of the batch, the queue and the *)
(* line, which are one sequence - and counts what the parser may miss of   *)
(* them from the place where it is.                                        *)
(***************************************************************************)
EXTENDS CommReceive, SequenceTheorems, TLAPS

USE DEF START, END

(* The first n bytes after the start byte of a sequence. *)
Covered(bytes, n) == [j \in 1 .. n |-> bytes[j + 1]]

(* The parser's data, between calls, in terms of the bytes it was given. *)
HeaderRead ==
    /\ length \in 1 .. MaxPayload
    /\ attempt[1] = START
    /\ attempt[2] = length \div 256
    /\ attempt[3] = length % 256
    /\ offset <= length
    /\ \A i \in 1 .. offset : attempt[i + 3] = buffer[i - 1]

PayloadRead ==
    /\ HeaderRead
    /\ offset = length
    /\ crc = CrcOf(Covered(attempt, length + 2))

FirstCrcRead ==
    /\ PayloadRead
    /\ attempt[length + 4] = crc \div 256

BothCrcsRead ==
    /\ FirstCrcRead
    /\ attempt[length + 5] = crc % 256

AtLengthHigh == Len(attempt) = 1 /\ attempt[1] = START /\ crc = CrcOf(Covered(attempt, 0))

AtLengthLow ==
    /\ Len(attempt) = 2 /\ attempt[1] = START
    /\ length = attempt[2] * 256
    /\ crc = CrcOf(Covered(attempt, 1))

AtPayload ==
    /\ HeaderRead
    /\ offset < length
    /\ Len(attempt) = offset + 3
    /\ crc = CrcOf(Covered(attempt, offset + 2))

PlaceInv ==
    /\ state # Waiting => result = "running"
    /\ state = "READ_LENGTH_HIGH" => AtLengthHigh
    /\ state = "READ_LENGTH_LOW" => AtLengthLow
    /\ state = "READ_PAYLOAD" => AtPayload
    /\ state = "READ_CRC_HIGH" => PayloadRead /\ Len(attempt) = length + 3
    /\ state = "READ_CRC_LOW" => FirstCrcRead /\ Len(attempt) = length + 4
    /\ state = "WAIT_END" => BothCrcsRead /\ Len(attempt) = length + 5

(* What the line held when a call ended a frame, well or badly. *)
Delivered ==
    /\ BothCrcsRead
    /\ Len(attempt) = length + 6
    /\ attempt[length + 6] = END

BadLength ==
    /\ Len(attempt) = 3
    /\ attempt[2] * 256 + attempt[3] \notin 1 .. MaxPayload

BadCrc ==
    /\ PayloadRead
    /\ \/ Len(attempt) = length + 4 /\ attempt[length + 4] # crc \div 256
       \/ Len(attempt) = length + 5 /\ attempt[length + 5] # crc % 256

BadEnd ==
    /\ PayloadRead
    /\ Len(attempt) = length + 6
    /\ attempt[length + 6] # END

OutcomeInv ==
    /\ result = "success" => Delivered
    /\ result = "length" => BadLength
    /\ result = "crc" => BadCrc
    /\ result = "end" => BadEnd

Inv == TypeOK /\ PlaceInv /\ OutcomeInv

-----------------------------------------------------------------------------
LEMMA CoveredType ==
    ASSUME NEW bytes \in Seq(Bytes), NEW n \in Nat, n < Len(bytes)
    PROVE  Covered(bytes, n) \in [1 .. n -> Bytes] /\ Covered(bytes, n) \in Seq(Bytes)
<1>1. \A j \in 1 .. n : bytes[j + 1] \in Bytes
  <2> TAKE j \in 1 .. n
  <2>1. j + 1 \in 1 .. Len(bytes) /\ Len(bytes) \in Nat
    OBVIOUS
  <2> QED BY <2>1, ElementOfSeq
<1> QED BY <1>1 DEF Covered

(* What a byte that is appended to a sequence changes in it. *)
LEMMA AppendedByte ==
    ASSUME NEW bytes \in Seq(Bytes), NEW byte \in Bytes
    PROVE  /\ Append(bytes, byte) \in Seq(Bytes)
           /\ Len(Append(bytes, byte)) = Len(bytes) + 1
           /\ Len(bytes) \in Nat
           /\ Append(bytes, byte)[Len(bytes) + 1] = byte
           /\ \A i \in 1 .. Len(bytes) : Append(bytes, byte)[i] = bytes[i]
BY AppendProperties

LEMMA CoveredUnchanged ==
    ASSUME NEW bytes \in Seq(Bytes), NEW byte \in Bytes, NEW n \in Nat, n < Len(bytes)
    PROVE  Covered(Append(bytes, byte), n) = Covered(bytes, n)
<1>1. \A j \in 1 .. n : Append(bytes, byte)[j + 1] = bytes[j + 1]
  <2> TAKE j \in 1 .. n
  <2>1. j + 1 \in 1 .. Len(bytes)
    BY AppendedByte
  <2> QED BY <2>1, AppendedByte
<1> QED BY <1>1 DEF Covered

(* The running CRC covers the bytes it was given so far. *)
LEMMA CrcOfAppended ==
    ASSUME NEW bytes \in Seq(Bytes), NEW byte \in Bytes,
           Len(bytes) \in 1 .. MaxPayload + 2
    PROVE  CrcOf(Covered(Append(bytes, byte), Len(bytes)))
               = CrcStep(CrcOf(Covered(bytes, Len(bytes) - 1)), byte)
<1> DEFINE n == Len(bytes) - 1
           s == Covered(bytes, n)
           t == Covered(Append(bytes, byte), n + 1)
<1>1. n \in 0 .. MaxPayload + 1 /\ n \in Nat /\ n < Len(bytes) /\ n + 1 = Len(bytes)
  BY MaxPayloadAssumption
<1>2. s \in [1 .. n -> Bytes] /\ s \in Seq(Bytes)
  <2> HIDE DEF n
  <2> QED BY <1>1, CoveredType
<1>3. t \in [1 .. n + 1 -> Bytes] /\ t \in Seq(Bytes)
  <2>1. n + 1 \in Nat /\ n + 1 < Len(Append(bytes, byte))
    BY <1>1, AppendedByte
  <2> HIDE DEF n
  <2> QED BY <2>1, CoveredType, AppendedByte
<1>4. t = Append(s, byte)
  <2>1. Len(s) = n /\ Len(t) = n + 1
    <3> HIDE DEF n, s, t
    <3> QED BY <1>1, <1>2, <1>3
  <2>2. /\ Append(s, byte) \in Seq(Bytes)
        /\ Len(Append(s, byte)) = n + 1
        /\ Append(s, byte)[n + 1] = byte
        /\ \A i \in 1 .. n : Append(s, byte)[i] = s[i]
    BY <1>2, <2>1, AppendProperties
  <2>3. \A i \in 1 .. n : t[i] = s[i]
    <3> TAKE i \in 1 .. n
    <3>1. i + 1 \in 1 .. Len(bytes) /\ i \in 1 .. n + 1
      BY <1>1
    <3>2. Append(bytes, byte)[i + 1] = bytes[i + 1]
      BY <3>1, AppendedByte
    <3> QED BY <3>1, <3>2 DEF Covered
  <2>4. t[n + 1] = byte
    BY <1>1, AppendedByte DEF Covered
  <2> HIDE DEF n, s, t
  <2>5. \A i \in 1 .. n + 1 : t[i] = Append(s, byte)[i]
    BY <1>1, <2>2, <2>3, <2>4
  <2> QED BY <1>3, <2>1, <2>2, <2>5, SeqEqual
<1>5. CrcOf(Append(s, byte)) = CrcStep(CrcOf(s), byte)
  <2> HIDE DEF n, s
  <2> QED BY <1>1, <1>2, CrcAssumption
<1>6. t = Covered(Append(bytes, byte), Len(bytes))
  BY <1>1
<1> QED BY <1>4, <1>5, <1>6

-----------------------------------------------------------------------------
LEMMA WordRange ==
    ASSUME NEW n \in Nat, n <= 65535
    PROVE  n \in Words
<1>1. MaxWord \in Nat /\ n <= MaxWord
  BY DEF MaxWord
<1> QED BY <1>1 DEF Words

LEMMA ZeroIsWord == 0 \in Words
BY WordRange

LEMMA Zeroes == 0 \in Bytes /\ 0 \in Crcs
<1>1. 0 \div 256 = 0 /\ 0 % 256 = 0 /\ 0 \in Bytes
  BY BytesAssumption, SMT
<1> QED BY <1>1, ZeroIsWord DEF Crcs

LEMMA Initially == Init => Inv
<1> SUFFICES ASSUME Init PROVE Inv
  OBVIOUS
<1>1. 0 \in Bytes /\ 0 \in Crcs
  BY Zeroes
<1>2. buffer \in [0 .. MaxPayload - 1 -> Bytes]
  BY <1>1 DEF Init
<1>3. attempt \in Lines
  BY EmptySeq DEF Init, Lines
<1>4. TypeOK
  BY <1>1, <1>2, <1>3, ZeroIsWord, MaxPayloadAssumption
  DEF Init, TypeOK, States, Results, Waiting
<1>5. PlaceInv /\ OutcomeInv
  BY DEF Init, PlaceInv, OutcomeInv, Waiting
<1> QED BY <1>4, <1>5 DEF Inv

LEMMA WaitStartInv ==
    ASSUME Inv, NEW byte \in Bytes, WaitStart(byte)
    PROVE  Inv'
<1>1. CASE byte = START
  <2>1. /\ state' = "READ_LENGTH_HIGH" /\ crc' = CrcInit /\ attempt' = <<byte>>
        /\ offset' = 0 /\ length' = 0 /\ result' = "running" /\ buffer' = buffer
    BY <1>1 DEF WaitStart
  <2>2. Len(attempt') = 1 /\ attempt'[1] = START
    BY <1>1, <2>1
  <2>a. attempt' \in Lines
    BY <2>1 DEF Lines
  <2>3. Covered(attempt', 0) = <<>>
    BY DEF Covered
  <2>4. crc' = CrcOf(Covered(attempt', 0)) /\ crc' \in Crcs
    BY <2>1, <2>3, CrcAssumption
  <2>5. TypeOK'
    <3>1. state' \in States /\ result' \in Results
      BY <2>1 DEF States, Results
    <3>2. offset' \in 0 .. MaxPayload /\ length' \in Words
      BY <2>1, ZeroIsWord, MaxPayloadAssumption
    <3>3. buffer' \in [0 .. MaxPayload - 1 -> Bytes]
      BY <2>1, Zenon DEF Inv, TypeOK
    <3> QED BY <2>a, <2>4, <3>1, <3>2, <3>3, Zenon DEF TypeOK
  <2>6. AtLengthHigh'
    BY <2>2, <2>4 DEF AtLengthHigh
  <2>7. PlaceInv' /\ OutcomeInv'
    BY <2>1, <2>6 DEF PlaceInv, OutcomeInv, Waiting
  <2> QED BY <2>5, <2>7 DEF Inv
<1>2. CASE byte # START
  <2>1. /\ state' = Waiting /\ crc' = crc /\ attempt' = <<>>
        /\ offset' = 0 /\ length' = 0 /\ result' = "running" /\ buffer' = buffer
    BY <1>2 DEF WaitStart
  <2>2. attempt' \in Lines
    BY <2>1, EmptySeq DEF Lines
  <2>3. TypeOK'
    BY <2>1, <2>2, ZeroIsWord, MaxPayloadAssumption DEF Inv, TypeOK, States, Results
  <2>4. PlaceInv' /\ OutcomeInv'
    BY <2>1 DEF PlaceInv, OutcomeInv, Waiting
  <2> QED BY <2>3, <2>4 DEF Inv
<1> QED BY <1>1, <1>2

(* What every later byte does to the line and its checksum. *)
LEMMA NextByte ==
    ASSUME Inv, NEW byte \in Bytes, attempt' = Append(attempt, byte)
    PROVE  /\ attempt \in Lines /\ attempt' \in Lines
           /\ Len(attempt) \in Nat
           /\ Len(attempt') = Len(attempt) + 1
           /\ attempt'[Len(attempt) + 1] = byte
           /\ \A i \in 1 .. Len(attempt) : attempt'[i] = attempt[i]
           /\ \A n \in Nat :
                  n < Len(attempt) => Covered(attempt', n) = Covered(attempt, n)
           /\ Len(attempt) \in 1 .. MaxPayload + 2 =>
                  CrcOf(Covered(attempt', Len(attempt)))
                      = CrcStep(CrcOf(Covered(attempt, Len(attempt) - 1)), byte)
<1>1. attempt \in Seq(Bytes)
  BY DEF Inv, TypeOK, Lines
<1> QED BY <1>1, AppendedByte, CoveredUnchanged, CrcOfAppended DEF Lines

LEMMA ByteRange == \A byte \in Bytes : byte \in Nat /\ byte <= 255
<1> SUFFICES ASSUME NEW byte \in Bytes PROVE byte \in Nat /\ byte <= 255
  OBVIOUS
<1>1. MaxByte \in Nat
  BY DEF MaxByte
<1>2. byte \in Nat /\ byte <= MaxByte
  BY <1>1, BytesAssumption
<1> QED BY <1>2 DEF MaxByte

LEMMA CrcRange == \A c \in Crcs, byte \in Bytes : CrcStep(c, byte) \in Crcs
BY CrcAssumption

LEMMA TwoBytesAreWord ==
    ASSUME NEW high \in Nat, high <= 255, NEW low \in Nat, low <= 255
    PROVE  high * 256 + low \in Words
<1>1. high * 256 + low \in Nat /\ high * 256 + low <= 65535
  OBVIOUS
<1> QED BY <1>1, WordRange

LEMMA HighByteIsWord ==
    ASSUME NEW high \in Nat, high <= 255
    PROVE  high * 256 \in Words
<1>1. high * 256 \in Nat /\ high * 256 <= 65535
  OBVIOUS
<1> QED BY <1>1, WordRange

LEMMA HalvesOfWord ==
    ASSUME NEW n \in Nat
    PROVE  (n \div 256) * 256 + (n % 256) = n
<1> DEFINE q == n \div 256
<1>1. n % 256 = n - 256 * q
  BY SMT
<1>2. q \in Nat
  BY SMT
<1> HIDE DEF q
<1>3. q * 256 + (n - 256 * q) = n
  BY <1>2
<1>4. q * 256 + (n % 256) = n
  BY <1>1, <1>3, Zenon
<1> QED BY <1>4 DEF q

LEMMA ReadLengthHighInv ==
    ASSUME Inv, NEW byte \in Bytes, ReadLengthHigh(byte)
    PROVE  Inv'
<1>1. TypeOK /\ result = "running" /\ AtLengthHigh
  BY DEF Inv, PlaceInv, ReadLengthHigh, Waiting
<1>0. attempt' = Append(attempt, byte)
  BY DEF ReadLengthHigh
<1>2. /\ state' = "READ_LENGTH_LOW"
      /\ crc' = CrcStep(crc, byte)
      /\ UNCHANGED <<offset, buffer, result>>
  BY DEF ReadLengthHigh
<1>length. length' = byte * 256
  BY DEF ReadLengthHigh
<1>3. /\ Len(attempt) = 1 /\ attempt[1] = START
      /\ crc = CrcOf(Covered(attempt, 0))
  BY <1>1 DEF AtLengthHigh
<1>a. attempt' \in Lines
  BY <1>0, NextByte
<1>4. Len(attempt') = 2
  BY <1>0, <1>3, NextByte
<1>5. attempt'[1] = START /\ attempt'[2] = byte
  BY <1>0, <1>3, NextByte
<1>6. crc' = CrcOf(Covered(attempt', 1))
  <2>1. Len(attempt) \in 1 .. MaxPayload + 2 /\ Len(attempt) - 1 = 0
    BY <1>3, MaxPayloadAssumption
  <2> QED BY <1>0, <1>2, <1>3, <2>1, NextByte
<1>7. crc' \in Crcs
  BY <1>1, <1>2, CrcRange DEF TypeOK
<1>8. length' \in Words
  <2>1. byte \in Nat /\ byte <= 255
    BY ByteRange
  <2>2. byte * 256 \in Words
    BY <2>1, HighByteIsWord
  <2> QED BY <1>length, <2>2, Zenon
<1>9. TypeOK'
  <2>1. state' \in States
    BY <1>2 DEF States
  <2>2. /\ offset' \in 0 .. MaxPayload /\ result' \in Results
        /\ buffer' \in [0 .. MaxPayload - 1 -> Bytes]
    BY <1>1, <1>2, Zenon DEF TypeOK
  <2> QED BY <1>a, <1>7, <1>8, <2>1, <2>2, Zenon DEF TypeOK
<1>10. AtLengthLow'
  BY <1>length, <1>4, <1>5, <1>6 DEF AtLengthLow
<1>11. PlaceInv' /\ OutcomeInv'
  BY <1>1, <1>2, <1>10 DEF PlaceInv, OutcomeInv, Waiting
<1> QED BY <1>9, <1>11 DEF Inv

LEMMA ReadLengthLowInv ==
    ASSUME Inv, NEW byte \in Bytes, ReadLengthLow(byte)
    PROVE  Inv'
<1>1. TypeOK /\ result = "running" /\ AtLengthLow
  BY DEF Inv, PlaceInv, ReadLengthLow, Waiting
<1>0. attempt' = Append(attempt, byte)
  BY DEF ReadLengthLow
<1>length. length' = length + byte
  BY DEF ReadLengthLow
<1>2. /\ offset' = 0
      /\ crc' = CrcStep(crc, byte)
      /\ buffer' = buffer
      /\ IF length' \in 1 .. MaxPayload
         THEN state' = "READ_PAYLOAD" /\ result' = result
         ELSE state' = Waiting /\ result' = "length"
  BY DEF ReadLengthLow
<1>3. /\ Len(attempt) = 2 /\ attempt[1] = START
      /\ crc = CrcOf(Covered(attempt, 1))
  BY <1>1 DEF AtLengthLow
<1>a. attempt' \in Lines
  BY <1>0, NextByte
<1>4. Len(attempt') = 3
  BY <1>0, <1>3, NextByte
<1>5. attempt'[1] = START /\ attempt'[2] = attempt[2] /\ attempt'[3] = byte
  BY <1>0, <1>3, NextByte
<1>6. crc' = CrcOf(Covered(attempt', 2))
  <2>1. Len(attempt) \in 1 .. MaxPayload + 2 /\ Len(attempt) - 1 = 1
    BY <1>3, MaxPayloadAssumption
  <2> QED BY <1>0, <1>2, <1>3, <2>1, NextByte
<1>7. crc' \in Crcs
  BY <1>1, <1>2, CrcRange DEF TypeOK
<1>8. /\ attempt'[2] \in Nat /\ attempt'[2] <= 255
      /\ attempt'[3] \in Nat /\ attempt'[3] <= 255
  <2>1. \A i \in 1 .. 3 : attempt'[i] \in Bytes
    BY <1>a, <1>4, ElementOfSeq DEF Lines
  <2> QED BY <2>1, ByteRange
<1>9. length' = attempt'[2] * 256 + attempt'[3]
  BY <1>1, <1>length, <1>5 DEF AtLengthLow
<1>10. /\ length' \in Words
       /\ attempt'[2] = length' \div 256
       /\ attempt'[3] = length' % 256
  <2> DEFINE high == attempt'[2]
             low == attempt'[3]
  <2>1. /\ (high * 256 + low) \div 256 = high
        /\ (high * 256 + low) % 256 = low
        /\ high * 256 + low \in Words
    <3>1. high \in Nat /\ high <= 255 /\ low \in Nat /\ low <= 255
      BY <1>8
    <3> HIDE DEF high, low
    <3>2. (high * 256 + low) \div 256 = high /\ (high * 256 + low) % 256 = low
      BY <3>1, SMT
    <3>3. high * 256 + low \in Words
      BY <3>1, TwoBytesAreWord
    <3> QED BY <3>2, <3>3
  <2> QED BY <1>9, <2>1, Zenon
<1>11. /\ offset' \in 0 .. MaxPayload
       /\ state' \in States
       /\ result' \in Results
  BY <1>1, <1>2, MaxPayloadAssumption DEF States, Results
<1>12. TypeOK'
  <2>1. buffer' \in [0 .. MaxPayload - 1 -> Bytes]
    BY <1>1, <1>2, Zenon DEF TypeOK
  <2> QED BY <1>a, <1>7, <1>10, <1>11, <2>1, Zenon DEF TypeOK
<1>13. CASE length' \in 1 .. MaxPayload
  <2>1. HeaderRead'
    BY <1>2, <1>5, <1>10, <1>13, MaxPayloadAssumption DEF HeaderRead
  <2>2. offset' < length' /\ Len(attempt') = offset' + 3 /\ offset' + 2 = 2
    BY <1>2, <1>4, <1>13, MaxPayloadAssumption
  <2>3. AtPayload'
    BY <1>6, <2>1, <2>2 DEF AtPayload
  <2>4. PlaceInv' /\ OutcomeInv'
    BY <1>1, <1>2, <1>13, <2>3 DEF PlaceInv, OutcomeInv, Waiting
  <2> QED BY <1>12, <2>4 DEF Inv
<1>14. CASE length' \notin 1 .. MaxPayload
  <2>1. BadLength'
    BY <1>4, <1>9, <1>14 DEF BadLength
  <2>2. PlaceInv' /\ OutcomeInv'
    BY <1>2, <1>14, <2>1 DEF PlaceInv, OutcomeInv, Waiting
  <2> QED BY <1>12, <2>2 DEF Inv
<1> QED BY <1>13, <1>14

LEMMA ReadPayloadInv ==
    ASSUME Inv, NEW byte \in Bytes, ReadPayload(byte)
    PROVE  Inv'
<1>1. TypeOK /\ result = "running" /\ AtPayload
  BY DEF Inv, PlaceInv, ReadPayload, Waiting
<1>0. attempt' = Append(attempt, byte)
  BY DEF ReadPayload
<1>2. /\ buffer' = [buffer EXCEPT ![offset] = byte]
      /\ offset' = offset + 1
      /\ crc' = CrcStep(crc, byte)
      /\ state' = IF offset' >= length THEN "READ_CRC_HIGH" ELSE "READ_PAYLOAD"
      /\ length' = length /\ result' = result
  BY DEF ReadPayload
<1>3. /\ HeaderRead /\ offset < length /\ Len(attempt) = offset + 3
      /\ crc = CrcOf(Covered(attempt, offset + 2))
  BY <1>1 DEF AtPayload
<1>4. offset \in Nat /\ length \in 1 .. MaxPayload /\ MaxPayload \in Nat
  BY <1>1, <1>3, MaxPayloadAssumption DEF TypeOK, HeaderRead
<1>5. offset \in 0 .. MaxPayload - 1 /\ offset' \in 0 .. MaxPayload /\ offset' <= length
  BY <1>2, <1>3, <1>4
<1>6. buffer' \in [0 .. MaxPayload - 1 -> Bytes]
  BY <1>1, <1>2, <1>5 DEF TypeOK
<1>7. Len(attempt') = offset' + 3
  BY <1>0, <1>2, <1>3, <1>4, NextByte
<1>8. crc' \in Crcs
  BY <1>1, <1>2, CrcRange DEF TypeOK
<1>9. crc' = CrcOf(Covered(attempt', offset' + 2))
  <2>1. /\ Len(attempt) \in 1 .. MaxPayload + 2
        /\ Len(attempt) - 1 = offset + 2 /\ Len(attempt) = offset' + 2
    BY <1>2, <1>3, <1>4
  <2> QED BY <1>0, <1>2, <1>3, <2>1, NextByte
<1>10. TypeOK'
  <2>1. attempt' \in Lines
    BY <1>0, NextByte
  <2>2. state' \in States
    BY <1>2 DEF States
  <2>3. length' \in Words /\ result' \in Results
    BY <1>1, <1>2, Zenon DEF TypeOK
  <2> QED BY <1>5, <1>6, <1>8, <2>1, <2>2, <2>3, Zenon DEF TypeOK
<1>11. HeaderRead'
  <2>1. /\ attempt'[1] = attempt[1] /\ attempt'[2] = attempt[2]
        /\ attempt'[3] = attempt[3]
    <3>1. 1 \in 1 .. Len(attempt) /\ 2 \in 1 .. Len(attempt) /\ 3 \in 1 .. Len(attempt)
      BY <1>3, <1>4
    <3> QED BY <1>0, <3>1, NextByte
  <2>2. ASSUME NEW i \in 1 .. offset' PROVE attempt'[i + 3] = buffer'[i - 1]
    <3>1. CASE i = offset'
      <4>1. i + 3 = Len(attempt) + 1 /\ i - 1 = offset
        BY <1>2, <1>3, <1>4, <3>1
      <4>2. attempt'[i + 3] = byte
        BY <1>0, <4>1, NextByte
      <4>3. buffer'[i - 1] = byte
        BY <1>1, <1>2, <1>5, <4>1 DEF TypeOK
      <4> QED BY <4>2, <4>3
    <3>2. CASE i # offset'
      <4>1. /\ i \in 1 .. offset /\ i + 3 \in 1 .. Len(attempt)
            /\ i - 1 \in 0 .. MaxPayload - 1 /\ i - 1 # offset
        BY <1>2, <1>3, <1>4, <1>5, <3>2
      <4>2. attempt'[i + 3] = attempt[i + 3]
        BY <1>0, <4>1, NextByte
      <4>3. buffer'[i - 1] = buffer[i - 1]
        BY <1>1, <1>2, <4>1 DEF TypeOK
      <4>4. attempt[i + 3] = buffer[i - 1]
        BY <1>3, <4>1 DEF HeaderRead
      <4> QED BY <4>2, <4>3, <4>4
    <3> QED BY <3>1, <3>2
  <2>3. length' = length
    BY <1>2
  <2> QED BY <1>3, <1>5, <2>1, <2>2, <2>3 DEF HeaderRead
<1>12. CASE offset' >= length
  <2>1. offset' = length' /\ state' = "READ_CRC_HIGH" /\ result' = "running"
    BY <1>1, <1>2, <1>4, <1>5, <1>12
  <2>2. PayloadRead' /\ Len(attempt') = length' + 3
    BY <1>7, <1>9, <1>11, <2>1 DEF PayloadRead
  <2>3. PlaceInv' /\ OutcomeInv'
    BY <2>1, <2>2 DEF PlaceInv, OutcomeInv, Waiting
  <2> QED BY <1>10, <2>3 DEF Inv
<1>13. CASE ~ (offset' >= length)
  <2>1. offset' < length' /\ state' = "READ_PAYLOAD" /\ result' = "running"
    BY <1>1, <1>2, <1>4, <1>5, <1>13
  <2>2. AtPayload'
    BY <1>7, <1>9, <1>11, <2>1 DEF AtPayload
  <2>3. PlaceInv' /\ OutcomeInv'
    BY <2>1, <2>2 DEF PlaceInv, OutcomeInv, Waiting
  <2> QED BY <1>10, <2>3 DEF Inv
<1> QED BY <1>12, <1>13

(* After the payload the line grows and the parser's data stay.             *)
LEMMA PayloadKept ==
    ASSUME Inv, NEW byte \in Bytes, attempt' = Append(attempt, byte),
           UNCHANGED <<offset, length, crc, buffer>>,
           PayloadRead, Len(attempt) >= length + 3,
           state' \in States, result' \in Results
    PROVE  /\ TypeOK' /\ PayloadRead'
           /\ FirstCrcRead /\ Len(attempt) >= length + 4 => FirstCrcRead'
           /\ BothCrcsRead /\ Len(attempt) >= length + 5 => BothCrcsRead'
           /\ length \in Nat
<1>1. TypeOK
  BY DEF Inv
<1>2. length \in Nat /\ length >= 1 /\ offset = length
  BY MaxPayloadAssumption DEF PayloadRead, HeaderRead
<1>3. TypeOK'
  <2>1. attempt' \in Lines
    BY NextByte
  <2> QED BY <1>1, <2>1, Zenon DEF TypeOK
<1>4. /\ Len(attempt) \in Nat
      /\ \A i \in 1 .. Len(attempt) : attempt'[i] = attempt[i]
  BY NextByte
<1>5. \A i \in 1 .. length + 3 : attempt'[i] = attempt[i]
  BY <1>2, <1>4
<1>6. HeaderRead'
  <2>1. /\ attempt'[1] = attempt[1] /\ attempt'[2] = attempt[2]
        /\ attempt'[3] = attempt[3]
    BY <1>2, <1>5
  <2>2. \A i \in 1 .. offset : attempt'[i + 3] = attempt[i + 3]
    BY <1>2, <1>5
  <2> QED BY <2>1, <2>2 DEF HeaderRead, PayloadRead
<1>7. PayloadRead'
  <2>1. length + 2 \in Nat /\ length + 2 < Len(attempt)
    BY <1>2, <1>4
  <2>2. Covered(attempt', length + 2) = Covered(attempt, length + 2)
    BY <2>1, NextByte
  <2> QED BY <1>6, <2>2 DEF PayloadRead
<1>8. ASSUME FirstCrcRead, Len(attempt) >= length + 4 PROVE FirstCrcRead'
  <2>1. length + 4 \in 1 .. Len(attempt)
    BY <1>2, <1>4, <1>8
  <2>2. attempt'[length + 4] = attempt[length + 4]
    BY <1>4, <2>1
  <2> QED BY <1>7, <1>8, <2>2 DEF FirstCrcRead
<1>9. ASSUME BothCrcsRead, Len(attempt) >= length + 5 PROVE BothCrcsRead'
  <2>1. length + 5 \in 1 .. Len(attempt) /\ Len(attempt) >= length + 4
    BY <1>2, <1>4, <1>9
  <2>2. attempt'[length + 5] = attempt[length + 5]
    BY <1>4, <2>1
  <2>3. FirstCrcRead'
    BY <1>8, <1>9, <2>1 DEF BothCrcsRead
  <2> QED BY <1>9, <2>2, <2>3 DEF BothCrcsRead
<1> QED BY <1>2, <1>3, <1>7, <1>8, <1>9

LEMMA ReadCrcHighInv ==
    ASSUME Inv, NEW byte \in Bytes, ReadCrcHigh(byte)
    PROVE  Inv'
<1>1. TypeOK /\ result = "running" /\ PayloadRead /\ Len(attempt) = length + 3
  BY DEF Inv, PlaceInv, ReadCrcHigh, Waiting
<1>2. attempt' = Append(attempt, byte)
  BY DEF ReadCrcHigh
<1>3. /\ IF byte = crc \div 256
         THEN state' = "READ_CRC_LOW" /\ result' = result
         ELSE state' = Waiting /\ result' = "crc"
      /\ UNCHANGED <<offset, length, crc, buffer>>
  BY DEF ReadCrcHigh
<1>4. state' \in States /\ result' \in Results
  BY <1>1, <1>3 DEF States, Results
<1>5. length \in Nat /\ Len(attempt) >= length + 3
  BY <1>1, MaxPayloadAssumption DEF PayloadRead, HeaderRead
<1>6. TypeOK' /\ PayloadRead'
  BY <1>1, <1>2, <1>3, <1>4, <1>5, PayloadKept
<1>7. Len(attempt') = length' + 4 /\ attempt'[length' + 4] = byte
  <2>1. Len(attempt) + 1 = length' + 4
    BY <1>1, <1>3, <1>5
  <2> QED BY <1>2, <2>1, NextByte
<1>8. CASE byte = crc \div 256
  <2>1. FirstCrcRead'
    BY <1>3, <1>6, <1>7, <1>8 DEF FirstCrcRead
  <2>2. PlaceInv' /\ OutcomeInv'
    BY <1>1, <1>3, <1>7, <1>8, <2>1 DEF PlaceInv, OutcomeInv, Waiting
  <2> QED BY <1>6, <2>2 DEF Inv
<1>9. CASE byte # crc \div 256
  <2>1. BadCrc'
    BY <1>3, <1>6, <1>7, <1>9 DEF BadCrc
  <2>2. PlaceInv' /\ OutcomeInv'
    BY <1>3, <1>9, <2>1 DEF PlaceInv, OutcomeInv, Waiting
  <2> QED BY <1>6, <2>2 DEF Inv
<1> QED BY <1>8, <1>9

LEMMA ReadCrcLowInv ==
    ASSUME Inv, NEW byte \in Bytes, ReadCrcLow(byte)
    PROVE  Inv'
<1>1. TypeOK /\ result = "running" /\ FirstCrcRead /\ Len(attempt) = length + 4
  BY DEF Inv, PlaceInv, ReadCrcLow, Waiting
<1>2. attempt' = Append(attempt, byte)
  BY DEF ReadCrcLow
<1>3. /\ IF byte = crc % 256
         THEN state' = "WAIT_END" /\ result' = result
         ELSE state' = Waiting /\ result' = "crc"
      /\ UNCHANGED <<offset, length, crc, buffer>>
  BY DEF ReadCrcLow
<1>4. state' \in States /\ result' \in Results
  BY <1>1, <1>3 DEF States, Results
<1>5. /\ PayloadRead /\ length \in Nat
      /\ Len(attempt) >= length + 3 /\ Len(attempt) >= length + 4
  BY <1>1, MaxPayloadAssumption DEF FirstCrcRead, PayloadRead, HeaderRead
<1>6. TypeOK' /\ PayloadRead' /\ FirstCrcRead'
  BY <1>1, <1>2, <1>3, <1>4, <1>5, PayloadKept
<1>7. Len(attempt') = length' + 5 /\ attempt'[length' + 5] = byte
  <2>1. Len(attempt) + 1 = length' + 5
    BY <1>1, <1>3, <1>5
  <2> QED BY <1>2, <2>1, NextByte
<1>8. CASE byte = crc % 256
  <2>1. BothCrcsRead'
    BY <1>3, <1>6, <1>7, <1>8 DEF BothCrcsRead
  <2>2. PlaceInv' /\ OutcomeInv'
    BY <1>1, <1>3, <1>7, <1>8, <2>1 DEF PlaceInv, OutcomeInv, Waiting
  <2> QED BY <1>6, <2>2 DEF Inv
<1>9. CASE byte # crc % 256
  <2>1. BadCrc'
    BY <1>3, <1>6, <1>7, <1>9 DEF BadCrc
  <2>2. PlaceInv' /\ OutcomeInv'
    BY <1>3, <1>9, <2>1 DEF PlaceInv, OutcomeInv, Waiting
  <2> QED BY <1>6, <2>2 DEF Inv
<1> QED BY <1>8, <1>9

LEMMA WaitEndInv ==
    ASSUME Inv, NEW byte \in Bytes, WaitEnd(byte)
    PROVE  Inv'
<1>1. TypeOK /\ result = "running" /\ BothCrcsRead /\ Len(attempt) = length + 5
  BY DEF Inv, PlaceInv, WaitEnd, Waiting
<1>2. attempt' = Append(attempt, byte)
  BY DEF WaitEnd
<1>3. /\ state' = Waiting
      /\ result' = IF byte = END THEN "success" ELSE "end"
      /\ UNCHANGED <<offset, length, crc, buffer>>
  BY DEF WaitEnd
<1>4. state' \in States /\ result' \in Results
  BY <1>3 DEF States, Results
<1>5. /\ PayloadRead /\ length \in Nat
      /\ Len(attempt) >= length + 3 /\ Len(attempt) >= length + 5
  BY <1>1, MaxPayloadAssumption DEF BothCrcsRead, FirstCrcRead, PayloadRead, HeaderRead
<1>6. TypeOK' /\ PayloadRead' /\ BothCrcsRead'
  BY <1>1, <1>2, <1>3, <1>4, <1>5, PayloadKept
<1>7. Len(attempt') = length' + 6 /\ attempt'[length' + 6] = byte
  <2>1. Len(attempt) + 1 = length' + 6
    BY <1>1, <1>3, <1>5
  <2> QED BY <1>2, <2>1, NextByte
<1>8. CASE byte = END
  <2>1. Delivered'
    BY <1>6, <1>7, <1>8 DEF Delivered
  <2>2. PlaceInv' /\ OutcomeInv'
    BY <1>3, <1>8, <2>1 DEF PlaceInv, OutcomeInv, Waiting
  <2> QED BY <1>6, <2>2 DEF Inv
<1>9. CASE byte # END
  <2>1. BadEnd'
    BY <1>6, <1>7, <1>9 DEF BadEnd
  <2>2. PlaceInv' /\ OutcomeInv'
    BY <1>3, <1>9, <2>1 DEF PlaceInv, OutcomeInv, Waiting
  <2> QED BY <1>6, <2>2 DEF Inv
<1> QED BY <1>8, <1>9

LEMMA ResetInv ==
    ASSUME Inv, Reset
    PROVE  Inv'
<1>1. /\ state' = Waiting /\ result' = "running" /\ attempt' = <<>>
      /\ offset' = 0 /\ length' = 0 /\ crc' = 0 /\ buffer' = buffer
  BY DEF Reset
<1>2. state' \in States /\ result' \in Results
  BY <1>1 DEF States, Results
<1>3. attempt' \in Lines
  BY <1>1, EmptySeq DEF Lines
<1>4. offset' \in 0 .. MaxPayload
  BY <1>1, MaxPayloadAssumption
<1>5. length' \in Words /\ crc' \in Crcs
  BY <1>1, ZeroIsWord, Zeroes
<1>6. buffer' \in [0 .. MaxPayload - 1 -> Bytes]
  BY <1>1, Zenon DEF Inv, TypeOK
<1>7. TypeOK'
  BY <1>2, <1>3, <1>4, <1>5, <1>6, Zenon DEF TypeOK
<1>8. PlaceInv' /\ OutcomeInv'
  BY <1>1 DEF PlaceInv, OutcomeInv, Waiting
<1> QED BY <1>7, <1>8 DEF Inv

LEMMA InductiveInv == Inv /\ [Next]_vars => Inv'
<1> SUFFICES ASSUME Inv, [Next]_vars PROVE Inv'
  OBVIOUS
<1>1. ASSUME NEW byte \in Bytes, Parse(byte) PROVE Inv'
  BY <1>1, WaitStartInv, ReadLengthHighInv, ReadLengthLowInv, ReadPayloadInv,
     ReadCrcHighInv, ReadCrcLowInv, WaitEndInv DEF Parse
<1>2. ASSUME UNCHANGED vars PROVE Inv'
  <2>1. UNCHANGED <<state, offset, length, crc, buffer, result, attempt>>
    BY <1>2 DEF vars
  <2>2. TypeOK'
    BY <2>1, Zenon DEF Inv, TypeOK
  <2>3. PlaceInv' /\ OutcomeInv'
    BY <2>1 DEF Inv, PlaceInv, OutcomeInv, AtLengthHigh, AtLengthLow, AtPayload,
       HeaderRead, PayloadRead, FirstCrcRead, BothCrcsRead, Delivered, BadLength,
       BadCrc, BadEnd
  <2> QED BY <2>2, <2>3 DEF Inv
<1> QED BY <1>1, <1>2, ResetInv DEF Next

LEMMA AlwaysInv == Spec => []Inv
BY Initially, InductiveInv, PTL DEF Spec

-----------------------------------------------------------------------------
(* The parser's state has its type, for every line and payload size.        *)
THEOREM TypeCorrect == Spec => []TypeOK
BY AlwaysInv, PTL DEF Inv

(* Every state of a frame in progress leaves room. *)
LEMMA RoomLeft == Inv => RoomForNextByte
<1> SUFFICES ASSUME Inv PROVE RoomForNextByte
  OBVIOUS
<1>1. PlaceInv /\ state \in States
  BY Zenon DEF Inv, TypeOK
<1>2. ASSUME state = "READ_PAYLOAD" PROVE offset < MaxPayload /\ Len(attempt) < MaxPayload + 6
  <2>1. AtPayload /\ offset \in 0 .. MaxPayload
    BY <1>1, <1>2, Zenon DEF PlaceInv, Inv, TypeOK
  <2> QED BY <2>1, MaxPayloadAssumption DEF AtPayload, HeaderRead
<1>3. ASSUME state \in {"READ_LENGTH_HIGH", "READ_LENGTH_LOW"} PROVE Len(attempt) < MaxPayload + 6
  <2>1. Len(attempt) \in {1, 2}
    BY <1>1, <1>3 DEF PlaceInv, AtLengthHigh, AtLengthLow
  <2>2. 1 < MaxPayload + 6 /\ 2 < MaxPayload + 6
    BY MaxPayloadAssumption
  <2>3. Len(attempt) = 1 \/ Len(attempt) = 2
    BY <2>1
  <2> QED BY <2>2, <2>3
<1>4. ASSUME state \in {"READ_CRC_HIGH", "READ_CRC_LOW", "WAIT_END"} PROVE Len(attempt) < MaxPayload + 6
  <2>1. Len(attempt) \in {length + 3, length + 4, length + 5} /\ length \in 1 .. MaxPayload
    BY <1>1, <1>4 DEF PlaceInv, BothCrcsRead, FirstCrcRead, PayloadRead, HeaderRead
  <2> QED BY <2>1, MaxPayloadAssumption
<1> QED BY <1>1, <1>2, <1>3, <1>4 DEF RoomForNextByte, States, Waiting

(* RoomForNextByte of FrameParser.tla: the parser never writes outside      *)
(* comm_rx_buffer and never consumes more than the longest frame.           *)
THEOREM BufferNeverOverrun == Spec => []RoomForNextByte
BY RoomLeft, AlwaysInv, PTL

-----------------------------------------------------------------------------
Header(payload) == <<Len(payload) \div 256, Len(payload) % 256>>
Check(payload) == CrcOf(Header(payload) \o payload)

(* What the bytes of a frame are drawn from: the CRC of a payload is known  *)
(* to be a word only where the parser computed it.                          *)
Alphabet(payload) == Nat \union {Check(payload) \div 256, Check(payload) % 256}

PackedShape(payload) ==
    /\ Pack(payload) \in Seq(Alphabet(payload))
    /\ Len(Pack(payload)) = Len(payload) + 6
    /\ Pack(payload)[1] = START
    /\ Pack(payload)[2] = Len(payload) \div 256
    /\ Pack(payload)[3] = Len(payload) % 256
    /\ \A i \in 1 .. Len(payload) : Pack(payload)[i + 3] = payload[i]
    /\ Pack(payload)[Len(payload) + 4] = Check(payload) \div 256
    /\ Pack(payload)[Len(payload) + 5] = Check(payload) % 256
    /\ Pack(payload)[Len(payload) + 6] = END

LEMMA FrameShape ==
    ASSUME NEW S, START \in S, END \in S, NEW high \in S, NEW low \in S,
           NEW payload \in Seq(S), NEW first \in S, NEW second \in S,
           NEW frame,
           frame = <<START>> \o <<high, low>> \o payload \o <<first, second, END>>
    PROVE  /\ frame \in Seq(S) /\ Len(frame) = Len(payload) + 6
           /\ frame[1] = START /\ frame[2] = high /\ frame[3] = low
           /\ \A i \in 1 .. Len(payload) : frame[i + 3] = payload[i]
           /\ frame[Len(payload) + 4] = first
           /\ frame[Len(payload) + 5] = second
           /\ frame[Len(payload) + 6] = END
<1> DEFINE top == <<START>> \o <<high, low>>
           tail == <<first, second, END>>
<1>1. /\ top \in Seq(S) /\ Len(top) = 3
      /\ top[1] = START /\ top[2] = high /\ top[3] = low
  OBVIOUS
<1>2. /\ tail \in Seq(S) /\ Len(tail) = 3
      /\ tail[1] = first /\ tail[2] = second /\ tail[3] = END
  OBVIOUS
<1>3. frame = (top \o payload) \o tail
  OBVIOUS
<1> HIDE DEF top, tail
<1>4. Len(payload) \in Nat
  OBVIOUS
<1>5. /\ top \o payload \in Seq(S) /\ Len(top \o payload) = Len(payload) + 3
      /\ \A i \in 1 .. Len(payload) + 3 :
             (top \o payload)[i] = IF i <= 3 THEN top[i] ELSE payload[i - 3]
  <2>1. /\ top \o payload \in Seq(S) /\ Len(top \o payload) = Len(top) + Len(payload)
        /\ \A i \in 1 .. Len(top) + Len(payload) :
               (top \o payload)[i] = IF i <= Len(top) THEN top[i] ELSE payload[i - Len(top)]
    <3>1. \A s, t \in Seq(S) :
              /\ s \o t \in Seq(S) /\ Len(s \o t) = Len(s) + Len(t)
              /\ \A i \in 1 .. Len(s) + Len(t) :
                     (s \o t)[i] = IF i <= Len(s) THEN s[i] ELSE t[i - Len(s)]
      BY ConcatProperties, Zenon
    <3>2. top \in Seq(S) /\ payload \in Seq(S)
      BY <1>1
    <3> QED BY <3>1, <3>2, Zenon
  <2>2. Len(top) + Len(payload) = Len(payload) + 3
    BY <1>1, <1>4
  <2>3. Len(top) = 3
    BY <1>1
  <2> QED BY <2>1, <2>2, <2>3, SMT
<1>6. /\ frame \in Seq(S) /\ Len(frame) = Len(payload) + 6
      /\ \A i \in 1 .. Len(payload) + 6 :
             frame[i] = IF i <= Len(payload) + 3 THEN (top \o payload)[i]
                                                 ELSE tail[i - (Len(payload) + 3)]
  <2> DEFINE front == top \o payload
  <2> HIDE DEF front
  <2>1. /\ front \in Seq(S) /\ Len(front) = Len(payload) + 3 /\ frame = front \o tail
    BY <1>3, <1>5 DEF front
  <2>2. /\ front \o tail \in Seq(S) /\ Len(front \o tail) = Len(front) + Len(tail)
        /\ \A i \in 1 .. Len(front) + Len(tail) :
               (front \o tail)[i] = IF i <= Len(front) THEN front[i] ELSE tail[i - Len(front)]
    BY <1>2, <2>1, ConcatProperties
  <2>3. Len(front) + Len(tail) = Len(payload) + 6
    BY <1>2, <1>4, <2>1
  <2> QED BY <2>1, <2>2, <2>3, Zenon DEF front
<1>7. frame[1] = START /\ frame[2] = high /\ frame[3] = low
  BY <1>1, <1>4, <1>5, <1>6
<1>8. ASSUME NEW i \in 1 .. Len(payload) PROVE frame[i + 3] = payload[i]
  <2>1. /\ i + 3 \in 1 .. Len(payload) + 6 /\ i + 3 \in 1 .. Len(payload) + 3
        /\ ~ (i + 3 <= 3) /\ i + 3 - 3 = i /\ i + 3 <= Len(payload) + 3
    BY <1>4
  <2> QED BY <1>5, <1>6, <2>1
<1>9. /\ frame[Len(payload) + 4] = tail[1]
      /\ frame[Len(payload) + 5] = tail[2]
      /\ frame[Len(payload) + 6] = tail[3]
  <2>1. \A k \in 1 .. 3 : /\ Len(payload) + 3 + k \in 1 .. Len(payload) + 6
                         /\ ~ (Len(payload) + 3 + k <= Len(payload) + 3)
                         /\ Len(payload) + 3 + k - (Len(payload) + 3) = k
    BY <1>4
  <2>2. \A k \in 1 .. 3 : frame[Len(payload) + 3 + k] = tail[k]
    BY <1>6, <2>1
  <2>3. /\ Len(payload) + 3 + 1 = Len(payload) + 4 /\ Len(payload) + 3 + 2 = Len(payload) + 5
        /\ Len(payload) + 3 + 3 = Len(payload) + 6
        /\ 1 \in 1 .. 3 /\ 2 \in 1 .. 3 /\ 3 \in 1 .. 3
    BY <1>4
  <2> QED BY <2>2, <2>3
<1> QED BY <1>2, <1>6, <1>7, <1>8, <1>9

(* The bytes of the frame my_pack_data makes of a payload. *)
LEMMA PackedFrame ==
    ASSUME NEW payload \in Payloads
    PROVE  /\ payload \in Seq(Bytes) /\ Len(payload) \in 1 .. MaxPayload
           /\ PackedShape(payload)
<1> DEFINE S == Alphabet(payload)
           high == Len(payload) \div 256
           low == Len(payload) % 256
           first == Check(payload) \div 256
           second == Check(payload) % 256
<1>1. PICK n \in 1 .. MaxPayload : payload \in [1 .. n -> Bytes]
  BY DEF Payloads
<1>2. payload \in Seq(Bytes) /\ Len(payload) = n
  BY <1>1, MaxPayloadAssumption
<1>3. Bytes \subseteq Nat
  BY BytesAssumption
<1>4. payload \in Seq(S)
  <2>1. Bytes \subseteq S
    BY <1>3 DEF Alphabet
  <2> HIDE DEF S
  <2> QED BY <1>2, <2>1
<1>5. START \in S /\ END \in S /\ first \in S /\ second \in S
  BY DEF Alphabet
<1>6. high \in S /\ low \in S
  BY <1>1, <1>2, MaxPayloadAssumption DEF Alphabet
<1>7. Pack(payload) = <<START>> \o <<high, low>> \o payload \o <<first, second, END>>
  BY DEF Pack, Check, Header
<1> HIDE DEF S, high, low, first, second
<1>8. /\ Pack(payload) \in Seq(S) /\ Len(Pack(payload)) = Len(payload) + 6
      /\ Pack(payload)[1] = START /\ Pack(payload)[2] = high /\ Pack(payload)[3] = low
      /\ \A i \in 1 .. Len(payload) : Pack(payload)[i + 3] = payload[i]
      /\ Pack(payload)[Len(payload) + 4] = first
      /\ Pack(payload)[Len(payload) + 5] = second
      /\ Pack(payload)[Len(payload) + 6] = END
  BY <1>4, <1>5, <1>6, <1>7, FrameShape
<1> QED BY <1>1, <1>2, <1>8, Zenon DEF PackedShape, S, high, low, first, second

(* A header followed by a payload is what the checksum covers.              *)
LEMMA CoveredBytes ==
    ASSUME NEW bytes \in Seq(Bytes), NEW payload \in Payloads,
           Len(bytes) >= Len(payload) + 3,
           bytes[2] = Len(payload) \div 256, bytes[3] = Len(payload) % 256,
           \A i \in 1 .. Len(payload) : bytes[i + 3] = payload[i]
    PROVE  Covered(bytes, Len(payload) + 2) = Header(payload) \o payload
<1> DEFINE n == Len(payload)
           c == Covered(bytes, n + 2)
           h == Header(payload)
<1>1. n \in Nat /\ payload \in Seq(Bytes) /\ Len(bytes) \in Nat /\ n + 2 < Len(bytes)
  BY PackedFrame, MaxPayloadAssumption
<1>2. c \in Seq(Bytes) /\ Len(c) = n + 2
  <2>1. n + 2 \in Nat
    BY <1>1
  <2>2. c \in [1 .. n + 2 -> Bytes] /\ c \in Seq(Bytes)
    <3> HIDE DEF n
    <3> QED BY <1>1, <2>1, CoveredType
  <2> HIDE DEF n, c
  <2> QED BY <2>1, <2>2
<1>3. h = <<bytes[2], bytes[3]>> /\ bytes[2] \in Bytes /\ bytes[3] \in Bytes
  <2>1. 2 \in 1 .. Len(bytes) /\ 3 \in 1 .. Len(bytes)
    BY <1>1
  <2> QED BY <2>1, ElementOfSeq DEF Header
<1>4. h \in Seq(Bytes) /\ Len(h) = 2 /\ h[1] = bytes[2] /\ h[2] = bytes[3]
  <2> HIDE DEF h
  <2> QED BY <1>3
<1>5. /\ h \o payload \in Seq(Bytes) /\ Len(h \o payload) = n + 2
      /\ \A i \in 1 .. n + 2 : (h \o payload)[i] = IF i <= 2 THEN h[i] ELSE payload[i - 2]
  <2> HIDE DEF h
  <2>1. /\ h \o payload \in Seq(Bytes) /\ Len(h \o payload) = Len(h) + Len(payload)
        /\ \A i \in 1 .. Len(h) + Len(payload) :
               (h \o payload)[i] = IF i <= Len(h) THEN h[i] ELSE payload[i - Len(h)]
    <3>1. h \in Seq(Bytes) /\ payload \in Seq(Bytes)
      BY <1>1, <1>4
    <3> QED BY <3>1, ConcatProperties
  <2>2. Len(h) + Len(payload) = n + 2
    BY <1>1, <1>4
  <2> QED BY <1>4, <2>1, <2>2, Zenon
<1>6. ASSUME NEW i \in 1 .. n + 2 PROVE c[i] = (h \o payload)[i]
  <2>1. c[i] = bytes[i + 1]
    BY DEF Covered
  <2>2. CASE i = 1
    BY <1>4, <1>5, <2>1, <2>2
  <2>3. CASE i = 2
    BY <1>4, <1>5, <2>1, <2>3
  <2>4. CASE i > 2
    <3>1. i - 2 \in 1 .. Len(payload) /\ (i - 2) + 3 = i + 1 /\ ~ (i <= 2)
      BY <1>1, <2>4
    <3>2. bytes[i + 1] = payload[i - 2]
      BY <3>1
    <3>3. (h \o payload)[i] = payload[i - 2]
      <4> HIDE DEF h, c, n
      <4> QED BY <1>5, <3>1
    <3> QED BY <2>1, <3>2, <3>3, Zenon
  <2>5. i = 1 \/ i = 2 \/ i > 2
    BY <1>1
  <2> QED BY <2>2, <2>3, <2>4, <2>5, Zenon
<1> HIDE DEF h, c, n
<1>7. c = h \o payload
  BY <1>2, <1>5, <1>6, SeqEqual
<1> QED BY <1>7 DEF h, c, n

(* Once the payload is read, it and its CRC are those of the line.          *)
LEMMA PayloadReadBytes ==
    ASSUME TypeOK, PayloadRead, Len(attempt) >= length + 3
    PROVE  /\ Payload \in Payloads /\ Len(Payload) = length
           /\ attempt \in Seq(Bytes) /\ length \in 1 .. MaxPayload
           /\ attempt[1] = START
           /\ attempt[2] = length \div 256 /\ attempt[3] = length % 256
           /\ \A i \in 1 .. length : attempt[i + 3] = Payload[i]
           /\ crc = Check(Payload)
<1>1. length \in 1 .. MaxPayload /\ length \in Nat /\ offset = length
  BY MaxPayloadAssumption DEF PayloadRead, HeaderRead
<1>2. buffer \in [0 .. MaxPayload - 1 -> Bytes] /\ attempt \in Seq(Bytes)
  BY Zenon DEF TypeOK, Lines
<1>3. Payload \in [1 .. length -> Bytes]
  BY <1>1, <1>2, MaxPayloadAssumption DEF Payload
<1>4. Payload \in Payloads
  BY <1>1, <1>3 DEF Payloads
<1>5. Len(Payload) = length
  BY <1>1 DEF Payload
<1>6. attempt[1] = START /\ attempt[2] = length \div 256 /\ attempt[3] = length % 256
  BY DEF PayloadRead, HeaderRead
<1>7. \A i \in 1 .. length : attempt[i + 3] = Payload[i]
  BY <1>1 DEF PayloadRead, HeaderRead, Payload
<1>8. Covered(attempt, length + 2) = Header(Payload) \o Payload
  BY <1>2, <1>4, <1>5, <1>6, <1>7, CoveredBytes
<1>9. crc = Check(Payload)
  BY <1>8 DEF PayloadRead, Check
<1> QED BY <1>1, <1>2, <1>4, <1>5, <1>6, <1>7, <1>9

(* A successful result comes with a whole frame. *)
LEMMA DeliveredFrame == Inv => DeliveredIsFramed
<1> SUFFICES ASSUME TypeOK, Delivered PROVE attempt = Pack(Payload)
  BY DEF Inv, OutcomeInv, DeliveredIsFramed
<1>1. /\ PayloadRead /\ attempt[length + 4] = crc \div 256
      /\ attempt[length + 5] = crc % 256 /\ attempt[length + 6] = END
      /\ Len(attempt) = length + 6
  BY DEF Delivered, BothCrcsRead, FirstCrcRead
<1>2. length \in Nat /\ length >= 1 /\ Len(attempt) >= length + 3
  BY <1>1, MaxPayloadAssumption DEF PayloadRead, HeaderRead
<1>3. /\ Payload \in Payloads /\ Len(Payload) = length
      /\ attempt \in Seq(Bytes)
      /\ attempt[1] = START
      /\ attempt[2] = length \div 256 /\ attempt[3] = length % 256
      /\ \A i \in 1 .. length : attempt[i + 3] = Payload[i]
      /\ crc = Check(Payload)
  BY <1>1, <1>2, PayloadReadBytes
<1> DEFINE frame == Pack(Payload)
           S == Alphabet(Payload)
<1>4. /\ frame \in Seq(S) /\ Len(frame) = length + 6
      /\ frame[1] = START
      /\ frame[2] = length \div 256 /\ frame[3] = length % 256
      /\ \A i \in 1 .. length : frame[i + 3] = Payload[i]
      /\ frame[length + 4] = crc \div 256
      /\ frame[length + 5] = crc % 256
      /\ frame[length + 6] = END
  <2>1. PackedShape(Payload)
    BY <1>3, PackedFrame
  <2> QED BY <1>3, <2>1, Zenon DEF PackedShape
<1>5. attempt \in Seq(S)
  <2>1. Bytes \subseteq S
    BY BytesAssumption DEF Alphabet
  <2> HIDE DEF S
  <2> QED BY <1>3, <2>1
<1> HIDE DEF frame, S
<1>6. ASSUME NEW i \in 1 .. length + 6 PROVE attempt[i] = frame[i]
  <2>1. CASE i <= 3
    <3>1. i = 1 \/ i = 2 \/ i = 3
      BY <2>1
    <3>2. attempt[1] = frame[1] /\ attempt[2] = frame[2] /\ attempt[3] = frame[3]
      <4>1. frame[1] = START /\ frame[2] = length \div 256 /\ frame[3] = length % 256
        BY <1>4
      <4>2. attempt[1] = START /\ attempt[2] = length \div 256 /\ attempt[3] = length % 256
        BY <1>3
      <4> QED BY <4>1, <4>2, Zenon
    <3> QED BY <3>1, <3>2, Zenon
  <2>2. CASE i > 3 /\ i <= length + 3
    <3>1. i - 3 \in 1 .. length /\ (i - 3) + 3 = i
      BY <1>2, <2>2
    <3>2. attempt[(i - 3) + 3] = Payload[i - 3] /\ frame[(i - 3) + 3] = Payload[i - 3]
      <4>1. \A j \in 1 .. length : attempt[j + 3] = Payload[j]
        BY <1>3
      <4>2. \A j \in 1 .. length : frame[j + 3] = Payload[j]
        BY <1>4
      <4> QED BY <3>1, <4>1, <4>2, Zenon
    <3> QED BY <3>1, <3>2
  <2>3. CASE i > length + 3
    <3>1. i = length + 4 \/ i = length + 5 \/ i = length + 6
      BY <1>2, <2>3
    <3>2. /\ attempt[length + 4] = frame[length + 4]
          /\ attempt[length + 5] = frame[length + 5]
          /\ attempt[length + 6] = frame[length + 6]
      BY <1>1, <1>4, Zenon
    <3> QED BY <3>1, <3>2, Zenon
  <2> QED BY <1>2, <2>1, <2>2, <2>3
<1>7. attempt = frame
  BY <1>1, <1>4, <1>5, <1>6, SeqEqual
<1> QED BY <1>7 DEF frame

(* DeliveredIsFramed of FrameParser.tla: a payload is handed over only      *)
(* when the last bytes of the line are the frame my_pack_data makes of it.  *)
THEOREM OnlyFramesDelivered == Spec => []DeliveredIsFramed
BY DeliveredFrame, AlwaysInv, PTL

-----------------------------------------------------------------------------
LEMMA ShortLength ==
    ASSUME NEW n \in 1 .. MaxPayload
    PROVE  n \div 256 = 0 /\ n % 256 = n
<1>1. n \in Nat /\ n <= 250
  BY MaxPayloadAssumption
<1> QED BY <1>1, SMT

LEMMA BegunBytes ==
    ASSUME NEW S, NEW T, NEW part \in Seq(S), NEW whole \in Seq(T), Begins(part, whole)
    PROVE  \A i \in 1 .. Len(part) : part[i] = whole[i]
<1>1. Len(part) \in Nat /\ Len(part) <= Len(whole) /\ part = SubSeq(whole, 1, Len(part))
  BY DEF Begins
<1> DEFINE n == Len(part)
<1>2. n \in 0 .. Len(whole) /\ Len(whole) \in Nat
  BY <1>1
<1>3. \A i \in 1 .. n : SubSeq(whole, 1, n)[i] = whole[i]
  <2> HIDE DEF n
  <2> QED BY <1>2
<1>4. part = SubSeq(whole, 1, n)
  BY <1>1
<1> QED BY <1>3, <1>4, Zenon

(* An error comes with the beginning of no frame. *)
LEMMA RefusedFrame == Inv => RefusedIsNoFrame
<1> SUFFICES ASSUME Inv, result \in {"length", "crc", "end"},
                    NEW payload \in Payloads, Begins(attempt, Pack(payload))
             PROVE  FALSE
  BY DEF RefusedIsNoFrame
<1> DEFINE frame == Pack(payload)
           n == Len(payload)
<1>1. TypeOK /\ attempt \in Seq(Bytes) /\ Len(attempt) \in Nat
  BY DEF Inv, TypeOK, Lines
<1>2. n \in 1 .. MaxPayload /\ n \in Nat /\ PackedShape(payload) /\ payload \in Seq(Bytes)
  BY PackedFrame, MaxPayloadAssumption
<1>3. \A i \in 1 .. Len(attempt) : attempt[i] = frame[i]
  <2>1. frame \in Seq(Alphabet(payload))
    BY <1>2, Zenon DEF PackedShape
  <2> HIDE DEF frame
  <2>2. Begins(attempt, frame)
    BY DEF frame
  <2> QED BY <1>1, <2>1, <2>2, BegunBytes
<1>4. /\ frame[2] = n \div 256 /\ frame[3] = n % 256
      /\ \A i \in 1 .. n : frame[i + 3] = payload[i]
      /\ frame[n + 4] = Check(payload) \div 256
      /\ frame[n + 5] = Check(payload) % 256
      /\ frame[n + 6] = END
  BY <1>2, Zenon DEF PackedShape
<1> HIDE DEF frame, n
<1>5. ~ BadLength
  <2> SUFFICES ASSUME BadLength PROVE FALSE
    OBVIOUS
  <2>1. Len(attempt) = 3 /\ attempt[2] * 256 + attempt[3] \notin 1 .. MaxPayload
    BY DEF BadLength
  <2>2. attempt[2] = n \div 256 /\ attempt[3] = n % 256
    <3>1. 2 \in 1 .. Len(attempt) /\ 3 \in 1 .. Len(attempt)
      BY <2>1
    <3>2. attempt[2] = frame[2] /\ attempt[3] = frame[3]
      BY <1>3, <3>1, Zenon
    <3>3. frame[2] = n \div 256 /\ frame[3] = n % 256
      BY <1>4
    <3> QED BY <3>2, <3>3, Zenon
  <2>3. n \div 256 = 0 /\ n % 256 = n
    BY <1>2, ShortLength
  <2>4. attempt[2] = 0 /\ attempt[3] = n
    BY <2>2, <2>3, Zenon
  <2>5. 0 * 256 + n = n
    BY <1>2
  <2> QED BY <1>2, <2>1, <2>4, <2>5, Zenon
<1>6. PayloadRead /\ Len(attempt) >= length + 4
  <2>1. BadCrc \/ BadEnd
    BY <1>5 DEF Inv, OutcomeInv
  <2>2. PayloadRead /\ length \in Nat
    <3>1. PayloadRead
      BY <2>1, Zenon DEF BadCrc, BadEnd, BothCrcsRead, FirstCrcRead
    <3> QED BY <3>1, MaxPayloadAssumption DEF PayloadRead, HeaderRead
  <2>3. Len(attempt) = length + 4 \/ Len(attempt) = length + 5 \/ Len(attempt) = length + 6
    BY <2>1, Zenon DEF BadCrc, BadEnd
  <2> QED BY <2>2, <2>3
<1>7. /\ Payload \in Payloads /\ Len(Payload) = length /\ length \in 1 .. MaxPayload
      /\ attempt[2] = length \div 256 /\ attempt[3] = length % 256
      /\ \A i \in 1 .. length : attempt[i + 3] = Payload[i]
      /\ crc = Check(Payload)
  <2>1. Len(attempt) >= length + 3
    BY <1>1, <1>6, MaxPayloadAssumption DEF PayloadRead, HeaderRead
  <2> QED BY <1>1, <1>6, <2>1, PayloadReadBytes
<1>8. length \in Nat /\ length >= 1
  BY <1>7, MaxPayloadAssumption
<1>9. length = n
  <2>1. 2 \in 1 .. Len(attempt) /\ 3 \in 1 .. Len(attempt)
    BY <1>1, <1>6, <1>8
  <2>2. length \div 256 = n \div 256 /\ length % 256 = n % 256
    <3>1. attempt[2] = frame[2] /\ attempt[3] = frame[3]
      BY <1>3, <2>1, Zenon
    <3>2. frame[2] = n \div 256 /\ frame[3] = n % 256
      BY <1>4
    <3>3. attempt[2] = length \div 256 /\ attempt[3] = length % 256
      BY <1>7
    <3> QED BY <3>1, <3>2, <3>3, Zenon
  <2>3. length % 256 = length /\ n % 256 = n
    BY <1>2, <1>7, ShortLength
  <2> QED BY <2>2, <2>3, Zenon
<1>10. Payload = payload
  <2>1. ASSUME NEW i \in 1 .. length PROVE Payload[i] = payload[i]
    <3>1. i + 3 \in 1 .. Len(attempt) /\ i \in 1 .. n
      BY <1>1, <1>6, <1>8, <1>9
    <3>2. attempt[i + 3] = Payload[i] /\ frame[i + 3] = payload[i]
      <4>1. \A j \in 1 .. n : frame[j + 3] = payload[j]
        BY <1>4
      <4>2. \A j \in 1 .. length : attempt[j + 3] = Payload[j]
        BY <1>7
      <4> QED BY <3>1, <4>1, <4>2, Zenon
    <3>3. attempt[i + 3] = frame[i + 3]
      BY <1>3, <3>1, Zenon
    <3> QED BY <3>2, <3>3, Zenon
  <2>2. Payload \in Seq(Bytes)
    BY <1>7, PackedFrame
  <2>3. Len(payload) = length
    BY <1>9 DEF n
  <2> QED BY <1>2, <1>7, <2>1, <2>2, <2>3, SeqEqual
<1>11. /\ frame[length + 4] = crc \div 256 /\ frame[length + 5] = crc % 256
       /\ frame[length + 6] = END
  <2>1. crc = Check(payload)
    BY <1>7, <1>10, Zenon
  <2> QED BY <1>4, <1>9, <2>1, Zenon
<1>12. attempt[Len(attempt)] = frame[Len(attempt)]
  <2>1. Len(attempt) \in 1 .. Len(attempt)
    BY <1>1, <1>6, <1>8
  <2> QED BY <1>3, <2>1, Zenon
<1>13. BadCrc \/ BadEnd
  BY <1>5 DEF Inv, OutcomeInv
<1>14. \/ Len(attempt) = length + 4 /\ attempt[length + 4] # crc \div 256
       \/ Len(attempt) = length + 5 /\ attempt[length + 5] # crc % 256
       \/ Len(attempt) = length + 6 /\ attempt[length + 6] # END
  BY <1>13, Zenon DEF BadCrc, BadEnd
<1>15. CASE Len(attempt) = length + 4 /\ attempt[length + 4] # crc \div 256
  <2>1. attempt[length + 4] = frame[length + 4]
    BY <1>12, <1>15, Zenon
  <2> QED BY <1>11, <1>15, <2>1, Zenon
<1>16. CASE Len(attempt) = length + 5 /\ attempt[length + 5] # crc % 256
  <2>1. attempt[length + 5] = frame[length + 5]
    BY <1>12, <1>16, Zenon
  <2> QED BY <1>11, <1>16, <2>1, Zenon
<1>17. CASE Len(attempt) = length + 6 /\ attempt[length + 6] # END
  <2>1. attempt[length + 6] = frame[length + 6]
    BY <1>12, <1>17, Zenon
  <2> QED BY <1>11, <1>17, <2>1, Zenon
<1> QED BY <1>14, <1>15, <1>16, <1>17, Zenon

(* RefusedIsNoFrame of FrameParser.tla: what the parser refuses, my_pack_data *)
(* would never have sent.                                                   *)
THEOREM OnlyDamageRefused == Spec => []RefusedIsNoFrame
BY RefusedFrame, AlwaysInv, PTL

-----------------------------------------------------------------------------
(* The other parser. *)

(* Between two frames the parser keeps no bytes. *)
IdleInv == state = Waiting /\ result = "running" => attempt = <<>>

ParserInv == Inv /\ IdleInv

LEMMA ParserInductive == ParserInv /\ [Next]_vars => ParserInv'
<1> SUFFICES ASSUME ParserInv, [Next]_vars
             PROVE  IdleInv'
    BY InductiveInv DEF ParserInv
<1> USE DEF ParserInv, IdleInv, Waiting
<1>1. ASSUME NEW byte \in Bytes, Parse(byte)
      PROVE  IdleInv'
    <2>1. CASE WaitStart(byte)
        BY <2>1 DEF WaitStart
    <2>2. CASE ReadLengthHigh(byte) \/ ReadLengthLow(byte)
        BY <2>2 DEF ReadLengthHigh, ReadLengthLow
    <2>3. CASE ReadPayload(byte)
        BY <2>3 DEF ReadPayload
    <2>4. CASE ReadCrcHigh(byte) \/ ReadCrcLow(byte) \/ WaitEnd(byte)
        BY <2>4 DEF ReadCrcHigh, ReadCrcLow, WaitEnd
    <2> QED BY <1>1, <2>1, <2>2, <2>3, <2>4 DEF Parse
<1>2. CASE Reset
    BY <1>2 DEF Reset
<1>3. CASE UNCHANGED vars
    BY <1>3 DEF vars
<1> QED BY <1>1, <1>2, <1>3 DEF Next

LEMMA AlwaysParserInv == Spec => []ParserInv
<1>1. Init => ParserInv
    BY Initially DEF ParserInv, IdleInv, Init
<1> QED BY <1>1, ParserInductive, PTL DEF Spec

(* The length a frame announces is the one the parser counts to. *)
LEMMA AnnouncedLength ==
    ASSUME HeaderRead
    PROVE  attempt[2] * 256 + attempt[3] = length
<1>1. length \in 1 .. MaxPayload /\ length \in Nat
    BY MaxPayloadAssumption DEF HeaderRead
<1>2. attempt[2] = 0 /\ attempt[3] = length
    BY <1>1, ShortLength DEF HeaderRead
<1> QED BY <1>1, <1>2

(* What the parser holds is too short for a frame, or it said what it is.   *)
LEMMA Unfinished ==
    ASSUME ParserInv, result # "success"
    PROVE  \/ Len(attempt) < 7
           \/ /\ HeaderRead
              /\ \/ Len(attempt) < length + 6
                 \/ Len(attempt) = length + 6 /\ attempt[length + 6] # END
<1> USE DEF ParserInv
<1>1. state \in States /\ result \in Results /\ PlaceInv /\ OutcomeInv
    BY Zenon DEF Inv, TypeOK
<1>2. HeaderRead => length \in Nat
    BY MaxPayloadAssumption DEF HeaderRead
<1>3. CASE result = "running" /\ state = Waiting
    <2>1. Len(attempt) = 0
        BY <1>3 DEF IdleInv
    <2> QED BY <2>1
<1>4. CASE state \in {"READ_LENGTH_HIGH", "READ_LENGTH_LOW"}
    <2>1. Len(attempt) = 1 \/ Len(attempt) = 2
        BY <1>1, <1>4 DEF PlaceInv, AtLengthHigh, AtLengthLow
    <2>2. Len(attempt) < 7
        BY <2>1
    <2> QED BY <2>2, Zenon
<1>5. CASE state = "READ_PAYLOAD"
    <2>1. HeaderRead /\ offset \in Nat /\ offset < length /\ Len(attempt) = offset + 3
        BY <1>1, <1>5, MaxPayloadAssumption DEF PlaceInv, AtPayload, Inv, TypeOK
    <2> QED BY <1>2, <2>1
<1>6. CASE state \in {"READ_CRC_HIGH", "READ_CRC_LOW", "WAIT_END"}
    <2>1. HeaderRead /\ Len(attempt) \in {length + 3, length + 4, length + 5}
        BY <1>1, <1>6 DEF PlaceInv, BothCrcsRead, FirstCrcRead, PayloadRead
    <2> QED BY <1>2, <2>1
<1>7. CASE result = "length"
    <2>1. Len(attempt) = 3
        BY <1>1, <1>7 DEF OutcomeInv, BadLength
    <2> QED BY <2>1
<1>8. CASE result = "crc"
    <2>1. HeaderRead /\ Len(attempt) \in {length + 4, length + 5}
        BY <1>1, <1>8 DEF OutcomeInv, BadCrc, PayloadRead
    <2> QED BY <1>2, <2>1
<1>9. CASE result = "end"
    BY <1>1, <1>9 DEF OutcomeInv, BadEnd, PayloadRead
<1> QED BY <1>1, <1>3, <1>4, <1>5, <1>6, <1>7, <1>8, <1>9
        DEF States, Results, PlaceInv, Waiting

LEMMA BatchRefuses ==
    ASSUME ParserInv, result # "success"
    PROVE  Unpack(attempt).status # "success"
<1>1. CASE Len(attempt) < 7
    BY <1>1 DEF Unpack
<1>2. ASSUME HeaderRead,
             \/ Len(attempt) < length + 6
             \/ Len(attempt) = length + 6 /\ attempt[length + 6] # END
      PROVE  Unpack(attempt).status # "success"
    <2>1. /\ attempt[2] * 256 + attempt[3] = length
          /\ length \in Nat /\ Len(attempt) \in Nat
        BY <1>2, AnnouncedLength, MaxPayloadAssumption
        DEF HeaderRead, ParserInv, Inv, TypeOK, Lines
    <2>2. CASE Len(attempt) < length + 6
        <3>1. length + 6 > Len(attempt)
            BY <2>1, <2>2
        <3> QED BY <2>1, <3>1 DEF Unpack
    <2>3. CASE Len(attempt) = length + 6 /\ attempt[length + 6] # END
        BY <2>1, <2>3 DEF Unpack
    <2> QED BY <1>2, <2>2, <2>3
<1> QED BY <1>1, <1>2, Unfinished

LEMMA UnpackedFrame ==
    ASSUME attempt[2] * 256 + attempt[3] = length,
           ~ (Len(attempt) < 7), attempt[1] = START,
           length \in 1 .. MaxPayload, ~ (length + 6 > Len(attempt)),
           CrcOf(SubSeq(attempt, 2, length + 3))
               = attempt[length + 4] * 256 + attempt[length + 5],
           attempt[length + 6] = END
    PROVE  Unpack(attempt) =
               [status |-> "success", payload |-> SubSeq(attempt, 4, length + 3)]
<1> DEFINE announced == attempt[2] * 256 + attempt[3]
           check == attempt[announced + 4] * 256 + attempt[announced + 5]
           accepted == [status |-> "success", payload |-> SubSeq(attempt, 4, announced + 3)]
<1> HIDE DEF START, END
<1>1. Unpack(attempt) =
        IF Len(attempt) < 7 THEN [status |-> "length"]
        ELSE IF attempt[1] # START THEN [status |-> "start"]
        ELSE IF announced \notin 1 .. MaxPayload \/ announced + 6 > Len(attempt)
             THEN [status |-> "length"]
        ELSE IF CrcOf(SubSeq(attempt, 2, announced + 3)) # check THEN [status |-> "crc"]
        ELSE IF attempt[announced + 6] # END THEN [status |-> "end"]
        ELSE accepted
  BY Zenon DEF Unpack
<1>2. announced = length
  OBVIOUS
<1> HIDE DEF announced
<1>3. ~ (announced \notin 1 .. MaxPayload \/ announced + 6 > Len(attempt))
  BY <1>2
<1>4. CrcOf(SubSeq(attempt, 2, announced + 3)) = check
  BY <1>2, Zenon
<1>5. attempt[announced + 6] = END
  BY <1>2
<1>6. accepted = [status |-> "success", payload |-> SubSeq(attempt, 4, length + 3)]
  BY <1>2, Zenon
<1> HIDE DEF check, accepted
<1>7. Unpack(attempt) = accepted
  BY <1>1, <1>3, <1>4, <1>5, Zenon
<1> QED BY <1>6, <1>7, Zenon

LEMMA BatchAccepts ==
    ASSUME ParserInv, result = "success"
    PROVE  Unpack(attempt) = [status |-> "success", payload |-> Payload]
<1>1. /\ TypeOK /\ BothCrcsRead /\ FirstCrcRead /\ PayloadRead /\ HeaderRead
      /\ Len(attempt) = length + 6 /\ attempt[length + 6] = END
      /\ attempt[length + 4] = crc \div 256 /\ attempt[length + 5] = crc % 256
    BY DEF ParserInv, Inv, OutcomeInv, Delivered, BothCrcsRead, FirstCrcRead, PayloadRead
<1>2. length \in Nat /\ length \in 1 .. MaxPayload /\ Len(attempt) >= length + 3
    BY <1>1, MaxPayloadAssumption DEF HeaderRead
<1>3. /\ attempt \in Seq(Bytes) /\ attempt[1] = START
      /\ Payload \in Payloads /\ Len(Payload) = length
      /\ \A i \in 1 .. length : attempt[i + 3] = Payload[i]
    BY <1>1, <1>2, PayloadReadBytes
<1>4. attempt[2] * 256 + attempt[3] = length
    BY <1>1, AnnouncedLength
<1>5. attempt[length + 4] * 256 + attempt[length + 5] = crc
    <2>1. crc \in Nat
        <3>1. crc \in Words
            BY <1>1, Zenon DEF TypeOK, Crcs
        <3> QED BY <3>1 DEF Words
    <2>2. (crc \div 256) * 256 + (crc % 256) = crc
        BY <2>1, HalvesOfWord
    <2>3. attempt[length + 4] = crc \div 256 /\ attempt[length + 5] = crc % 256
        BY <1>1
    <2> QED BY <2>2, <2>3, Zenon
<1>6. SubSeq(attempt, 4, length + 3) = Payload
    <2>1. SubSeq(attempt, 4, length + 3) = [i \in 1 .. length |-> attempt[i + 3]]
        BY <1>1, <1>2, <1>3
    <2>2. Payload \in [1 .. length -> Bytes]
        BY <1>2, <1>3 DEF Payloads, Payload
    <2> QED BY <1>3, <2>1, <2>2
<1>7. SubSeq(attempt, 2, length + 3) = Covered(attempt, length + 2)
    BY <1>1, <1>2, <1>3 DEF Covered
<1>8. CrcOf(SubSeq(attempt, 2, length + 3)) = crc
    BY <1>1, <1>7 DEF PayloadRead
<1>9. ~ (Len(attempt) < 7) /\ ~ (length + 6 > Len(attempt))
    BY <1>1, <1>2
<1>10. attempt[length + 6] = END
    BY <1>1
<1>11. CrcOf(SubSeq(attempt, 2, length + 3))
           = attempt[length + 4] * 256 + attempt[length + 5]
    BY <1>5, <1>8, Zenon
<1>12. attempt[1] = START /\ length \in 1 .. MaxPayload
    BY <1>2, <1>3
<1>13. Unpack(attempt) = [status |-> "success", payload |-> SubSeq(attempt, 4, length + 3)]
    BY <1>4, <1>9, <1>10, <1>11, <1>12, UnpackedFrame, Zenon
<1> QED BY <1>6, <1>13, Zenon

(* my_packer.c has two parsers; they accept the same bytes, as the same     *)
(* payload.                                                                 *)
THEOREM ParsersAgree == Spec => []BatchAgrees
<1>1. ParserInv => BatchAgrees
    BY BatchAccepts, BatchRefuses DEF BatchAgrees
<1> QED BY <1>1, AlwaysParserInv, PTL

-----------------------------------------------------------------------------
(* The communication manager. *)

(* What the parser has yet to meet: the rest of the batch, the queue, and   *)
(* the byte that the line carries next.                                     *)
Pending == comm_rx \o Append(rx_queue, line)

(* Once the host repeats its request, it sends nothing else. *)
MayFollow(place) == IF place = Unknown THEN {Unknown, 1} ELSE {After(place)}

PendingInv ==
    /\ \A i \in 1 .. Len(Pending) - 1 : Pending[i + 1] \in MayFollow(Pending[i])
    /\ line = Unknown => \A i \in 1 .. Len(Pending) : Pending[i] = Unknown
    /\ step # "parse" => comm_rx = <<>>

(* A drop that is not reported, or a reset that it owes, is older than the  *)
(* first byte of the host that is parsed.                                   *)
OwedInv ==
    /\ drop_pending \/ step \in {"count", "reset"} =>
           /\ heard = 0
           /\ \A i \in 1 .. Len(comm_rx) : comm_rx[i] = Unknown
    /\ drop_pending /\ step \in {"reset", "pop"} =>
           /\ Len(rx_queue) = Capacity
           /\ \A i \in 1 .. Capacity : rx_queue[i] = Unknown

(* What the parser can still miss, by the byte it meets next: the rest of   *)
(* one frame and all but the last byte of another, after what a broken      *)
(* frame may still swallow; or nothing, as it is inside this very frame.    *)
Longest == MaxPayload + 6

Idle(next) ==
    /\ state = Waiting
    /\ heard + (IF next = 1 THEN 0 ELSE Len(Frame) - next + 1) + Len(Frame) - 1 <= Misses

Swallows ==
    /\ state # Waiting
    /\ heard + Longest - Len(attempt) + 2 * (Len(Frame) - 1) <= Misses

InStep(next) ==
    /\ state # Waiting
    /\ attempt = SubSeq(Frame, 1, next - 1)
    /\ heard + Len(Frame) - next <= Misses

HeardInv(next) ==
    IF next = Unknown THEN heard = 0 ELSE Idle(next) \/ Swallows \/ InStep(next)

ReceiveInv ==
    /\ ReceiveTypeOK
    /\ ParserInv
    /\ NoDropForgotten
    /\ PendingInv
    /\ OwedInv
    /\ HeardInv(Pending[1])

LEMMA FramePlaces ==
    /\ Len(Frame) \in Nat /\ Len(Frame) >= 7
    /\ 0 \in Places /\ 1 \in Places
    /\ \A place \in Places : After(place) \in Places
    /\ Misses \in Nat /\ Misses = MaxPayload + 5 + 2 * (Len(Frame) - 1)
<1>1. Len(Frame) = Len(Request) + 6 /\ Len(Request) \in 1 .. MaxPayload
    BY RequestAssumption, PackedFrame DEF PackedShape, Frame
<1>2. Len(Frame) \in Nat /\ Len(Frame) >= 7
    BY <1>1, MaxPayloadAssumption
<1>3. ASSUME NEW place \in Places
      PROVE  After(place) \in Places
    BY <1>2 DEF After, Places, Unknown
<1> QED BY <1>2, <1>3, MaxPayloadAssumption DEF Places, Misses

(* The parser's own steps, of all that happens around it. *)
LEMMA ParserSteps ==
    ASSUME [ReceiveNext]_receiveVars
    PROVE  [Next]_vars
<1>1. CASE Receive \/ Drop \/ HostRepeats \/ CheckDrop \/ TakeCount \/ Pop
    BY <1>1 DEF Receive, Drop, HostRepeats, CheckDrop, TakeCount, Pop, parser
<1>2. CASE ResetParser
    BY <1>2 DEF ResetParser, Next
<1>3. CASE \E byte \in Bytes : ParseByte(byte)
    BY <1>3 DEF ParseByte, Next
<1>4. CASE UNCHANGED receiveVars
    BY <1>4 DEF receiveVars, parser
<1> QED BY <1>1, <1>2, <1>3, <1>4 DEF ReceiveNext, CommControl

(* What is shown of the parser alone holds in the communication manager:    *)
(* its interrupts and its queue only choose the bytes and the resets.       *)
THEOREM ManagerImplementsParser == ReceiveSpec => Spec
<1>1. ReceiveInit => Init
    BY DEF ReceiveInit
<1>2. [ReceiveNext]_receiveVars => [Next]_vars
    BY ParserSteps
<1> QED BY <1>1, <1>2, PTL DEF ReceiveSpec, Spec

LEMMA PoppedType ==
    ASSUME ReceiveTypeOK, Pop
    PROVE  /\ rx_queue' \in Seq(Places) /\ Len(rx_queue') <= Capacity
           /\ comm_rx' \in Seq(Places) /\ Len(comm_rx') <= BatchSize
<1>1. PICK taken \in 0 .. BatchSize :
          /\ taken = IF Len(rx_queue) < BatchSize THEN Len(rx_queue) ELSE BatchSize
          /\ comm_rx' = SubSeq(rx_queue, 1, taken)
          /\ rx_queue' = SubSeq(rx_queue, taken + 1, Len(rx_queue))
    BY DEF Pop
<1>2. rx_queue \in Seq(Places) /\ Len(rx_queue) \in Nat /\ Len(rx_queue) <= Capacity
    BY DEF ReceiveTypeOK
<1>3. taken \in 0 .. Len(rx_queue) /\ taken <= BatchSize
    BY <1>1, <1>2, CapacityAssumption
<1>4. \A i \in 1 .. Len(rx_queue) : rx_queue[i] \in Places
    BY <1>2
<1>5. comm_rx' \in Seq(Places) /\ Len(comm_rx') = taken
    BY <1>1, <1>2, <1>3, <1>4, SubSeqProperties
<1>6. /\ rx_queue' \in Seq(Places)
      /\ Len(rx_queue') = Len(rx_queue) - taken
    BY <1>1, <1>2, <1>3, <1>4, SubSeqProperties
<1> QED BY <1>2, <1>3, <1>5, <1>6, CapacityAssumption

LEMMA ReceiveTypeStep ==
    ASSUME ReceiveTypeOK, [ReceiveNext]_receiveVars
    PROVE  ReceiveTypeOK'
<1> USE DEF ReceiveTypeOK, Steps
<1>1. CASE Receive
    <2>1. /\ rx_queue' \in Seq(Places)
          /\ Len(rx_queue') = Len(rx_queue) + 1
          /\ Len(rx_queue) \in Nat /\ Len(rx_queue) < Capacity
        BY <1>1 DEF Receive
    <2>2. line' \in Places
        BY <1>1, FramePlaces DEF Receive
    <2> QED BY <1>1, <2>1, <2>2, CapacityAssumption DEF Receive
<1>2. CASE Drop
    BY <1>2 DEF Drop
<1>3. CASE HostRepeats
    BY <1>3, FramePlaces DEF HostRepeats, manager
<1>4. CASE CheckDrop \/ TakeCount \/ ResetParser
    BY <1>4 DEF CheckDrop, TakeCount, ResetParser, history
<1>5. CASE Pop
    BY <1>5, PoppedType DEF Pop, history
<1>6. ASSUME NEW byte \in Bytes, ParseByte(byte)
      PROVE  ReceiveTypeOK'
    <2>1. /\ comm_rx' \in Seq(Places)
          /\ Len(comm_rx') = Len(comm_rx) - 1
          /\ Len(comm_rx) \in Nat /\ Len(comm_rx) <= BatchSize
        BY <1>6, HeadTailProperties DEF ParseByte
    <2>2. heard' \in 0 .. Misses + 1
        BY <1>6, FramePlaces DEF ParseByte
    <2> QED BY <1>6, <2>1, <2>2, CapacityAssumption DEF ParseByte
<1>7. CASE UNCHANGED receiveVars
    BY <1>7 DEF receiveVars, manager, history
<1> QED BY <1>1, <1>2, <1>3, <1>4, <1>5, <1>6, <1>7 DEF ReceiveNext, CommControl

LEMMA ReceiveTypeInit == ReceiveInit => ReceiveTypeOK
<1>1. <<>> \in Seq(Places) /\ Len(<<>>) = 0
    BY EmptySeq
<1>2. 0 <= Capacity /\ 0 <= BatchSize
    BY CapacityAssumption
<1>3. 0 \in Places /\ 0 \in 0 .. Misses + 1
    BY FramePlaces
<1> QED BY <1>1, <1>2, <1>3, Zenon DEF ReceiveInit, ReceiveTypeOK, Steps, Unknown

(* The receive queue and the batch keep their sizes, for every Capacity and *)
(* BatchSize.                                                               *)
THEOREM ReceiveTypeCorrect == ReceiveSpec => []ReceiveTypeOK
<1>1. ReceiveTypeOK /\ [ReceiveNext]_receiveVars => ReceiveTypeOK'
    BY ReceiveTypeStep
<1> QED BY <1>1, ReceiveTypeInit, PTL DEF ReceiveSpec

LEMMA ForgottenStep ==
    ASSUME NoDropForgotten, [ReceiveNext]_receiveVars
    PROVE  NoDropForgotten'
<1> USE DEF NoDropForgotten
<1>1. CASE Receive \/ Drop \/ HostRepeats \/ UNCHANGED receiveVars
    BY <1>1 DEF Receive, Drop, HostRepeats, receiveVars, manager, history
<1>2. CASE CheckDrop \/ TakeCount \/ ResetParser
    BY <1>2 DEF CheckDrop, TakeCount, ResetParser, history
<1>3. CASE Pop
    BY <1>3 DEF Pop, history
<1>4. CASE \E byte \in Bytes : ParseByte(byte)
    BY <1>4 DEF ParseByte
<1> QED BY <1>1, <1>2, <1>3, <1>4 DEF ReceiveNext, CommControl

(* NoDropForgotten of CommReceive.tla: comm_control resets the parser after *)
(* every byte the interrupt dropped, wherever in its call that was.         *)
THEOREM EveryDropResets == ReceiveSpec => []NoDropForgotten
<1>1. ReceiveInit => NoDropForgotten
    BY DEF ReceiveInit, NoDropForgotten
<1>2. NoDropForgotten /\ [ReceiveNext]_receiveVars => NoDropForgotten'
    BY ForgottenStep
<1> QED BY <1>1, <1>2, PTL DEF ReceiveSpec
-----------------------------------------------------------------------------
(* What each step does to the bytes that are pending. *)

LEMMA PendingShape ==
    ReceiveTypeOK =>
        /\ Pending \in Seq(Places)
        /\ Len(comm_rx) \in Nat /\ Len(rx_queue) \in Nat
        /\ Len(Pending) = Len(comm_rx) + Len(rx_queue) + 1
        /\ \A i \in 1 .. Len(comm_rx) : Pending[i] = comm_rx[i]
        /\ \A i \in 1 .. Len(rx_queue) : Pending[Len(comm_rx) + i] = rx_queue[i]
        /\ Pending[Len(Pending)] = line
<1> SUFFICES ASSUME ReceiveTypeOK
             PROVE  /\ Pending \in Seq(Places)
                    /\ Len(comm_rx) \in Nat /\ Len(rx_queue) \in Nat
                    /\ Len(Pending) = Len(comm_rx) + Len(rx_queue) + 1
                    /\ \A i \in 1 .. Len(comm_rx) : Pending[i] = comm_rx[i]
                    /\ \A i \in 1 .. Len(rx_queue) :
                           Pending[Len(comm_rx) + i] = rx_queue[i]
                    /\ Pending[Len(Pending)] = line
    OBVIOUS
<1> DEFINE rest == Append(rx_queue, line)
<1>1. /\ comm_rx \in Seq(Places) /\ rx_queue \in Seq(Places) /\ line \in Places
      /\ Len(comm_rx) \in Nat /\ Len(rx_queue) \in Nat
    BY DEF ReceiveTypeOK
<1>2. /\ rest \in Seq(Places) /\ Len(rest) = Len(rx_queue) + 1
      /\ \A i \in 1 .. Len(rx_queue) : rest[i] = rx_queue[i]
      /\ rest[Len(rx_queue) + 1] = line
    BY <1>1, AppendProperties
<1> HIDE DEF rest
<1>3. /\ comm_rx \o rest \in Seq(Places)
      /\ Len(comm_rx \o rest) = Len(comm_rx) + Len(rest)
      /\ \A i \in 1 .. Len(comm_rx) + Len(rest) :
             (comm_rx \o rest)[i] = IF i <= Len(comm_rx) THEN comm_rx[i]
                                    ELSE rest[i - Len(comm_rx)]
    BY <1>1, <1>2, ConcatProperties
<1>4. Pending = comm_rx \o rest
    BY DEF Pending, rest
<1> HIDE DEF Pending
<1>5. \A i \in 1 .. Len(rest) : Pending[Len(comm_rx) + i] = rest[i]
    <2> TAKE i \in 1 .. Len(rest)
    <2>1. /\ Len(comm_rx) + i \in 1 .. Len(comm_rx) + Len(rest)
          /\ ~ (Len(comm_rx) + i <= Len(comm_rx))
          /\ (Len(comm_rx) + i) - Len(comm_rx) = i
        BY <1>1, <1>2
    <2> QED BY <1>3, <1>4, <2>1
<1>6. \A i \in 1 .. Len(comm_rx) : Pending[i] = comm_rx[i]
    BY <1>1, <1>2, <1>3, <1>4
<1>7. \A i \in 1 .. Len(rx_queue) : i \in 1 .. Len(rest)
    BY <1>1, <1>2
<1>8. Len(rx_queue) + 1 \in 1 .. Len(rest)
    BY <1>1, <1>2
<1>9. Len(Pending) = Len(comm_rx) + (Len(rx_queue) + 1)
    BY <1>2, <1>3, <1>4
<1>10. Pending[Len(comm_rx) + (Len(rx_queue) + 1)] = line
    BY <1>2, <1>5, <1>8
<1>11. \A i \in 1 .. Len(rx_queue) : Pending[Len(comm_rx) + i] = rx_queue[i]
    BY <1>2, <1>5, <1>7
<1> QED BY <1>1, <1>3, <1>4, <1>6, <1>9, <1>10, <1>11

(* A byte that is received takes the place that was announced for it.       *)
LEMMA PendingReceive ==
    ASSUME ReceiveTypeOK, Receive
    PROVE  Pending' = Append(Pending, After(line))
<1> DEFINE first == Append(rx_queue, line)
<1>1. /\ comm_rx \in Seq(Places) /\ rx_queue \in Seq(Places) /\ line \in Places
      /\ After(line) \in Places
    BY FramePlaces DEF ReceiveTypeOK
<1>2. first \in Seq(Places)
    BY <1>1
<1>3. Pending' = comm_rx \o Append(first, After(line))
    BY DEF Pending, Receive
<1> HIDE DEF first
<1>4. /\ Append(first, After(line)) = first \o <<After(line)>>
      /\ comm_rx \o first \in Seq(Places)
    BY <1>1, <1>2, AppendIsConcat, ConcatProperties
<1>5. Append(comm_rx \o first, After(line)) = (comm_rx \o first) \o <<After(line)>>
    BY <1>1, <1>4, AppendIsConcat
<1>6. <<After(line)>> \in Seq(Places)
    BY <1>1
<1>7. (comm_rx \o first) \o <<After(line)>> = comm_rx \o (first \o <<After(line)>>)
    BY <1>1, <1>2, <1>6, ConcatAssociative
<1> QED BY <1>3, <1>4, <1>5, <1>7 DEF Pending, first

(* queue_pop hands the bytes on in their order, and loses none. *)
LEMMA PendingPop ==
    ASSUME ReceiveTypeOK, comm_rx = <<>>, Pop
    PROVE  /\ Pending' = Pending
           /\ \A i \in 1 .. Len(comm_rx') :
                  i \in 1 .. Len(rx_queue) /\ comm_rx'[i] = rx_queue[i]
<1>1. PICK taken \in 0 .. BatchSize :
          /\ taken = IF Len(rx_queue) < BatchSize THEN Len(rx_queue) ELSE BatchSize
          /\ comm_rx' = SubSeq(rx_queue, 1, taken)
          /\ rx_queue' = SubSeq(rx_queue, taken + 1, Len(rx_queue))
    BY DEF Pop
<1>2. /\ rx_queue \in Seq(Places) /\ line \in Places /\ line' = line
      /\ Len(rx_queue) \in Nat
    BY DEF ReceiveTypeOK, Pop, history
<1>3. taken \in 0 .. Len(rx_queue) /\ taken \in Nat
    BY <1>1, <1>2, CapacityAssumption
<1>4. comm_rx' \o rx_queue' = rx_queue
    <2>1. /\ 1 \in 1 .. Len(rx_queue) + 1
          /\ taken \in 1 - 1 .. Len(rx_queue)
          /\ Len(rx_queue) \in taken .. Len(rx_queue)
        BY <1>2, <1>3
    <2>2. SubSeq(rx_queue, 1, taken) \o SubSeq(rx_queue, taken + 1, Len(rx_queue))
              = SubSeq(rx_queue, 1, Len(rx_queue))
        BY <1>2, <2>1, ConcatAdjacentSubSeq
    <2>3. SubSeq(rx_queue, 1, Len(rx_queue)) = rx_queue
        BY <1>2, SubSeqFull
    <2> QED BY <1>1, <2>2, <2>3
<1>5. comm_rx' \in Seq(Places) /\ rx_queue' \in Seq(Places)
    BY PoppedType
<1>6. comm_rx' \o Append(rx_queue', line) = Append(rx_queue, line)
    <2>1. Append(rx_queue', line) = rx_queue' \o <<line>> /\ <<line>> \in Seq(Places)
        BY <1>2, <1>5, AppendIsConcat
    <2>2. comm_rx' \o (rx_queue' \o <<line>>) = (comm_rx' \o rx_queue') \o <<line>>
        BY <1>5, <2>1, ConcatAssociative
    <2>3. Append(rx_queue, line) = rx_queue \o <<line>>
        BY <1>2, AppendIsConcat
    <2> QED BY <1>4, <2>1, <2>2, <2>3
<1>7. Append(rx_queue, line) \in Seq(Places)
    BY <1>2
<1>8. <<>> \o Append(rx_queue, line) = Append(rx_queue, line)
    BY <1>7, ConcatEmptySeq
<1>9. Pending' = Pending
    BY <1>2, <1>6, <1>8 DEF Pending
<1>10. \A i \in 1 .. Len(rx_queue) : rx_queue[i] \in Places
    BY <1>2
<1>11. /\ Len(comm_rx') = taken
       /\ \A i \in 1 .. taken : comm_rx'[i] = rx_queue[i]
    BY <1>1, <1>2, <1>3, <1>10, SubSeqProperties
<1> QED BY <1>2, <1>3, <1>9, <1>11

LEMMA PendingParsed ==
    ASSUME ReceiveTypeOK, NEW byte \in Bytes, ParseByte(byte)
    PROVE  /\ Len(Pending') = Len(Pending) - 1
           /\ \A i \in 1 .. Len(Pending') : Pending'[i] = Pending[i + 1]
           /\ Pending[1] = Head(comm_rx)
           /\ Len(Pending) \in Nat /\ Len(Pending) >= 2
<1> DEFINE rest == Append(rx_queue, line)
<1>1. /\ comm_rx \in Seq(Places) /\ comm_rx # <<>>
      /\ rx_queue' = rx_queue /\ line' = line
      /\ rest \in Seq(Places) /\ Len(rest) \in Nat /\ Len(rest) >= 1
      /\ comm_rx' = Tail(comm_rx)
    BY DEF ReceiveTypeOK, ParseByte
<1>2. /\ comm_rx' \in Seq(Places) /\ Len(comm_rx') = Len(comm_rx) - 1
      /\ \A i \in 1 .. Len(comm_rx') : comm_rx'[i] = comm_rx[i + 1]
      /\ Len(comm_rx) \in Nat \ {0}
      /\ Head(comm_rx) = comm_rx[1]
    BY <1>1, HeadTailProperties
<1>3. Pending = comm_rx \o rest /\ Pending' = comm_rx' \o rest
    BY <1>1 DEF Pending
<1> HIDE DEF rest, Pending
<1>4. /\ Len(Pending) = Len(comm_rx) + Len(rest)
      /\ \A i \in 1 .. Len(comm_rx) + Len(rest) :
             Pending[i] = IF i <= Len(comm_rx) THEN comm_rx[i] ELSE rest[i - Len(comm_rx)]
    BY <1>1, <1>3, ConcatProperties
<1>5. /\ Len(Pending') = Len(comm_rx') + Len(rest)
      /\ \A i \in 1 .. Len(comm_rx') + Len(rest) :
             Pending'[i] = IF i <= Len(comm_rx') THEN comm_rx'[i]
                           ELSE rest[i - Len(comm_rx')]
    BY <1>1, <1>2, <1>3, ConcatProperties
<1>6. ASSUME NEW i \in 1 .. Len(Pending')
      PROVE  Pending'[i] = Pending[i + 1]
    <2>1. /\ i \in 1 .. Len(comm_rx') + Len(rest)
          /\ i + 1 \in 1 .. Len(comm_rx) + Len(rest)
        BY <1>1, <1>2, <1>5
    <2>2. CASE i <= Len(comm_rx')
        <3>1. i \in 1 .. Len(comm_rx') /\ i + 1 <= Len(comm_rx)
            BY <1>2, <2>1, <2>2
        <3> QED BY <1>2, <1>4, <1>5, <2>1, <2>2, <3>1
    <2>3. CASE ~ (i <= Len(comm_rx'))
        <3>1. ~ (i + 1 <= Len(comm_rx)) /\ i - Len(comm_rx') = (i + 1) - Len(comm_rx)
            BY <1>2, <2>1, <2>3
        <3> QED BY <1>4, <1>5, <2>1, <2>3, <3>1
    <2> QED BY <2>2, <2>3
<1>7. Pending[1] = comm_rx[1] /\ Len(Pending) \in Nat /\ Len(Pending) >= 2
    BY <1>1, <1>2, <1>4
<1> QED BY <1>1, <1>2, <1>4, <1>5, <1>6, <1>7
LEMMA PendingReceiveInv ==
    ASSUME ReceiveTypeOK, PendingInv, Receive
    PROVE  PendingInv'
<1>1. /\ Pending \in Seq(Places) /\ Len(Pending) \in Nat /\ Len(Pending) >= 1
      /\ Pending[Len(Pending)] = line /\ line \in Places
    BY PendingShape DEF ReceiveTypeOK
<1>2. /\ Pending' = Append(Pending, After(line))
      /\ line' = After(line) /\ UNCHANGED <<comm_rx, step>>
    BY PendingReceive DEF Receive
<1>3. /\ Len(Pending') = Len(Pending) + 1
      /\ \A i \in 1 .. Len(Pending) : Pending'[i] = Pending[i]
      /\ Pending'[Len(Pending) + 1] = After(line)
    BY <1>1, <1>2, FramePlaces, AppendProperties
<1>4. After(line) \in MayFollow(line) /\ (After(line) = Unknown => line = Unknown)
    BY <1>1, FramePlaces DEF After, MayFollow, Unknown, Places
<1> HIDE DEF Pending
<1>5. ASSUME NEW i \in 1 .. Len(Pending') - 1
      PROVE  Pending'[i + 1] \in MayFollow(Pending'[i])
    <2>1. CASE i = Len(Pending)
        <3>1. Pending'[i] = line /\ Pending'[i + 1] = After(line)
            BY <1>1, <1>3, <2>1
        <3> QED BY <1>4, <3>1
    <2>2. CASE i # Len(Pending)
        <3>1. /\ i \in 1 .. Len(Pending) - 1
              /\ i \in 1 .. Len(Pending) /\ i + 1 \in 1 .. Len(Pending)
            BY <1>1, <1>3, <2>2
        <3>2. Pending[i + 1] \in MayFollow(Pending[i])
            BY <3>1 DEF PendingInv
        <3>3. Pending'[i + 1] = Pending[i + 1] /\ Pending'[i] = Pending[i]
            BY <1>3, <3>1
        <3> QED BY <3>2, <3>3
    <2> QED BY <2>1, <2>2
<1>6. ASSUME line' = Unknown, NEW i \in 1 .. Len(Pending')
      PROVE  Pending'[i] = Unknown
    <2>1. line = Unknown /\ After(line) = Unknown
        BY <1>2, <1>4, <1>6
    <2>2. i \in 1 .. Len(Pending) \/ i = Len(Pending) + 1
        BY <1>1, <1>3
    <2>3. \A j \in 1 .. Len(Pending) : Pending[j] = Unknown
        BY <2>1 DEF PendingInv
    <2> QED BY <1>3, <2>1, <2>2, <2>3
<1> QED BY <1>2, <1>5, <1>6 DEF PendingInv

(* Every byte that is pending comes before the next of the line. *)
LEMMA EarlierPending ==
    ASSUME ReceiveTypeOK, NEW i \in 1 .. Len(Pending) - 1
    PROVE  \/ i \in 1 .. Len(comm_rx)
           \/ \E j \in 1 .. Len(rx_queue) : i = Len(comm_rx) + j
<1>1. /\ Len(comm_rx) \in Nat /\ Len(rx_queue) \in Nat
      /\ Len(Pending) = Len(comm_rx) + Len(rx_queue) + 1
    BY PendingShape
<1>2. CASE i > Len(comm_rx)
    <2>1. i - Len(comm_rx) \in 1 .. Len(rx_queue) /\ i = Len(comm_rx) + (i - Len(comm_rx))
        BY <1>1, <1>2
    <2> QED BY <2>1
<1> QED BY <1>1, <1>2

LEMMA PendingRepeatsInv ==
    ASSUME ReceiveTypeOK, PendingInv, HostRepeats
    PROVE  /\ PendingInv'
           /\ Len(Pending) \in Nat /\ Len(Pending) >= 1
           /\ Pending[1] = Unknown /\ Pending'[1] \in {Unknown, 1}
<1>1. /\ line = Unknown /\ line' = 1
      /\ UNCHANGED <<comm_rx, rx_queue, step>>
    BY DEF HostRepeats, Repeating, manager
<1>2. /\ Len(Pending) = Len(comm_rx) + Len(rx_queue) + 1
      /\ Len(comm_rx) \in Nat /\ Len(rx_queue) \in Nat
      /\ \A i \in 1 .. Len(comm_rx) : Pending[i] = comm_rx[i]
      /\ \A i \in 1 .. Len(rx_queue) : Pending[Len(comm_rx) + i] = rx_queue[i]
    BY PendingShape
<1>3. /\ Len(Pending') = Len(comm_rx) + Len(rx_queue) + 1
      /\ \A i \in 1 .. Len(comm_rx) : Pending'[i] = comm_rx[i]
      /\ \A i \in 1 .. Len(rx_queue) : Pending'[Len(comm_rx) + i] = rx_queue[i]
      /\ Pending'[Len(Pending')] = 1
    <2>1. ReceiveTypeOK'
        BY ReceiveTypeStep DEF ReceiveNext
    <2>2. (ReceiveTypeOK =>
               /\ Len(Pending) = Len(comm_rx) + Len(rx_queue) + 1
               /\ \A i \in 1 .. Len(comm_rx) : Pending[i] = comm_rx[i]
               /\ \A i \in 1 .. Len(rx_queue) : Pending[Len(comm_rx) + i] = rx_queue[i]
               /\ Pending[Len(Pending)] = line)'
        BY PendingShape, PTL
    <2> HIDE DEF Pending
    <2> QED BY <1>1, <2>1, <2>2
<1>4. \A i \in 1 .. Len(Pending) : Pending[i] = Unknown
    BY <1>1 DEF PendingInv
<1> HIDE DEF Pending
<1>5. Len(Pending') = Len(Pending) /\ Len(Pending) \in Nat /\ Len(Pending) >= 1
    BY <1>2, <1>3
<1>6. ASSUME NEW i \in 1 .. Len(Pending) - 1
      PROVE  Pending'[i] = Unknown
    <2>1. i \in 1 .. Len(Pending)
        BY <1>5
    <2>2. Pending'[i] = Pending[i]
        <3>1. CASE i \in 1 .. Len(comm_rx)
            BY <1>2, <1>3, <3>1
        <3>2. ASSUME NEW j \in 1 .. Len(rx_queue), i = Len(comm_rx) + j
              PROVE  Pending'[i] = Pending[i]
            BY <1>2, <1>3, <3>2
        <3> QED BY <3>1, <3>2, EarlierPending
    <2> QED BY <1>4, <2>1, <2>2
<1>7. Pending'[Len(Pending)] = 1
    BY <1>3, <1>5
<1>8. \A i \in 1 .. Len(Pending) : Pending'[i] \in {Unknown, 1}
    <2> TAKE i \in 1 .. Len(Pending)
    <2>1. i \in 1 .. Len(Pending) - 1 \/ i = Len(Pending)
        BY <1>5
    <2> QED BY <1>6, <1>7, <2>1
<1>9. ASSUME NEW i \in 1 .. Len(Pending') - 1
      PROVE  Pending'[i + 1] \in MayFollow(Pending'[i])
    <2>1. i \in 1 .. Len(Pending) - 1 /\ i + 1 \in 1 .. Len(Pending)
        BY <1>5
    <2> QED BY <1>6, <1>8, <2>1 DEF MayFollow
<1>10. 1 \in 1 .. Len(Pending)
    BY <1>5
<1> QED BY <1>1, <1>4, <1>5, <1>8, <1>9, <1>10 DEF PendingInv, Unknown

LEMMA PendingStep ==
    ASSUME ReceiveTypeOK, PendingInv, [ReceiveNext]_receiveVars
    PROVE  PendingInv'
<1>1. CASE Receive
    BY <1>1, PendingReceiveInv
<1>2. CASE HostRepeats
    BY <1>2, PendingRepeatsInv
<1>3. CASE Drop
    BY <1>3 DEF Drop, PendingInv, Pending
<1>4. CASE CheckDrop \/ TakeCount \/ ResetParser
    BY <1>4 DEF CheckDrop, TakeCount, ResetParser, history, PendingInv, Pending
<1>5. CASE Pop
    <2>1. Pending' = Pending /\ line' = line /\ step' = "parse"
        BY <1>5, PendingPop DEF Pop, history, PendingInv
    <2> QED BY <2>1 DEF PendingInv
<1>6. ASSUME NEW byte \in Bytes, ParseByte(byte)
      PROVE  PendingInv'
    <2>1. /\ Len(Pending') = Len(Pending) - 1
          /\ \A i \in 1 .. Len(Pending') : Pending'[i] = Pending[i + 1]
          /\ Len(Pending) \in Nat /\ Len(Pending) >= 2
        BY <1>6, PendingParsed
    <2>2. line' = line /\ step' = "parse"
        BY <1>6 DEF ParseByte
    <2> HIDE DEF Pending
    <2>3. ASSUME NEW i \in 1 .. Len(Pending') - 1
          PROVE  Pending'[i + 1] \in MayFollow(Pending'[i])
        <3>1. /\ i \in 1 .. Len(Pending') /\ i + 1 \in 1 .. Len(Pending')
              /\ i + 1 \in 1 .. Len(Pending) - 1
            BY <2>1
        <3>2. Pending[(i + 1) + 1] \in MayFollow(Pending[i + 1])
            BY <3>1 DEF PendingInv
        <3>3. Pending'[i + 1] = Pending[(i + 1) + 1] /\ Pending'[i] = Pending[i + 1]
            BY <2>1, <3>1
        <3> QED BY <3>2, <3>3
    <2>4. ASSUME line = Unknown, NEW i \in 1 .. Len(Pending')
          PROVE  Pending'[i] = Unknown
        <3>1. i + 1 \in 1 .. Len(Pending)
            BY <2>1
        <3>2. Pending[i + 1] = Unknown
            BY <2>4, <3>1 DEF PendingInv
        <3> QED BY <2>1, <3>2
    <2> QED BY <2>2, <2>3, <2>4 DEF PendingInv
<1>7. CASE UNCHANGED receiveVars
    BY <1>7 DEF receiveVars, manager, history, PendingInv, Pending
<1> QED BY <1>1, <1>2, <1>3, <1>4, <1>5, <1>6, <1>7 DEF ReceiveNext, CommControl
-----------------------------------------------------------------------------
(* A drop is dealt with before the host is heard. *)

LEMMA OwedStep ==
    ASSUME ReceiveTypeOK, PendingInv, OwedInv, HeardInv(Pending[1]),
           [ReceiveNext]_receiveVars
    PROVE  OwedInv'
<1>1. CASE Receive
    BY <1>1 DEF Receive, OwedInv, ReceiveTypeOK
<1>2. CASE Drop
    <2>1. line = Unknown /\ Len(rx_queue) = Capacity /\ heard' = heard
          /\ UNCHANGED <<comm_rx, rx_queue>>
        BY <1>2 DEF Drop, Repeating
    <2>2. \A i \in 1 .. Len(Pending) : Pending[i] = Unknown
        BY <2>1 DEF PendingInv
    <2>3. /\ Len(Pending) = Len(comm_rx) + Len(rx_queue) + 1
          /\ Len(comm_rx) \in Nat /\ Len(rx_queue) \in Nat
          /\ \A i \in 1 .. Len(comm_rx) : Pending[i] = comm_rx[i]
          /\ \A i \in 1 .. Len(rx_queue) : Pending[Len(comm_rx) + i] = rx_queue[i]
        BY PendingShape
    <2> HIDE DEF Pending
    <2>4. heard' = 0
        <3>1. 1 \in 1 .. Len(Pending)
            BY <2>3
        <3> QED BY <2>1, <2>2, <3>1 DEF HeardInv
    <2>5. \A i \in 1 .. Len(comm_rx) : comm_rx[i] = Unknown
        <3> TAKE i \in 1 .. Len(comm_rx)
        <3>1. i \in 1 .. Len(Pending)
            BY <2>3
        <3> QED BY <2>2, <2>3, <3>1
    <2>6. \A i \in 1 .. Capacity : rx_queue[i] = Unknown
        <3> TAKE i \in 1 .. Capacity
        <3>1. Len(comm_rx) + i \in 1 .. Len(Pending) /\ i \in 1 .. Len(rx_queue)
            BY <2>1, <2>3
        <3> QED BY <2>2, <2>3, <3>1
    <2> QED BY <2>1, <2>4, <2>5, <2>6 DEF OwedInv
<1>3. CASE HostRepeats
    BY <1>3 DEF HostRepeats, manager, OwedInv
<1>4. CASE CheckDrop \/ TakeCount \/ ResetParser
    BY <1>4 DEF CheckDrop, TakeCount, ResetParser, history, OwedInv
<1>5. CASE Pop
    <2>1. /\ step = "pop" /\ step' = "parse"
          /\ drop_pending' = drop_pending /\ heard' = heard
        BY <1>5 DEF Pop, history
    <2>2. ASSUME drop_pending, NEW i \in 1 .. Len(comm_rx')
          PROVE  comm_rx'[i] = Unknown
        <3>1. i \in 1 .. Len(rx_queue) /\ comm_rx'[i] = rx_queue[i]
            BY <1>5, <2>1, PendingPop DEF PendingInv
        <3>2. Len(rx_queue) = Capacity /\ \A j \in 1 .. Capacity : rx_queue[j] = Unknown
            BY <2>1, <2>2 DEF OwedInv
        <3> QED BY <3>1, <3>2
    <2> QED BY <2>1, <2>2 DEF OwedInv
<1>6. ASSUME NEW byte \in Bytes, ParseByte(byte)
      PROVE  OwedInv'
    <2>1. /\ step = "parse" /\ step' = "parse" /\ drop_pending' = drop_pending
          /\ comm_rx \in Seq(Places) /\ comm_rx # <<>> /\ comm_rx' = Tail(comm_rx)
        BY <1>6 DEF ParseByte, ReceiveTypeOK
    <2>2. ASSUME Head(comm_rx) = Unknown PROVE heard' = 0
        BY <1>6, <2>2 DEF ParseByte
    <2>3. /\ Len(comm_rx') = Len(comm_rx) - 1
          /\ \A i \in 1 .. Len(comm_rx') : comm_rx'[i] = comm_rx[i + 1]
          /\ Len(comm_rx) \in Nat \ {0}
          /\ Head(comm_rx) = comm_rx[1]
        BY <2>1, HeadTailProperties
    <2>4. ASSUME drop_pending
          PROVE  heard' = 0 /\ \A i \in 1 .. Len(comm_rx') : comm_rx'[i] = Unknown
        <3>1. \A i \in 1 .. Len(comm_rx) : comm_rx[i] = Unknown
            BY <2>4 DEF OwedInv
        <3> QED BY <2>2, <2>3, <3>1
    <2> QED BY <2>1, <2>4 DEF OwedInv
<1>7. CASE UNCHANGED receiveVars
    BY <1>7 DEF receiveVars, manager, history, OwedInv
<1> QED BY <1>1, <1>2, <1>3, <1>4, <1>5, <1>6, <1>7 DEF ReceiveNext, CommControl
-----------------------------------------------------------------------------
(* The parser and the repeated frame. *)

LEMMA RunningLength ==
    ParserInv /\ state # Waiting => Len(attempt) \in 1 .. MaxPayload + 5
<1> SUFFICES ASSUME ParserInv, state # Waiting
             PROVE  Len(attempt) \in 1 .. MaxPayload + 5
    OBVIOUS
<1>1. PlaceInv /\ state \in States /\ attempt \in Seq(Bytes) /\ offset \in 0 .. MaxPayload
    BY Zenon DEF ParserInv, Inv, TypeOK, Lines
<1>2. Len(attempt) \in Nat /\ Len(attempt) < MaxPayload + 6
    BY <1>1, RoomLeft DEF ParserInv, RoomForNextByte
<1>3. Len(attempt) # 0
    <2>1. CASE state \in {"READ_LENGTH_HIGH", "READ_LENGTH_LOW"}
        BY <1>1, <2>1 DEF PlaceInv, AtLengthHigh, AtLengthLow
    <2>2. CASE state = "READ_PAYLOAD"
        BY <1>1, <2>2, MaxPayloadAssumption DEF PlaceInv, AtPayload
    <2>3. CASE state \in {"READ_CRC_HIGH", "READ_CRC_LOW", "WAIT_END"}
        BY <1>1, <2>3, MaxPayloadAssumption
        DEF PlaceInv, BothCrcsRead, FirstCrcRead, PayloadRead, HeaderRead
    <2> QED BY <1>1, <2>1, <2>2, <2>3 DEF States
<1> QED BY <1>2, <1>3, MaxPayloadAssumption

LEMMA RunningParse ==
    ASSUME NEW byte \in Bytes, Parse(byte), state # Waiting
    PROVE  attempt' = Append(attempt, byte)
BY DEF Parse, WaitStart, ReadLengthHigh, ReadLengthLow, ReadPayload, ReadCrcHigh,
       ReadCrcLow, WaitEnd

LEMMA WaitingParse ==
    ASSUME NEW byte \in Bytes, Parse(byte), state = Waiting
    PROVE  /\ byte = START => state' # Waiting /\ attempt' = <<START>>
           /\ byte # START => state' = Waiting
           /\ result' = "running"
<1>1. WaitStart(byte)
    BY DEF Parse, ReadLengthHigh, ReadLengthLow, ReadPayload, ReadCrcHigh,
           ReadCrcLow, WaitEnd, Waiting
<1> QED BY <1>1 DEF WaitStart, Waiting

LEMMA FrameBytes ==
    /\ Frame \in Seq(Alphabet(Request))
    /\ Len(Frame) = Len(Request) + 6
    /\ Len(Request) \in 1 .. MaxPayload /\ Len(Request) \in Nat
    /\ Frame[1] = START /\ Frame[Len(Frame)] = END
    /\ Frame[2] * 256 + Frame[3] = Len(Request)
    /\ Frame = Pack(Request)
    /\ Request \in Payloads
<1>1. PackedShape(Request) /\ Len(Request) \in 1 .. MaxPayload /\ Frame = Pack(Request)
    BY RequestAssumption, PackedFrame DEF Frame
<1>2. Len(Request) \in Nat
    BY <1>1, MaxPayloadAssumption
<1>3. /\ Frame[2] = Len(Request) \div 256 /\ Frame[3] = Len(Request) % 256
      /\ Frame[1] = START /\ Frame[Len(Request) + 6] = END
      /\ Frame \in Seq(Alphabet(Request)) /\ Len(Frame) = Len(Request) + 6
    BY <1>1, Zenon DEF PackedShape
<1>4. Frame[2] = 0 /\ Frame[3] = Len(Request)
    BY <1>1, <1>3, ShortLength
<1>5. 0 * 256 + Len(Request) = Len(Request)
    BY <1>2
<1>6. Frame[2] * 256 + Frame[3] = Len(Request)
    BY <1>4, <1>5, Zenon
<1> QED BY <1>1, <1>2, <1>3, <1>6, RequestAssumption

(* Bytes that begin the frame, and the frame. *)
LEMMA BegunFrame ==
    ASSUME NEW n \in 1 .. Len(Frame), attempt = SubSeq(Frame, 1, n)
    PROVE  /\ Len(attempt) = n
           /\ \A i \in 1 .. n : attempt[i] = Frame[i]
           /\ Begins(attempt, Pack(Request))
<1>1. Len(Frame) \in Nat /\ Frame \in Seq(Alphabet(Request))
    BY FrameBytes, FramePlaces
<1>2. \A i \in 1 .. n : i \in 1 .. Len(Frame) /\ Frame[i] \in Alphabet(Request)
    BY <1>1
<1>3. /\ Len(attempt) = n
      /\ \A i \in 1 .. n : attempt[i] = Frame[i]
    BY <1>1, <1>2, SubSeqProperties
<1> QED BY <1>1, <1>3, FrameBytes DEF Begins

(* The parser follows the frame to its end, *)
LEMMA FrameGoesOn ==
    ParserInv => \A n \in 1 .. Len(Frame) - 1 :
                     attempt = SubSeq(Frame, 1, n) => state # Waiting
<1> SUFFICES ASSUME ParserInv, NEW n \in 1 .. Len(Frame) - 1,
                    attempt = SubSeq(Frame, 1, n), state = Waiting
             PROVE  FALSE
    OBVIOUS
<1>1. n \in 1 .. Len(Frame) /\ n \in Nat \ {0} /\ n < Len(Frame) /\ Len(Frame) \in Nat
    BY FramePlaces
<1>2. /\ Len(attempt) = n
      /\ \A i \in 1 .. n : attempt[i] = Frame[i]
      /\ Begins(attempt, Pack(Request))
    BY <1>1, BegunFrame
<1>3. result \in Results
    BY DEF ParserInv, Inv, TypeOK
<1>4. result # "running"
    <2>1. Len(attempt) # 0
        BY <1>1, <1>2
    <2>2. attempt # <<>>
        BY <2>1
    <2> QED BY <2>2 DEF ParserInv, IdleInv
<1>5. result \notin {"length", "crc", "end"}
    BY <1>2, RefusedFrame, FrameBytes DEF ParserInv, RefusedIsNoFrame
<1>6. BothCrcsRead /\ Len(attempt) = length + 6
    BY <1>3, <1>4, <1>5 DEF Results, ParserInv, Inv, OutcomeInv, Delivered
<1>7. HeaderRead /\ length \in Nat
    BY <1>6, MaxPayloadAssumption DEF BothCrcsRead, FirstCrcRead, PayloadRead, HeaderRead
<1>8. attempt[2] * 256 + attempt[3] = length
    BY <1>7, AnnouncedLength
<1>9. attempt[2] = Frame[2] /\ attempt[3] = Frame[3]
    BY <1>1, <1>2, <1>6, <1>7
<1>10. length = Len(Request)
    BY <1>8, <1>9, FrameBytes
<1> QED BY <1>1, <1>2, <1>6, <1>10, FrameBytes

(* and then delivers its payload. *)
LEMMA FrameIsDelivered ==
    ParserInv /\ attempt = SubSeq(Frame, 1, Len(Frame)) =>
        state = Waiting /\ result = "success" /\ Payload = Request
<1> SUFFICES ASSUME ParserInv, attempt = SubSeq(Frame, 1, Len(Frame))
             PROVE  state = Waiting /\ result = "success" /\ Payload = Request
    OBVIOUS
<1>1. Len(Frame) \in Nat /\ Len(Frame) >= 7 /\ Len(Frame) \in 1 .. Len(Frame)
    BY FramePlaces
<1>2. Len(attempt) = Len(Frame) /\ \A i \in 1 .. Len(Frame) : attempt[i] = Frame[i]
    BY <1>1, BegunFrame
<1>3. /\ attempt[2] = Frame[2] /\ attempt[3] = Frame[3]
      /\ attempt[Len(Frame)] = END
    BY <1>1, <1>2, FrameBytes
<1>4. attempt[2] * 256 + attempt[3] = Len(Request)
    BY <1>3, FrameBytes
<1>5. result = "success"
    <2> SUFFICES ASSUME result # "success"
                 PROVE  FALSE
        OBVIOUS
    <2>1. ~ (Len(attempt) < 7)
        BY <1>1, <1>2
    <2>2. /\ HeaderRead
          /\ \/ Len(attempt) < length + 6
             \/ Len(attempt) = length + 6 /\ attempt[length + 6] # END
        BY <2>1, Unfinished
    <2>3. length = Len(Request)
        BY <1>4, <2>2, AnnouncedLength
    <2>4. length + 6 = Len(Frame)
        BY <2>3, FrameBytes
    <2> QED BY <1>1, <1>2, <1>3, <2>2, <2>4
<1>6. BothCrcsRead /\ Inv
    BY <1>5 DEF ParserInv, Inv, OutcomeInv, Delivered
<1>7. PayloadRead /\ HeaderRead /\ TypeOK
    BY <1>6 DEF BothCrcsRead, FirstCrcRead, PayloadRead, Inv
<1>8. length = Len(Request)
    BY <1>4, <1>7, AnnouncedLength
<1>9. Len(attempt) >= length + 3
    BY <1>1, <1>2, <1>8, FrameBytes
<1>10. /\ Payload \in Payloads /\ Len(Payload) = length
       /\ \A i \in 1 .. length : attempt[i + 3] = Payload[i]
    BY <1>7, <1>9, PayloadReadBytes
<1>11. \A i \in 1 .. Len(Request) : Frame[i + 3] = Request[i]
    BY RequestAssumption, PackedFrame DEF PackedShape, Frame
<1> HIDE DEF Payload
<1>12. ASSUME NEW i \in 1 .. Len(Request)
       PROVE  Payload[i] = Request[i]
    <2>1. i + 3 \in 1 .. Len(Frame)
        BY <1>12, FrameBytes
    <2> QED BY <1>2, <1>8, <1>10, <1>11, <2>1
<1>13. Payload \in Seq(Bytes) /\ Request \in Seq(Bytes)
    BY <1>10, PackedFrame, RequestAssumption
<1>14. Payload = Request
    BY <1>8, <1>10, <1>12, <1>13, SeqEqual
<1>15. state = Waiting
    BY <1>5 DEF ParserInv, Inv, PlaceInv
<1> QED BY <1>5, <1>14, <1>15
-----------------------------------------------------------------------------
(* How much of the host the parser misses. *)

(* Wherever the parser is, it hears the host in time from now on. *)
LEMMA HeardAfresh ==
    ReceiveTypeOK /\ ParserInv /\ heard = 0 => HeardInv(Pending[1])
<1> SUFFICES ASSUME ReceiveTypeOK, ParserInv, heard = 0
             PROVE  HeardInv(Pending[1])
    OBVIOUS
<1>1. Pending[1] \in Places
    <2>1. Pending \in Seq(Places) /\ 1 \in 1 .. Len(Pending)
        BY PendingShape
    <2> QED BY <2>1, ElementOfSeq
<1> HIDE DEF Pending
<1>2. /\ Len(Frame) \in Nat /\ Len(Frame) >= 7
      /\ Misses = MaxPayload + 5 + 2 * (Len(Frame) - 1)
      /\ MaxPayload \in Nat /\ MaxPayload >= 1
    BY FramePlaces, MaxPayloadAssumption
<1>3. CASE state = Waiting
    BY <1>1, <1>2, <1>3 DEF HeardInv, Idle, Places, Unknown
<1>4. CASE state # Waiting
    <2>1. Len(attempt) \in 1 .. MaxPayload + 5
        BY <1>4, RunningLength
    <2> QED BY <1>2, <1>4, <2>1 DEF HeardInv, Swallows, Longest
<1> QED BY <1>3, <1>4

LEMMA HeardBound ==
    ASSUME ReceiveTypeOK, ParserInv, HeardInv(Pending[1])
    PROVE  HeardInTime
<1>1. /\ Len(Frame) \in Nat /\ Len(Frame) >= 7
      /\ Misses = MaxPayload + 5 + 2 * (Len(Frame) - 1)
      /\ MaxPayload \in Nat /\ MaxPayload >= 1
      /\ heard \in Nat
    BY FramePlaces, MaxPayloadAssumption DEF ReceiveTypeOK
<1>2. Pending[1] \in Places
    <2>1. Pending \in Seq(Places) /\ 1 \in 1 .. Len(Pending)
        BY PendingShape
    <2> QED BY <2>1, ElementOfSeq
<1> HIDE DEF Pending
<1>3. CASE heard = 0
    BY <1>1, <1>3 DEF HeardInTime
<1>4. CASE Idle(Pending[1])
    BY <1>1, <1>2, <1>4 DEF Idle, Places, HeardInTime
<1>5. CASE Swallows
    <2>1. Len(attempt) \in 1 .. MaxPayload + 5
        BY <1>5, RunningLength DEF Swallows
    <2> QED BY <1>1, <1>5, <2>1 DEF Swallows, Longest, HeardInTime
<1>6. CASE InStep(Pending[1])
    BY <1>1, <1>2, <1>6 DEF InStep, Places, HeardInTime
<1> QED BY <1>3, <1>4, <1>5, <1>6 DEF HeardInv

LEMMA HeardParsed ==
    ASSUME ReceiveInv, ParserInv', ReceiveTypeOK',
           NEW byte \in Bytes, ParseByte(byte)
    PROVE  HeardInv(Pending[1])'
<1> DEFINE next == Pending[1]
           L == Len(Frame)
<1>1. /\ L \in Nat /\ L >= 7
      /\ Misses = MaxPayload + 5 + 2 * (L - 1)
      /\ MaxPayload \in Nat /\ MaxPayload >= 1
      /\ heard \in Nat
    BY FramePlaces, MaxPayloadAssumption DEF ReceiveTypeOK, ReceiveInv
<1>2. next = Head(comm_rx) /\ next \in Places /\ Pending'[1] \in MayFollow(next)
    <2>1. /\ Pending \in Seq(Places) /\ Len(Pending) \in Nat /\ Len(Pending) >= 2
          /\ Len(Pending') = Len(Pending) - 1
          /\ \A i \in 1 .. Len(Pending') : Pending'[i] = Pending[i + 1]
          /\ next = Head(comm_rx)
        BY PendingShape, PendingParsed DEF ReceiveInv
    <2> HIDE DEF Pending
    <2>2. 1 \in 1 .. Len(Pending) /\ 1 \in 1 .. Len(Pending) - 1 /\ 1 \in 1 .. Len(Pending')
        BY <2>1
    <2>3. Pending[1 + 1] \in MayFollow(Pending[1])
        BY <2>2 DEF ReceiveInv, PendingInv
    <2> QED BY <2>1, <2>2, <2>3, ElementOfSeq
<1>3. CASE heard' = 0
    <2>1. (ReceiveTypeOK /\ ParserInv /\ heard = 0 => HeardInv(Pending[1]))'
        BY HeardAfresh, PTL
    <2> QED BY <1>3, <2>1
<1>4. CASE heard' # 0
    <2>1. /\ next # Unknown /\ ~ Delivers
          /\ heard' = IF heard > Misses THEN heard ELSE heard + 1
        BY <1>2, <1>4 DEF ParseByte
    <2>2. HeardInTime
        BY HeardBound DEF ReceiveInv
    <2>3. heard' = heard + 1
        BY <1>1, <2>1, <2>2 DEF HeardInTime
    <2>4. next \in 1 .. L /\ byte = Frame[next] /\ Parse(byte)
        BY <1>1, <1>2, <2>1 DEF Places, Unknown, ParseByte, Carries
    <2>5. Pending'[1] = IF next = L THEN 1 ELSE next + 1
        BY <1>1, <1>2, <2>1 DEF MayFollow, After
    <2> HIDE DEF L, Pending, next
    <2>6. Pending'[1] \in 1 .. L /\ Pending'[1] # Unknown
        BY <1>1, <2>4, <2>5 DEF Unknown
    <2>7. ASSUME state' = Waiting,
                 heard + 1 + (IF Pending'[1] = 1 THEN 0 ELSE L - Pending'[1] + 1) + L - 1
                     <= Misses
          PROVE  HeardInv(Pending[1])'
        <3>1. Idle(Pending[1])'
            BY <2>3, <2>7 DEF Idle, L
        <3> QED BY <2>6, <3>1 DEF HeardInv
    <2>8. CASE Idle(next) /\ next = 1
        <3>1. byte = START
            BY <2>4, <2>8, FrameBytes
        <3>2. state' # Waiting /\ attempt' = <<START>>
            BY <2>4, <2>8, <3>1, WaitingParse DEF Idle
        <3>3. SubSeq(Frame, 1, 1) = <<START>>
            <4>1. /\ Frame \in Seq(Alphabet(Request)) /\ Frame[1] = START
                  /\ 1 \in 1 .. Len(Frame) /\ 1 \in 1 .. Len(Frame) /\ 1 + 1 = 2
                BY <1>1, FrameBytes DEF L
            <4>2. SubSeq(Frame, 1, 1) = <<Frame[1]>> \o SubSeq(Frame, 2, 1)
                BY <4>1, SubSeqRecursiveFirst
            <4>3. SubSeq(Frame, 2, 1) = <<>>
                BY SubSeqEmpty
            <4>4. <<START>> \o <<>> = <<START>>
                OBVIOUS
            <4> QED BY <4>1, <4>2, <4>3, <4>4
        <3>4. Pending'[1] = 2 /\ 2 - 1 = 1
            BY <1>1, <2>5, <2>8
        <3>5. heard' + L - 2 <= Misses
            BY <1>1, <2>3, <2>8 DEF Idle, L
        <3>6. InStep(Pending[1])'
            BY <3>2, <3>3, <3>4, <3>5 DEF InStep, L
        <3> QED BY <2>6, <3>6 DEF HeardInv
    <2>9. CASE Idle(next) /\ next # 1
        <3>1. byte # START
            BY <1>1, <2>4, <2>9, FrameAssumption DEF L
        <3>2. state' = Waiting
            BY <2>4, <2>9, <3>1, WaitingParse DEF Idle
        <3>3. heard + L - next + 1 + L - 1 <= Misses
            BY <1>1, <2>4, <2>9 DEF Idle, L
        <3>4. heard + 1 + (IF Pending'[1] = 1 THEN 0 ELSE L - Pending'[1] + 1) + L - 1
                  <= Misses
            BY <1>1, <2>4, <2>5, <2>9, <3>3
        <3> QED BY <2>7, <3>2, <3>4
    <2>10. CASE Swallows
        <3>1. attempt \in Seq(Bytes) /\ ParserInv
            BY DEF ReceiveInv, ParserInv, Inv, TypeOK, Lines
        <3>2. /\ Len(attempt) \in 1 .. MaxPayload + 5
              /\ heard + (MaxPayload + 6) - Len(attempt) + 2 * (L - 1) <= Misses
            BY <2>10, <3>1, RunningLength DEF Swallows, Longest, L
        <3>3. /\ Len(attempt) \in 1 .. MaxPayload + 5
              /\ attempt \in Seq(Bytes)
              /\ heard + MaxPayload + 6 - Len(attempt) + 2 * (L - 1) <= Misses
            BY <1>1, <3>1, <3>2
        <3>4. CASE state' = Waiting
            <4>1. heard + 1 + (IF Pending'[1] = 1 THEN 0 ELSE L - Pending'[1] + 1) + L - 1
                      <= Misses
                BY <1>1, <2>6, <3>3
            <4> QED BY <2>7, <3>4, <4>1
        <3>5. CASE state' # Waiting
            <4>1. Len(attempt') = Len(attempt) + 1
                BY <2>4, <2>10, <3>3, RunningParse, AppendedByte DEF Swallows
            <4>2. Swallows'
                BY <1>1, <2>3, <3>3, <3>5, <4>1 DEF Swallows, Longest, L
            <4> QED BY <2>6, <4>2 DEF HeardInv
        <3> QED BY <3>4, <3>5
    <2>11. CASE InStep(next)
        <3>1. attempt' = SubSeq(Frame, 1, next)
            <4>1. attempt' = Append(attempt, byte) /\ attempt \in Seq(Bytes)
                BY <2>4, <2>11, RunningParse
                DEF InStep, ReceiveInv, ParserInv, Inv, TypeOK, Lines
            <4>2. attempt' = attempt \o <<byte>>
                BY <4>1, AppendIsConcat
            <4>3. /\ 1 \in 1 .. L /\ next \in 1 .. L /\ Frame \in Seq(Alphabet(Request))
                BY <1>1, <2>4, FrameBytes
            <4>4. SubSeq(Frame, 1, next) = SubSeq(Frame, 1, next - 1) \o <<Frame[next]>>
                BY <1>1, <4>3, SubSeqRecursiveSecond DEF L
            <4> QED BY <2>4, <2>11, <4>2, <4>4 DEF InStep
        <3>2. next # L
            <4>1. (ParserInv /\ attempt = SubSeq(Frame, 1, Len(Frame)) =>
                       state = Waiting /\ result = "success" /\ Payload = Request)'
                BY FrameIsDelivered, PTL
            <4> QED BY <2>1, <3>1, <4>1 DEF Delivers, L
        <3>3. next \in 1 .. L - 1 /\ Pending'[1] = next + 1
            BY <1>1, <2>4, <2>5, <3>2
        <3>4. state' # Waiting
            <4>1. (ParserInv => \A n \in 1 .. Len(Frame) - 1 :
                                    attempt = SubSeq(Frame, 1, n) => state # Waiting)'
                BY FrameGoesOn, PTL
            <4> QED BY <3>1, <3>3, <4>1 DEF L
        <3>5. heard' + L - (next + 1) <= Misses
            BY <1>1, <2>3, <2>4, <2>11 DEF InStep, L
        <3>6. (next + 1) - 1 = next
            BY <2>4, <1>1
        <3>7. InStep(Pending[1])'
            BY <3>1, <3>3, <3>4, <3>5, <3>6 DEF InStep, L
        <3> QED BY <2>6, <3>7 DEF HeardInv
    <2> QED BY <2>1, <2>8, <2>9, <2>10, <2>11 DEF ReceiveInv, HeardInv, next
<1> QED BY <1>3, <1>4
LEMMA HeardStep ==
    ASSUME ReceiveInv, ParserInv', ReceiveTypeOK', [ReceiveNext]_receiveVars
    PROVE  HeardInv(Pending[1])'
<1>1. ASSUME UNCHANGED <<state, attempt, heard>>, Pending'[1] = Pending[1]
      PROVE  HeardInv(Pending[1])'
    BY <1>1 DEF ReceiveInv, HeardInv, Idle, Swallows, InStep
<1>2. ASSUME heard' = 0
      PROVE  HeardInv(Pending[1])'
    <2>1. (ReceiveTypeOK /\ ParserInv /\ heard = 0 => HeardInv(Pending[1]))'
        BY HeardAfresh, PTL
    <2> QED BY <1>2, <2>1
<1>3. CASE Receive
    <2>1. Pending \in Seq(Places) /\ Len(Pending) \in Nat /\ Len(Pending) >= 1
        BY PendingShape DEF ReceiveInv
    <2>2. Pending' = Append(Pending, After(line))
        BY <1>3, PendingReceive DEF ReceiveInv
    <2>3. After(line) \in Places
        BY FramePlaces DEF ReceiveInv, ReceiveTypeOK
    <2> HIDE DEF Pending
    <2>4. Pending'[1] = Pending[1]
        BY <2>1, <2>2, <2>3, AppendProperties
    <2> QED BY <1>1, <1>3, <2>4 DEF Receive, parser, vars
<1>4. CASE Drop \/ CheckDrop \/ TakeCount
    BY <1>1, <1>4 DEF Drop, CheckDrop, TakeCount, parser, vars, history, Pending
<1>5. CASE HostRepeats
    <2>1. Pending[1] = Unknown
        BY <1>5, PendingRepeatsInv DEF ReceiveInv
    <2> QED BY <1>2, <1>5, <2>1 DEF HostRepeats, ReceiveInv, HeardInv
<1>6. CASE ResetParser
    BY <1>2, <1>6 DEF ResetParser, ReceiveInv, OwedInv
<1>7. CASE Pop
    <2>1. Pending' = Pending
        BY <1>7, PendingPop DEF ReceiveInv, PendingInv, Pop
    <2> QED BY <1>1, <1>7, <2>1 DEF Pop, parser, vars, history
<1>8. CASE \E byte \in Bytes : ParseByte(byte)
    BY <1>8, HeardParsed
<1>9. CASE UNCHANGED receiveVars
    BY <1>1, <1>9 DEF receiveVars, parser, vars, manager, history, Pending
<1> QED BY <1>3, <1>4, <1>5, <1>6, <1>7, <1>8, <1>9 DEF ReceiveNext, CommControl

LEMMA ReceiveInitInv == ReceiveInit => ReceiveInv
<1> SUFFICES ASSUME ReceiveInit
             PROVE  ReceiveInv
    OBVIOUS
<1>1. ReceiveTypeOK
    BY ReceiveTypeInit
<1>2. ParserInv
    BY Initially DEF ParserInv, IdleInv, Init, ReceiveInit
<1>3. /\ comm_rx = <<>> /\ rx_queue = <<>> /\ line = Unknown /\ step = "parse"
      /\ drop_pending = FALSE /\ reset_owed = FALSE /\ heard = 0
    BY DEF ReceiveInit
<1>4. Len(Pending) = 1 /\ Pending[1] = Unknown
    <2>1. Len(comm_rx) = 0 /\ Len(rx_queue) = 0
        BY <1>3
    <2>2. /\ Len(Pending) = Len(comm_rx) + Len(rx_queue) + 1
          /\ Pending[Len(Pending)] = line
        BY <1>1, PendingShape
    <2>3. Len(Pending) = 1
        BY <2>1, <2>2
    <2> QED BY <1>3, <2>2, <2>3
<1> HIDE DEF Pending
<1>5. PendingInv
    BY <1>3, <1>4 DEF PendingInv
<1>6. OwedInv /\ NoDropForgotten
    BY <1>3 DEF OwedInv, NoDropForgotten
<1>7. HeardInv(Pending[1])
    BY <1>3, <1>4 DEF HeardInv
<1> QED BY <1>1, <1>2, <1>5, <1>6, <1>7 DEF ReceiveInv

LEMMA ReceiveInductive == ReceiveInv /\ [ReceiveNext]_receiveVars => ReceiveInv'
<1> SUFFICES ASSUME ReceiveInv, [ReceiveNext]_receiveVars
             PROVE  ReceiveInv'
    OBVIOUS
<1>1. ParserInv'
    BY ParserSteps, ParserInductive DEF ReceiveInv
<1>2. ReceiveTypeOK'
    BY ReceiveTypeStep DEF ReceiveInv
<1>3. NoDropForgotten'
    BY ForgottenStep DEF ReceiveInv
<1>4. PendingInv'
    BY PendingStep DEF ReceiveInv
<1>5. OwedInv'
    BY OwedStep DEF ReceiveInv
<1>6. HeardInv(Pending[1])'
    BY <1>1, <1>2, HeardStep
<1> QED BY <1>1, <1>2, <1>3, <1>4, <1>5, <1>6 DEF ReceiveInv

(* HeardInTime of CommReceive.tla: whatever the line carried before, and    *)
(* whatever was dropped, at most a broken frame's worth and two frames of   *)
(* the host are missed.                                                     *)
THEOREM HostIsHeardInTime == ReceiveSpec => []HeardInTime
<1>1. ReceiveInv => HeardInTime
    BY HeardBound DEF ReceiveInv
<1> QED BY <1>1, ReceiveInitInv, ReceiveInductive, PTL DEF ReceiveSpec
=============================================================================
