-------------------------- MODULE FlashWriterProofs --------------------------
(***************************************************************************)
(* The Flash writer is an append-only store of whole chunks for every size *)
(* of slot and of chunk, whatever fails and is sent again.                 *)
(***************************************************************************)
EXTENDS MCFlashWriter, SequenceTheorems, TLAPS

-----------------------------------------------------------------------------
(* The inductive invariant. *)

(* The writer is open when it has anything; a deferred byte was counted. *)
WriterOK ==
    /\ ~open => written_size = 0
    /\ pending # NoByte => written_size # 0
    /\ step \in {"write", "hung"} => open
    /\ step \in {"idle", "flushed", "given up"} => index = 0

(* As far as a call has come, its half-words are in Flash behind the bytes  *)
(* accepted; the first of them has the deferred byte in it.                 *)
WriteOK ==
    step = "write" =>
        /\ chunk \in Chunks
        /\ index <= Len(chunk)
        /\ written_size + Len(chunk) <= expected_size
        /\ index # 0 => pending = NoByte /\ Aligned(written_size + index)
        /\ \A k \in 0 .. index - 1 : flash[written_size + k] = chunk[k + 1]

(* A writer that lost its deferred byte to a chunk that failed cannot       *)
(* complete an image: its next half-word is at an odd address.              *)
ParityOK ==
    step \in {"idle", "write"} /\ pending = NoByte /\ ~Aligned(written_size) =>
        written_size < expected_size

FlushedOK ==
    step = "flushed" =>
        /\ pending = NoByte
        /\ written_size = expected_size
        /\ ~Aligned(expected_size) => flash[expected_size] = MaxByte

(* The bytes accepted, one by one. *)
StoredOK ==
    /\ Len(hashed) = written_size
    /\ \A i \in 1 .. written_size :
           hashed[i] = IF pending # NoByte /\ i = written_size THEN pending ELSE flash[i - 1]

Inv == TypeOK /\ StoredOK /\ WriterOK /\ WriteOK /\ ParityOK /\ FlushedOK

(* Where the writer programs next. *)
Front == IF pending = NoByte THEN written_size + index ELSE written_size - 1

(* From there on the slot is erased. *)
FrontOK ==
    /\ Aligned(Front)
    /\ \A offset \in Offsets : offset >= Front => flash[offset] = MaxByte

ContractInv ==
    /\ chunk_failed \in BOOLEAN /\ (chunk_failed => open)
    /\ ~chunk_failed =>
           /\ step # "hung"
           /\ open /\ step \in {"idle", "write"} => FrontOK

-----------------------------------------------------------------------------
LEMMA ByteFacts ==
    /\ MaxByte \in Nat /\ MaxByte \in Bytes
    /\ NoByte \notin Bytes
    /\ Bytes \subseteq Nat
<1>1. MaxByte \in Nat
    BY DEF MaxByte
<1> QED BY <1>1, BytesAssumption DEF NoByte

LEMMA ChunkFacts ==
    ASSUME NEW data \in Chunks
    PROVE  /\ data \in Seq(Bytes) /\ Len(data) \in Nat \ {0}
           /\ \A i \in 1 .. Len(data) : data[i] \in Bytes
<1>1. PICK n \in 1 .. MaxChunk : data \in [1 .. n -> Bytes]
    BY DEF Chunks
<1>2. n \in Nat \ {0}
    BY SizeAssumption
<1> QED BY <1>1, <1>2

LEMMA ChunkLength == \A data \in Chunks : Len(data) <= MaxChunk
<1> SUFFICES ASSUME NEW data \in Chunks PROVE Len(data) <= MaxChunk
    OBVIOUS
<1>1. PICK n \in 1 .. MaxChunk : data \in [1 .. n -> Bytes]
    BY DEF Chunks
<1> QED BY <1>1, SizeAssumption

(* The half-word a call programs next is in the slot. *)
LEMMA AddressFacts ==
    ASSUME Inv, Writing
    PROVE  /\ Address \in Offsets /\ Address + 1 \in Offsets
           /\ Low \in Bytes /\ High \in Bytes
           /\ chunk \in Seq(Bytes) /\ Len(chunk) \in Nat \ {0}
           /\ index \in Nat /\ index < Len(chunk)
           /\ Completes => Address = written_size - 1 /\ index = 0 /\ written_size # 0
           /\ ~Completes => Address = written_size + index /\ index + 1 < Len(chunk)
<1> USE DEF Inv, Writing
<1>1. /\ chunk \in Chunks /\ index \in Nat /\ written_size \in Nat
      /\ written_size + Len(chunk) <= expected_size
      /\ expected_size \in Nat /\ expected_size <= SlotSize
      /\ step = "write"
    BY SizeAssumption DEF WriteOK, TypeOK
<1>2. /\ chunk \in Seq(Bytes) /\ Len(chunk) \in Nat \ {0}
      /\ \A i \in 1 .. Len(chunk) : chunk[i] \in Bytes
    BY <1>1, ChunkFacts
<1>3. CASE Completes
    <2>1. index = 0 /\ written_size # 0 /\ pending \in Bytes
        BY <1>1, <1>3 DEF Completes, WriteOK, WriterOK, TypeOK
    <2>2. Address = written_size - 1 /\ Low = pending /\ High = chunk[1]
        BY <1>3 DEF Address, Low, High
    <2>3. written_size - 1 \in Offsets /\ written_size \in Offsets /\ chunk[1] \in Bytes
        BY <1>1, <1>2, <2>1, SizeAssumption DEF Offsets
    <2> QED BY <1>1, <1>2, <1>3, <2>1, <2>2, <2>3
<1>4. CASE ~Completes
    <2>1. index + 1 < Len(chunk)
        BY <1>4 DEF Pairs
    <2>2. Address = written_size + index /\ Low = chunk[index + 1] /\ High = chunk[index + 2]
        BY <1>4 DEF Address, Low, High
    <2>3. /\ written_size + index \in Offsets /\ written_size + index + 1 \in Offsets
          /\ chunk[index + 1] \in Bytes /\ chunk[index + 2] \in Bytes
        BY <1>1, <1>2, <2>1, SizeAssumption DEF Offsets
    <2> QED BY <1>1, <1>2, <1>4, <2>1, <2>2, <2>3
<1> QED BY <1>3, <1>4
-----------------------------------------------------------------------------
(* Every step preserves the invariant. *)

(* A writer that was reset, with nothing received. *)
Empty ==
    /\ flash \in [Offsets -> Bytes] /\ chunk \in Chunks \cup {<<>>} /\ index = 0
    /\ step = "idle" /\ ~open /\ open \in BOOLEAN /\ written_size = 0 /\ pending = NoByte
    /\ expected_size \in 0 .. SlotSize /\ hashed = <<>>

LEMMA EmptyInv == Empty => Inv
<1> SUFFICES ASSUME Empty PROVE Inv
    OBVIOUS
<1>1. /\ hashed \in Seq(Bytes) /\ Len(hashed) = 0 /\ expected_size \in Nat
      /\ 0 \in 0 .. MaxChunk /\ 0 \in 0 .. SlotSize
    BY SizeAssumption DEF Empty
<1>2. TypeOK
    BY <1>1 DEF TypeOK, Empty
<1>3. Aligned(0)
    BY DEF Aligned
<1> QED BY <1>1, <1>2, <1>3 DEF Empty, Inv, StoredOK, WriterOK, WriteOK, ParityOK, FlushedOK

LEMMA InitInv == Init => Inv
<1>1. <<>> \in Chunks \cup {<<>>} /\ 0 \in 0 .. SlotSize
    BY SizeAssumption
<1> QED BY <1>1, EmptyInv DEF Init, Empty

LEMMA EmptyNext == Empty' => Inv'
BY EmptyInv, PTL

(* The transfer begins, or is forgotten. *)
LEMMA ResetInv ==
    ASSUME Inv, (\E size \in 1 .. SlotSize : BeginTransfer(size)) \/ PowerLoss
    PROVE  Inv'
<1>1. /\ flash \in [Offsets -> Bytes] /\ chunk \in Chunks \cup {<<>>}
      /\ step \in {"idle", "flushed", "given up"} => index = 0
    BY DEF Inv, TypeOK, WriterOK
<1>2. CASE \E size \in 1 .. SlotSize : BeginTransfer(size)
    <2>1. PICK size \in 1 .. SlotSize : BeginTransfer(size)
        BY <1>2
    <2>2. size \in 0 .. SlotSize
        BY SizeAssumption
    <2> QED BY <1>1, <2>1, <2>2, EmptyNext DEF BeginTransfer, Empty
<1>3. CASE PowerLoss
    <2>1. 0 \in 0 .. SlotSize
        BY SizeAssumption
    <2> QED BY <1>1, <1>3, <2>1, EmptyNext DEF PowerLoss, Empty
<1> QED BY <1>2, <1>3

LEMMA EraseInv == Inv /\ (Erase \/ EraseFails) => Inv'
<1> SUFFICES ASSUME Inv, Erase \/ EraseFails PROVE Inv'
    OBVIOUS
<1>1. /\ step = "idle" /\ expected_size > 0 /\ ~open /\ open' \in BOOLEAN
      /\ UNCHANGED <<written_size, pending, chunk, index, step, expected_size, hashed>>
      /\ flash' \in [Offsets -> Bytes]
    BY ByteFacts DEF Erase, EraseFails, writer, transfer, Inv, TypeOK
<1>2. written_size = 0
    BY <1>1 DEF Inv, WriterOK
<1> QED
    BY <1>1, <1>2, SizeAssumption
    DEF Inv, TypeOK, StoredOK, WriterOK, WriteOK, ParityOK, FlushedOK, Aligned

LEMMA WriteInv == ASSUME Inv, NEW data \in Chunks, Write(data) PROVE Inv'
<1>1. /\ step = "idle" /\ open /\ step' = "write" /\ chunk' = data /\ index' = 0
      /\ UNCHANGED <<flash, open, written_size, pending, expected_size, hashed>>
      /\ Len(hashed) + Len(data) <= expected_size
    BY DEF Write, writer, transfer
<1>2. Len(data) \in Nat \ {0}
    BY ChunkFacts
<1>3. Len(hashed) = written_size
    BY DEF Inv, StoredOK
<1> QED
    BY <1>1, <1>2, <1>3, SizeAssumption
    DEF Inv, TypeOK, StoredOK, WriterOK, WriteOK, ParityOK, FlushedOK, Aligned

LEMMA HangInv == Inv /\ (HardFaultInWrite \/ HardFaultInFlush) => Inv'
<1> SUFFICES ASSUME Inv, HardFaultInWrite \/ HardFaultInFlush PROVE Inv'
    OBVIOUS
<1>1. /\ step' = "hung" /\ open
      /\ UNCHANGED <<flash, open, written_size, pending, chunk, index, expected_size, hashed>>
    BY DEF HardFaultInWrite, HardFaultInFlush, Writing, Flushing, Complete, writer, transfer,
           Inv, WriterOK
<1> QED
    BY <1>1 DEF Inv, TypeOK, StoredOK, WriterOK, WriteOK, ParityOK, FlushedOK

(* What programming the next half-word of a call does, counted or not. *)
LEMMA ProgramStored ==
    ASSUME Inv, Writing, Programmed(Address, Low, High)
    PROVE  /\ flash' \in [Offsets -> Bytes]
           /\ \A i \in 1 .. written_size :
                  (i = written_size /\ pending # NoByte) \/ flash'[i - 1] = flash[i - 1]
           /\ Completes => flash'[written_size - 1] = pending /\ flash'[written_size] = chunk[1]
           /\ ~Completes =>
                  /\ flash'[written_size + index] = chunk[index + 1]
                  /\ flash'[written_size + index + 1] = chunk[index + 2]
                  /\ \A k \in 0 .. index - 1 : flash'[written_size + k] = flash[written_size + k]
<1>1. /\ flash \in [Offsets -> Bytes] /\ written_size \in Nat
      /\ written_size + Len(chunk) <= SlotSize
    BY SizeAssumption DEF Inv, TypeOK, WriteOK, Writing
<1>2. flash' = [flash EXCEPT ![Address] = Low, ![Address + 1] = High]
    BY DEF Programmed, Program
<1>3. /\ flash' \in [Offsets -> Bytes]
      /\ flash'[Address] = Low /\ flash'[Address + 1] = High
      /\ \A o \in Offsets : o # Address /\ o # Address + 1 => flash'[o] = flash[o]
    BY <1>1, <1>2, AddressFacts, SizeAssumption DEF Offsets
<1>4. CASE Completes
    <2>1. /\ Address = written_size - 1 /\ pending # NoByte /\ index = 0
          /\ written_size # 0 /\ Low = pending /\ High = chunk[1]
        BY <1>4, AddressFacts DEF Completes, Low, High
    <2>2. \A i \in 1 .. written_size : i # written_size => flash'[i - 1] = flash[i - 1]
        BY <1>1, <1>3, <2>1, SizeAssumption DEF Offsets
    <2> QED BY <1>1, <1>3, <1>4, <2>1, <2>2
<1>5. CASE ~Completes
    <2>1. /\ Address = written_size + index /\ Low = chunk[index + 1] /\ High = chunk[index + 2]
          /\ index \in Nat /\ index < Len(chunk) /\ Len(chunk) \in Nat
        BY <1>5, AddressFacts DEF Low, High
    <2>2. /\ \A i \in 1 .. written_size : flash'[i - 1] = flash[i - 1]
          /\ \A k \in 0 .. index - 1 : flash'[written_size + k] = flash[written_size + k]
        BY <1>1, <1>3, <2>1, SizeAssumption DEF Offsets
    <2> QED BY <1>1, <1>3, <1>5, <2>1, <2>2
<1> QED BY <1>4, <1>5

LEMMA ProgramInv == Inv /\ ProgramHalfWord => Inv'
<1> SUFFICES ASSUME Inv, ProgramHalfWord PROVE Inv'
    OBVIOUS
<1>1. /\ Writing /\ Programmed(Address, Low, High) /\ pending' = NoByte
      /\ index' = IF Completes THEN 1 ELSE index + 2
      /\ UNCHANGED <<open, written_size, chunk, step, expected_size, hashed>>
    BY DEF ProgramHalfWord, transfer
<1>2. /\ step = "write" /\ chunk \in Chunks /\ index \in Nat /\ written_size \in Nat
      /\ expected_size \in Nat /\ Len(chunk) <= MaxChunk
      /\ written_size + Len(chunk) <= expected_size
      /\ index # 0 => pending = NoByte /\ Aligned(written_size + index)
      /\ \A k \in 0 .. index - 1 : flash[written_size + k] = chunk[k + 1]
    BY <1>1, SizeAssumption, ChunkLength DEF Writing, Inv, TypeOK, WriteOK
<1>3. index' \in Nat /\ index' # 0 /\ index' <= Len(chunk)
    BY <1>1, AddressFacts
<1>4. TypeOK'
    <2>1. index' \in 0 .. MaxChunk /\ flash' \in [Offsets -> Bytes]
        BY <1>1, <1>2, <1>3, ProgramStored, SizeAssumption, AddressFacts
    <2> QED BY <1>1, <2>1 DEF Inv, TypeOK
<1>5. Aligned(written_size + index')
    BY <1>1, <1>2, AddressFacts DEF Programmed, Aligned
<1>6. \A k \in 0 .. index' - 1 : flash'[written_size + k] = chunk[k + 1]
    <2>1. CASE Completes
        <3>1. index' = 1 /\ flash'[written_size] = chunk[1]
            BY <1>1, <2>1, ProgramStored
        <3> QED BY <1>2, <3>1
    <2>2. CASE ~Completes
        <3>1. /\ index' = index + 2
              /\ flash'[written_size + index] = chunk[index + 1]
              /\ flash'[written_size + index + 1] = chunk[index + 2]
              /\ \A k \in 0 .. index - 1 : flash'[written_size + k] = chunk[k + 1]
            BY <1>1, <1>2, <2>2, ProgramStored
        <3>2. TAKE k \in 0 .. index' - 1
        <3>3. index \in Nat /\ index' = index + 2
            BY <1>2, <3>1
        <3>4. CASE k = index
            BY <3>1, <3>4
        <3>5. CASE k = index + 1
            <4>1. written_size + k = written_size + index + 1 /\ k + 1 = index + 2
                BY <1>2, <3>5
            <4> QED BY <3>1, <4>1
        <3>6. CASE k # index /\ k # index + 1
            <4>1. k \in 0 .. index - 1
                BY <3>3, <3>6
            <4> QED BY <3>1, <4>1
        <3> QED BY <3>4, <3>5, <3>6
    <2> QED BY <2>1, <2>2
<1>7. StoredOK'
    BY <1>1, ProgramStored, AddressFacts DEF Inv, StoredOK, Completes
<1>8. written_size < expected_size
    BY <1>1, <1>2, AddressFacts
<1> QED
    BY <1>1, <1>2, <1>3, <1>4, <1>5, <1>6, <1>7, <1>8
    DEF Inv, WriterOK, WriteOK, ParityOK, FlushedOK

LEMMA WriteFailsInv == Inv /\ WriteFails => Inv'
<1> SUFFICES ASSUME Inv, WriteFails PROVE Inv'
    OBVIOUS
<1>1. /\ Writing /\ chunk' = <<>> /\ index' = 0 /\ step' = "idle" /\ step = "write"
      /\ UNCHANGED <<open, written_size, pending, expected_size, hashed>>
      /\ UNCHANGED flash \/ Programmed(Address, Low, High)
    BY DEF WriteFails, Writing, ProgramFails, writer, transfer
<1>2. /\ flash' \in [Offsets -> Bytes]
      /\ \A i \in 1 .. written_size :
             (i = written_size /\ pending # NoByte) \/ flash'[i - 1] = flash[i - 1]
    BY <1>1, ProgramStored DEF Inv, TypeOK
<1>3. TypeOK'
    BY <1>1, <1>2, SizeAssumption DEF Inv, TypeOK
<1>4. StoredOK'
    BY <1>1, <1>2 DEF Inv, StoredOK
<1> QED
    BY <1>1, <1>3, <1>4 DEF Inv, WriterOK, WriteOK, ParityOK, FlushedOK

(* A call ends with all of its bytes in Flash but an odd last one. *)
LEMMA ReturnFacts ==
    ASSUME Inv, WriteReturns
    PROVE  /\ pending = NoByte /\ chunk \in Chunks /\ index \in Nat
           /\ Len(chunk) \in Nat \ {0} /\ index \in {Len(chunk) - 1, Len(chunk)}
           /\ pending' = IF index < Len(chunk) THEN chunk[index + 1] ELSE NoByte
           /\ index < Len(chunk) => pending' \in Bytes
           /\ written_size + Len(chunk) <= expected_size
           /\ index = Len(chunk) => Aligned(written_size + Len(chunk))
           /\ index # 0 => Aligned(written_size + index)
<1>1. /\ step = "write" /\ ~Completes /\ ~Pairs
      /\ pending' = IF index < Len(chunk) THEN chunk[index + 1] ELSE pending
    BY DEF WriteReturns, Writing
<1>2. /\ chunk \in Chunks /\ index \in Nat /\ index <= Len(chunk)
      /\ written_size + Len(chunk) <= expected_size
      /\ index # 0 => pending = NoByte /\ Aligned(written_size + index)
    BY <1>1 DEF Inv, WriteOK, TypeOK
<1>3. /\ Len(chunk) \in Nat \ {0} /\ \A i \in 1 .. Len(chunk) : chunk[i] \in Bytes
    BY <1>2, ChunkFacts
<1>4. pending = NoByte
    BY <1>1, <1>2, <1>3 DEF Completes
<1>5. index + 1 >= Len(chunk)
    BY <1>1, <1>2, <1>3, <1>4 DEF Pairs
<1> QED BY <1>1, <1>2, <1>3, <1>4, <1>5

LEMMA ReturnInv == Inv /\ WriteReturns => Inv'
<1> SUFFICES ASSUME Inv, WriteReturns PROVE Inv'
    OBVIOUS
<1>1. /\ written_size' = written_size + Len(chunk) /\ hashed' = hashed \o chunk
      /\ chunk' = <<>> /\ index' = 0 /\ step' = "idle" /\ step = "write"
      /\ UNCHANGED <<flash, open, expected_size>>
    BY DEF WriteReturns
<1>2. /\ hashed \in Seq(Bytes) /\ Len(hashed) = written_size /\ written_size \in Nat
      /\ expected_size \in Nat /\ expected_size <= SlotSize
      /\ \A i \in 1 .. written_size : hashed[i] = flash[i - 1]
      /\ \A k \in 0 .. index - 1 : flash[written_size + k] = chunk[k + 1]
    BY <1>1, ReturnFacts, SizeAssumption DEF Inv, TypeOK, StoredOK, WriteOK
<1>3. /\ chunk \in Seq(Bytes) /\ Len(chunk) \in Nat \ {0}
    BY ReturnFacts, ChunkFacts
<1>4. /\ hashed' \in Seq(Bytes) /\ Len(hashed') = written_size'
      /\ \A i \in 1 .. written_size : hashed'[i] = hashed[i]
      /\ \A k \in 0 .. Len(chunk) - 1 : hashed'[written_size + k + 1] = chunk[k + 1]
    <2>1. hashed \in Seq(Bytes) /\ chunk \in Seq(Bytes)
        BY <1>2, <1>3
    <2>2. /\ hashed \o chunk \in Seq(Bytes)
          /\ Len(hashed \o chunk) = Len(hashed) + Len(chunk)
          /\ \A i \in 1 .. Len(hashed) + Len(chunk) :
                 (hashed \o chunk)[i] = IF i <= Len(hashed) THEN hashed[i]
                                        ELSE chunk[i - Len(hashed)]
        BY <2>1, ConcatProperties
    <2>3. /\ hashed' = hashed \o chunk /\ written_size' = written_size + Len(chunk)
          /\ Len(hashed) = written_size /\ written_size \in Nat
          /\ Len(chunk) \in Nat
        BY <1>1, <1>2, <1>3
    <2> QED BY <2>2, <2>3
<1>5. StoredOK'
    <2> SUFFICES ASSUME NEW i \in 1 .. written_size'
                 PROVE  hashed'[i] = IF pending' # NoByte /\ i = written_size'
                                     THEN pending' ELSE flash'[i - 1]
        BY <1>4 DEF StoredOK
    <2>1. CASE i <= written_size
        BY <1>1, <1>2, <1>3, <1>4, <2>1
    <2>2. CASE ~(i <= written_size)
        <3> DEFINE k == i - 1 - written_size
        <3>1. k \in 0 .. Len(chunk) - 1 /\ hashed'[i] = chunk[k + 1] /\ i = written_size + k + 1
            BY <1>1, <1>2, <1>3, <1>4, <2>2
        <3>2. k \in 0 .. index - 1 \/ (k = index /\ index = Len(chunk) - 1)
            BY <3>1, <1>3, ReturnFacts
        <3>3. CASE k \in 0 .. index - 1
            <4>1. flash'[i - 1] = chunk[k + 1]
                BY <1>1, <1>2, <3>1, <3>3
            <4>2. ~(pending' # NoByte /\ i = written_size')
                BY <1>1, <1>2, <1>3, <3>1, <3>3, ReturnFacts
            <4> QED BY <3>1, <4>1, <4>2
        <3>4. CASE k = index /\ index = Len(chunk) - 1
            <4>1. pending' = chunk[k + 1] /\ pending' \in Bytes /\ i = written_size'
                BY <1>1, <1>2, <1>3, <3>1, <3>4, ReturnFacts
            <4> QED BY <3>1, <4>1, ByteFacts
        <3> QED BY <3>2, <3>3, <3>4
    <2> QED BY <1>1, <1>2, <1>3, <2>1, <2>2
<1>6. TypeOK'
    <2>1. written_size' \in 0 .. SlotSize /\ Len(hashed') <= expected_size'
        BY <1>1, <1>2, <1>3, <1>4, ReturnFacts, SizeAssumption
    <2>2. pending' \in Bytes \cup {NoByte} /\ 0 \in 0 .. MaxChunk
        BY ReturnFacts, SizeAssumption
    <2> QED BY <1>1, <1>4, <2>1, <2>2 DEF Inv, TypeOK
<1>7. ParityOK'
    <2>1. pending' = NoByte => index = Len(chunk)
        BY ReturnFacts, ByteFacts
    <2> QED BY <1>1, <2>1, ReturnFacts DEF ParityOK
<1>8. WriterOK' /\ WriteOK' /\ FlushedOK'
    BY <1>1, <1>2, <1>3 DEF Inv, WriterOK, WriteOK, FlushedOK
<1> QED BY <1>5, <1>6, <1>7, <1>8 DEF Inv

LEMMA WrittenFacts ==
    ASSUME TypeOK
    PROVE  written_size \in Nat /\ written_size <= SlotSize /\ pending \in Bytes \cup {NoByte}
<1>1. written_size \in 0 .. SlotSize /\ pending \in Bytes \cup {NoByte}
    BY DEF TypeOK
<1> QED BY <1>1, SizeAssumption

(* The half-word of the deferred byte ends within the slot: its size is even. *)
LEMMA FlushAddress ==
    ASSUME Inv, Flushing, Aligned(written_size - 1)
    PROVE  /\ written_size \in Nat \ {0} /\ written_size < SlotSize
           /\ pending \in Bytes
<1>1. written_size \in Nat \ {0} /\ written_size <= SlotSize /\ pending \in Bytes
    BY WrittenFacts DEF Flushing, Inv, WriterOK
<1>2. written_size # SlotSize
    BY <1>1, SizeAssumption DEF Aligned
<1> QED BY <1>1, <1>2, SizeAssumption

LEMMA FlushInv == Inv /\ (FlushNothing \/ FlushByte \/ FlushFails) => Inv'
<1> SUFFICES ASSUME Inv, FlushNothing \/ FlushByte \/ FlushFails PROVE Inv'
    OBVIOUS
<1>1. /\ Complete /\ step = "idle" /\ written_size = expected_size /\ index = 0
      /\ step' \in {"flushed", "given up"}
      /\ UNCHANGED <<open, written_size, chunk, index, expected_size, hashed>>
    BY DEF FlushNothing, FlushByte, FlushFails, Flushing, Complete, writer, transfer, Inv,
           StoredOK, WriterOK
<1>2. CASE FlushNothing
    <2>1. pending = NoByte /\ UNCHANGED <<flash, pending>> /\ Aligned(expected_size)
        BY <1>1, <1>2, SizeAssumption DEF FlushNothing, Inv, ParityOK, writer, TypeOK
    <2> QED
        BY <1>1, <2>1 DEF Inv, TypeOK, StoredOK, WriterOK, WriteOK, ParityOK, FlushedOK
<1>3. CASE ~FlushNothing
    <2>1. /\ Flushing /\ pending # NoByte
          /\ UNCHANGED flash \/ Programmed(written_size - 1, pending, MaxByte)
          /\ \/ step' = "flushed" /\ pending' = NoByte
                /\ Programmed(written_size - 1, pending, MaxByte)
             \/ step' = "given up" /\ pending' = pending
        BY <1>3 DEF FlushByte, FlushFails, Flushing, ProgramFails, writer
    <2>2. ASSUME Programmed(written_size - 1, pending, MaxByte)
          PROVE  /\ flash' \in [Offsets -> Bytes]
                 /\ flash'[written_size - 1] = pending /\ flash'[written_size] = MaxByte
                 /\ \A i \in 1 .. written_size - 1 : flash'[i - 1] = flash[i - 1]
        <3>1. flash' = [flash EXCEPT ![written_size - 1] = pending,
                                     ![written_size - 1 + 1] = MaxByte]
            BY <2>2 DEF Programmed, Program
        <3>2. /\ written_size \in Nat \ {0} /\ written_size < SlotSize /\ pending \in Bytes
              /\ flash \in [Offsets -> Bytes]
            BY <2>1, <2>2, FlushAddress DEF Programmed, Inv, TypeOK
        <3> QED BY <3>1, <3>2, ByteFacts, SizeAssumption DEF Offsets
    <2>3. flash' \in [Offsets -> Bytes]
        BY <2>1, <2>2 DEF Inv, TypeOK
    <2>4. TypeOK'
        BY <1>1, <2>1, <2>3 DEF Inv, TypeOK
    <2>5. StoredOK'
        <3>1. \A i \in 1 .. written_size :
                  hashed[i] = IF i = written_size THEN pending ELSE flash[i - 1]
            BY <2>1 DEF Inv, StoredOK
        <3>2. written_size \in Nat
            BY WrittenFacts DEF Inv
        <3>3. CASE UNCHANGED flash
            BY <1>1, <2>1, <2>2, <3>1, <3>2, <3>3 DEF Inv, StoredOK
        <3>4. CASE Programmed(written_size - 1, pending, MaxByte)
            <4>1. /\ flash'[written_size - 1] = pending
                  /\ \A i \in 1 .. written_size - 1 : flash'[i - 1] = flash[i - 1]
                BY <2>2, <3>4
            <4>2. \A i \in 1 .. written_size : hashed[i] =
                      IF i = written_size THEN pending ELSE flash'[i - 1]
                BY <3>1, <3>2, <4>1
            <4> QED BY <1>1, <2>1, <3>2, <4>1, <4>2 DEF Inv, StoredOK
        <3> QED BY <2>1, <3>3, <3>4
    <2> QED
        BY <1>1, <2>1, <2>2, <2>4, <2>5
        DEF Inv, WriterOK, WriteOK, ParityOK, FlushedOK
<1> QED BY <1>2, <1>3

LEMMA NextInv == Inv /\ [Next]_vars => Inv'
<1> SUFFICES ASSUME Inv, [Next]_vars PROVE Inv'
    OBVIOUS
<1>1. CASE UNCHANGED vars
    BY <1>1
    DEF vars, writer, transfer, Inv, TypeOK, StoredOK, WriterOK, WriteOK, ParityOK, FlushedOK
<1> QED
    BY <1>1, ResetInv, EraseInv, WriteInv, ProgramInv, WriteFailsInv, HangInv, ReturnInv,
       FlushInv DEF Next

LEMMA Invariance == Spec => []Inv
BY InitInv, NextInv, PTL DEF Spec

(* The variables of the writer keep their types. *)
THEOREM TypeCorrect == Spec => []TypeOK
<1>1. Inv => TypeOK
    BY DEF Inv
<1> QED BY <1>1, Invariance, PTL

LEMMA StoredIsHashed == Inv => HashedIsStored
<1> SUFFICES ASSUME Inv PROVE HashedIsStored
    OBVIOUS
<1>1. hashed \in Seq(Bytes) /\ written_size \in Nat
    BY WrittenFacts DEF Inv, TypeOK
<1>2. hashed = [i \in 1 .. Len(hashed) |-> hashed[i]]
    BY <1>1
<1> QED BY <1>1, <1>2 DEF Inv, StoredOK, HashedIsStored, Stored

(* The digest the boot controller compares at the end speaks of the bytes   *)
(* in Flash, whatever chunks failed and were sent again.                    *)
THEOREM DigestIsOfFlash == Spec => []HashedIsStored
BY StoredIsHashed, Invariance, PTL

(* A flush that succeeds leaves the whole image in the slot. *)
THEOREM FlushedWhole == Spec => []FlushedImageIsWhole
<1>1. Inv => FlushedImageIsWhole
    <2> SUFFICES ASSUME Inv, step = "flushed" PROVE FlushedImageIsWhole
        BY DEF FlushedImageIsWhole
    <2>1. /\ expected_size \in Nat /\ written_size = expected_size /\ pending = NoByte
          /\ \A i \in 1 .. expected_size : hashed[i] = flash[i - 1]
          /\ ~Aligned(expected_size) => flash[expected_size] = MaxByte
        BY WrittenFacts DEF Inv, StoredOK, FlushedOK
    <2>2. expected_size % 2 = 1 => ~Aligned(expected_size)
        BY DEF Aligned
    <2> QED BY <2>1, <2>2 DEF FlushedImageIsWhole
<1> QED BY <1>1, Invariance, PTL

(* The writer is the append-only store the boot controller takes it for: a  *)
(* chunk is appended as a whole or not at all, and nothing accepted before  *)
(* changes.                                                                 *)
THEOREM WriterImplementsStore == Spec => ImplementsStore
<1>1. Init => Store!Init
    <2> SUFFICES ASSUME Init PROVE Store!Init
        OBVIOUS
    <2>1. HashedIsStored /\ hashed = <<>>
        BY InitInv, StoredIsHashed DEF Init
    <2> QED BY <2>1 DEF Init, Store!Init, HashedIsStored
<1>2. Inv /\ HashedIsStored /\ HashedIsStored' /\ [Next]_vars => [Store!Next]_(Store!vars)
    <2> SUFFICES ASSUME Inv, HashedIsStored, HashedIsStored', [Next]_vars
                 PROVE  Store!Next \/ UNCHANGED Store!vars
        OBVIOUS
    <2> USE DEF HashedIsStored, Store!vars
    <2>1. CASE UNCHANGED vars
        BY <2>1 DEF vars, writer, transfer
    <2>2. CASE \/ \E size \in 1 .. SlotSize : BeginTransfer(size)
               \/ PowerLoss
        <3>1. \E size \in 0 .. SlotSize :
                  expected_size' = size /\ hashed' = <<>> /\ step' = "idle"
            <4>1. 0 \in 0 .. SlotSize /\ \A size \in 1 .. SlotSize : size \in 0 .. SlotSize
                BY SizeAssumption
            <4> QED BY <2>2, <4>1 DEF BeginTransfer, PowerLoss
        <3> QED BY <3>1 DEF Store!Next, Store!Open
    <2>3. CASE \/ Erase \/ EraseFails \/ ProgramHalfWord \/ WriteFails
               \/ HardFaultInWrite \/ HardFaultInFlush \/ FlushFails
               \/ \E data \in Chunks : Write(data)
        <3>1. UNCHANGED <<expected_size, hashed>>
            BY <2>3
            DEF Erase, EraseFails, ProgramHalfWord, WriteFails, HardFaultInWrite,
                HardFaultInFlush, FlushFails, Write, transfer
        <3>2. step # "flushed" /\ step' # "flushed"
            BY <2>3
            DEF Erase, EraseFails, ProgramHalfWord, WriteFails, HardFaultInWrite,
                HardFaultInFlush, FlushFails, Write, Writing, Flushing, Complete
        <3> QED BY <3>1, <3>2
    <2>4. CASE WriteReturns
        <3>1. /\ chunk \in Chunks /\ hashed' = hashed \o chunk /\ expected_size' = expected_size
              /\ step # "flushed" /\ step' # "flushed"
              /\ Len(hashed) + Len(chunk) <= expected_size
            BY <2>4, ReturnFacts DEF WriteReturns, Inv, StoredOK
        <3>2. Store!Extend(chunk)
            BY <3>1 DEF Store!Extend
        <3> QED BY <3>1, <3>2 DEF Store!Next
    <2>5. CASE FlushNothing \/ FlushByte
        <3>1. /\ step' = "flushed" /\ Len(hashed) = expected_size
              /\ UNCHANGED <<expected_size, hashed>>
            BY <2>5 DEF FlushNothing, FlushByte, Flushing, Complete, transfer
        <3> QED BY <3>1 DEF Store!Next, Store!Close
    <2> QED BY <2>1, <2>2, <2>3, <2>4, <2>5 DEF Next
<1>3. Spec => []HashedIsStored
    BY DigestIsOfFlash
<1>4. Spec => Store!Init /\ [][Store!Next]_(Store!vars)
    BY <1>1, <1>2, <1>3, Invariance, PTL DEF Spec
<1> QED BY <1>4 DEF ImplementsStore, Store!Spec

-----------------------------------------------------------------------------
(* The hardware's contract, while no chunk of the transfer has failed.       *)

LEMMA ContractInit == HistoryInit => ContractInv
BY DEF HistoryInit, Init, ContractInv

LEMMA ProgramFront ==
    ASSUME Inv, FrontOK, open, ProgramHalfWord
    PROVE  FrontOK'
<1>1. /\ Writing /\ Programmed(Address, Low, High) /\ pending' = NoByte
      /\ index' = IF Completes THEN 1 ELSE index + 2
      /\ UNCHANGED written_size
    BY DEF ProgramHalfWord
<1>2. written_size \in Nat /\ flash \in [Offsets -> Bytes]
    BY WrittenFacts DEF Inv, TypeOK
<1>3. Address = Front
    BY <1>1 DEF Address, Front, Completes, Pairs, Writing
<1>4. Front' = Address + 2
    BY <1>1, <1>2, AddressFacts DEF Front
<1>5. Address \in Nat /\ Aligned(Address + 2)
    BY <1>1, AddressFacts, SizeAssumption DEF Programmed, Aligned, Offsets
<1>6. \A offset \in Offsets : offset >= Address + 2 => flash'[offset] = MaxByte
    <2>1. \A offset \in Offsets :
              offset >= Address + 2 => flash'[offset] = flash[offset] /\ offset >= Front
        BY <1>1, <1>2, <1>3, <1>5, AddressFacts, SizeAssumption DEF Programmed, Program, Offsets
    <2> QED BY <2>1 DEF FrontOK
<1> QED BY <1>4, <1>5, <1>6 DEF FrontOK

LEMMA ReturnFront ==
    ASSUME Inv, FrontOK, WriteReturns
    PROVE  FrontOK'
<1>1. written_size \in Nat
    BY WrittenFacts DEF Inv
<1>2. Front' = Front
    <2>1. /\ written_size' = written_size + Len(chunk) /\ index' = 0
          /\ pending = NoByte /\ Len(chunk) \in Nat
          /\ \/ index = Len(chunk) /\ pending' = NoByte
             \/ index = Len(chunk) - 1 /\ pending' # NoByte
        BY ReturnFacts, ByteFacts DEF WriteReturns
    <2> QED BY <1>1, <2>1 DEF Front
<1> QED BY <1>2 DEF WriteReturns, FrontOK

(* What the next half-word finds in Flash. *)
LEMMA FrontBlank ==
    ASSUME Inv, FrontOK, Writing \/ Flushing
    PROVE  /\ Writing => Aligned(Address) /\ Blank(Address)
           /\ Flushing => Aligned(written_size - 1) /\ Blank(written_size - 1)
<1>1. Writing => Address = Front
    BY DEF Address, Front, Completes, Pairs, Writing
<1>2. Flushing => written_size - 1 = Front
    BY DEF Front, Flushing
<1>3. Writing => Front \in Offsets /\ Front + 1 \in Offsets /\ Front \in Nat
    BY <1>1, AddressFacts, SizeAssumption DEF Offsets
<1>4. Flushing => Front \in Offsets /\ Front + 1 \in Offsets /\ Front \in Nat
    BY <1>2, FlushAddress, SizeAssumption DEF FrontOK, Offsets
<1> QED BY <1>1, <1>2, <1>3, <1>4 DEF FrontOK, Blank

LEMMA ContractStep ==
    ASSUME Inv, ContractInv, Next, RecordFailure
    PROVE  ContractInv'
<1> USE DEF ContractInv
<1>0. /\ chunk_failed' \in BOOLEAN /\ (chunk_failed' => open')
      /\ ~chunk_failed' => ~open' \/ (~chunk_failed /\ ~WriteFails)
    BY DEF RecordFailure
<1>1. CASE ~open'
    <2>1. step' # "hung"
        BY <1>1
        DEF Next, BeginTransfer, Erase, EraseFails, Write, ProgramHalfWord, WriteFails,
            HardFaultInWrite, WriteReturns, FlushNothing, FlushByte, FlushFails,
            HardFaultInFlush, PowerLoss, Writing, Flushing, Complete, writer, Inv, WriterOK
    <2> QED BY <1>0, <1>1, <2>1
<1>2. CASE open' /\ ~chunk_failed /\ ~WriteFails
    <2>1. CASE Erase
        <3>1. /\ step' = "idle" /\ pending' = pending /\ written_size' = 0 /\ index' = 0
              /\ pending = NoByte /\ \A offset \in Offsets : flash'[offset] = MaxByte
            BY <2>1 DEF Erase, Inv, WriterOK
        <3>2. Aligned(0)
            BY DEF Aligned
        <3> QED BY <1>0, <3>1, <3>2 DEF FrontOK, Front
    <2>2. CASE \E data \in Chunks : Write(data)
        <3>1. /\ step = "idle" /\ step' = "write" /\ index = 0 /\ index' = 0
              /\ UNCHANGED <<flash, open, written_size, pending>>
            BY <2>2 DEF Write, writer, Inv, WriterOK
        <3> QED BY <1>0, <1>2, <3>1 DEF FrontOK, Front
    <2>3. CASE ProgramHalfWord
        <3>1. step = "write" /\ step' = "write" /\ open
            BY <1>2, <2>3 DEF ProgramHalfWord, Writing
        <3> QED BY <1>0, <1>2, <2>3, <3>1, ProgramFront
    <2>4. CASE WriteReturns
        <3>1. step = "write" /\ step' = "idle" /\ open
            BY <1>2, <2>4 DEF WriteReturns
        <3> QED BY <1>0, <1>2, <2>4, <3>1, ReturnFront
    <2>5. CASE HardFaultInWrite \/ HardFaultInFlush
        <3>1. step \in {"idle", "write"} /\ open /\ (Writing \/ Flushing)
            BY <2>5 DEF HardFaultInWrite, HardFaultInFlush, Writing, Flushing, Complete, Inv,
                        WriterOK
        <3>2. FrontOK
            BY <1>2, <3>1
        <3> QED BY <2>5, <3>1, <3>2, FrontBlank DEF HardFaultInWrite, HardFaultInFlush
    <2>6. CASE FlushNothing \/ FlushByte \/ FlushFails
        BY <1>0, <2>6 DEF FlushNothing, FlushByte, FlushFails
    <2>7. CASE (\E size \in 1 .. SlotSize : BeginTransfer(size)) \/ PowerLoss \/ EraseFails
        BY <1>2, <2>7 DEF BeginTransfer, PowerLoss, EraseFails, writer
    <2> QED
        BY <1>2, <2>1, <2>2, <2>3, <2>4, <2>5, <2>6, <2>7 DEF Next
<1> QED BY <1>0, <1>1, <1>2

(* The writer programs erased half-words at even addresses only, for every  *)
(* size and sequence of chunks, until a chunk fails: only a chunk that is   *)
(* sent again can bring a hard fault or a refused half-word.                *)
THEOREM ContractKept == HistorySpec => []ContractUnlessRetried
<1>1. Inv /\ ContractInv => ContractUnlessRetried
    <2> SUFFICES ASSUME Inv, ContractInv, ~chunk_failed
                 PROVE  ProgramsBlank /\ ProgramsAligned /\ step # "hung"
        BY DEF ContractUnlessRetried
    <2>1. Writing \/ Flushing => FrontOK
        BY DEF ContractInv, Writing, Flushing, Complete, Inv, WriterOK
    <2> QED
        BY <2>1, FrontBlank DEF ContractInv, ProgramsBlank, ProgramsAligned
<1>2. ASSUME Inv, ContractInv, [HistoryNext]_<<vars, history>>
      PROVE  ContractInv'
    <2>1. CASE UNCHANGED <<vars, history>>
        <3>1. /\ UNCHANGED <<flash, open, step, chunk_failed>>
              /\ Front' = Front
            BY <2>1 DEF vars, history, writer, Front
        <3>2. FrontOK' <=> FrontOK
            BY <3>1 DEF FrontOK
        <3> QED BY <1>2, <3>1, <3>2 DEF ContractInv
    <2> QED BY <1>2, <2>1, ContractStep DEF HistoryNext
<1>3. Inv /\ [HistoryNext]_<<vars, history>> => Inv'
    BY NextInv DEF HistoryNext
<1>4. HistoryInit => Inv
    BY InitInv DEF HistoryInit
<1> QED BY <1>1, <1>2, <1>3, <1>4, ContractInit, PTL DEF HistorySpec

-----------------------------------------------------------------------------
(* The streaming hash.  Sizes in blocks are products with a variable, which  *)
(* the provers handle badly: Size hides them behind the few facts needed.    *)
LEMMA BlockFacts == BlockSize \in Nat \ {0} /\ LengthSize \in Nat \ {0} /\ LengthSize < BlockSize
BY BlockAssumption

(* What k blocks take. *)
Size(k) == k * BlockSize

LEMMA Times ==
    ASSUME NEW a \in Int, NEW b \in Int
    PROVE  /\ Size(a + b) = Size(a) + Size(b)
           /\ Size(a) \in Int
           /\ a >= 0 => Size(a) >= 0
BY BlockFacts DEF Size

LEMMA FewBlocks == Size(0) = 0 /\ Size(1) = BlockSize
BY BlockFacts DEF Size

LEMMA BlockPart ==
    ASSUME NEW data, NEW i
    PROVE  Block(data, i) = SubSeq(data, Size(i - 1) + 1, Size(i))
BY DEF Block, Size

LEMMA TimesType == ASSUME NEW a \in Nat PROVE Size(a) \in Nat
<1>1. Size(a) \in Int /\ Size(a) >= 0
    BY Times
<1> QED BY <1>1

LEMMA TimesOrder ==
    ASSUME NEW a \in Nat, NEW b \in Nat, a < b
    PROVE  Size(a) + BlockSize <= Size(b)
<1> DEFINE c == b - a - 1
<1>1. c \in Nat /\ a \in Int /\ 1 \in Int /\ a + 1 \in Int /\ b = (a + 1) + c
    OBVIOUS
<1> HIDE DEF c
<1>2. Size(c) \in Nat /\ Size(a) \in Nat /\ Size(1) = BlockSize /\ BlockSize \in Nat
    BY <1>1, TimesType, FewBlocks, BlockFacts
<1>3. Size(a + 1) = Size(a) + Size(1)
    BY ONLY <1>1, Times
<1>4. Size(b) = Size(a + 1) + Size(c)
    BY ONLY <1>1, Times
<1> QED BY ONLY <1>2, <1>3, <1>4

LEMMA TimesKept ==
    ASSUME NEW a \in Nat, NEW b \in Nat, a <= b
    PROVE  Size(a) \in Nat /\ Size(b) \in Nat /\ Size(a) <= Size(b)
<1>1. Size(a) \in Nat /\ Size(b) \in Nat /\ BlockSize \in Nat
    BY TimesType, BlockFacts
<1>2. CASE a = b
    BY <1>1, <1>2
<1>3. CASE a < b
    BY <1>1, <1>3, TimesOrder
<1> QED BY <1>2, <1>3

LEMMA WholeBlocks ==
    ASSUME NEW n \in Nat
    PROVE  /\ n \div BlockSize \in Nat
           /\ Size(n \div BlockSize) <= n
           /\ n < Size(n \div BlockSize) + BlockSize
BY BlockFacts DEF Size

LEMMA WholeBlocksUnique ==
    ASSUME NEW n \in Nat, NEW q \in Nat, Size(q) <= n, n < Size(q) + BlockSize
    PROVE  n \div BlockSize = q
<1> DEFINE p == n \div BlockSize
<1>1. p \in Nat /\ Size(p) <= n /\ n < Size(p) + BlockSize
    BY WholeBlocks
<1> HIDE DEF p
<1>0. Size(p) \in Nat /\ Size(q) \in Nat /\ BlockSize \in Nat
    BY <1>1, TimesType, BlockFacts
<1>2. ~ p < q
    <2>1. p < q => Size(p) + BlockSize <= Size(q)
        BY ONLY <1>1, q \in Nat, TimesOrder
    <2> QED BY <1>0, <1>1, <2>1
<1>3. ~ q < p
    <2>1. q < p => Size(q) + BlockSize <= Size(p)
        BY ONLY <1>1, q \in Nat, TimesOrder
    <2> QED BY <1>0, <1>1, <2>1
<1> QED BY <1>1, <1>2, <1>3 DEF p

(* The parts of a sequence. *)
LEMMA PartType ==
    ASSUME NEW S, NEW s \in Seq(S), NEW a \in Nat \ {0}, NEW b \in Nat, b <= Len(s)
    PROVE  /\ SubSeq(s, a, b) \in Seq(S)
           /\ Len(SubSeq(s, a, b)) = IF a <= b THEN b - a + 1 ELSE 0
           /\ \A i \in 1 .. Len(SubSeq(s, a, b)) : SubSeq(s, a, b)[i] = s[a + i - 1]
<1>1. \A i \in a .. b : s[i] \in S
    BY ElementOfSeq, LenProperties
<1> QED BY <1>1, SubSeqProperties

LEMMA PartOfConcat ==
    ASSUME NEW S, NEW s \in Seq(S), NEW t \in Seq(S),
           NEW a \in Nat \ {0}, NEW b \in Nat, b <= Len(s)
    PROVE  SubSeq(s \o t, a, b) = SubSeq(s, a, b)
<1>1. /\ s \o t \in Seq(S) /\ Len(s) \in Nat /\ Len(t) \in Nat
      /\ Len(s \o t) = Len(s) + Len(t)
      /\ \A i \in 1 .. Len(s) : (s \o t)[i] = s[i]
    BY ConcatProperties, LenProperties
<1> QED BY <1>1, PartType, SeqEqual

LEMMA PartBehind ==
    ASSUME NEW S, NEW s \in Seq(S), NEW t \in Seq(S),
           NEW a \in Nat \ {0}, NEW b \in Nat, b <= Len(t)
    PROVE  SubSeq(s \o t, Len(s) + a, Len(s) + b) = SubSeq(t, a, b)
<1>1. /\ s \o t \in Seq(S) /\ Len(s) \in Nat /\ Len(t) \in Nat
      /\ Len(s \o t) = Len(s) + Len(t)
      /\ \A i \in 1 .. Len(t) : (s \o t)[Len(s) + i] = t[i]
    BY ConcatProperties, LenProperties
<1> DEFINE u == SubSeq(s \o t, Len(s) + a, Len(s) + b)
           v == SubSeq(t, a, b)
<1>2. /\ u \in Seq(S) /\ Len(u) = IF a <= b THEN b - a + 1 ELSE 0
      /\ \A i \in 1 .. Len(u) : u[i] = (s \o t)[Len(s) + a + i - 1]
    BY <1>1, PartType
<1>3. /\ v \in Seq(S) /\ Len(v) = IF a <= b THEN b - a + 1 ELSE 0
      /\ \A i \in 1 .. Len(v) : v[i] = t[a + i - 1]
    BY <1>1, PartType
<1> HIDE DEF u, v
<1>4. ASSUME NEW i \in 1 .. Len(u) PROVE u[i] = v[i]
    <2>1. a + i - 1 \in 1 .. Len(t) /\ Len(s) + a + i - 1 = Len(s) + (a + i - 1)
        BY <1>1, <1>2
    <2> QED BY <1>1, <1>2, <1>3, <2>1
<1>5. u = v
    BY <1>2, <1>3, <1>4, SeqEqual
<1> QED BY <1>5 DEF u, v

LEMMA PartAcross ==
    ASSUME NEW S, NEW s \in Seq(S), NEW t \in Seq(S),
           NEW a \in Nat \ {0}, a <= Len(s) + 1, NEW n \in Nat, n <= Len(t)
    PROVE  SubSeq(s, a, Len(s)) \o SubSeq(t, 1, n) = SubSeq(s \o t, a, Len(s) + n)
<1>1. /\ s \o t \in Seq(S) /\ Len(s) \in Nat /\ Len(t) \in Nat
      /\ Len(s \o t) = Len(s) + Len(t)
      /\ \A i \in 1 .. Len(s) + Len(t) :
             (s \o t)[i] = IF i <= Len(s) THEN s[i] ELSE t[i - Len(s)]
    BY ConcatProperties, LenProperties
<1> DEFINE u == SubSeq(s, a, Len(s))
           v == SubSeq(t, 1, n)
           w == SubSeq(s \o t, a, Len(s) + n)
<1>2. /\ u \in Seq(S) /\ Len(u) = Len(s) - a + 1
      /\ \A i \in 1 .. Len(u) : u[i] = s[a + i - 1]
    BY <1>1, PartType
<1>3. v \in Seq(S) /\ Len(v) = n /\ \A i \in 1 .. Len(v) : v[i] = t[i]
    BY <1>1, PartType
<1>4. /\ w \in Seq(S) /\ Len(w) = Len(s) + n - a + 1
      /\ \A i \in 1 .. Len(w) : w[i] = (s \o t)[a + i - 1]
    BY <1>1, PartType
<1> HIDE DEF u, v, w
<1>5. /\ u \o v \in Seq(S) /\ Len(u \o v) = Len(u) + Len(v)
      /\ \A i \in 1 .. Len(u) + Len(v) :
             (u \o v)[i] = IF i <= Len(u) THEN u[i] ELSE v[i - Len(u)]
    BY <1>2, <1>3, ConcatProperties
<1>6. ASSUME NEW i \in 1 .. Len(w) PROVE (u \o v)[i] = w[i]
    <2>1. i \in 1 .. Len(u) + Len(v) /\ a + i - 1 \in 1 .. Len(s) + Len(t)
        BY <1>1, <1>2, <1>3, <1>4
    <2>2. CASE i <= Len(u)
        BY <1>1, <1>2, <1>4, <1>5, <2>1, <2>2
    <2>3. CASE ~ i <= Len(u)
        <3>1. /\ i - Len(u) \in 1 .. Len(v) /\ a + i - 1 - Len(s) = i - Len(u)
              /\ ~ a + i - 1 <= Len(s)
            BY <1>1, <1>2, <1>3, <2>1, <2>3
        <3>2. (u \o v)[i] = t[i - Len(u)]
            BY <1>3, <1>5, <2>1, <2>3, <3>1
        <3>3. (s \o t)[a + i - 1] = t[i - Len(u)]
            <4> DEFINE k == a + i - 1
            <4>1. k \in 1 .. Len(s) + Len(t) /\ ~ k <= Len(s) /\ k - Len(s) = i - Len(u)
                BY <2>1, <3>1
            <4> HIDE DEF k
            <4>2. (s \o t)[k] = t[k - Len(s)]
                BY <1>1, <4>1
            <4> QED BY <4>1, <4>2 DEF k
        <3> QED BY <1>4, <3>2, <3>3
    <2> QED BY <2>2, <2>3
<1>7. u \o v = w
    <2>1. Len(u \o v) = Len(w)
        BY <1>1, <1>2, <1>3, <1>4, <1>5
    <2>2. \A i \in 1 .. Len(u \o v) : (u \o v)[i] = w[i]
        BY <1>6, <2>1
    <2> QED BY <1>4, <1>5, <2>1, <2>2, SeqEqual
<1> QED BY <1>7 DEF u, v, w

LEMMA PartOfPart ==
    ASSUME NEW S, NEW s \in Seq(S), NEW a \in Nat \ {0}, NEW c \in Nat \ {0}, NEW d \in Nat,
           a + d - 1 <= Len(s)
    PROVE  SubSeq(SubSeq(s, a, Len(s)), c, d) = SubSeq(s, a + c - 1, a + d - 1)
<1> DEFINE u == SubSeq(s, a, Len(s))
           v == SubSeq(u, c, d)
           w == SubSeq(s, a + c - 1, a + d - 1)
<1>0. Len(s) \in Nat
    BY LenProperties
<1>1. /\ u \in Seq(S) /\ Len(u) = IF a <= Len(s) THEN Len(s) - a + 1 ELSE 0
      /\ \A i \in 1 .. Len(u) : u[i] = s[a + i - 1]
    BY <1>0, PartType
<1> HIDE DEF u
<1>2. /\ v \in Seq(S) /\ Len(v) = IF c <= d THEN d - c + 1 ELSE 0
      /\ \A i \in 1 .. Len(v) : v[i] = u[c + i - 1]
    BY <1>0, <1>1, PartType
<1>3. /\ w \in Seq(S) /\ Len(w) = IF c <= d THEN d - c + 1 ELSE 0
      /\ \A i \in 1 .. Len(w) : w[i] = s[a + c - 1 + i - 1]
    BY <1>0, PartType
<1> HIDE DEF v, w
<1>4. ASSUME NEW i \in 1 .. Len(v) PROVE v[i] = w[i]
    <2>1. c + i - 1 \in 1 .. Len(u) /\ a + (c + i - 1) - 1 = a + c - 1 + i - 1
        BY <1>0, <1>1, <1>2
    <2> QED BY <1>1, <1>2, <1>3, <2>1
<1>5. v = w
    BY <1>2, <1>3, <1>4, SeqEqual
<1> QED BY <1>5 DEF u, v, w

(* The first n blocks of a message. *)
Blocks(data, n) == [i \in 1 .. n |-> Block(data, i)]

(* What comes behind them. *)
Behind(data, n) == SubSeq(data, Size(n) + 1, Len(data))

(* The context of a message: its whole blocks, its size and what is left.   *)
Context(message, whole) ==
    [state |-> Blocks(message, whole),
     total_size |-> Len(message),
     buffer |-> Behind(message, whole)]

Absorbed(context, message) ==
    context = Context(message, Len(message) \div BlockSize)

LEMMA AbsorbedAt ==
    ASSUME NEW S, NEW message \in Seq(S), NEW context, NEW q \in Nat,
           Size(q) <= Len(message), Len(message) < Size(q) + BlockSize
    PROVE  Absorbed(context, message) <=> context = Context(message, q)
<1>1. Len(message) \in Nat
    BY LenProperties
<1>2. Len(message) \div BlockSize = q
    BY <1>1, WholeBlocksUnique
<1> QED BY <1>2 DEF Absorbed

LEMMA NoBlocks == ASSUME NEW data PROVE Blocks(data, 0) = <<>>
BY DEF Blocks

LEMMA InitAbsorbs == Absorbed(Sha256Init, <<>>)
<1>1. Size(0) = 0 /\ BlockSize \in Nat \ {0} /\ Len(<<>>) = 0
    BY BlockFacts, FewBlocks
<1>2. <<>> \in Seq(Nat)
    OBVIOUS
<1>3. SubSeq(<<>>, Size(0) + 1, Len(<<>>)) = <<>>
    BY <1>1, SubSeqEmpty
<1>4. Blocks(<<>>, 0) = <<>>
    BY NoBlocks
<1>6. Size(0) <= Len(<<>>) /\ Len(<<>>) < Size(0) + BlockSize
    BY <1>1
<1>5. Sha256Init = Context(<<>>, 0)
    BY <1>1, <1>3, <1>4 DEF Sha256Init, Context, Behind
<1> QED BY <1>2, <1>5, <1>6, AbsorbedAt

(* The blocks of a message and of what comes behind some of them. *)
LEMMA BlockBounds ==
    ASSUME NEW i \in Nat \ {0}
    PROVE  /\ Size(i - 1) \in Nat /\ Size(i) \in Nat
           /\ Size(i) = Size(i - 1) + BlockSize
           /\ Size(i - 1) + 1 \in Nat \ {0}
<1>1. i - 1 \in Nat /\ i = (i - 1) + 1
    OBVIOUS
<1>2. Size(i) = Size(i - 1) + Size(1)
    BY <1>1, Times
<1>3. Size(i - 1) \in Nat
    BY <1>1, Times
<1>4. Size(1) = BlockSize
    BY FewBlocks
<1> QED BY <1>2, <1>3, <1>4, BlockFacts, TimesType

LEMMA BlockKept ==
    ASSUME NEW S, NEW message \in Seq(S), NEW data \in Seq(S),
           NEW i \in Nat \ {0}, Size(i) <= Len(message)
    PROVE  Block(message \o data, i) = Block(message, i)
<1> DEFINE a == Size(i - 1) + 1
           b == Size(i)
<1>1. a \in Nat \ {0} /\ b \in Nat /\ b <= Len(message)
    BY BlockBounds
<1> HIDE DEF a, b
<1>2. SubSeq(message \o data, a, b) = SubSeq(message, a, b)
    BY <1>1, PartOfConcat
<1> QED BY <1>2, BlockPart DEF a, b

LEMMA BlockBehind ==
    ASSUME NEW S, NEW message \in Seq(S), NEW q \in Nat, NEW i \in Nat \ {0},
           Size(q + i) <= Len(message)
    PROVE  Block(SubSeq(message, Size(q) + 1, Len(message)), i) = Block(message, q + i)
<1> DEFINE a == Size(q) + 1
           c == Size(i - 1) + 1
           d == Size(i)
<1>1. /\ a \in Nat \ {0} /\ c \in Nat \ {0} /\ d \in Nat
    <2>1. Size(q) \in Nat
        BY TimesType
    <2>2. c \in Nat \ {0} /\ d \in Nat
        BY BlockBounds
    <2> QED BY <2>1, <2>2
<1>2. Size(q + i) = Size(q) + Size(i)
    BY Times
<1>3. Size(q + i - 1) = Size(q) + Size(i - 1)
    <2>1. q + i - 1 = q + (i - 1) /\ i - 1 \in Int
        OBVIOUS
    <2> QED BY <2>1, Times
<1>4. Size(q) \in Nat /\ Size(i - 1) \in Nat /\ Size(i) \in Nat
    BY BlockBounds, TimesType
<1>5. /\ a + d - 1 = Size(q + i)
      /\ a + c - 1 = Size(q + i - 1) + 1
    BY <1>2, <1>3, <1>4
<1>6. a + d - 1 <= Len(message)
    BY <1>5
<1> HIDE DEF a, c, d
<1>7. SubSeq(SubSeq(message, a, Len(message)), c, d)
          = SubSeq(message, a + c - 1, a + d - 1)
    BY <1>1, <1>6, PartOfPart
<1>8. SubSeq(SubSeq(message, a, Len(message)), c, d)
          = SubSeq(message, Size(q + i - 1) + 1, Size(q + i))
    BY <1>5, <1>7
<1>9. Block(SubSeq(message, a, Len(message)), i) = SubSeq(SubSeq(message, a, Len(message)), c, d)
    BY BlockPart DEF c, d
<1>10. Block(message, q + i)
           = SubSeq(message, Size(q + i - 1) + 1, Size(q + i))
    <2>1. (q + i) - 1 = q + i - 1
        OBVIOUS
    <2> QED BY <2>1, BlockPart
<1>11. Block(SubSeq(message, a, Len(message)), i) = Block(message, q + i)
    BY <1>8, <1>9, <1>10
<1> QED BY <1>11 DEF a

LEMMA BlockType ==
    ASSUME NEW S, NEW message \in Seq(S), NEW i \in Nat \ {0}, Size(i) <= Len(message)
    PROVE  /\ Block(message, i) \in Seq(S) /\ Len(Block(message, i)) = BlockSize
           /\ \A k \in 1 .. BlockSize : Block(message, i)[k] = message[Size(i - 1) + k]
<1> DEFINE base == Size(i - 1)
           a == base + 1
           b == Size(i)
<1>1. /\ base \in Nat /\ b \in Nat /\ b = base + BlockSize /\ b <= Len(message)
      /\ BlockSize \in Nat \ {0}
    BY BlockBounds, BlockFacts
<1>2. Block(message, i) = SubSeq(message, a, b)
    BY BlockPart
<1> HIDE DEF base, b
<1>3. /\ a \in Nat \ {0} /\ b - a + 1 = BlockSize /\ a <= b
      /\ \A k \in 1 .. BlockSize : a + k - 1 = base + k
    BY ONLY <1>1
<1> HIDE DEF a
<1>4. /\ SubSeq(message, a, b) \in Seq(S) /\ Len(SubSeq(message, a, b)) = BlockSize
      /\ \A k \in 1 .. BlockSize : SubSeq(message, a, b)[k] = message[a + k - 1]
    BY <1>1, <1>3, PartType
<1> QED BY <1>2, <1>3, <1>4 DEF base

LEMMA BlocksType ==
    ASSUME NEW S, NEW message \in Seq(S), NEW q \in Nat, Size(q) <= Len(message)
    PROVE  /\ Blocks(message, q) \in [1 .. q -> Seq(S)]
           /\ Blocks(message, q) \in Seq(Seq(S)) /\ Len(Blocks(message, q)) = q
<1>1. ASSUME NEW i \in 1 .. q PROVE Block(message, i) \in Seq(S)
    <2>0. i \in Nat /\ q \in Nat /\ i <= q
        OBVIOUS
    <2>3. Len(message) \in Nat
        BY LenProperties
    <2>4. Size(i) <= Size(q) /\ Size(i) \in Nat /\ Size(q) \in Nat
        BY ONLY <2>0, TimesKept
    <2>1. Size(i) <= Size(q) /\ Size(i) \in Nat /\ Size(q) \in Nat /\ Len(message) \in Nat
        BY <2>3, <2>4
    <2>2. Size(i) <= Len(message)
        BY <2>1
    <2> QED BY <2>2, BlockType
<1>2. Blocks(message, q) \in [1 .. q -> Seq(S)]
    BY <1>1 DEF Blocks
<1> DEFINE f == Blocks(message, q)
           T == Seq(S)
<1>3. f \in [1 .. q -> T]
    BY <1>2
<1> HIDE DEF f, T
<1>4. f \in Seq(T)
    BY <1>3, SeqDef
<1>5. Len(f) = q
    BY <1>3, <1>4, LenProperties
<1> QED BY <1>2, <1>4, <1>5 DEF f, T

(* What is left of a message behind its first blocks. *)
LEMMA RestBlocks ==
    ASSUME NEW S, NEW message \in Seq(S), NEW p \in Nat, Size(p) <= Len(message),
           NEW w \in Nat, Size(w) <= Len(Behind(message, p))
    PROVE  /\ Behind(message, p) \in Seq(S)
           /\ Len(Behind(message, p)) = Len(message) - Size(p)
           /\ Size(p + w) = Size(p) + Size(w)
           /\ Blocks(message, p) \o Blocks(Behind(message, p), w) = Blocks(message, p + w)
           /\ Behind(Behind(message, p), w) = Behind(message, p + w)
<1> DEFINE rest == Behind(message, p)
<1> DEFINE base == Size(p)
           size == Size(w)
           from == base + 1
           next == size + 1
<1>1. /\ base \in Nat /\ size \in Nat /\ Len(message) \in Nat /\ base <= Len(message)
      /\ from \in Nat \ {0} /\ next \in Nat \ {0}
      /\ from = base + 1 /\ next = size + 1 /\ message \in Seq(S)
    <2>1. base \in Nat /\ size \in Nat /\ Len(message) \in Nat /\ base <= Len(message)
        BY TimesType, LenProperties
    <2> HIDE DEF base, size
    <2> QED BY <2>1
<1>2. Size(p + w) = base + size
    BY Times
<1>3. rest = SubSeq(message, from, Len(message)) /\ size <= Len(rest)
    BY DEF Behind
<1> HIDE DEF base, size, from, next, rest
<1>4. rest \in Seq(S) /\ Len(rest) = Len(message) - base
    <2>1. /\ rest \in Seq(S)
          /\ Len(rest) = IF from <= Len(message) THEN Len(message) - from + 1 ELSE 0
        BY ONLY <1>1, <1>3, PartType
    <2> QED BY ONLY <1>1, <2>1
<1>5. SubSeq(rest, next, Len(rest)) = SubSeq(message, base + size + 1, Len(message))
    <2>1. from + Len(rest) - 1 <= Len(message) /\ Len(rest) \in Nat
        BY ONLY <1>1, <1>4
    <2>2. SubSeq(SubSeq(message, from, Len(message)), next, Len(rest))
              = SubSeq(message, from + next - 1, from + Len(rest) - 1)
        BY ONLY <1>1, <2>1, PartOfPart
    <2>3. /\ from + next - 1 = base + size + 1
          /\ from + Len(rest) - 1 = Len(message)
        BY ONLY <1>1, <1>4
    <2> QED BY <1>3, <2>2, <2>3
<1>6. Blocks(message, p) \o Blocks(rest, w)
          = Blocks(message, p + w)
    <2> DEFINE f == Blocks(message, p)
               g == Blocks(rest, w)
               h == Blocks(message, p + w)
    <2>1. ASSUME NEW i \in 1 .. p + w
          PROVE  Size(i) <= Len(message) /\ i \in Nat \ {0}
        <3>1. Size(i) <= base + size
            <4>1. Size(i) <= Size(p + w)
                BY TimesKept
            <4> QED BY <1>2, <4>1
        <3>2. i \in Nat \ {0}
            OBVIOUS
        <3>5. Size(i) \in Nat
            BY ONLY <3>2, TimesType
        <3>3. base + size <= Len(message)
            BY ONLY <1>1, <1>3, <1>4
        <3>4. base \in Nat /\ size \in Nat /\ Len(message) \in Nat
            BY <1>1
        <3> QED BY <3>1, <3>2, <3>3, <3>4, <3>5
    <2>2. h \in [1 .. p + w -> Seq(S)]
        BY <2>1, BlockType DEF Blocks
    <2>3. f \in [1 .. p -> Seq(S)] /\ \A i \in 1 .. p : f[i] = h[i]
        BY <2>1, BlockType DEF Blocks
    <2>4. ASSUME NEW i \in 1 .. w PROVE Block(rest, i) = h[p + i]
        <3>1. p + i \in 1 .. p + w /\ i \in Nat \ {0}
            OBVIOUS
        <3>2. Size(p + i) <= Len(message)
            BY <2>1, <3>1
        <3>3. Block(rest, i) = Block(message, p + i)
            BY <3>1, <3>2, BlockBehind DEF rest, Behind
        <3> QED BY <3>1, <3>3 DEF Blocks
    <2>5. g \in [1 .. w -> Seq(S)] /\ \A i \in 1 .. w : g[i] = h[p + i]
        <3>1. \A i \in 1 .. w : p + i \in 1 .. p + w
            OBVIOUS
        <3> QED BY <2>2, <2>4, <3>1 DEF Blocks
    <2> HIDE DEF f, g, h
    <2> DEFINE T == Seq(S)
    <2>6. /\ f \in [1 .. p -> T] /\ g \in [1 .. w -> T] /\ h \in [1 .. p + w -> T]
          /\ p \in Nat /\ w \in Nat /\ p + w \in Nat
        BY <2>2, <2>3, <2>5
    <2> HIDE DEF f, g, h, T
    <2>7. f \in Seq(T) /\ g \in Seq(T) /\ h \in Seq(T)
        BY ONLY <2>6, SeqDef
    <2>8. Len(f) = p /\ Len(g) = w /\ Len(h) = p + w
        BY ONLY <2>6, <2>7, LenProperties
    <2>9. /\ f \o g \in Seq(T) /\ Len(f \o g) = p + w
          /\ \A i \in 1 .. p + w : (f \o g)[i] = IF i <= p THEN f[i] ELSE g[i - p]
        BY ONLY <2>6, <2>7, <2>8, ConcatProperties
    <2>10. ASSUME NEW i \in 1 .. p + w PROVE (f \o g)[i] = h[i]
        <3>1. i <= p => i \in 1 .. p
            OBVIOUS
        <3>2. ~ i <= p => i - p \in 1 .. w /\ p + (i - p) = i
            OBVIOUS
        <3>3. (f \o g)[i] = IF i <= p THEN f[i] ELSE g[i - p]
            BY ONLY <2>9, <2>10
        <3> QED BY <2>3, <2>5, <3>1, <3>2, <3>3
    <2>11. f \o g = h
        BY <2>7, <2>8, <2>9, <2>10, SeqEqual
    <2> QED BY <2>11 DEF f, g, h
<1>7. SubSeq(rest, next, Len(rest))
          = SubSeq(message, Size(p + w) + 1, Len(message))
    BY <1>2, <1>5
<1> QED BY <1>2, <1>4, <1>6, <1>7 DEF base, size, next, rest, Behind

LEMMA NextBlock ==
    ASSUME NEW S, NEW message \in Seq(S), NEW q \in Nat, Size(q + 1) <= Len(message)
    PROVE  Blocks(message, q) \o <<Block(message, q + 1)>>
               = Blocks(message, q + 1)
<1> DEFINE base == Size(q)
           one == Size(1)
           rest == Behind(message, q)
<1>1. /\ base \in Nat /\ Len(message) \in Nat /\ one = BlockSize /\ BlockSize \in Nat
    BY FewBlocks, TimesType, BlockFacts, LenProperties
<1>2. Size(q + 1) = base + one
    BY Times
<1>3. rest = SubSeq(message, base + 1, Len(message))
    BY DEF Behind
<1>4. base + one <= Len(message)
    BY <1>2
<1>5. Block(rest, 1) = Block(message, q + 1)
    BY BlockBehind DEF Behind
<1> HIDE DEF base, one, rest
<1>6. Len(rest) = Len(message) - base
    <2>1. base + 1 \in Nat \ {0}
        BY ONLY <1>1
    <2>2. Len(rest) = IF base + 1 <= Len(message) THEN Len(message) - (base + 1) + 1 ELSE 0
        BY <1>1, <1>3, <2>1, PartType
    <2> QED BY ONLY <1>1, <1>4, <2>2
<1>7. base <= Len(message) /\ one <= Len(rest)
    BY ONLY <1>1, <1>4, <1>6
<1>8. Blocks(message, q) \o Blocks(rest, 1)
          = Blocks(message, q + 1)
    <2>1. Size(q) <= Len(message) /\ Size(1) <= Len(Behind(message, q)) /\ 1 \in Nat
        BY <1>7 DEF base, one, rest
    <2> QED BY <2>1, RestBlocks DEF rest
<1>9. Blocks(rest, 1) = <<Block(message, q + 1)>>
    BY <1>5 DEF Blocks
<1> QED BY <1>8, <1>9

LEMMA UpdateAbsorbs ==
    ASSUME NEW S, NEW message \in Seq(S), NEW data \in Seq(S), NEW context,
           Absorbed(context, message)
    PROVE  Absorbed(Sha256Update(context, data), message \o data)
<1> DEFINE q == Len(message) \div BlockSize
           base == Size(q)
           joined == message \o data
           held == Len(message) - base
           room == BlockSize - Len(context.buffer)
           n == IF context.buffer = <<>> THEN 0
                ELSE IF room > Len(data) THEN Len(data) ELSE room
           filled == context.buffer \o SubSeq(data, 1, n)
           full == Len(filled) = BlockSize
           rest == SubSeq(data, n + 1, Len(data))
           whole == Len(rest) \div BlockSize
           size == Size(whole)
           left == Behind(rest, whole)
           blocks == Blocks(rest, whole)
           compressed == context.state \o (IF full THEN <<filled>> ELSE <<>>) \o blocks
           buffer == IF left # <<>> THEN left ELSE IF full THEN <<>> ELSE filled
<1>0. Sha256Update(context, data) =
          IF room <= 0 THEN context
          ELSE [state |-> compressed, total_size |-> context.total_size + Len(data),
                buffer |-> buffer]
    BY DEF Sha256Update, Size, Blocks, Behind
<1>1. /\ Len(message) \in Nat /\ Len(data) \in Nat /\ joined \in Seq(S)
      /\ Len(joined) = Len(message) + Len(data)
    BY LenProperties, ConcatProperties
<1>2. /\ q \in Nat /\ base \in Nat /\ held \in Nat
      /\ held < BlockSize /\ Len(message) = base + held
    <2>1. q \in Nat /\ base <= Len(message) /\ Len(message) < base + BlockSize
        BY <1>1, WholeBlocks
    <2> HIDE DEF q
    <2>2. base \in Nat
        BY <2>1, TimesType
    <2> HIDE DEF base
    <2> QED BY <1>1, <2>1, <2>2, BlockFacts
<1>3. /\ context.state = Blocks(message, q)
      /\ context.total_size = Len(message)
      /\ context.buffer = SubSeq(message, base + 1, Len(message))
    BY DEF Absorbed, Context, Behind
<1> HIDE DEF q, base
<1>4. context.buffer \in Seq(S) /\ Len(context.buffer) = held
    <2>1. base + 1 \in Nat \ {0}
        BY <1>2
    <2>2. /\ SubSeq(message, base + 1, Len(message)) \in Seq(S)
          /\ Len(SubSeq(message, base + 1, Len(message)))
                 = IF base + 1 <= Len(message) THEN Len(message) - (base + 1) + 1 ELSE 0
        BY <1>1, <2>1, PartType
    <2>3. Len(SubSeq(message, base + 1, Len(message))) = held
        <3>1. /\ base \in Nat /\ Len(message) \in Nat /\ held \in Nat
              /\ Len(message) = base + held
            BY <1>1, <1>2
        <3> HIDE DEF held
        <3> QED BY ONLY <2>2, <3>1
    <2>4. context.buffer = SubSeq(message, base + 1, Len(message))
        BY <1>3
    <2> QED BY ONLY <2>2, <2>3, <2>4
<1>5. /\ n \in Nat /\ n <= Len(data) /\ held + n <= BlockSize
      /\ context.buffer = <<>> <=> held = 0
      /\ room > 0 /\ room \in Nat
      /\ held # 0 => n = Len(data) \/ held + n = BlockSize
      /\ held = 0 => n = 0
    <2>1. context.buffer = <<>> <=> held = 0
        BY <1>4, EmptySeq
    <2>2. room = BlockSize - held
        BY <1>4
    <2>3. n = IF held = 0 THEN 0 ELSE IF room > Len(data) THEN Len(data) ELSE room
        BY <2>1
    <2> HIDE DEF n, room, held
    <2> QED BY <1>1, <1>2, <2>1, <2>2, <2>3, BlockFacts
<1> HIDE DEF held, room, n
<1>6. /\ filled = SubSeq(joined, base + 1, Len(message) + n)
      /\ filled \in Seq(S) /\ Len(filled) = held + n
    <2>1. filled = SubSeq(joined, base + 1, Len(message) + n)
        <3>1. base + 1 \in Nat \ {0} /\ base + 1 <= Len(message) + 1
            BY <1>1, <1>2
        <3>2. SubSeq(message, base + 1, Len(message)) \o SubSeq(data, 1, n)
                  = SubSeq(message \o data, base + 1, Len(message) + n)
            BY <1>1, <1>5, <3>1, PartAcross
        <3> QED BY <1>3, <3>2
    <2>2. /\ base + 1 \in Nat \ {0} /\ Len(message) + n \in Nat
          /\ Len(message) + n <= Len(joined)
        BY <1>1, <1>2, <1>5
    <2> HIDE DEF joined, filled
    <2>3. /\ filled \in Seq(S)
          /\ Len(filled) = IF base + 1 <= Len(message) + n
                           THEN (Len(message) + n) - (base + 1) + 1 ELSE 0
        BY <1>1, <2>1, <2>2, PartType
    <2> QED BY <1>1, <1>2, <1>5, <2>1, <2>3
<1>7. /\ rest = SubSeq(joined, Len(message) + n + 1, Len(joined))
      /\ rest \in Seq(S) /\ Len(rest) = Len(data) - n
    <2>1. SubSeq(joined, Len(message) + (n + 1), Len(message) + Len(data)) = rest
        BY <1>1, <1>5, PartBehind
    <2>2. Len(message) + (n + 1) = Len(message) + n + 1
        BY <1>1, <1>5
    <2> QED BY <1>1, <1>5, <2>1, <2>2, PartType
<1> HIDE DEF filled, rest, joined
<1>8. /\ whole \in Nat /\ size \in Nat /\ size <= Len(rest)
      /\ Len(rest) < size + BlockSize /\ Len(rest) \in Nat
    <2>1. Len(rest) \in Nat
        BY <1>7, LenProperties
    <2> QED BY <2>1, WholeBlocks, TimesType
<1> HIDE DEF whole, size
<1>9. left \in Seq(S) /\ Len(left) = Len(rest) - size
    <2>1. size + 1 \in Nat \ {0}
        BY <1>8
    <2>3. left = SubSeq(rest, size + 1, Len(rest))
        BY DEF Behind, size
    <2>2. /\ left \in Seq(S)
          /\ Len(left) = IF size + 1 <= Len(rest) THEN Len(rest) - (size + 1) + 1 ELSE 0
        <3> DEFINE from == size + 1
               part == SubSeq(rest, from, Len(rest))
        <3>1. from \in Nat \ {0} /\ Len(rest) \in Nat /\ Len(rest) <= Len(rest) /\ rest \in Seq(S)
            BY <1>7, <1>8, <2>1
        <3> HIDE DEF from
        <3>2. part \in Seq(S) /\ Len(part) = IF from <= Len(rest) THEN Len(rest) - from + 1 ELSE 0
            BY ONLY <3>1, PartType
        <3> QED BY <2>3, <3>2 DEF from, part
    <2> QED BY <1>8, <2>2
<1> HIDE DEF left, blocks
<1>10. Sha256Update(context, data) =
           [state |-> compressed, total_size |-> Len(joined), buffer |-> buffer]
    BY <1>0, <1>1, <1>3, <1>5
<1> DEFINE absorbed(r) == /\ Size(r) <= Len(joined)
                          /\ Len(joined) < Size(r) + BlockSize
                          /\ compressed = Blocks(joined, r)
                          /\ buffer = Behind(joined, r)
<1>11. \E r \in Nat : absorbed(r)
    <2> DEFINE first == Blocks(joined, q)
    <2>1. context.state = first
        <3>1. ASSUME NEW i \in 1 .. q PROVE Block(joined, i) = Block(message, i)
            <4>1. i \in Nat \ {0} /\ Size(i) <= base
                <5>1. i \in Nat /\ i <= q
                    BY <1>2
                <5>2. Size(i) <= Size(q)
                    BY <1>2, <5>1, TimesKept
                <5> QED BY <5>2 DEF base
            <4>3. Size(i) \in Nat /\ base \in Nat /\ Len(message) \in Nat /\ base <= Len(message)
                BY <1>1, <1>2, <4>1, TimesType
            <4>2. Size(i) <= Len(message)
                BY ONLY <4>1, <4>3
            <4> QED BY <4>1, <4>2, BlockKept DEF joined
        <3> QED BY <1>3, <3>1 DEF Blocks
    (* With p blocks taken from the front, and the rest cut up.             *)
    <2>5. ASSUME NEW p \in Nat, Size(p) = Len(message) + n,
                 compressed = Blocks(joined, p) \o blocks, buffer = left,
                 rest = Behind(joined, p)
          PROVE  \E r \in Nat : absorbed(r)
        <3>1. Size(p) <= Len(joined)
            BY <1>1, <1>5, <2>5
        <3>2. Size(whole) <= Len(Behind(joined, p))
            BY <1>8, <2>5 DEF size
        <3>3. /\ Len(rest) = Len(joined) - Size(p)
              /\ Size(p + whole) = Size(p) + Size(whole)
              /\ Blocks(joined, p) \o blocks = Blocks(joined, p + whole)
              /\ Behind(rest, whole) = Behind(joined, p + whole)
            <4>1. joined \in Seq(S) /\ whole \in Nat /\ rest = Behind(joined, p)
                BY <1>1, <1>8, <2>5
            <4>2. /\ Len(Behind(joined, p)) = Len(joined) - Size(p)
                  /\ Size(p + whole) = Size(p) + Size(whole)
                  /\ Blocks(joined, p) \o Blocks(Behind(joined, p), whole)
                         = Blocks(joined, p + whole)
                  /\ Behind(Behind(joined, p), whole) = Behind(joined, p + whole)
                BY ONLY p \in Nat, <3>1, <3>2, <4>1, RestBlocks, SMTT(30)
            <4> QED BY <4>1, <4>2 DEF blocks
        <3>5. compressed = Blocks(joined, p + whole)
            BY <2>5, <3>3
        <3>6. buffer = Behind(joined, p + whole)
            BY <2>5, <3>3 DEF left
        <3>7. /\ Size(p + whole) <= Len(joined)
              /\ Len(joined) < Size(p + whole) + BlockSize
            <4>1. size = Size(whole)
                BY DEF size
            <4>2. Size(p) \in Nat /\ BlockSize \in Nat /\ Len(joined) \in Nat
                BY <1>1, <2>5, BlockFacts, TimesType
            <4>3. Len(rest) = Len(joined) - Size(p) /\ Size(p + whole) = Size(p) + Size(whole)
                BY <3>3
            <4> QED BY ONLY <1>8, <4>1, <4>2, <4>3
        <3>8. p + whole \in Nat
            BY <1>8
        <3>9. absorbed(p + whole)
            BY <3>5, <3>6, <3>7
        <3> HIDE DEF absorbed
        <3> QED BY <3>8, <3>9
    <2>2. CASE held + n = BlockSize
        <3> DEFINE p == q + 1
        <3>1. p \in Nat /\ Size(p) = Len(message) + n /\ Size(p) <= Len(joined)
            <4>1. Size(p) = Size(q) + Size(1) /\ Size(1) = BlockSize
                BY <1>2, Times, FewBlocks
            <4>2. Size(p) = base + BlockSize
                BY <4>1 DEF base
            <4> HIDE DEF p
            <4>3. p \in Nat
                BY <1>2 DEF p
            <4> QED BY <1>1, <1>2, <1>5, <2>2, <4>2, <4>3
        <3>2. filled = Block(joined, p)
            <4>1. Size(p - 1) = base /\ Size(p) = Len(message) + n
                <5>1. p - 1 = q
                    BY <1>2
                <5> QED BY <3>1, <5>1 DEF base
            <4> QED BY <1>6, <4>1, BlockPart
        <3>3. first \o <<filled>> = Blocks(joined, p)
            BY <1>1, <1>2, <3>1, <3>2, NextBlock
        <3>4. compressed = Blocks(joined, p) \o blocks
            BY <1>6, <2>1, <2>2, <3>3
        <3>5. buffer = left
            BY <1>6, <2>2
        <3>6. rest = Behind(joined, p)
            BY <1>7, <3>1 DEF Behind
        <3> QED BY <2>5, <3>1, <3>4, <3>5, <3>6
    <2>3. CASE held = 0
        <3>1. n = 0 /\ Size(q) = Len(message) + n /\ Size(q) <= Len(joined)
            <4>1. n = 0 /\ base = Len(message) + n /\ base <= Len(joined)
                BY <1>1, <1>2, <1>5, <2>3
            <4> QED BY <4>1 DEF base
        <3>2. Len(filled) = 0 /\ filled = <<>> /\ ~full
            BY <1>6, <2>3, <3>1, EmptySeq, BlockFacts
        <3>3. compressed = first \o blocks
            <4>1. first \in Seq(Seq(S))
                BY <1>1, <1>2, <3>1, BlocksType
            <4>2. first \o <<>> = first
                BY <4>1, ConcatEmptySeq
            <4> QED BY <2>1, <3>2, <4>2
        <3>4. buffer = left
            BY <3>2
        <3>5. rest = Behind(joined, q)
            BY <1>7, <3>1 DEF Behind
        <3> QED BY <1>2, <2>5, <3>1, <3>3, <3>4, <3>5
    <2>4. CASE held # 0 /\ held + n # BlockSize
        <3>1. n = Len(data) /\ Len(rest) = 0
            BY <1>1, <1>5, <1>7, <2>4
        <3>2. size = 0 /\ whole = 0
            <4>1. size = 0
                BY <1>8, <3>1
            <4>2. 0 < whole => Size(0) + BlockSize <= size
                BY <1>8, TimesOrder DEF size
            <4>3. Size(0) = 0
                BY FewBlocks
            <4> QED BY <1>8, <4>1, <4>2, <4>3, BlockFacts
        <3>3. left = <<>> /\ blocks = <<>>
            <4>1. Len(left) = 0
                BY <1>9, <3>1, <3>2
            <4>2. blocks = <<>>
                BY <3>2, NoBlocks DEF blocks
            <4> QED BY <1>9, <4>1, <4>2, EmptySeq
        <3>4. ~full /\ buffer = filled
            BY <1>6, <2>4, <3>3
        <3>6. filled = Behind(joined, q)
            <4>1. Len(message) + n = Len(joined)
                BY <1>1, <3>1
            <4> QED BY <1>6, <4>1 DEF base, Behind
        <3>7. Size(q) <= Len(joined) /\ Len(joined) < Size(q) + BlockSize
            <4>1. base <= Len(joined) /\ Len(joined) < base + BlockSize
                <5>0. BlockSize \in Nat /\ n \in Nat /\ held + n <= BlockSize /\ n = Len(data)
                    BY <1>5, <3>1, BlockFacts
                <5>1. held + n < BlockSize /\ Len(joined) = base + (held + n)
                    <6>1. /\ Len(joined) = Len(message) + Len(data) /\ Len(message) = base + held
                          /\ held \in Nat /\ base \in Nat /\ held + n # BlockSize
                        BY <1>1, <1>2, <2>4
                    <6> QED BY ONLY <5>0, <6>1
                <5> QED BY ONLY <1>2, <5>0, <5>1
            <4> QED BY <4>1 DEF base
        <3>5. compressed = first
            <4>1. first \in Seq(Seq(S))
                BY <1>1, <1>2, <3>7, BlocksType
            <4>2. first \o <<>> = first
                BY <4>1, ConcatEmptySeq
            <4> QED BY <2>1, <3>3, <3>4, <4>2
        <3>8. absorbed(q)
            BY <3>4, <3>5, <3>6, <3>7
        <3> HIDE DEF absorbed
        <3> QED BY <1>2, <3>8
    <2> QED BY <1>5, <2>2, <2>3, <2>4
<1> HIDE DEF compressed, buffer
<1>12. PICK r \in Nat : absorbed(r)
    BY <1>11
<1>13. Sha256Update(context, data) = Context(joined, r)
    BY <1>10, <1>12 DEF Context
<1>14. Absorbed(Sha256Update(context, data), joined)
    BY <1>1, <1>12, <1>13, AbsorbedAt
<1> QED BY <1>14 DEF joined

-----------------------------------------------------------------------------
(* The padding. *)
LEMMA Multiple ==
    ASSUME NEW n \in Nat
    PROVE  n % BlockSize = 0 <=> \E k \in Nat : n = Size(k)
<1>1. PICK q \in Nat : q = n \div BlockSize
    BY WholeBlocks
<1>2. n % BlockSize = n - q * BlockSize
    BY <1>1, BlockFacts
<1>3. n % BlockSize = n - Size(q)
    BY <1>2 DEF Size
<1>4. n % BlockSize = 0 => n = Size(q)
    BY <1>3, TimesType
<1>5. ASSUME NEW k \in Nat, n = Size(k) PROVE n % BlockSize = 0
    <2>1. Size(k) \in Nat /\ BlockSize \in Nat \ {0}
        BY TimesType, BlockFacts
    <2>2. Size(k) <= n /\ n < Size(k) + BlockSize
        BY <1>5, <2>1
    <2>3. k = q
        BY <1>1, <2>2, WholeBlocksUnique
    <2> QED BY <1>3, <1>5, <2>1, <2>3
<1> QED BY <1>4, <1>5

(* The number of zeros is the only one that completes a block. *)
LEMMA ZerosAre ==
    ASSUME NEW size \in Nat, NEW z \in 0 .. BlockSize - 1, NEW r \in Nat,
           size + 1 + z + LengthSize = Size(r)
    PROVE  (CHOOSE n \in 0 .. BlockSize - 1 :
                (size + 1 + n + LengthSize) % BlockSize = 0) = z
<1>1. z \in Nat /\ size + 1 + z + LengthSize \in Nat
    BY BlockFacts
<1>2. (size + 1 + z + LengthSize) % BlockSize = 0
    BY <1>1, Multiple
<1>3. ASSUME NEW n \in 0 .. BlockSize - 1, (size + 1 + n + LengthSize) % BlockSize = 0
      PROVE  n = z
    <2>1. size + 1 + n + LengthSize \in Nat /\ BlockSize \in Nat /\ LengthSize \in Nat
        BY BlockFacts
    <2>2. PICK k \in Nat : size + 1 + n + LengthSize = Size(k)
        BY <1>3, <2>1, Multiple
    <2>3. k < r => Size(k) + BlockSize <= Size(r)
        BY TimesOrder
    <2>4. r < k => Size(r) + BlockSize <= Size(k)
        BY TimesOrder
    <2>5. ~ k < r /\ ~ r < k
        BY <2>1, <2>2, <2>3, <2>4
    <2>6. k = r
        BY <2>5
    <2>7. size + 1 + n + LengthSize = size + 1 + z + LengthSize
        BY <2>2, <2>6
    <2> QED BY <1>1, <2>1, <2>7
<1> QED BY <1>2, <1>3

LEMMA ZerosType ==
    ASSUME NEW S, 0 \in S, NEW n \in Nat
    PROVE  Zeros(n) \in Seq(S) /\ Len(Zeros(n)) = n /\ \A i \in 1 .. n : Zeros(n)[i] = 0
<1>1. Zeros(n) \in [1 .. n -> S]
    BY DEF Zeros
<1>2. Zeros(n) \in Seq(S)
    BY <1>1, SeqDef
<1> QED BY <1>1, <1>2, LenProperties DEF Zeros

LEMMA ZerosJoin ==
    ASSUME NEW a \in Nat, NEW b \in Nat
    PROVE  Zeros(a) \o Zeros(b) = Zeros(a + b)
<1>1. /\ Zeros(a) \in Seq({0}) /\ Len(Zeros(a)) = a /\ \A i \in 1 .. a : Zeros(a)[i] = 0
      /\ Zeros(b) \in Seq({0}) /\ Len(Zeros(b)) = b /\ \A i \in 1 .. b : Zeros(b)[i] = 0
    BY ZerosType
<1>2. /\ a + b \in Nat /\ Zeros(a + b) \in Seq({0}) /\ Len(Zeros(a + b)) = a + b
      /\ \A i \in 1 .. a + b : Zeros(a + b)[i] = 0
    BY ZerosType
<1>3. /\ Zeros(a) \o Zeros(b) \in Seq({0}) /\ Len(Zeros(a) \o Zeros(b)) = a + b
      /\ \A i \in 1 .. a + b :
             (Zeros(a) \o Zeros(b))[i] = IF i <= a THEN Zeros(a)[i] ELSE Zeros(b)[i - a]
    <2> DEFINE u == Zeros(a)
               v == Zeros(b)
    <2>1. u \in Seq({0}) /\ v \in Seq({0}) /\ Len(u) = a /\ Len(v) = b
        BY <1>1
    <2> HIDE DEF u, v
    <2>2. /\ u \o v \in Seq({0}) /\ Len(u \o v) = a + b
          /\ \A i \in 1 .. a + b : (u \o v)[i] = IF i <= a THEN u[i] ELSE v[i - a]
        BY <2>1, ConcatProperties
    <2> QED BY <2>2 DEF u, v
<1>4. ASSUME NEW i \in 1 .. a + b PROVE (Zeros(a) \o Zeros(b))[i] = Zeros(a + b)[i]
    <2>1. (Zeros(a) \o Zeros(b))[i] \in {0}
        BY <1>3, ElementOfSeq
    <2> QED BY <1>2, <2>1
<1> QED BY <1>2, <1>3, <1>4, SeqEqual

(* A sequence of one or two whole blocks. *)
LEMMA OneBlock ==
    ASSUME NEW S, NEW s \in Seq(S), Len(s) = BlockSize
    PROVE  Blocks(s, 1) = <<s>>
<1>1. Size(1 - 1) + 1 = 1 /\ Size(1) = Len(s)
    BY FewBlocks
<1>2. Block(s, 1) = SubSeq(s, 1, Len(s))
    BY <1>1, BlockPart
<1>3. Block(s, 1) = s
    BY <1>2, SubSeqFull
<1> QED BY <1>3 DEF Blocks

LEMMA TwoBlocks ==
    ASSUME NEW S, NEW s \in Seq(S), NEW t \in Seq(S), Len(s) = BlockSize, Len(t) = BlockSize
    PROVE  Blocks(s \o t, 2) = <<s, t>>
<1>1. Size(0) = 0 /\ Size(1) = BlockSize /\ BlockSize \in Nat
    BY FewBlocks, BlockFacts
<1>2. Size(2) = BlockSize + BlockSize
    <2>1. Size(1 + 1) = Size(1) + Size(1) /\ 1 + 1 = 2
        BY Times
    <2> QED BY <1>1, <2>1
<1>3. Block(s \o t, 1) = s
    <2>1. Block(s \o t, 1) = SubSeq(s \o t, 1, Len(s))
        <3>1. Size(1 - 1) + 1 = 1
            BY <1>1
        <3> QED BY <1>1, <3>1, BlockPart
    <2>2. SubSeq(s \o t, 1, Len(s)) = SubSeq(s, 1, Len(s))
        BY <1>1, PartOfConcat
    <2> QED BY <2>1, <2>2, SubSeqFull
<1>4. Block(s \o t, 2) = t
    <2>1. Block(s \o t, 2) = SubSeq(s \o t, Len(s) + 1, Len(s) + Len(t))
        <3>1. 2 - 1 = 1
            OBVIOUS
        <3> QED BY <1>1, <1>2, <3>1, BlockPart
    <2>2. SubSeq(s \o t, Len(s) + 1, Len(s) + Len(t)) = SubSeq(t, 1, Len(t))
        BY <1>1, PartBehind
    <2> QED BY <2>1, <2>2, SubSeqFull
<1> QED BY <1>3, <1>4 DEF Blocks

(* The padded message is its whole blocks and the rest of it, padded.       *)
LEMMA PaddedBlocks ==
    ASSUME NEW S, NEW message \in Seq(S), NEW tail \in Seq(S), NEW q \in Nat, NEW w \in Nat,
           Size(q) <= Len(message), Len(message) - Size(q) + Len(tail) = Size(w)
    PROVE  /\ Len(message \o tail) = Size(q + w)
           /\ Blocks(message \o tail, q + w)
                  = Blocks(message, q) \o Blocks(Behind(message, q) \o tail, w)
<1> DEFINE joined == message \o tail
           base == Size(q)
           size == Size(w)
<1>1. /\ Len(message) \in Nat /\ Len(tail) \in Nat /\ joined \in Seq(S)
      /\ Len(joined) = Len(message) + Len(tail)
    BY LenProperties, ConcatProperties
<1>2. base \in Nat /\ size \in Nat /\ base <= Len(message) /\ Size(q + w) = base + size
    BY Times, TimesType
<1>3. Len(message) - base + Len(tail) = size
    OBVIOUS
<1>4. Behind(joined, q) = Behind(message, q) \o tail
    <2> HIDE DEF base
    <2>1. base + 1 \in Nat \ {0} /\ base + 1 <= Len(message) + 1 /\ Len(tail) \in Nat
        BY <1>1, <1>2
    <2> DEFINE from == base + 1
    <2>2. from \in Nat \ {0} /\ from <= Len(message) + 1
        BY <2>1
    <2> HIDE DEF from
    <2>5. Len(tail) <= Len(tail)
        BY <2>1
    <2>3. SubSeq(message, from, Len(message)) \o SubSeq(tail, 1, Len(tail))
              = SubSeq(message \o tail, from, Len(message) + Len(tail))
        BY ONLY message \in Seq(S), tail \in Seq(S), <2>1, <2>2, <2>5, PartAcross
    <2>4. SubSeq(tail, 1, Len(tail)) = tail
        BY SubSeqFull
    <2> QED BY <1>1, <2>3, <2>4 DEF from, base, Behind
<1> HIDE DEF base, size, joined
<1>5. Len(joined) = base + size
    BY <1>1, <1>2, <1>3
<1>6. ASSUME NEW i \in 1 .. q PROVE Block(joined, i) = Block(message, i)
    <2>1. i \in Nat \ {0} /\ i \in Nat /\ i <= q
        OBVIOUS
    <2>2. Size(i) <= Size(q) /\ Size(i) \in Nat
        BY <2>1, TimesKept
    <2>3. Size(i) <= Len(message)
        BY <1>1, <1>2, <2>2 DEF base
    <2> QED BY <2>1, <2>3, BlockKept DEF joined
<1>7. Blocks(joined, q) = Blocks(message, q)
    BY <1>6 DEF Blocks
<1>8. Blocks(joined, q) \o Blocks(Behind(joined, q), w) = Blocks(joined, q + w)
    <2>1. Size(q) <= Len(joined)
        BY <1>2, <1>5 DEF base
    <2>2. joined \in Seq(S) /\ Len(joined) = Size(q) + Size(w)
        BY <1>1, <1>5 DEF base, size
    <2>3. Len(Behind(joined, q)) = Len(joined) - Size(q)
        <3> DEFINE from == base + 1
        <3>1. from \in Nat \ {0} /\ Len(joined) \in Nat /\ from = base + 1
            BY <1>1, <1>2
        <3> HIDE DEF from
        <3>2. Len(SubSeq(joined, from, Len(joined)))
                  = IF from <= Len(joined) THEN Len(joined) - from + 1 ELSE 0
            BY ONLY <1>1, <3>1, PartType
        <3>3. Len(SubSeq(joined, from, Len(joined))) = Len(joined) - base
            BY <1>2, <1>5, <3>1, <3>2
        <3> QED BY <3>3 DEF Behind, from, base
    <2>4. Size(w) <= Len(Behind(joined, q))
        <3>1. Size(q) \in Nat /\ Size(w) \in Nat
            BY TimesType
        <3> QED BY <2>2, <2>3, <3>1
    <2> QED BY <2>1, <2>2, <2>4, RestBlocks
<1> QED BY <1>2, <1>4, <1>5, <1>7, <1>8 DEF joined

LEMMA JoinType ==
    ASSUME NEW S, NEW s \in Seq(S), NEW t \in Seq(S)
    PROVE  s \o t \in Seq(S) /\ Len(s \o t) = Len(s) + Len(t)
BY ConcatProperties

LEMMA JoinPair ==
    ASSUME NEW S, NEW a \in S, NEW b \in S
    PROVE  <<a>> \in Seq(S) /\ <<b>> \in Seq(S) /\ <<a>> \o <<b>> = <<a, b>>
<1> DEFINE s == <<a>>
           t == <<b>>
           u == <<a, b>>
<1>1. /\ s \in Seq(S) /\ Len(s) = 1 /\ s[1] = a
      /\ t \in Seq(S) /\ Len(t) = 1 /\ t[1] = b
      /\ u \in Seq(S) /\ Len(u) = 2 /\ u[1] = a /\ u[2] = b
    OBVIOUS
<1> HIDE DEF s, t, u
<1>2. /\ s \o t \in Seq(S) /\ Len(s \o t) = Len(s) + Len(t)
      /\ \A i \in 1 .. Len(s) + Len(t) :
             (s \o t)[i] = IF i <= Len(s) THEN s[i] ELSE t[i - Len(s)]
    BY <1>1, ConcatProperties
<1>3. Len(s \o t) = Len(u) /\ (s \o t)[1] = u[1] /\ (s \o t)[2] = u[2]
    BY <1>1, <1>2
<1>4. ASSUME NEW i \in 1 .. Len(u) PROVE (s \o t)[i] = u[i]
    <2>1. i = 1 \/ i = 2
        BY <1>1
    <2> QED BY <1>3, <2>1
<1>5. s \o t = u
    BY <1>1, <1>2, <1>3, <1>4, SeqEqual
<1> QED BY <1>1, <1>5 DEF s, t, u

(* Named, for the provers instantiate facts about concatenation without end. *)
Sequences3(S, s, t, u) == s \in Seq(S) /\ t \in Seq(S) /\ u \in Seq(S)

LEMMA Associative ==
    ASSUME NEW S, NEW s, NEW t, NEW u, Sequences3(S, s, t, u)
    PROVE  (s \o t) \o u = s \o (t \o u)
<1>1. s \in Seq(S) /\ t \in Seq(S) /\ u \in Seq(S)
    BY DEF Sequences3
<1> QED BY <1>1, ConcatAssociative

(* Whatever a message is made of, the padding fits behind it. *)
LEMMA FinalOver ==
    ASSUME NEW S, NEW message \in Seq(S), NEW context, Absorbed(context, message),
           0 \in S, Mark \in S, LengthField(Len(message)) \in Seq(S)
    PROVE  Sha256Final(context) = Digest(message)
<1> DEFINE q == Len(message) \div BlockSize
           base == Size(q)
           held == Len(message) - base
           field == LengthField(Len(message))
           buffer == Behind(message, q)
           mark == <<Mark>>
           marked == Append(buffer, Mark)
           limit == BlockSize - LengthSize
           split == Len(marked) > limit
<1>1. Len(message) \in Nat /\ q \in Nat
    BY LenProperties, WholeBlocks
<1>2. base \in Nat /\ base <= Len(message) /\ Len(message) < base + BlockSize
    BY <1>1, WholeBlocks, TimesType
<1>3. context = Context(message, q)
    BY DEF Absorbed
<1> HIDE DEF q, base
<1>4. held \in Nat /\ held < BlockSize /\ Len(message) = base + held
    BY <1>1, <1>2, BlockFacts
<1>5. field \in Seq(S) /\ Len(field) = LengthSize
    <2>1. field \in [1 .. LengthSize -> Int] \/ DOMAIN field = 1 .. LengthSize
        BY DEF LengthField
    <2>2. DOMAIN field = 1 .. LengthSize
        BY <2>1
    <2> QED BY <2>2, LenProperties, BlockFacts
<1> HIDE DEF field
<1>6. buffer \in Seq(S) /\ Len(buffer) = held
    <2> DEFINE from == base + 1
               part == SubSeq(message, from, Len(message))
    <2>1. from \in Nat \ {0} /\ from = base + 1
        BY <1>2
    <2>2. buffer = part
        BY DEF Behind, base
    <2> HIDE DEF from
    <2>3. part \in Seq(S) /\ Len(part) = IF from <= Len(message) THEN Len(message) - from + 1 ELSE 0
        BY <1>1, <2>1, PartType
    <2> HIDE DEF part, held, buffer
    <2> QED BY <1>1, <1>2, <1>4, <2>1, <2>2, <2>3
<1> HIDE DEF buffer, held
<1>7. /\ marked = buffer \o mark /\ marked \in Seq(S) /\ Len(marked) = held + 1
      /\ mark \in Seq(S) /\ Len(mark) = 1
    BY <1>6, AppendIsConcat, AppendProperties
<1> HIDE DEF marked, mark
<1>8. /\ BlockSize \in Nat \ {0} /\ LengthSize \in Nat \ {0}
      /\ limit \in Nat \ {0} /\ limit + LengthSize = BlockSize
    BY BlockFacts
<1>9. Sha256Final(context) =
          (Blocks(message, q)
               \o (IF split THEN <<marked \o Zeros(BlockSize - Len(marked))>> ELSE <<>>))
               \o <<((IF split THEN <<>> ELSE marked)
                        \o Zeros(limit - Len(IF split THEN <<>> ELSE marked))) \o field>>
    BY <1>3 DEF Sha256Final, FinalFrom, Context, buffer, marked, field
<1>15. split <=> held + 1 > limit
    BY <1>7
<1> HIDE DEF limit, split
<1>10. Blocks(message, q) \in Seq(Seq(S))
    BY <1>1, <1>2, BlocksType DEF base
(* With z zeros the padding ends with block q + w.                          *)
<1>11. ASSUME NEW z \in 0 .. BlockSize - 1, NEW w \in Nat \ {0},
              held + 1 + z + LengthSize = Size(w)
       PROVE  Digest(message)
                  = Blocks(message, q) \o Blocks((marked \o Zeros(z)) \o field, w)
    <2> DEFINE zeros == Zeros(z)
               mz == mark \o zeros
               tail == mz \o field
    <2>1. zeros \in Seq(S) /\ Len(zeros) = z /\ z \in Nat
        BY ZerosType
    <2> HIDE DEF zeros
    <2>2. mz \in Seq(S) /\ Len(mz) = 1 + z
        BY <1>7, <2>1, JoinType
    <2>3. tail \in Seq(S) /\ Len(tail) = 1 + z + LengthSize
        BY <1>5, <2>2, JoinType
    <2>4. Size(q + w) = base + Size(w) /\ Size(w) \in Nat /\ q + w \in Nat /\ w \in Nat
        BY <1>1, <1>11, Times, TimesType DEF base
    <2>5. Len(message) + 1 + z + LengthSize = Size(q + w)
        <3> QED BY <1>1, <1>2, <1>4, <1>8, <1>11, <2>1, <2>4
    <2> HIDE DEF mz
    <2>6. Padded(message) = ((message \o mark) \o zeros) \o field
        <3>1. (CHOOSE n \in 0 .. BlockSize - 1 :
                    (Len(message) + 1 + n + LengthSize) % BlockSize = 0) = z
            BY <1>1, <1>11, <2>4, <2>5, ZerosAre
        <3> QED BY <3>1 DEF Padded, field, mark, zeros
    <2>7. Padded(message) = message \o tail
        <3>1. (message \o mark) \o zeros = message \o mz
            <4>1. Sequences3(S, message, mark, zeros)
                BY <1>7, <2>1 DEF Sequences3
            <4> QED BY ONLY <4>1, Associative DEF mz
        <3>2. (message \o mz) \o field = message \o tail
            <4>1. Sequences3(S, message, mz, field)
                BY <1>5, <2>2 DEF Sequences3
            <4> QED BY ONLY <4>1, Associative
        <3> QED BY <2>6, <3>1, <3>2
    <2>8. buffer \o tail = (marked \o zeros) \o field
        <3>1. (buffer \o mark) \o zeros = buffer \o mz
            <4>1. Sequences3(S, buffer, mark, zeros)
                BY <1>6, <1>7, <2>1 DEF Sequences3
            <4> QED BY ONLY <4>1, Associative DEF mz
        <3>2. (buffer \o mz) \o field = buffer \o tail
            <4>1. Sequences3(S, buffer, mz, field)
                BY <1>5, <1>6, <2>2 DEF Sequences3
            <4> QED BY ONLY <4>1, Associative
        <3>3. marked = buffer \o mark
            BY <1>7
        <3> HIDE DEF tail
        <3> QED BY ONLY <3>1, <3>2, <3>3
    <2> HIDE DEF tail
    <2>9. /\ Len(message \o tail) = Size(q + w)
          /\ Blocks(message \o tail, q + w)
                 = Blocks(message, q) \o Blocks(Behind(message, q) \o tail, w)
        <3>1. Size(q) <= Len(message) /\ Len(message) - Size(q) + Len(tail) = Size(w)
            <4>1. Len(message) - base + Len(tail) = Size(w) /\ base <= Len(message)
                BY <1>2, <1>4, <1>8, <1>11, <2>1, <2>3
            <4> QED BY <4>1 DEF base
        <3> QED BY <1>1, <2>3, <2>4, <3>1, PaddedBlocks
    <2>10. Len(message \o tail) \div BlockSize = q + w
        <3>1. Size(q + w) \in Nat
            BY <2>4, TimesType
        <3> DEFINE n == Len(message \o tail)
        <3>2. n = Size(q + w)
            BY <2>9
        <3> HIDE DEF n
        <3>3. n \in Nat /\ Size(q + w) <= n /\ n < Size(q + w) + BlockSize
            BY <1>8, <3>1, <3>2
        <3> QED BY <2>4, <3>3, WholeBlocksUnique DEF n
    <2>11. Digest(message) = Blocks(message \o tail, q + w)
        BY <2>7, <2>10 DEF Digest, Blocks
    <2> QED BY <2>8, <2>9, <2>11 DEF buffer, zeros
<1>12. CASE ~split
    <2> DEFINE z == limit - Len(marked)
               zeros == Zeros(z)
               last == (marked \o zeros) \o field
    <2>1. z \in 0 .. BlockSize - 1 /\ z \in Nat /\ held + 1 + z + LengthSize = BlockSize
        BY <1>4, <1>7, <1>8, <1>12, <1>15
    <2> HIDE DEF z
    <2>2. zeros \in Seq(S) /\ Len(zeros) = z
        BY <2>1, ZerosType
    <2> HIDE DEF zeros
    <2>3. marked \o zeros \in Seq(S) /\ Len(marked \o zeros) = held + 1 + z
        BY <1>7, <2>2, JoinType
    <2>4. last \in Seq(S) /\ Len(last) = BlockSize
        BY <1>5, <2>1, <2>3, JoinType
    <2>5. Digest(message) = Blocks(message, q) \o Blocks(last, 1)
        BY <1>11, <2>1, FewBlocks DEF zeros
    <2>6. Blocks(last, 1) = <<last>>
        BY <2>4, OneBlock
    <2>7. Sha256Final(context) = (Blocks(message, q) \o <<>>) \o <<last>>
        BY <1>9, <1>12 DEF z, zeros
    <2>8. Blocks(message, q) \o <<>> = Blocks(message, q)
        BY <1>10, ConcatEmptySeq
    <2> QED BY <2>5, <2>6, <2>7, <2>8
<1>13. CASE split
    <2> DEFINE a == BlockSize - Len(marked)
               z == a + limit
               few == Zeros(a)
               most == Zeros(limit)
               first == marked \o few
               last == most \o field
    <2>1. /\ a \in Nat /\ z \in 0 .. BlockSize - 1 /\ z \in Nat /\ z = a + limit
          /\ held + 1 + a = BlockSize
          /\ held + 1 + z + LengthSize = BlockSize + BlockSize
        BY <1>4, <1>7, <1>8, <1>13, <1>15
    <2> HIDE DEF a, z
    <2>2. Size(2) = BlockSize + BlockSize
        <3>1. Size(1 + 1) = Size(1) + Size(1) /\ 1 + 1 = 2
            BY Times
        <3> QED BY <3>1, FewBlocks
    <2>3. /\ few \in Seq(S) /\ Len(few) = a
          /\ most \in Seq(S) /\ Len(most) = limit
          /\ Zeros(z) = few \o most
        BY <1>8, <2>1, ZerosType, ZerosJoin
    <2> HIDE DEF few, most
    <2>4. first \in Seq(S) /\ Len(first) = BlockSize
        <3>1. first \in Seq(S) /\ Len(first) = Len(marked) + Len(few)
            BY <1>7, <2>3, JoinType
        <3>2. Len(marked) + Len(few) = BlockSize
            BY <1>7, <2>1, <2>3
        <3> QED BY <3>1, <3>2
    <2>5. last \in Seq(S) /\ Len(last) = BlockSize
        <3>1. last \in Seq(S) /\ Len(last) = Len(most) + Len(field)
            BY <1>5, <2>3, JoinType
        <3>2. Len(most) + Len(field) = BlockSize
            BY <1>5, <1>8, <2>3
        <3> QED BY <3>1, <3>2
    <2>6. (marked \o Zeros(z)) \o field = first \o last
        <3>1. (marked \o few) \o most = marked \o (few \o most)
            <4>1. Sequences3(S, marked, few, most)
                BY <1>7, <2>3 DEF Sequences3
            <4> QED BY ONLY <4>1, Associative
        <3>2. (first \o most) \o field = first \o last
            <4>1. Sequences3(S, first, most, field)
                BY <1>5, <2>3, <2>4 DEF Sequences3
            <4> HIDE DEF first
            <4> QED BY ONLY <4>1, Associative
        <3> QED BY <2>3, <3>1, <3>2
    <2>7. Digest(message) = Blocks(message, q) \o Blocks(first \o last, 2)
        <3>1. /\ 2 \in Nat \ {0} /\ held + 1 + z + LengthSize = Size(2)
              /\ z \in 0 .. BlockSize - 1
            BY <2>1, <2>2
        <3>2. Digest(message) = Blocks(message, q) \o Blocks((marked \o Zeros(z)) \o field, 2)
            BY <1>11, <3>1
        <3> HIDE DEF first, last
        <3> QED BY <2>6, <3>2
    <2>8. Blocks(first \o last, 2) = <<first, last>>
        BY <2>4, <2>5, TwoBlocks
    <2>9. Sha256Final(context) = (Blocks(message, q) \o <<first>>) \o <<last>>
        <3>1. (<<>> \o Zeros(limit - Len(<<>>))) \o field = last
            <4>1. limit - Len(<<>>) = limit
                BY <1>8
            <4>2. <<>> \o most = most
                BY <2>3, ConcatEmptySeq
            <4> QED BY <4>1, <4>2 DEF most
        <3> QED BY <1>9, <1>13, <3>1 DEF a, few
    <2> DEFINE T == Seq(S)
    <2>10. first \in T /\ last \in T /\ Blocks(message, q) \in Seq(T)
        BY <1>10, <2>4, <2>5
    <2> HIDE DEF T, first, last
    <2>11. <<first>> \in Seq(T) /\ <<last>> \in Seq(T) /\ <<first>> \o <<last>> = <<first, last>>
        BY <2>10, JoinPair
    <2>12. (Blocks(message, q) \o <<first>>) \o <<last>>
               = Blocks(message, q) \o (<<first>> \o <<last>>)
        <3>1. Sequences3(T, Blocks(message, q), <<first>>, <<last>>)
            BY <2>10, <2>11 DEF Sequences3
        <3> QED BY ONLY <3>1, Associative
    <2> QED BY <2>7, <2>8, <2>9, <2>11, <2>12
<1> QED BY <1>12, <1>13

(* The digest finished from the context of a message is that of the message. *)
THEOREM FinalIsDigest ==
    ASSUME NEW S, NEW message \in Seq(S), NEW context, Absorbed(context, message)
    PROVE  Sha256Final(context) = Digest(message)
<1> DEFINE field == LengthField(Len(message))
           T == S \cup {0, Mark} \cup {field[i] : i \in 1 .. LengthSize}
<1>1. message \in Seq(T)
    BY SeqMonotonic
<1>2. field \in Seq(T)
    <2>1. DOMAIN field = 1 .. LengthSize /\ field = [i \in 1 .. LengthSize |-> field[i]]
        BY DEF LengthField
    <2>2. \A i \in 1 .. LengthSize : field[i] \in T
        OBVIOUS
    <2> HIDE DEF field, T
    <2>3. field \in [1 .. LengthSize -> T] /\ LengthSize \in Nat
        BY <2>1, <2>2, BlockFacts
    <2> QED BY <2>3, SeqDef
<1> HIDE DEF field, T
<1>3. 0 \in T /\ Mark \in T
    BY DEF T
<1> QED BY <1>1, <1>2, <1>3, FinalOver DEF field

(* And so is the digest that is computed in one piece. *)
THEOREM ComputeIsDigest ==
    ASSUME NEW S, NEW message \in Seq(S)
    PROVE  Sha256Compute(message) = Digest(message)
<1>1. <<>> \in Seq(S) /\ <<>> \o message = message
    BY ConcatEmptySeq
<1>2. Absorbed(Sha256Update(Sha256Init, message), <<>> \o message)
    BY <1>1, InitAbsorbs, UpdateAbsorbs
<1> QED BY <1>1, <1>2, FinalIsDigest DEF Sha256Compute

-----------------------------------------------------------------------------
(* The streamed digest: the context has absorbed the bytes accepted.         *)
DigestInv == Absorbed(image_hash, hashed)

LEMMA DigestStep ==
    ASSUME Inv, DigestInv, Next, HashChunk
    PROVE  DigestInv'
<1>1. hashed \in Seq(Bytes)
    BY DEF Inv, TypeOK
<1>2. CASE WriteReturns
    <2>1. chunk \in Chunks /\ hashed' = hashed \o chunk
        BY <1>2 DEF WriteReturns, Inv, WriteOK
    <2>2. chunk \in Seq(Bytes)
        BY <2>1, ChunkFacts
    <2>3. image_hash' = Sha256Update(image_hash, chunk)
        BY <1>2 DEF HashChunk
    <2>4. Absorbed(image_hash, hashed)
        BY DEF DigestInv
    <2>5. Absorbed(Sha256Update(image_hash, chunk), hashed \o chunk)
        BY <1>1, <2>2, <2>4, UpdateAbsorbs
    <2>6. DigestInv' <=> Absorbed(image_hash', hashed')
        BY DEF DigestInv, Absorbed, Context, Behind, Blocks
    <2> QED BY <2>1, <2>3, <2>5, <2>6
<1>3. CASE ~WriteReturns
    <2>1. hashed' = <<>> \/ hashed' = hashed
        BY <1>3
        DEF Next, BeginTransfer, Erase, EraseFails, Write, ProgramHalfWord, WriteFails,
            HardFaultInWrite, FlushNothing, FlushByte, FlushFails, HardFaultInFlush,
            PowerLoss, transfer
    <2>2. image_hash' = IF hashed' = <<>> THEN Sha256Init ELSE image_hash
        BY <1>3 DEF HashChunk
    <2>3. DigestInv' <=> Absorbed(image_hash', hashed')
        BY DEF DigestInv, Absorbed, Context, Behind, Blocks
    <2>4. hashed' # <<>> => hashed' = hashed /\ image_hash' = image_hash
        BY <2>1, <2>2
    <2>5. hashed' = <<>> => hashed' = <<>> /\ image_hash' = Sha256Init
        BY <2>2
    <2> QED BY <2>3, <2>4, <2>5, InitAbsorbs DEF DigestInv
<1> QED BY <1>2, <1>3

(* The digest the boot controller computes while the chunks come, wherever  *)
(* they were cut and whichever were retried, and the one it computes in one *)
(* piece before the jump, are both the digest of the image in Flash.        *)
THEOREM StreamedDigestKept == HistorySpec => []StreamedDigestIsOfImage
<1>1. Inv /\ DigestInv => StreamedDigestIsOfImage
    <2> DEFINE image == [i \in 1 .. expected_size |-> flash[i - 1]]
    <2> SUFFICES ASSUME Inv, DigestInv, step = "flushed"
                 PROVE  Sha256Final(image_hash) = Digest(image)
                        /\ Sha256Compute(image) = Digest(image)
        BY DEF StreamedDigestIsOfImage
    <2>1. hashed \in Seq(Bytes)
        BY DEF Inv, TypeOK
    <2>2. image = hashed
        <3>1. /\ written_size = expected_size /\ pending = NoByte /\ Len(hashed) = written_size
              /\ \A i \in 1 .. written_size : hashed[i] = flash[i - 1]
            BY DEF Inv, StoredOK, FlushedOK
        <3>2. hashed = [i \in 1 .. Len(hashed) |-> hashed[i]]
            BY <2>1
        <3> QED BY <3>1, <3>2
    <2> HIDE DEF image
    <2> QED BY <2>1, <2>2, FinalIsDigest, ComputeIsDigest DEF DigestInv
<1>2. HistoryInit => Inv /\ DigestInv
    BY InitInv, InitAbsorbs DEF HistoryInit, DigestInv, Init
<1>3. Inv /\ [HistoryNext]_<<vars, history>> => Inv'
    BY NextInv DEF HistoryNext
<1>4. ASSUME Inv, DigestInv, [HistoryNext]_<<vars, history>>
      PROVE  DigestInv'
    <2>1. CASE UNCHANGED <<vars, history>>
        BY <1>4, <2>1 DEF vars, history, transfer, DigestInv
    <2> QED BY <1>4, <2>1, DigestStep DEF HistoryNext
<1> QED BY <1>1, <1>2, <1>3, <1>4, PTL DEF HistorySpec
=============================================================================
