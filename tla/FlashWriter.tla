----------------------------- MODULE FlashWriter -----------------------------
(***************************************************************************)
(* The Flash writer of boot_flash.c with the part of the boot controller   *)
(* that drives it, at the level of the half-words the Flash can program.   *)
(* A chunk may have any length: its last odd byte is deferred, and shares  *)
(* a half-word with the first byte of the next chunk.                      *)
(*                                                                         *)
(* The Flash is hardware: a half-word can be programmed when it is erased, *)
(* or with zeros; anything else it reports as an error.  A half-word store *)
(* to an odd address is a bus fault, and HardFault_Handler never returns.  *)
(* Any operation may fail, and power may be lost at any time.              *)
(*                                                                         *)
(* A chunk that failed may be sent again, with the same bytes or others:   *)
(* its offset was not counted, and the transfer stays open.                *)
(***************************************************************************)
EXTENDS Naturals, Sequences

CONSTANTS
    Bytes,
    SlotSize,       \* bytes in the slot, before its manifest
    MaxChunk        \* BOOT_UART_MAX_CHUNK_SIZE

MaxByte == 255

ASSUME BytesAssumption == {0, MaxByte} \subseteq Bytes /\ Bytes \subseteq 0 .. MaxByte
ASSUME SizeAssumption ==
    /\ SlotSize \in Nat \ {0} /\ SlotSize % 2 = 0
    /\ MaxChunk \in Nat \ {0}

VARIABLES
    flash,          \* the target slot, byte by byte
    open,           \* flash_writer.slot # NONE
    written_size,   \* flash_writer.written_size
    pending,        \* flash_writer.pending_byte, NoByte without has_pending_byte
    chunk,          \* the data of the boot_flash_writer_write in progress
    index,          \* its index
    step,           \* what is being done
    expected_size,  \* expected_image_size
    hashed          \* what image_hash has absorbed, received_image_size bytes

writer == <<open, written_size, pending>>
transfer == <<expected_size, hashed>>
vars == <<flash, writer, chunk, index, step, transfer>>

NoByte == MaxByte + 1

Chunks == UNION {[1 .. n -> Bytes] : n \in 1 .. MaxChunk}

Offsets == 0 .. SlotSize - 1

TypeOK ==
    /\ flash \in [Offsets -> Bytes]
    /\ open \in BOOLEAN
    /\ written_size \in 0 .. SlotSize
    /\ pending \in Bytes \cup {NoByte}
    /\ chunk \in Chunks \cup {<<>>}
    /\ index \in 0 .. MaxChunk
    /\ step \in {"idle", "write", "flush", "flushed", "given up", "hung"}
    /\ expected_size \in 0 .. SlotSize
    /\ hashed \in Seq(Bytes) /\ Len(hashed) <= expected_size

Init ==
    /\ flash \in [Offsets -> Bytes]
    /\ open = FALSE
    /\ written_size = 0
    /\ pending = NoByte
    /\ chunk = <<>>
    /\ index = 0
    /\ step = "idle"
    /\ expected_size = 0
    /\ hashed = <<>>

-----------------------------------------------------------------------------
(* boot_platform_flash_program_half_word *)
Aligned(address) == address % 2 = 0

Blank(address) == flash[address] = MaxByte /\ flash[address + 1] = MaxByte

Programmable(address, low, high) ==
    \/ Blank(address)
    \/ low = 0 /\ high = 0

Program(address, low, high) ==
    flash' = [flash EXCEPT ![address] = low, ![address + 1] = high]

Programmed(address, low, high) ==
    Aligned(address) /\ Programmable(address, low, high) /\ Program(address, low, high)

(* It returns false: nothing was programmed, or the error came after it. *)
ProgramFails(address, low, high) ==
    Aligned(address) /\ (UNCHANGED flash \/ Programmed(address, low, high))

-----------------------------------------------------------------------------
(* UPDATE_BEGIN: boot_reset_transfer, which resets the writer. *)
BeginTransfer(size) ==
    /\ step \in {"idle", "flushed", "given up"}
    /\ step' = "idle"
    /\ expected_size' = size
    /\ hashed' = <<>>
    /\ open' = FALSE /\ written_size' = 0 /\ pending' = NoByte
    /\ UNCHANGED <<flash, chunk, index>>

(* Mutant: the writer starts on a slot that was not erased. *)
OpenUnerased ==
    /\ step = "idle" /\ expected_size > 0 /\ ~open
    /\ open' = TRUE
    /\ UNCHANGED <<flash, written_size, pending, chunk, index, step, transfer>>

(* boot_prepare_flash_target, before the first chunk: boot_flash_erase_slot *)
(* and boot_flash_writer_begin.                                             *)
Erase ==
    /\ step = "idle" /\ expected_size > 0 /\ ~open
    /\ flash' = [offset \in Offsets |-> MaxByte]
    /\ open' = TRUE
    /\ UNCHANGED <<written_size, pending, chunk, index, step, transfer>>

(* The erase stops at some page. *)
EraseFails ==
    /\ step = "idle" /\ expected_size > 0 /\ ~open
    /\ \E size \in Offsets :
           flash' = [offset \in Offsets |-> IF offset < size THEN MaxByte ELSE flash[offset]]
    /\ UNCHANGED <<writer, chunk, index, step, transfer>>

(* UPDATE_CHUNK at the offset expected, not longer than what is missing:    *)
(* boot_flash_writer_write is called.                                       *)
Write(data) ==
    /\ step = "idle" /\ open
    /\ Len(hashed) + Len(data) <= expected_size
    /\ chunk' = data /\ index' = 0
    /\ step' = "write"
    /\ UNCHANGED <<flash, writer, transfer>>

(* The half-word the call programs next: the deferred byte with the first   *)
(* of the chunk, or two of the chunk.                                       *)
Completes == pending # NoByte /\ index < Len(chunk)
Pairs == pending = NoByte /\ index + 1 < Len(chunk)
Address == IF Completes THEN written_size - 1 ELSE written_size + index
Low == IF Completes THEN pending ELSE chunk[index + 1]
High == IF Completes THEN chunk[1] ELSE chunk[index + 2]

Writing == step = "write" /\ (Completes \/ Pairs)

(* Mutant: the deferred byte is kept although it has been programmed. *)
ProgramKeepingPending ==
    /\ Writing
    /\ Programmed(Address, Low, High)
    /\ index' = IF Completes THEN 1 ELSE index + 2
    /\ UNCHANGED <<writer, chunk, step, transfer>>

ProgramHalfWord ==
    /\ Writing
    /\ Programmed(Address, Low, High)
    /\ index' = IF Completes THEN 1 ELSE index + 2
    /\ pending' = NoByte
    /\ UNCHANGED <<open, written_size, chunk, step, transfer>>

(* Mutant: the half-words programmed before the failure are counted. *)
WriteFailsCounting ==
    /\ Writing
    /\ ProgramFails(Address, Low, High)
    /\ written_size' = written_size + index
    /\ chunk' = <<>> /\ index' = 0
    /\ step' = "idle"
    /\ UNCHANGED <<open, pending, transfer>>

(* The call returns false, and the controller answers NACK. *)
WriteFails ==
    /\ Writing
    /\ ProgramFails(Address, Low, High)
    /\ chunk' = <<>> /\ index' = 0
    /\ step' = "idle"
    /\ UNCHANGED <<writer, transfer>>

HardFaultInWrite ==
    /\ Writing
    /\ ~Aligned(Address)
    /\ step' = "hung"
    /\ UNCHANGED <<flash, writer, chunk, index, transfer>>

(* The odd byte is deferred, the call returns true, the chunk is hashed and *)
(* counted, and ACK is sent.                                                *)
WriteReturns ==
    /\ step = "write" /\ ~Writing
    /\ pending' = IF index < Len(chunk) THEN chunk[index + 1] ELSE pending
    /\ written_size' = written_size + Len(chunk)
    /\ hashed' = hashed \o chunk
    /\ chunk' = <<>> /\ index' = 0
    /\ step' = "idle"
    /\ UNCHANGED <<flash, open, expected_size>>

(* UPDATE_END with all bytes received and written: boot_flash_writer_flush. *)
Complete ==
    /\ step = "idle" /\ open
    /\ Len(hashed) = expected_size
    /\ written_size = Len(hashed)

Flushing == Complete /\ pending # NoByte

(* Mutant: the deferred byte is forgotten. *)
FlushNoByte ==
    /\ Complete
    /\ pending' = NoByte
    /\ step' = "flushed"
    /\ UNCHANGED <<flash, open, written_size, chunk, index, transfer>>

FlushNothing ==
    /\ Complete /\ pending = NoByte
    /\ step' = "flushed"
    /\ UNCHANGED <<flash, writer, chunk, index, transfer>>

FlushByte ==
    /\ Flushing
    /\ Programmed(written_size - 1, pending, MaxByte)
    /\ pending' = NoByte
    /\ step' = "flushed"
    /\ UNCHANGED <<open, written_size, chunk, index, transfer>>

(* The update is given up, and the controller is in RECOVERY. *)
FlushFails ==
    /\ Flushing
    /\ ProgramFails(written_size - 1, pending, MaxByte)
    /\ step' = "given up"
    /\ UNCHANGED <<writer, chunk, index, transfer>>

HardFaultInFlush ==
    /\ Flushing
    /\ ~Aligned(written_size - 1)
    /\ step' = "hung"
    /\ UNCHANGED <<flash, writer, chunk, index, transfer>>

(* RAM is lost, the Flash is not. *)
PowerLoss ==
    /\ open' = FALSE /\ written_size' = 0 /\ pending' = NoByte
    /\ chunk' = <<>> /\ index' = 0
    /\ step' = "idle"
    /\ expected_size' = 0 /\ hashed' = <<>>
    /\ UNCHANGED flash

Next ==
    \/ \E size \in 1 .. SlotSize : BeginTransfer(size)
    \/ Erase \/ EraseFails
    \/ \E data \in Chunks : Write(data)
    \/ ProgramHalfWord \/ WriteFails \/ HardFaultInWrite \/ WriteReturns
    \/ FlushNothing \/ FlushByte \/ FlushFails \/ HardFaultInFlush
    \/ PowerLoss

Spec == Init /\ [][Next]_vars

-----------------------------------------------------------------------------
(* Bytes accepted, as the device holds them: in Flash, but for the one that *)
(* is deferred.                                                             *)
Stored ==
    [i \in 1 .. written_size |->
        IF pending # NoByte /\ i = written_size THEN pending ELSE flash[i - 1]]

(* The writer is an append-only store of whole chunks.  A chunk that fails  *)
(* at any of its half-words, and whatever is sent in its place, leaves all  *)
(* accepted bytes as they were.                                             *)
Store == INSTANCE ImageStore WITH
    Sizes <- 0 .. SlotSize,
    expected <- expected_size,
    stored <- Stored,
    closed <- (step = "flushed")

ImplementsStore == Store!Spec

(* What the boot controller hashes is what the device holds: the digest     *)
(* compared at the end of the transfer speaks of the bytes in Flash,        *)
(* although it is computed from the bytes received, chunks were retried,    *)
(* and half-words straddle two of them.                                     *)
HashedIsStored == hashed = Stored

(* When the flush has succeeded the slot holds the whole image, padded to a *)
(* half-word as an erased byte would be.                                    *)
FlushedImageIsWhole ==
    step = "flushed" =>
        /\ \A i \in 1 .. expected_size : flash[i - 1] = hashed[i]
        /\ expected_size % 2 = 1 => flash[expected_size] = MaxByte

-----------------------------------------------------------------------------
(* What boot_platform.h asks of a caller: an erased half-word, and an       *)
(* address that is half-word aligned.                                       *)
ProgramsBlank ==
    /\ Writing => Blank(Address)
    /\ Flushing => Blank(written_size - 1)

(* boot_platform.h: the address "must be half-word aligned". *)
ProgramsAligned ==
    /\ Writing => Aligned(Address)
    /\ Flushing => Aligned(written_size - 1)
=============================================================================
