---------------------------- MODULE MCFlashWriter ----------------------------
(***************************************************************************)
(* The Flash writer, with the hash that the boot controller computes of    *)
(* the same chunks, and a history: whether a chunk of the transfer has     *)
(* failed.  Three byte values: the erased one, zero, which may be          *)
(* programmed over anything, and one that is neither.                      *)
(***************************************************************************)
EXTENDS FlashWriter, Sha256

VARIABLES
    image_hash,     \* controller->image_hash
    chunk_failed

MCBytes == {0, 1, MaxByte}

history == <<image_hash, chunk_failed>>

(* Reset with the transfer; a chunk is added after it has been written. *)
HashChunk ==
    image_hash' =
        IF WriteReturns THEN Sha256Update(image_hash, chunk)
        ELSE IF hashed' = <<>> THEN Sha256Init
        ELSE image_hash

RecordFailure == chunk_failed' = (open' /\ (chunk_failed \/ WriteFails))

HistoryInit ==
    /\ Init
    /\ image_hash = Sha256Init
    /\ chunk_failed = FALSE

HistoryNext == Next /\ HashChunk /\ RecordFailure

HistorySpec == HistoryInit /\ [][HistoryNext]_<<vars, history>>

(* The digest computed from the chunks while they came, wherever they were  *)
(* cut, is the digest of the image as it is in Flash, and the one that the  *)
(* verification before a jump computes from there in one piece.             *)
StreamedDigestIsOfImage ==
    step = "flushed" =>
        LET image == [i \in 1 .. expected_size |-> flash[i - 1]]
        IN  /\ Sha256Final(image_hash) = Digest(image)
            /\ Sha256Compute(image) = Digest(image)

(* As long as no chunk of the transfer has failed, the writer programs      *)
(* erased half-words at even addresses only, whatever the lengths of the    *)
(* chunks: the hardware has no reason to refuse, and never faults.          *)
ContractUnlessRetried ==
    ~chunk_failed => ProgramsBlank /\ ProgramsAligned /\ step # "hung"
=============================================================================
