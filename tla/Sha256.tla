-------------------------------- MODULE Sha256 --------------------------------
(***************************************************************************)
(* The streaming SHA-256 of sha256.c, with a compression function that is  *)
(* left free: the chaining state is the sequence of the blocks compressed  *)
(* so far, and a digest is equal to another when these sequences are.      *)
(***************************************************************************)
EXTENDS Integers, Sequences

CONSTANTS
    BlockSize,      \* SHA256_BLOCK_SIZE
    LengthSize      \* bytes of the message length at the end of the last block

ASSUME BlockAssumption ==
    BlockSize \in Nat /\ LengthSize \in Nat \ {0} /\ LengthSize < BlockSize

Mark == 128

Zeros(n) == [i \in 1 .. n |-> 0]

(* The length in bits, its most significant byte first. *)
LengthField(size) ==
    [i \in 1 .. LengthSize |-> ((size * 8) \div 256 ^ (LengthSize - i)) % 256]

Block(data, i) == SubSeq(data, (i - 1) * BlockSize + 1, i * BlockSize)

Sha256Init == [state |-> <<>>, total_size |-> 0, buffer |-> <<>>]

(* The partial block is filled first, whole blocks are compressed where     *)
(* they are, and what is left becomes the partial block.                    *)
Sha256Update(context, data) ==
    LET room == BlockSize - Len(context.buffer)
        n == IF context.buffer = <<>> THEN 0
             ELSE IF room > Len(data) THEN Len(data) ELSE room
        filled == context.buffer \o SubSeq(data, 1, n)
        full == Len(filled) = BlockSize
        rest == SubSeq(data, n + 1, Len(data))
        whole == Len(rest) \div BlockSize
        left == SubSeq(rest, whole * BlockSize + 1, Len(rest))
    IN  IF room <= 0 THEN context
        ELSE [state |-> context.state \o (IF full THEN <<filled>> ELSE <<>>)
                          \o [i \in 1 .. whole |-> Block(rest, i)],
              total_size |-> context.total_size + Len(data),
              buffer |-> IF left # <<>> THEN left ELSE IF full THEN <<>> ELSE filled]

(* The mark, zeros and the length: in the block at hand, or after it in one *)
(* of their own.                                                            *)
FinalFrom(context, limit) ==
    LET marked == Append(context.buffer, Mark)
        split == Len(marked) > limit
        last == IF split THEN <<>> ELSE marked
    IN  context.state
          \o (IF split THEN <<marked \o Zeros(BlockSize - Len(marked))>> ELSE <<>>)
          \o <<last \o Zeros(BlockSize - LengthSize - Len(last))
                    \o LengthField(context.total_size)>>

(* Mutant: the mark is taken to fit although it ends inside the length. *)
FinalLate(context) == FinalFrom(context, BlockSize - LengthSize + 1)

Sha256Final(context) == FinalFrom(context, BlockSize - LengthSize)

Sha256Compute(data) == Sha256Final(Sha256Update(Sha256Init, data))

-----------------------------------------------------------------------------
(* The digest as the standard defines it: the padded message, cut up. *)
Padded(message) ==
    LET zeros == CHOOSE n \in 0 .. BlockSize - 1 :
                     (Len(message) + 1 + n + LengthSize) % BlockSize = 0
    IN  message \o <<Mark>> \o Zeros(zeros) \o LengthField(Len(message))

Digest(message) ==
    [i \in 1 .. Len(Padded(message)) \div BlockSize |-> Block(Padded(message), i)]
=============================================================================
