------------------------------- MODULE Verity -------------------------------
(***************************************************************************)
(* lamfold's verity.rs: the fs-verity Merkle tree over a file and the       *)
(* verifier a frontend consults for each block it reads.  SHA-256 is        *)
(* external; it stands here for an injective function, the digest of a      *)
(* string being the tuple <<"sha256", string>>.  A string is a sequence of  *)
(* cells: a cell of file data is a 1-tuple <<b>>, and a digest fills one    *)
(* cell of the next level (HASH_LEN is one cell).  The salt is the same for *)
(* every hash of one tree and is left out.                                  *)
(***************************************************************************)
EXTENDS Naturals, Sequences

CeilDiv(n, d) == (n + d - 1) \div d
LeastOf(a, b) == IF a < b THEN a ELSE b

Zero == <<0>>
Pad(block, bs) == [i \in 1..bs |-> IF i <= Len(block) THEN block[i] ELSE Zero]

(* hash_block; the subtraction bs - block.len() makes a longer block panic,  *)
(* so it has no value here.                                                  *)
HashBlock(block, bs) == <<"sha256", Pad(block, bs)>>

(* Block i (from 0) of a level. *)
BlockOf(level, i, bs) == SubSeq(level, i * bs + 1, LeastOf((i + 1) * bs, Len(level)))

(* A mutant of HashLevel: a last partial block is dropped. *)
HashFullBlocks(level, bs) ==
    [i \in 1..(Len(level) \div bs) |-> HashBlock(BlockOf(level, i - 1, bs), bs)]

(* One round of merkle_root's loop: the digests of a level's blocks. *)
HashLevel(level, bs) ==
    [i \in 1..CeilDiv(Len(level), bs) |-> HashBlock(BlockOf(level, i - 1, bs), bs)]

(* MerkleVerifier::over *)
Leaves(data, bs) == HashLevel(data, bs)

(* A mutant of VerifyBlock: the alignment is not checked. *)
VerifyAnyOffset(leaves, bs, offset, block) ==
    IF offset \div bs >= Len(leaves) THEN "VerifyFailed"
    ELSE IF HashBlock(block, bs) = leaves[offset \div bs + 1] THEN "ok" ELSE "VerifyFailed"

(* MerkleVerifier::verify_block *)
VerifyBlock(leaves, bs, offset, block) ==
    IF offset % bs # 0 THEN "VerifyFailed"
    ELSE IF offset \div bs >= Len(leaves) THEN "VerifyFailed"
    ELSE IF HashBlock(block, bs) = leaves[offset \div bs + 1] THEN "ok" ELSE "VerifyFailed"
=============================================================================
