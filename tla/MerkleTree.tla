----------------------------- MODULE MerkleTree -----------------------------
(***************************************************************************)
(* verity.rs merkle_root and fsverity_digest_sha256: the level-by-level     *)
(* loop that reduces a file to its root hash and then to its measurement.   *)
(***************************************************************************)
EXTENDS Verity

CONSTANTS Alphabet,    \* the cells a file may have
          Data,        \* the files measured
          BlockSize    \* bs, in cells of one digest each

ASSUME DataAssumption == Data \subseteq Seq(Alphabet)
ASSUME BlockSizeAssumption == BlockSize \in Nat \ {0}

VARIABLES data, level, depth, root

vars == <<data, level, depth, root>>

NoRoot == <<"none">>
ZeroRoot == <<"zero">>

Init ==
    /\ data \in Data
    /\ level = data
    /\ depth = 0
    /\ root = NoRoot

(* An empty file has the all-zero root by definition. *)
EmptyFile ==
    /\ root = NoRoot
    /\ data = <<>>
    /\ root' = ZeroRoot
    /\ UNCHANGED <<data, level, depth>>

Blocks == CeilDiv(Len(level), BlockSize)

(* A mutant of NextLevel: the level is not replaced. *)
SameLevel ==
    /\ root = NoRoot
    /\ data # <<>>
    /\ Blocks > 1
    /\ UNCHANGED vars

NextLevel ==
    /\ root = NoRoot
    /\ data # <<>>
    /\ Blocks > 1
    /\ level' = HashLevel(level, BlockSize)
    /\ depth' = depth + 1
    /\ UNCHANGED <<data, root>>

LastBlock ==
    /\ root = NoRoot
    /\ data # <<>>
    /\ Blocks <= 1
    /\ root' = HashBlock(level, BlockSize)
    /\ UNCHANGED <<data, level, depth>>

Step == EmptyFile \/ NextLevel \/ LastBlock

Measured == root # NoRoot /\ UNCHANGED vars

Next == Step \/ Measured

Spec == Init /\ [][Next]_vars /\ WF_vars(Step)

(* A mutant of Descriptor: the length is left out. *)
DescriptorNoLength(n, r) == <<"sha256", <<r>>>>

(* The descriptor that is hashed into the measurement has the root and the   *)
(* file's length in it.                                                      *)
Descriptor(n, r) == <<"sha256", <<n, r>>>>
Measurement == Descriptor(Len(data), root)

-----------------------------------------------------------------------------
(* What fsverity_digest_sha256 should give for a file, all levels at once:   *)
(* the tree's levels from the file up, the first of them that fits in one    *)
(* block, and the descriptor over that block's digest.                       *)
LevelsOf(f) == LET L[k \in Nat] == IF k = 0 THEN f ELSE HashLevel(L[k - 1], BlockSize) IN L
IsHeight(f, d) ==
    /\ Len(LevelsOf(f)[d]) <= BlockSize
    /\ \A j \in 0..d - 1 : Len(LevelsOf(f)[j]) > BlockSize
Height(f) == CHOOSE d \in 0..Len(f) : IsHeight(f, d)
RootOf(f) == IF f = <<>> THEN ZeroRoot ELSE HashBlock(LevelsOf(f)[Height(f)], BlockSize)
MeasurementOf(f) == Descriptor(Len(f), RootOf(f))

(* The cells under a padded level of digests: those each digest is made of,  *)
(* up to the padding.                                                        *)
Digests(cells) ==
    CHOOSE n \in 0..Len(cells) : (\A i \in 1..n : cells[i] # Zero) /\ (n < Len(cells) => cells[n + 1] = Zero)
Under(cells) ==
    [k \in 1..Digests(cells) * BlockSize |-> cells[(k - 1) \div BlockSize + 1][2][((k - 1) % BlockSize) + 1]]

(* The file cells a digest commits to, read back out of the digest by        *)
(* opening it as often as the tree is deep.                                  *)
Opened(digest, d) == LET down[k \in 0..d] == IF k = 0 THEN digest[2] ELSE Under(down[k - 1]) IN down[d]

(* The root commits to the whole file, in order: opening it gives the file   *)
(* back, followed only by the zeros that pad its last block.                 *)
RootCoversFile ==
    root \notin {NoRoot, ZeroRoot} =>
        LET cells == Opened(root, depth)
        IN  /\ Len(cells) = CeilDiv(Len(data), BlockSize) * BlockSize
            /\ \A i \in 1..Len(cells) : cells[i] = IF i <= Len(data) THEN data[i] ELSE Zero

(* The measurement the loop ends with stands for the file and for no other:  *)
(* the padding alone cannot tell a file from one with zeros after it, the    *)
(* length does.                                                              *)
MeasurementBinds ==
    root # NoRoot => \A f \in Data : MeasurementOf(f) = Measurement <=> f = data

(* The verifier built over a file accepts exactly the file's own blocks, at  *)
(* their own offsets, up to the zero padding of the last one.                *)
VerifierIsExact ==
    \A off \in 0..Len(data) + BlockSize, n \in 1..BlockSize : \A b \in [1..n -> Alphabet] :
        VerifyBlock(Leaves(data, BlockSize), BlockSize, off, b) = "ok" <=>
            /\ \E i \in 0..Len(data) : off = i * BlockSize
            /\ off < Len(data)
            /\ \A k \in 1..BlockSize :
                 (IF k <= n THEN b[k] ELSE Zero) = (IF off + k <= Len(data) THEN data[off + k] ELSE Zero)

(* merkle_root's loop ends: each level is shorter than the one below. *)
Terminates == <>(root # NoRoot)
=============================================================================
