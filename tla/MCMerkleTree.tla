---------------------------- MODULE MCMerkleTree ----------------------------
(***************************************************************************)
(* Instances of MerkleTree for TLC: all files of zeros and ones up to       *)
(* MaxLen cells, measured with two cells per block.                         *)
(***************************************************************************)
EXTENDS MerkleTree

CONSTANT MaxLen

Bits == {<<0>>, <<1>>}
Files == UNION {[1..n -> Bits] : n \in 0..MaxLen}
=============================================================================
