--------------------------- MODULE VerityProofs ------------------------------
(***************************************************************************)
(* Lemmas about verity.rs's operators, for every file and every block size: *)
(* how a level is cut into blocks, and what the verifier accepts.  The      *)
(* first part has the arithmetic and the induction they rest on.            *)
(***************************************************************************)
EXTENDS Verity, SequenceTheorems, WellFoundedInduction, TLAPS

(* A set of naturals that is not empty has a least element; and what holds   *)
(* of 0 and of n + 1 with n holds of every natural.  Both are stated of sets, *)
(* so that no operator has to be instantiated.                               *)
LEMMA NatLeast ==
    ASSUME NEW S, S \subseteq Nat, S # {}
    PROVE  \E x \in S : \A y \in S : x <= y
  <1> DEFINE R == {ss \in Nat \X Nat : ss[1] < ss[2]}
  <1>1. IsWellFoundedOn(R, Nat)
    BY NatLessThanWellFounded DEF OpToRel
  <1> HIDE DEF R
  <1>2. PICK x \in S : \A y \in S : ~ (<<y, x>> \in R)
    BY <1>1, WFMin
  <1>3. ASSUME NEW y \in S PROVE x <= y
    <2>1. x \in Nat /\ y \in Nat
      OBVIOUS
    <2>2. <<y, x>> \in R <=> y < x
      BY <2>1 DEF R
    <2> QED  BY <1>2, <2>1, <2>2
  <1> QED  BY <1>3

LEMMA NatInd ==
    ASSUME NEW S, 0 \in S, \A n \in Nat : n \in S => n + 1 \in S
    PROVE  \A n \in Nat : n \in S
  <1> DEFINE B == {n \in Nat : n \notin S}
  <1> SUFFICES ASSUME B # {} PROVE FALSE
    OBVIOUS
  <1>1. PICK x \in B : \A y \in B : x <= y
    <2> HIDE DEF B
    <2>1. B \subseteq Nat
      BY DEF B
    <2> QED  BY <2>1, NatLeast
  <1>2. x # 0 /\ x - 1 \in Nat /\ (x - 1) + 1 = x
    OBVIOUS
  <1>3. x - 1 \in B
    BY <1>2
  <1> QED  BY <1>1, <1>2, <1>3

LEMMA DivMod ==
    ASSUME NEW n \in Nat, NEW d \in Nat \ {0}
    PROVE  /\ n \div d \in Nat
           /\ d * (n \div d) <= n
           /\ n < d * (n \div d) + d
           /\ n % d = n - d * (n \div d)
           /\ n % d \in 0..d - 1
  OBVIOUS

LEMMA Times ==
    ASSUME NEW a \in Nat, NEW b \in Nat, NEW d \in Nat \ {0}
    PROVE  /\ d * a \in Nat
           /\ a <= b <=> d * a <= d * b
           /\ a < b <=> d * a < d * b
           /\ a < b => d * a + d <= d * b
           /\ a * d = d * a
           /\ (a + 1) * d = d * a + d
  OBVIOUS

LEMMA DivUnique ==
    ASSUME NEW n \in Nat, NEW d \in Nat \ {0}, NEW q \in Nat, d * q <= n, n < d * q + d
    PROVE  n \div d = q
  OBVIOUS

LEMMA DivMonotone ==
    ASSUME NEW m \in Nat, NEW n \in Nat, NEW d \in Nat \ {0}, m <= n
    PROVE  m \div d <= n \div d
  OBVIOUS

(* div_ceil counts exactly the blocks that start before the end. *)
LEMMA CeilCounts ==
    ASSUME NEW n \in Nat, NEW d \in Nat \ {0}
    PROVE  /\ CeilDiv(n, d) \in Nat
           /\ n <= d * CeilDiv(n, d)
           /\ d * CeilDiv(n, d) < n + d
           /\ \A i \in Nat : i < CeilDiv(n, d) <=> d * i < n
  <1> DEFINE m == n + d - 1
             c == m \div d
  <1>1. m \in Nat /\ CeilDiv(n, d) = c
    BY DEF CeilDiv
  <1>2. c \in Nat /\ d * c <= m /\ m < d * c + d
    BY <1>1, DivMod
  <1>3. d * c \in Nat
    BY <1>2, Times
  <1> HIDE DEF c
  <1>4. n <= d * c /\ d * c < n + d
    BY <1>2, <1>3
  <1>5. ASSUME NEW i \in Nat PROVE i < c <=> d * i < n
    <2>1. d * i \in Nat
      BY Times
    <2>2. i < c => d * i + d <= d * c
      BY <1>2, Times
    <2>3. c <= i => d * c <= d * i
      BY <1>2, Times
    <2> QED  BY <1>2, <1>3, <1>4, <2>1, <2>2, <2>3
  <1> QED  BY <1>1, <1>2, <1>4, <1>5

-----------------------------------------------------------------------------
(* A cell of a block padded to its full size. *)
Padded(block, k) == IF k <= Len(block) THEN block[k] ELSE Zero

(* Block i of a level holds the level's cells from i * bs on. *)
LEMMA BlockCells ==
    ASSUME NEW S, NEW level \in Seq(S), NEW bs \in Nat \ {0}, NEW i \in Nat, bs * i < Len(level)
    PROVE  /\ BlockOf(level, i, bs) \in Seq(S)
           /\ Len(BlockOf(level, i, bs)) = LeastOf(bs, Len(level) - bs * i)
           /\ \A k \in 1..bs : Padded(BlockOf(level, i, bs), k)
                                 = IF bs * i + k <= Len(level) THEN level[bs * i + k] ELSE Zero
  <1> DEFINE lo == bs * i
             hi == LeastOf(lo + bs, Len(level))
             b == SubSeq(level, lo + 1, hi)
  <1>1. Len(level) \in Nat /\ lo \in Nat
    BY Times
  <1>2. i * bs = lo /\ (i + 1) * bs = lo + bs
    BY Times
  <1>3. BlockOf(level, i, bs) = b
    BY <1>2 DEF BlockOf
  <1>8. lo < Len(level)
    OBVIOUS
  <1> HIDE DEF lo
  <1>4. hi \in lo + 1..Len(level) /\ hi - lo = LeastOf(bs, Len(level) - lo)
    BY <1>1, <1>8 DEF LeastOf
  <1>5. \A j \in lo + 1..hi : level[j] \in S
    BY <1>1, <1>4
  <1>6. /\ b \in Seq(S)
        /\ Len(b) = hi - lo
        /\ \A k \in 1..Len(b) : b[k] = level[lo + k]
    <2>1. lo + 1 \in Int /\ hi \in Int /\ lo + 1 <= hi
      BY <1>1, <1>4
    <2>2. /\ b \in Seq(S)
          /\ Len(b) = hi - (lo + 1) + 1
          /\ \A k \in 1..hi - (lo + 1) + 1 : b[k] = level[(lo + 1) + k - 1]
      BY <1>5, <2>1, SubSeqProperties
    <2> QED  BY <1>1, <1>4, <2>2
  <1>7. ASSUME NEW k \in 1..bs
        PROVE  Padded(b, k) = IF lo + k <= Len(level) THEN level[lo + k] ELSE Zero
    <2>1. k <= Len(b) <=> lo + k <= Len(level)
      BY <1>1, <1>4, <1>6 DEF LeastOf
    <2> QED  BY <1>1, <1>4, <1>6, <2>1 DEF Padded
  <1> QED  BY <1>3, <1>4, <1>6, <1>7 DEF lo

(* The digest of a block determines its padded cells, and nothing else. *)
LEMMA HashBinds ==
    ASSUME NEW a, NEW b, NEW bs \in Nat
    PROVE  HashBlock(a, bs) = HashBlock(b, bs) <=> \A k \in 1..bs : Padded(a, k) = Padded(b, k)
  <1>1. HashBlock(a, bs) = HashBlock(b, bs) <=> Pad(a, bs) = Pad(b, bs)
    BY DEF HashBlock
  <1>2. Pad(a, bs) = [k \in 1..bs |-> Padded(a, k)] /\ Pad(b, bs) = [k \in 1..bs |-> Padded(b, k)]
    BY DEF Pad, Padded
  <1> QED  BY <1>1, <1>2

(* verify_block accepts a block at an offset exactly when the offset is one  *)
(* of the file's block boundaries and the block has the file's cells there,  *)
(* up to the padding of the last block.                                      *)
LEMMA VerifierAccepts ==
    ASSUME NEW S, NEW data \in Seq(S), NEW bs \in Nat \ {0}, NEW off \in Nat, NEW b
    PROVE  VerifyBlock(Leaves(data, bs), bs, off, b) = "ok" <=>
             /\ off % bs = 0
             /\ off < Len(data)
             /\ \A k \in 1..bs :
                  Padded(b, k) = IF off + k <= Len(data) THEN data[off + k] ELSE Zero
  <1> DEFINE i == off \div bs
             n == CeilDiv(Len(data), bs)
             leaves == Leaves(data, bs)
  <1>1. Len(data) \in Nat
    OBVIOUS
  <1>2. i \in Nat /\ off % bs = off - bs * i /\ bs * i \in Nat
    BY DivMod, Times
  <1>3. n \in Nat /\ (i < n <=> bs * i < Len(data))
    BY <1>1, <1>2, CeilCounts
  <1> HIDE DEF i, n
  <1>4. Len(leaves) = n /\ \A j \in 1..n : leaves[j] = HashBlock(BlockOf(data, j - 1, bs), bs)
    BY <1>3 DEF Leaves, HashLevel, n
  <1> HIDE DEF leaves
  <1>5. CASE off % bs # 0
    BY <1>5 DEF VerifyBlock
  <1>6. CASE off % bs = 0
    <2>1. off = bs * i
      BY <1>2, <1>6
    <2>2. CASE i >= n
      <3>1. ~ (off < Len(data))
        BY <1>1, <1>2, <1>3, <2>1, <2>2
      <3>2. VerifyBlock(leaves, bs, off, b) # "ok"
        BY <1>4, <1>6, <2>2 DEF VerifyBlock, i
      <3> QED  BY <3>1, <3>2 DEF leaves
    <2>3. CASE i < n
      <3>1. i + 1 \in 1..n /\ (i + 1) - 1 = i
        BY <1>2, <1>3, <2>3
      <3>2. leaves[i + 1] = HashBlock(BlockOf(data, i, bs), bs)
        BY <1>4, <3>1
      <3>3. VerifyBlock(leaves, bs, off, b) = "ok" <=>
              HashBlock(b, bs) = HashBlock(BlockOf(data, i, bs), bs)
        BY <1>2, <1>3, <1>4, <1>6, <2>3, <3>2 DEF VerifyBlock, i
      <3>4. bs * i < Len(data)
        BY <1>3, <2>3
      <3>5. \A k \in 1..bs : Padded(BlockOf(data, i, bs), k)
                                = IF bs * i + k <= Len(data) THEN data[bs * i + k] ELSE Zero
        BY <1>2, <3>4, BlockCells
      <3>6. HashBlock(b, bs) = HashBlock(BlockOf(data, i, bs), bs) <=>
              \A k \in 1..bs : Padded(b, k) = Padded(BlockOf(data, i, bs), k)
        BY HashBinds
      <3> QED  BY <1>6, <2>1, <3>3, <3>4, <3>5, <3>6 DEF leaves
    <2> QED  BY <1>2, <1>3, <2>2, <2>3
  <1> QED  BY <1>5, <1>6
=============================================================================
