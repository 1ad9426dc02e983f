-------------------------- MODULE MerkleTreeProofs ---------------------------
(***************************************************************************)
(* Proofs about the Merkle loop and the verifier, for every file and every  *)
(* block size.                                                              *)
(***************************************************************************)
EXTENDS MerkleTree, VerityProofs

-----------------------------------------------------------------------------
(* The levels of a file exist: a recursive function is a CHOOSE, and what it *)
(* is chosen to be has to be shown possible.  Climb says that g holds the    *)
(* levels 0 to n.                                                            *)
Climb(f, n, g) ==
    /\ DOMAIN g = 0..n
    /\ g[0] = f
    /\ \A k \in 0..n - 1 : g[k + 1] = HashLevel(g[k], BlockSize)

LEMMA ClimbExists == ASSUME NEW f PROVE \A n \in Nat : \E g : Climb(f, n, g)
  <1> DEFINE S == {n \in Nat : \E g : Climb(f, n, g)}
  <1>1. 0 \in S
    <2> DEFINE g == [k \in 0..0 |-> f]
    <2>1. Climb(f, 0, g)
      BY DEF Climb
    <2> QED  BY <2>1
  <1>2. ASSUME NEW n \in Nat, n \in S PROVE n + 1 \in S
    <2>1. PICK g : Climb(f, n, g)
      BY <1>2
    <2> DEFINE h == [k \in 0..n + 1 |-> IF k = n + 1 THEN HashLevel(g[n], BlockSize) ELSE g[k]]
    <2>2. DOMAIN h = 0..n + 1 /\ h[0] = f
      BY <2>1 DEF Climb
    <2>3. ASSUME NEW k \in 0..n PROVE h[k + 1] = HashLevel(h[k], BlockSize)
      <3>1. h[k] = g[k]
        OBVIOUS
      <3>2. CASE k = n
        BY <3>1, <3>2
      <3>3. CASE k # n
        <4>1. k \in 0..n - 1 /\ h[k + 1] = g[k + 1]
          BY <3>3
        <4> QED  BY <2>1, <3>1, <4>1 DEF Climb
      <3> QED  BY <3>2, <3>3
    <2>4. Climb(f, n + 1, h)
      <3> HIDE DEF h
      <3> QED  BY <2>2, <2>3 DEF Climb
    <2> QED  BY <2>4
  <1> HIDE DEF S
  <1>3. \A n \in Nat : n \in S
    BY <1>1, <1>2, NatInd
  <1> QED  BY <1>3 DEF S

LEMMA ClimbsAgree ==
    ASSUME NEW f, NEW m \in Nat, NEW n \in Nat, NEW g, NEW h, Climb(f, m, g), Climb(f, n, h)
    PROVE  \A k \in Nat : k <= m /\ k <= n => g[k] = h[k]
  <1> DEFINE S == {k \in Nat : k <= m /\ k <= n => g[k] = h[k]}
  <1>1. 0 \in S
    BY DEF Climb
  <1>2. ASSUME NEW k \in Nat, k \in S PROVE k + 1 \in S
    <2> SUFFICES ASSUME k + 1 <= m, k + 1 <= n PROVE g[k + 1] = h[k + 1]
      OBVIOUS
    <2>1. k \in 0..m - 1 /\ k \in 0..n - 1 /\ k <= m /\ k <= n
      OBVIOUS
    <2>2. g[k] = h[k]
      BY <1>2, <2>1
    <2> QED  BY <2>1, <2>2 DEF Climb
  <1> HIDE DEF S
  <1>3. \A k \in Nat : k \in S
    BY <1>1, <1>2, NatInd
  <1> QED  BY <1>3 DEF S

LEMMA LevelsStep ==
    ASSUME NEW f
    PROVE  /\ LevelsOf(f)[0] = f
           /\ \A k \in Nat : LevelsOf(f)[k + 1] = HashLevel(LevelsOf(f)[k], BlockSize)
  <1> DEFINE Up(n) == CHOOSE g : Climb(f, n, g)
             G == [k \in Nat |-> Up(k)[k]]
             L == LevelsOf(f)
  <1>1. \A n \in Nat : Climb(f, n, Up(n))
    BY ClimbExists
  <1> HIDE DEF Up
  <1>2. G[0] = f
    BY <1>1 DEF Climb
  <1>3. ASSUME NEW k \in Nat PROVE G[k + 1] = HashLevel(G[k], BlockSize)
    <2>1. Climb(f, k, Up(k)) /\ Climb(f, k + 1, Up(k + 1))
      BY <1>1
    <2>2. k + 1 \in Nat /\ k <= k /\ k <= k + 1 /\ k \in 0..(k + 1) - 1
      OBVIOUS
    <2>3. Up(k)[k] = Up(k + 1)[k]
      BY <2>1, <2>2, ClimbsAgree
    <2>4. Up(k + 1)[k + 1] = HashLevel(Up(k + 1)[k], BlockSize)
      BY <2>1, <2>2 DEF Climb
    <2> QED  BY <2>2, <2>3, <2>4
  <1>4. G = [k \in Nat |-> IF k = 0 THEN f ELSE HashLevel(G[k - 1], BlockSize)]
    <2>1. ASSUME NEW k \in Nat, k # 0 PROVE G[k] = HashLevel(G[k - 1], BlockSize)
      <3>1. k - 1 \in Nat /\ (k - 1) + 1 = k
        BY <2>1
      <3> HIDE DEF G
      <3> QED  BY <1>3, <3>1
    <2>2. G = [k \in Nat |-> G[k]]
      OBVIOUS
    <2> HIDE DEF G
    <2> QED  BY <1>2, <2>1, <2>2
  <1> HIDE DEF G
  <1>5. L = [k \in Nat |-> IF k = 0 THEN f ELSE HashLevel(L[k - 1], BlockSize)]
    BY <1>4 DEF LevelsOf
  <1> HIDE DEF L
  <1>6. L[0] = f
    BY <1>5
  <1>7. ASSUME NEW k \in Nat PROVE L[k + 1] = HashLevel(L[k], BlockSize)
    <2>1. k + 1 \in Nat /\ k + 1 # 0 /\ (k + 1) - 1 = k
      OBVIOUS
    <2> QED  BY <1>5, <2>1
  <1> QED  BY <1>6, <1>7 DEF L

-----------------------------------------------------------------------------
(* What the digests of a level determine. *)
IsSeq(l) == \E S : l \in Seq(S)

LEMMA LevelType ==
    ASSUME NEW l, IsSeq(l)
    PROVE  /\ Len(l) \in Nat
           /\ IsSeq(HashLevel(l, BlockSize))
           /\ Len(HashLevel(l, BlockSize)) = CeilDiv(Len(l), BlockSize)
           /\ \A i \in 1..CeilDiv(Len(l), BlockSize) :
                HashLevel(l, BlockSize)[i] = HashBlock(BlockOf(l, i - 1, BlockSize), BlockSize)
  <1> DEFINE n == CeilDiv(Len(l), BlockSize)
             h == HashLevel(l, BlockSize)
             S == {h[i] : i \in 1..n}
  <1>1. Len(l) \in Nat
    BY DEF IsSeq
  <1>2. n \in Nat
    BY <1>1, BlockSizeAssumption, CeilCounts
  <1>3. h = [i \in 1..n |-> HashBlock(BlockOf(l, i - 1, BlockSize), BlockSize)]
    BY DEF HashLevel
  <1> HIDE DEF n, h
  <1>4. Len(h) = n /\ h \in Seq(S)
    <2>1. h \in [1..n -> S]
      BY <1>3
    <2> HIDE DEF S
    <2> QED  BY <1>2, <2>1
  <1>5. \A i \in 1..n : h[i] = HashBlock(BlockOf(l, i - 1, BlockSize), BlockSize)
    BY <1>3
  <1> QED  BY <1>1, <1>4, <1>5 DEF IsSeq, n, h

(* A level is determined by its length and the digests of its blocks. *)
LEMMA HashLevelBinds ==
    ASSUME NEW a, NEW b, IsSeq(a), IsSeq(b), Len(a) = Len(b),
           HashLevel(a, BlockSize) = HashLevel(b, BlockSize)
    PROVE  a = b
  <1>1. PICK A : a \in Seq(A)
    BY DEF IsSeq
  <1>2. PICK B : b \in Seq(B)
    BY DEF IsSeq
  <1>3. Len(a) \in Nat
    BY <1>1
  <1>4. ASSUME NEW j \in 1..Len(a) PROVE a[j] = b[j]
    <2> DEFINE i == (j - 1) \div BlockSize
               k == ((j - 1) % BlockSize) + 1
               c == CeilDiv(Len(a), BlockSize)
               lo == BlockSize * i
    <2>0. j - 1 \in Nat /\ j - 1 < Len(a) /\ BlockSize \in Nat \ {0}
      BY <1>3, BlockSizeAssumption
    <2>1. /\ i \in Nat /\ lo <= j - 1 /\ (j - 1) % BlockSize = j - 1 - lo
          /\ (j - 1) % BlockSize \in 0..BlockSize - 1
      BY <2>0, DivMod
    <2>2. lo \in Nat
      BY <2>0, <2>1, Times
    <2>3. c \in Nat /\ (i < c <=> lo < Len(a))
      BY <1>3, <2>0, <2>1, CeilCounts
    <2> HIDE DEF i, c, lo
    <2>4. k \in 1..BlockSize /\ lo + k = j /\ lo < Len(a)
      BY <1>3, <2>0, <2>1, <2>2
    <2>5. i + 1 \in 1..c /\ (i + 1) - 1 = i
      BY <2>1, <2>3, <2>4
    <2>6. HashBlock(BlockOf(a, i, BlockSize), BlockSize) = HashBlock(BlockOf(b, i, BlockSize), BlockSize)
      <3>1. HashLevel(a, BlockSize)[i + 1] = HashBlock(BlockOf(a, i, BlockSize), BlockSize)
        BY <2>5, LevelType DEF c
      <3>2. HashLevel(b, BlockSize)[i + 1] = HashBlock(BlockOf(b, i, BlockSize), BlockSize)
        BY <2>5, LevelType DEF c
      <3> QED  BY <3>1, <3>2
    <2> HIDE DEF k
    <2>7. Padded(BlockOf(a, i, BlockSize), k) = Padded(BlockOf(b, i, BlockSize), k)
      BY <2>0, <2>4, <2>6, HashBinds
    <2>8. Padded(BlockOf(a, i, BlockSize), k) = IF lo + k <= Len(a) THEN a[lo + k] ELSE Zero
      BY <1>1, <2>0, <2>1, <2>4, BlockCells DEF lo
    <2>9. Padded(BlockOf(b, i, BlockSize), k) = IF lo + k <= Len(b) THEN b[lo + k] ELSE Zero
      BY <1>2, <2>0, <2>1, <2>4, BlockCells DEF lo
    <2>10. lo + k <= Len(a) /\ lo + k <= Len(b)
      BY <1>3, <2>4
    <2> QED  BY <2>4, <2>7, <2>8, <2>9, <2>10
  <1>5. a \in Seq(A \cup B) /\ b \in Seq(A \cup B)
    BY <1>1, <1>2
  <1> QED  BY <1>4, <1>5, SeqEqual

(* So is a level of at most one block, by its length and that digest. *)
LEMMA LastBlockBinds ==
    ASSUME NEW a, NEW b, IsSeq(a), IsSeq(b), Len(a) = Len(b), Len(a) <= BlockSize,
           HashBlock(a, BlockSize) = HashBlock(b, BlockSize)
    PROVE  a = b
  <1>1. PICK A : a \in Seq(A)
    BY DEF IsSeq
  <1>2. PICK B : b \in Seq(B)
    BY DEF IsSeq
  <1>3. \A k \in 1..BlockSize : Padded(a, k) = Padded(b, k)
    BY BlockSizeAssumption, HashBinds
  <1>4. ASSUME NEW k \in 1..Len(a) PROVE a[k] = b[k]
    <2>1. k \in 1..BlockSize /\ k <= Len(a) /\ k <= Len(b)
      BY <1>1, BlockSizeAssumption
    <2> QED  BY <1>3, <2>1 DEF Padded
  <1>5. a \in Seq(A \cup B) /\ b \in Seq(A \cup B)
    BY <1>1, <1>2
  <1> QED  BY <1>4, <1>5, SeqEqual

(* The lengths of the levels depend on the length of the file alone. *)
LEMMA LevelLengths ==
    ASSUME NEW f, NEW g, IsSeq(f), IsSeq(g), Len(f) = Len(g)
    PROVE  \A k \in Nat : /\ IsSeq(LevelsOf(f)[k]) /\ IsSeq(LevelsOf(g)[k])
                          /\ Len(LevelsOf(f)[k]) = Len(LevelsOf(g)[k])
  <1> DEFINE P(k) == /\ IsSeq(LevelsOf(f)[k]) /\ IsSeq(LevelsOf(g)[k])
                     /\ Len(LevelsOf(f)[k]) = Len(LevelsOf(g)[k])
             S == {k \in Nat : P(k)}
  <1>1. 0 \in S
    BY LevelsStep
  <1>2. ASSUME NEW k \in Nat, k \in S PROVE k + 1 \in S
    <2>1. P(k)
      BY <1>2
    <2>2. /\ LevelsOf(f)[k + 1] = HashLevel(LevelsOf(f)[k], BlockSize)
          /\ LevelsOf(g)[k + 1] = HashLevel(LevelsOf(g)[k], BlockSize)
      BY LevelsStep
    <2>3. P(k + 1)
      BY <2>1, <2>2, LevelType
    <2> QED  BY <2>3
  <1> HIDE DEF S
  <1>3. \A k \in Nat : k \in S
    BY <1>1, <1>2, NatInd
  <1> QED  BY <1>3 DEF S

(* Two files of one length with the same level d are the same file: down the *)
(* tree from level d, each level is determined by the one above.             *)
LEMMA LevelBinds ==
    ASSUME NEW f, NEW g, IsSeq(f), IsSeq(g), Len(f) = Len(g),
           NEW d \in Nat, LevelsOf(f)[d] = LevelsOf(g)[d]
    PROVE  f = g
  <1> DEFINE F == LevelsOf(f)
             G == LevelsOf(g)
             S == {n \in Nat : n <= d => F[d - n] = G[d - n]}
  <1>0. /\ F[0] = f /\ G[0] = g
        /\ \A k \in Nat : F[k + 1] = HashLevel(F[k], BlockSize) /\ G[k + 1] = HashLevel(G[k], BlockSize)
        /\ \A k \in Nat : IsSeq(F[k]) /\ IsSeq(G[k]) /\ Len(F[k]) = Len(G[k])
    BY LevelsStep, LevelLengths
  <1>1. F[d] = G[d]
    OBVIOUS
  <1> HIDE DEF F, G
  <1>2. 0 \in S
    <2>1. d - 0 = d
      OBVIOUS
    <2> QED  BY <1>1, <2>1
  <1>3. ASSUME NEW n \in Nat, n \in S PROVE n + 1 \in S
    <2> SUFFICES ASSUME n + 1 <= d PROVE F[d - (n + 1)] = G[d - (n + 1)]
      OBVIOUS
    <2> DEFINE k == d - (n + 1)
    <2>1. k \in Nat /\ k + 1 = d - n /\ n <= d
      OBVIOUS
    <2> HIDE DEF k
    <2>2. F[k + 1] = G[k + 1]
      BY <1>3, <2>1
    <2>3. HashLevel(F[k], BlockSize) = HashLevel(G[k], BlockSize)
      BY <1>0, <2>1, <2>2
    <2>4. F[k] = G[k]
      BY <1>0, <2>1, <2>3, HashLevelBinds
    <2> QED  BY <2>4 DEF k
  <1> HIDE DEF S
  <1>4. \A n \in Nat : n \in S
    BY <1>2, <1>3, NatInd
  <1>5. d \in S /\ d - d = 0
    BY <1>4
  <1>6. F[d - d] = G[d - d]
    BY <1>5 DEF S
  <1> QED  BY <1>0, <1>5, <1>6

(* A level of more than one block has fewer digests than cells, and as many  *)
(* if a block is one cell.                                                   *)
LEMMA CeilShrinks ==
    ASSUME NEW n \in Nat
    PROVE  /\ CeilDiv(n, BlockSize) > 1 <=> n > BlockSize
           /\ BlockSize > 1 /\ n > BlockSize => CeilDiv(n, BlockSize) < n
           /\ BlockSize = 1 => CeilDiv(n, BlockSize) = n
  <1> DEFINE c == CeilDiv(n, BlockSize)
  <1>1. /\ BlockSize \in Nat \ {0} /\ c \in Nat /\ n <= BlockSize * c /\ BlockSize * c < n + BlockSize
        /\ \A i \in Nat : i < c <=> BlockSize * i < n
    BY BlockSizeAssumption, CeilCounts
  <1> HIDE DEF c
  <1>2. c > 1 <=> n > BlockSize
    <2>1. 1 < c <=> BlockSize * 1 < n
      BY <1>1
    <2> QED  BY <1>1, <2>1
  <1>3. BlockSize = 1 => c = n
    BY <1>1
  <1>4. ASSUME BlockSize > 1, n > BlockSize, c >= n PROVE FALSE
    <2>1. BlockSize * n <= BlockSize * c
      BY <1>1, <1>4, Times
    <2>2. BlockSize * n \in Nat /\ BlockSize * c \in Nat
      BY <1>1, Times
    <2>3. n * 2 <= n * BlockSize /\ n * BlockSize = BlockSize * n
      <3>1. n \in Nat \ {0} /\ 2 \in Nat /\ BlockSize \in Nat /\ 2 <= BlockSize
        BY <1>1, <1>4
      <3> QED  BY <3>1, Times
    <2> QED  BY <1>1, <1>4, <2>1, <2>2, <2>3
  <1> QED  BY <1>1, <1>2, <1>3, <1>4 DEF c

-----------------------------------------------------------------------------
(* The loop is at level depth of the file's tree, and no level below fitted  *)
(* in one block.                                                             *)
TypeOK == data \in Data /\ depth \in Nat
AtLevel ==
    /\ level = LevelsOf(data)[depth]
    /\ \A j \in 0..depth - 1 : Len(LevelsOf(data)[j]) > BlockSize

(* Each round shortens the level, which bounds the number of rounds. *)
Shorter ==
    /\ BlockSize > 1 => depth + Len(level) <= Len(data)
    /\ BlockSize = 1 => Len(level) = Len(data)

RootOK ==
    \/ root = NoRoot
    \/ root = ZeroRoot /\ data = <<>>
    \/ root = HashBlock(level, BlockSize) /\ data # <<>> /\ Len(level) <= BlockSize

IInv == TypeOK /\ AtLevel /\ Shorter /\ RootOK

LEMMA StateType ==
    ASSUME TypeOK, AtLevel
    PROVE  /\ data \in Seq(Alphabet) /\ IsSeq(data) /\ Len(data) \in Nat
           /\ IsSeq(level) /\ Len(level) \in Nat
           /\ Blocks > 1 <=> Len(level) > BlockSize
           /\ Blocks <= 1 <=> Len(level) <= BlockSize
           /\ Blocks \in Nat /\ depth \in Nat /\ BlockSize \in Nat \ {0}
  <1>1. data \in Seq(Alphabet) /\ depth \in Nat
    BY DataAssumption DEF TypeOK
  <1>2. IsSeq(data) /\ Len(data) \in Nat
    BY <1>1 DEF IsSeq
  <1>3. IsSeq(level)
    BY <1>1, <1>2, LevelLengths DEF AtLevel
  <1>4. Len(level) \in Nat
    BY <1>3, LevelType
  <1>5. Blocks \in Nat /\ BlockSize \in Nat \ {0}
    BY <1>4, BlockSizeAssumption, CeilCounts DEF Blocks
  <1>6. Blocks > 1 <=> Len(level) > BlockSize
    BY <1>4, CeilShrinks DEF Blocks
  <1>7. Blocks <= 1 <=> Len(level) <= BlockSize
    BY <1>4, <1>5, <1>6
  <1> QED  BY <1>1, <1>2, <1>3, <1>4, <1>5, <1>6, <1>7

LEMMA InitIInv == Init => IInv
  <1> SUFFICES ASSUME Init PROVE IInv
    OBVIOUS
  <1>1. data \in Data /\ level = data /\ depth = 0 /\ root = NoRoot
    BY DEF Init
  <1>2. TypeOK /\ RootOK
    BY <1>1 DEF TypeOK, RootOK
  <1>3. AtLevel
    BY <1>1, LevelsStep DEF AtLevel
  <1>4. Shorter
    BY <1>1, <1>2, <1>3, StateType DEF Shorter
  <1> QED  BY <1>2, <1>3, <1>4 DEF IInv

LEMMA EmptyFileIInv == IInv /\ EmptyFile => IInv'
  BY DEF IInv, TypeOK, AtLevel, Shorter, RootOK, EmptyFile

LEMMA NextLevelIInv == IInv /\ NextLevel => IInv'
  <1> SUFFICES ASSUME IInv, NextLevel PROVE IInv'
    OBVIOUS
  <1>1. /\ TypeOK /\ AtLevel /\ Shorter /\ root = NoRoot /\ Blocks > 1
        /\ level' = HashLevel(level, BlockSize) /\ depth' = depth + 1 /\ data' = data /\ root' = root
    BY DEF IInv, NextLevel
  <1>2. /\ IsSeq(level) /\ Len(level) \in Nat /\ Len(data) \in Nat /\ Len(level) > BlockSize
        /\ depth \in Nat /\ BlockSize \in Nat \ {0}
    BY <1>1, StateType
  <1>3. TypeOK' /\ RootOK'
    BY <1>1, <1>2 DEF TypeOK, RootOK
  <1>4. AtLevel'
    <2>1. level' = LevelsOf(data)[depth + 1]
      BY <1>1, <1>2, LevelsStep DEF AtLevel
    <2>2. ASSUME NEW j \in 0..(depth + 1) - 1 PROVE Len(LevelsOf(data)[j]) > BlockSize
      <3>1. j \in 0..depth - 1 \/ j = depth
        BY <1>2
      <3> QED  BY <1>1, <1>2, <3>1 DEF AtLevel
    <2>3. LevelsOf(data)' = LevelsOf(data)
      BY <1>1 DEF LevelsOf
    <2> QED  BY <1>1, <2>1, <2>2, <2>3 DEF AtLevel
  <1>5. Shorter'
    <2>1. Len(level') = CeilDiv(Len(level), BlockSize) /\ CeilDiv(Len(level), BlockSize) \in Nat
      BY <1>1, <1>2, LevelType, CeilCounts
    <2>2. /\ BlockSize > 1 => CeilDiv(Len(level), BlockSize) < Len(level)
          /\ BlockSize = 1 => CeilDiv(Len(level), BlockSize) = Len(level)
      BY <1>2, CeilShrinks
    <2>3. BlockSize > 1 => depth' + Len(level') <= Len(data')
      BY <1>1, <1>2, <2>1, <2>2 DEF Shorter
    <2>4. BlockSize = 1 => Len(level') = Len(data')
      BY <1>1, <1>2, <2>1, <2>2 DEF Shorter
    <2> QED  BY <2>3, <2>4 DEF Shorter
  <1> QED  BY <1>3, <1>4, <1>5 DEF IInv

LEMMA LastBlockIInv == IInv /\ LastBlock => IInv'
  <1> SUFFICES ASSUME IInv, LastBlock PROVE IInv'
    OBVIOUS
  <1>1. /\ TypeOK /\ AtLevel /\ Shorter /\ data # <<>> /\ Blocks <= 1
        /\ root' = HashBlock(level, BlockSize) /\ data' = data /\ level' = level /\ depth' = depth
    BY DEF IInv, LastBlock
  <1>2. Len(level) <= BlockSize
    BY <1>1, StateType
  <1>3. RootOK'
    BY <1>1, <1>2 DEF RootOK
  <1>4. TypeOK' /\ AtLevel' /\ Shorter'
    BY <1>1 DEF TypeOK, AtLevel, Shorter
  <1> QED  BY <1>3, <1>4 DEF IInv

LEMMA StutterIInv == IInv /\ UNCHANGED vars => IInv'
  BY DEF IInv, TypeOK, AtLevel, Shorter, RootOK, vars

LEMMA Invariance == Spec => []IInv
  <1>1. IInv /\ [Next]_vars => IInv'
    BY EmptyFileIInv, NextLevelIInv, LastBlockIInv, StutterIInv DEF Next, Step, Measured
  <1> QED  BY <1>1, InitIInv, PTL DEF Spec

(* The root's level is the first that fits in one block, and there is only   *)
(* one such.                                                                 *)
LEMMA HeightIs ==
    ASSUME NEW f, NEW d \in 0..Len(f), IsHeight(f, d), IsSeq(f)
    PROVE  Height(f) = d
  <1> DEFINE L == LevelsOf(f)
             h == Height(f)
  <1>1. h \in 0..Len(f) /\ IsHeight(f, h)
    BY DEF Height
  <1> HIDE DEF h
  <1>2. Len(f) \in Nat /\ BlockSize \in Nat
    BY LevelType, BlockSizeAssumption
  <1>3. \A j \in Nat : Len(L[j]) \in Nat
    BY LevelLengths, LevelType
  <1>4. ~ h < d
    <2>1. h < d => h \in 0..d - 1
      BY <1>1, <1>2
    <2>2. Len(L[h]) <= BlockSize /\ Len(L[h]) \in Nat
      BY <1>1, <1>2, <1>3 DEF IsHeight
    <2>3. h < d => Len(L[h]) > BlockSize
      BY <2>1 DEF IsHeight
    <2> HIDE DEF L
    <2> QED  BY <1>2, <2>2, <2>3
  <1>5. ~ d < h
    <2>1. d < h => d \in 0..h - 1
      BY <1>1, <1>2
    <2>2. Len(L[d]) <= BlockSize /\ Len(L[d]) \in Nat
      BY <1>2, <1>3 DEF IsHeight
    <2>3. d < h => Len(L[d]) > BlockSize
      BY <1>1, <2>1 DEF IsHeight
    <2> HIDE DEF L
    <2> QED  BY <1>2, <2>2, <2>3
  <1> QED  BY <1>1, <1>2, <1>4, <1>5 DEF h

LEMMA Binds == IInv => MeasurementBinds
  <1> SUFFICES ASSUME IInv, root # NoRoot, NEW f \in Data
               PROVE  MeasurementOf(f) = Measurement <=> f = data
    BY DEF MeasurementBinds
  <1>1. TypeOK /\ AtLevel /\ Shorter /\ RootOK
    BY DEF IInv
  <1>2. /\ IsSeq(data) /\ Len(data) \in Nat /\ data \in Seq(Alphabet)
        /\ IsSeq(level) /\ Len(level) \in Nat /\ depth \in Nat /\ BlockSize \in Nat \ {0}
    BY <1>1, StateType
  <1>3. f \in Seq(Alphabet) /\ IsSeq(f) /\ Len(f) \in Nat
    <2>1. f \in Seq(Alphabet)
      BY DataAssumption
    <2> QED  BY <2>1 DEF IsSeq
  <1>4. MeasurementOf(f) = Measurement <=> Len(f) = Len(data) /\ RootOf(f) = root
    BY DEF MeasurementOf, Measurement, Descriptor
  <1>5. CASE root = ZeroRoot /\ data = <<>>
    <2>1. Len(f) = Len(data) <=> f = data
      BY <1>3, <1>5
    <2>2. f = data => RootOf(f) = root
      BY <1>5 DEF RootOf
    <2> QED  BY <1>4, <2>1, <2>2
  <1>6. CASE root = HashBlock(level, BlockSize) /\ data # <<>> /\ Len(level) <= BlockSize
    <2>1. depth \in 0..Len(data)
      <3>1. CASE BlockSize > 1
        BY <1>1, <1>2, <3>1 DEF Shorter
      <3>2. CASE BlockSize = 1
        <4>1. Len(data) <= BlockSize
          BY <1>1, <1>6, <3>2 DEF Shorter
        <4>2. depth # 0 => Len(LevelsOf(data)[0]) > BlockSize
          <5>1. depth # 0 => 0 \in 0..depth - 1
            BY <1>2
          <5> QED  BY <1>1, <5>1 DEF AtLevel
        <4>3. LevelsOf(data)[0] = data
          BY LevelsStep
        <4> QED  BY <1>2, <4>1, <4>2, <4>3
      <3> QED  BY <1>2, <3>1, <3>2
    <2>2. ASSUME Len(f) = Len(data)
          PROVE  f # <<>> /\ RootOf(f) = HashBlock(LevelsOf(f)[depth], BlockSize)
      <3>1. f # <<>>
        BY <1>2, <1>3, <1>6, <2>2
      <3>2. \A k \in Nat : Len(LevelsOf(f)[k]) = Len(LevelsOf(data)[k])
        BY <1>2, <1>3, <2>2, LevelLengths
      <3>3. IsHeight(f, depth)
        <4>1. Len(LevelsOf(f)[depth]) <= BlockSize
          BY <1>1, <1>2, <1>6, <3>2 DEF AtLevel
        <4>2. ASSUME NEW j \in 0..depth - 1 PROVE Len(LevelsOf(f)[j]) > BlockSize
          <5>1. j \in Nat
            OBVIOUS
          <5> QED  BY <1>1, <3>2, <5>1 DEF AtLevel
        <4> QED  BY <4>1, <4>2 DEF IsHeight
      <3>4. Height(f) = depth
        BY <1>3, <2>1, <2>2, <3>3, HeightIs
      <3> QED  BY <3>1, <3>4 DEF RootOf
    <2>3. f = data => RootOf(f) = root
      BY <1>1, <1>6, <2>2 DEF AtLevel
    <2>4. ASSUME Len(f) = Len(data), RootOf(f) = root PROVE f = data
      <3> DEFINE a == LevelsOf(f)[depth]
      <3>1. HashBlock(a, BlockSize) = HashBlock(level, BlockSize)
        BY <1>6, <2>2, <2>4
      <3>2. IsSeq(a) /\ Len(a) = Len(level)
        <4>0. IsSeq(f) /\ IsSeq(data) /\ Len(f) = Len(data)
          BY <1>2, <1>3, <2>4
        <4>1. \A k \in Nat : /\ IsSeq(LevelsOf(f)[k]) /\ IsSeq(LevelsOf(data)[k])
                             /\ Len(LevelsOf(f)[k]) = Len(LevelsOf(data)[k])
          BY <4>0, LevelLengths
        <4> QED  BY <1>1, <1>2, <4>1 DEF AtLevel
      <3> HIDE DEF a
      <3>3. a = level
        BY <1>2, <1>6, <3>1, <3>2, LastBlockBinds
      <3>4. LevelsOf(f)[depth] = LevelsOf(data)[depth]
        BY <1>1, <3>3 DEF a, AtLevel
      <3> QED  BY <1>2, <1>3, <2>4, <3>4, LevelBinds
    <2> QED  BY <1>4, <2>3, <2>4
  <1> QED  BY <1>1, <1>5, <1>6 DEF RootOK

(* The measurement fsverity_digest_sha256 ends with is that of the file and  *)
(* of no other, whatever its length and the block size.                      *)
THEOREM MeasurementIsTheFile == Spec => []MeasurementBinds
  BY Invariance, Binds, PTL

(* A level with the zeros that pad its last block. *)
PadLevel(l) == [k \in 1..CeilDiv(Len(l), BlockSize) * BlockSize |-> Padded(l, k)]

LEMMA PadLevelIs ==
    ASSUME NEW l, IsSeq(l)
    PROVE  /\ CeilDiv(Len(l), BlockSize) * BlockSize \in Nat
           /\ Len(l) \in Nat /\ Len(l) <= CeilDiv(Len(l), BlockSize) * BlockSize
           /\ Len(PadLevel(l)) = CeilDiv(Len(l), BlockSize) * BlockSize
           /\ \A k \in 1..CeilDiv(Len(l), BlockSize) * BlockSize :
                PadLevel(l)[k] = IF k <= Len(l) THEN l[k] ELSE Zero
  <1> DEFINE c == CeilDiv(Len(l), BlockSize)
             n == c * BlockSize
  <1>1. Len(l) \in Nat /\ BlockSize \in Nat \ {0}
    BY BlockSizeAssumption DEF IsSeq
  <1>2. c \in Nat /\ Len(l) <= BlockSize * c
    BY <1>1, CeilCounts
  <1>3. n = BlockSize * c /\ n \in Nat
    <2> HIDE DEF c
    <2> QED  BY <1>1, <1>2, Times
  <1>4. PadLevel(l) = [k \in 1..n |-> Padded(l, k)]
    BY DEF PadLevel
  <1> HIDE DEF n
  <1>5. Len(PadLevel(l)) = n /\ \A k \in 1..n : PadLevel(l)[k] = Padded(l, k)
    BY <1>3, <1>4
  <1> QED  BY <1>1, <1>2, <1>3, <1>5 DEF n, Padded

(* A file that is not empty has no empty level. *)
LEMMA LevelsAreThere ==
    ASSUME NEW f, IsSeq(f), Len(f) > 0
    PROVE  \A k \in Nat : IsSeq(LevelsOf(f)[k]) /\ Len(LevelsOf(f)[k]) > 0
  <1> DEFINE S == {k \in Nat : IsSeq(LevelsOf(f)[k]) /\ Len(LevelsOf(f)[k]) > 0}
  <1>1. 0 \in S
    BY LevelsStep
  <1>2. ASSUME NEW k \in Nat, k \in S PROVE k + 1 \in S
    <2> DEFINE l == LevelsOf(f)[k]
    <2>1. IsSeq(l) /\ Len(l) > 0
      BY <1>2
    <2>2. LevelsOf(f)[k + 1] = HashLevel(l, BlockSize)
      BY LevelsStep
    <2> HIDE DEF l
    <2>3. Len(l) \in Nat /\ IsSeq(HashLevel(l, BlockSize)) /\ Len(HashLevel(l, BlockSize)) = CeilDiv(Len(l), BlockSize)
      BY <2>1, LevelType
    <2>4. CeilDiv(Len(l), BlockSize) \in Nat /\ (0 < CeilDiv(Len(l), BlockSize) <=> BlockSize * 0 < Len(l))
      BY <2>3, BlockSizeAssumption, CeilCounts
    <2>5. CeilDiv(Len(l), BlockSize) > 0
      BY <2>1, <2>3, <2>4, BlockSizeAssumption
    <2> QED  BY <2>2, <2>3, <2>5
  <1> HIDE DEF S
  <1>3. \A k \in Nat : k \in S
    BY <1>1, <1>2, NatInd
  <1> QED  BY <1>3 DEF S

LEMMA DigestIsNoPadding == ASSUME NEW b PROVE HashBlock(b, BlockSize) # Zero
  <1>1. Len(HashBlock(b, BlockSize)) = 2 /\ Len(Zero) = 1
    BY DEF HashBlock, Zero
  <1> QED  BY <1>1

(* Opening the digests of a level gives the level, padded. *)
LEMMA UnderDigests ==
    ASSUME NEW l, IsSeq(l)
    PROVE  Under(PadLevel(HashLevel(l, BlockSize))) = PadLevel(l)
  <1> DEFINE bs == BlockSize
             h == HashLevel(l, bs)
             c == CeilDiv(Len(l), bs)
             p == PadLevel(h)
             m == Len(p)
             D(n) == (\A i \in 1..n : p[i] # Zero) /\ (n < m => p[n + 1] = Zero)
  <1>1. bs \in Nat \ {0} /\ Len(l) \in Nat
    BY BlockSizeAssumption, LevelType
  <1>2. /\ c \in Nat /\ IsSeq(h) /\ Len(h) = c
        /\ \A i \in 1..c : h[i] = HashBlock(BlockOf(l, i - 1, bs), bs)
    BY <1>1, LevelType, CeilCounts
  <1>3. /\ m \in Nat /\ c <= m
        /\ \A k \in 1..m : p[k] = IF k <= c THEN h[k] ELSE Zero
    <2> HIDE DEF h, c, p
    <2>1. /\ CeilDiv(Len(h), bs) * bs \in Nat /\ Len(h) <= CeilDiv(Len(h), bs) * bs
          /\ Len(PadLevel(h)) = CeilDiv(Len(h), bs) * bs
          /\ \A k \in 1..CeilDiv(Len(h), bs) * bs : PadLevel(h)[k] = IF k <= Len(h) THEN h[k] ELSE Zero
      BY <1>2, PadLevelIs
    <2> QED  BY <1>2, <2>1 DEF p
  <1> HIDE DEF h, c, p, m
  <1>4. \A i \in 1..c : p[i] # Zero
    <2> SUFFICES ASSUME NEW i \in 1..c PROVE p[i] # Zero
      OBVIOUS
    <2>1. p[i] = HashBlock(BlockOf(l, i - 1, bs), bs)
      BY <1>2, <1>3
    <2> QED  BY <2>1, DigestIsNoPadding
  <1>5. c < m => p[c + 1] = Zero
    BY <1>2, <1>3
  <1>6. ASSUME NEW n \in 0..m, D(n) PROVE n = c
    <2>1. ~ n < c
      <3>1. n < c => n < m /\ n + 1 \in 1..c
        BY <1>2, <1>3
      <3> QED  BY <1>4, <1>6, <3>1
    <2>2. ~ c < n
      <3>1. c < n => c < m /\ c + 1 \in 1..n
        BY <1>2, <1>3
      <3> QED  BY <1>5, <1>6, <3>1
    <2> QED  BY <1>2, <1>3, <2>1, <2>2
  <1>7. Digests(p) = c
    <2>1. c \in 0..m /\ D(c)
      BY <1>2, <1>3, <1>4, <1>5
    <2>2. Digests(p) = CHOOSE n \in 0..m : D(n)
      BY DEF Digests, m
    <2> HIDE DEF D
    <2> QED  BY <1>6, <2>1, <2>2
  <1> DEFINE u == c * bs
  <1>8. u \in Nat /\ PadLevel(l) = [k \in 1..u |-> Padded(l, k)]
    BY PadLevelIs DEF PadLevel, c
  <1>9. Under(p) = [k \in 1..u |-> p[(k - 1) \div bs + 1][2][((k - 1) % bs) + 1]]
    BY <1>7 DEF Under
  <1>10. ASSUME NEW k \in 1..u PROVE p[(k - 1) \div bs + 1][2][((k - 1) % bs) + 1] = Padded(l, k)
    <2> DEFINE i == (k - 1) \div bs
               q == ((k - 1) % bs) + 1
               b == BlockOf(l, i, bs)
    <2>1. /\ k - 1 \in Nat /\ i \in Nat /\ bs * i <= k - 1 /\ k - 1 < bs * i + bs
          /\ (k - 1) % bs = k - 1 - bs * i
      <3>1. k - 1 \in Nat
        BY <1>8
      <3> QED  BY <1>1, <3>1, DivMod
    <2>2. bs * i \in Nat
      BY <1>1, <2>1, Times
    <2> HIDE DEF i
    <2>3. q \in 1..bs /\ bs * i + q = k
      BY <1>1, <2>1, <2>2
    <2>4. i < c
      <3>1. bs * i < bs * c
        <4>1. u = bs * c
          BY <1>1, <1>2, Times
        <4>2. bs * i < u
          <5> DEFINE a == bs * i
          <5>1. a \in Nat /\ a <= k - 1 /\ k \in 1..u /\ u \in Nat
            BY <1>8, <2>1, <2>2
          <5> HIDE DEF a, u
          <5>2. a < u
            BY <5>1
          <5> QED  BY <5>2 DEF a
        <4> QED  BY <4>1, <4>2
      <3> QED  BY <1>1, <1>2, <2>1, <3>1, Times
    <2>5. bs * i < Len(l)
      BY <1>1, <2>1, <2>4, CeilCounts DEF c
    <2>6. p[i + 1] = HashBlock(b, bs)
      <3>1. i + 1 \in 1..c /\ i + 1 \in 1..m /\ (i + 1) - 1 = i
        BY <1>2, <1>3, <2>1, <2>4
      <3> QED  BY <1>2, <1>3, <3>1
    <2> HIDE DEF q, b
    <2>7. p[i + 1][2][q] = Padded(b, q)
      <3>1. HashBlock(b, bs)[2] = Pad(b, bs)
        BY DEF HashBlock
      <3>2. Pad(b, bs)[q] = Padded(b, q)
        BY <2>3 DEF Pad, Padded
      <3> QED  BY <2>6, <3>1, <3>2
    <2>8. Padded(b, q) = IF bs * i + q <= Len(l) THEN l[bs * i + q] ELSE Zero
      <3>1. PICK S : l \in Seq(S)
        BY DEF IsSeq
      <3> QED  BY <1>1, <2>1, <2>3, <2>5, <3>1, BlockCells DEF b
    <2>9. Padded(b, q) = Padded(l, k)
      BY <2>3, <2>8 DEF Padded
    <2> QED  BY <2>7, <2>9 DEF i, q
  <1> HIDE DEF u
  <1> QED  BY <1>8, <1>9, <1>10 DEF p, h

(* Opening the root as often as there are levels above the file gives the    *)
(* file, padded.                                                             *)
LEMMA OpenedIsFile ==
    ASSUME NEW f, IsSeq(f), Len(f) > 0, NEW d \in Nat, Len(LevelsOf(f)[d]) <= BlockSize
    PROVE  Opened(HashBlock(LevelsOf(f)[d], BlockSize), d) = PadLevel(f)
  <1> DEFINE L == LevelsOf(f)
             r == HashBlock(L[d], BlockSize)
             G == [k \in 0..d |-> PadLevel(L[d - k])]
             F(g) == [k \in 0..d |-> IF k = 0 THEN r[2] ELSE Under(g[k - 1])]
             down == CHOOSE g : g = F(g)
  <1>1. /\ \A k \in Nat : IsSeq(L[k]) /\ Len(L[k]) > 0
        /\ \A k \in Nat : L[k + 1] = HashLevel(L[k], BlockSize)
        /\ L[0] = f /\ Len(L[d]) <= BlockSize
    BY LevelsAreThere, LevelsStep
  <1>2. Opened(r, d) = down[d]
    BY DEF Opened
  <1> HIDE DEF L, down
  <1>3. r[2] = PadLevel(L[d])
    <2>1. IsSeq(L[d]) /\ Len(L[d]) > 0 /\ Len(L[d]) \in Nat /\ BlockSize \in Nat \ {0}
      BY <1>1, LevelType, BlockSizeAssumption
    <2>2. CeilDiv(Len(L[d]), BlockSize) = 1
      <3> DEFINE c == CeilDiv(Len(L[d]), BlockSize)
      <3>1. c \in Nat /\ (0 < c <=> BlockSize * 0 < Len(L[d])) /\ (1 < c <=> BlockSize * 1 < Len(L[d]))
        BY <2>1, CeilCounts
      <3>2. BlockSize * 0 = 0 /\ BlockSize * 1 = BlockSize
        BY <2>1
      <3>3. c \in Nat /\ (0 < c <=> 0 < Len(L[d])) /\ (1 < c <=> BlockSize < Len(L[d]))
        BY <3>1, <3>2
      <3> HIDE DEF c
      <3>4. Len(L[d]) <= BlockSize
        BY <1>1
      <3>5. c = 1
        BY <2>1, <3>3, <3>4
      <3> QED  BY <3>5 DEF c
    <2>3. 1 * BlockSize = BlockSize
      BY <2>1
    <2>4. PadLevel(L[d]) = [k \in 1..BlockSize |-> Padded(L[d], k)]
      BY <2>2, <2>3 DEF PadLevel
    <2> QED  BY <2>4 DEF HashBlock, Pad, Padded
  <1> HIDE DEF r
  <1>4. \A k \in 1..d : Under(PadLevel(L[d - (k - 1)])) = PadLevel(L[d - k])
    <2> SUFFICES ASSUME NEW k \in 1..d PROVE Under(PadLevel(L[d - (k - 1)])) = PadLevel(L[d - k])
      OBVIOUS
    <2> DEFINE j == d - k
    <2>1. j \in Nat /\ d - (k - 1) = j + 1
      OBVIOUS
    <2> HIDE DEF j
    <2>2. Under(PadLevel(HashLevel(L[j], BlockSize))) = PadLevel(L[j])
      BY <1>1, <2>1, UnderDigests
    <2> QED  BY <1>1, <2>1, <2>2 DEF j
  <1>5. G = F(G)
    <2>1. ASSUME NEW k \in 0..d PROVE G[k] = IF k = 0 THEN r[2] ELSE Under(G[k - 1])
      <3>1. CASE k = 0
        <4>1. d - 0 = d
          OBVIOUS
        <4> QED  BY <1>3, <3>1, <4>1
      <3>2. CASE k # 0
        <4>1. k \in 1..d /\ k - 1 \in 0..d
          BY <3>2
        <4>2. G[k - 1] = PadLevel(L[d - (k - 1)]) /\ G[k] = PadLevel(L[d - k])
          BY <4>1
        <4> HIDE DEF G
        <4> QED  BY <1>4, <3>2, <4>1, <4>2
      <3> QED  BY <3>1, <3>2
    <2>2. G = [k \in 0..d |-> G[k]]
      OBVIOUS
    <2> HIDE DEF G
    <2> QED  BY <2>1, <2>2
  <1>6. down = F(down)
    <2> HIDE DEF G, F
    <2> QED  BY <1>5 DEF down
  <1> DEFINE S == {k \in Nat : k <= d => down[k] = G[k]}
  <1>7. 0 \in S
    <2>1. down[0] = r[2]
      BY <1>6
    <2>2. G[0] = r[2]
      <3>1. 0 \in 0..d
        OBVIOUS
      <3> HIDE DEF G
      <3> QED  BY <1>5, <3>1
    <2> QED  BY <2>1, <2>2
  <1>8. ASSUME NEW k \in Nat, k \in S PROVE k + 1 \in S
    <2> SUFFICES ASSUME k + 1 <= d PROVE down[k + 1] = G[k + 1]
      OBVIOUS
    <2>1. k + 1 \in 0..d /\ k + 1 # 0 /\ (k + 1) - 1 = k /\ k <= d
      OBVIOUS
    <2>2. down[k] = G[k]
      BY <1>8, <2>1
    <2>3. down[k + 1] = Under(down[k])
      BY <1>6, <2>1
    <2>4. G[k + 1] = Under(G[k])
      <3> HIDE DEF G
      <3> QED  BY <1>5, <2>1
    <2> QED  BY <2>2, <2>3, <2>4
  <1>9. d \in S
    <2> HIDE DEF S
    <2> QED  BY <1>7, <1>8, NatInd
  <1>10. down[d] = G[d]
    BY <1>9
  <1>11. G[d] = PadLevel(f)
    <2>1. d - d = 0 /\ d \in 0..d
      OBVIOUS
    <2> QED  BY <1>1, <2>1
  <1> QED  BY <1>2, <1>10, <1>11 DEF L, r

(* The root merkle_root ends with commits to the whole file: opened as often *)
(* as there were rounds, it is the file followed by its last block's zeros,  *)
(* for every file and block size.                                            *)
THEOREM RootIsTheFile == Spec => []RootCoversFile
  <1>1. IInv => RootCoversFile
    <2> SUFFICES ASSUME IInv, root \notin {NoRoot, ZeroRoot}
                 PROVE  /\ Len(Opened(root, depth)) = CeilDiv(Len(data), BlockSize) * BlockSize
                        /\ \A i \in 1..Len(Opened(root, depth)) :
                             Opened(root, depth)[i] = IF i <= Len(data) THEN data[i] ELSE Zero
      BY DEF RootCoversFile
    <2>1. IsSeq(data) /\ data \in Seq(Alphabet) /\ Len(data) \in Nat /\ depth \in Nat
      BY StateType DEF IInv
    <2>2. root = HashBlock(level, BlockSize) /\ data # <<>> /\ Len(level) <= BlockSize /\ level = LevelsOf(data)[depth]
      BY DEF IInv, RootOK, AtLevel
    <2>3. Len(data) > 0
      BY <2>1, <2>2
    <2>4. Opened(root, depth) = PadLevel(data)
      BY <2>1, <2>2, <2>3, OpenedIsFile
    <2> QED  BY <2>1, <2>4, PadLevelIs
  <1> QED  BY <1>1, Invariance, PTL

(* Every round of merkle_root's loop leaves fewer digests than there were    *)
(* cells once a block holds two of them; this is why the loop ends.          *)
THEOREM EachLevelShrinks ==
    Spec => [][BlockSize > 1 /\ depth' # depth => Len(level') < Len(level)]_vars
  <1>1. ASSUME IInv, [Next]_vars
        PROVE  [BlockSize > 1 /\ depth' # depth => Len(level') < Len(level)]_vars
    <2>1. CASE NextLevel
      <3>1. IsSeq(level) /\ Len(level) \in Nat /\ Len(level) > BlockSize
        BY <1>1, <2>1, StateType DEF IInv, NextLevel
      <3>2. Len(level') = CeilDiv(Len(level), BlockSize)
        BY <2>1, <3>1, LevelType DEF NextLevel
      <3> QED  BY <1>1, <3>1, <3>2, CeilShrinks
    <2>2. CASE ~ NextLevel
      BY <1>1, <2>2 DEF Next, Step, EmptyFile, LastBlock, Measured, vars
    <2> QED  BY <2>1, <2>2
  <1> QED  BY <1>1, Invariance, PTL DEF Spec

(* verify_block accepts a block exactly if it is the file's own block at     *)
(* that offset, up to the padding of the last one.                           *)
THEOREM VerifierExact == Spec => []VerifierIsExact
  <1>1. IInv => VerifierIsExact
    <2> SUFFICES ASSUME IInv, NEW off \in 0..Len(data) + BlockSize, NEW n \in 1..BlockSize,
                        NEW b \in [1..n -> Alphabet]
                 PROVE  VerifyBlock(Leaves(data, BlockSize), BlockSize, off, b) = "ok" <=>
                          /\ \E i \in 0..Len(data) : off = i * BlockSize
                          /\ off < Len(data)
                          /\ \A k \in 1..BlockSize :
                              (IF k <= n THEN b[k] ELSE Zero)
                                = (IF off + k <= Len(data) THEN data[off + k] ELSE Zero)
      BY DEF VerifierIsExact
    <2>1. data \in Seq(Alphabet) /\ Len(data) \in Nat /\ BlockSize \in Nat \ {0}
      BY StateType DEF IInv
    <2>2. off \in Nat /\ Len(b) = n
      BY <2>1
    <2>3. off < Len(data) => (off % BlockSize = 0 <=> \E i \in 0..Len(data) : off = i * BlockSize)
      <3> DEFINE q == off \div BlockSize
      <3>1. q \in Nat /\ off % BlockSize = off - BlockSize * q /\ BlockSize * q \in Nat
            /\ q * BlockSize = BlockSize * q
        BY <2>1, <2>2, DivMod, Times
      <3>2. q <= BlockSize * q
        <4>1. CASE q = 0
          BY <3>1, <4>1
        <4>2. CASE q # 0
          <5>1. q \in Nat \ {0} /\ 1 \in Nat /\ BlockSize \in Nat /\ 1 <= BlockSize
            BY <2>1, <3>1, <4>2
          <5> HIDE DEF q
          <5>2. q * 1 <= q * BlockSize
            BY <5>1, Times
          <5> QED  BY <3>1, <5>1, <5>2
        <4> QED  BY <4>1, <4>2
      <3> HIDE DEF q
      <3>3. ASSUME off < Len(data), off % BlockSize = 0
            PROVE  \E i \in 0..Len(data) : off = i * BlockSize
        <4>1. off = q * BlockSize /\ q \in 0..Len(data)
          BY <2>1, <2>2, <3>1, <3>2, <3>3
        <4> QED  BY <4>1
      <3>4. ASSUME NEW i \in 0..Len(data), off = i * BlockSize PROVE off % BlockSize = 0
        <4>1. i \in Nat /\ i * BlockSize = BlockSize * i /\ BlockSize * i \in Nat
          BY <2>1, Times
        <4>2. BlockSize * i <= off /\ off < BlockSize * i + BlockSize
          BY <2>1, <2>2, <3>4, <4>1
        <4>3. q = i
          BY <2>1, <2>2, <4>1, <4>2, DivUnique DEF q
        <4> QED  BY <3>1, <3>4, <4>1, <4>3
      <3> QED  BY <3>3, <3>4
    <2>4. VerifyBlock(Leaves(data, BlockSize), BlockSize, off, b) = "ok" <=>
            /\ off % BlockSize = 0
            /\ off < Len(data)
            /\ \A k \in 1..BlockSize :
                 Padded(b, k) = IF off + k <= Len(data) THEN data[off + k] ELSE Zero
      BY <2>1, <2>2, VerifierAccepts
    <2>5. \A k \in 1..BlockSize : Padded(b, k) = IF k <= n THEN b[k] ELSE Zero
      BY <2>2 DEF Padded
    <2> QED  BY <2>3, <2>4, <2>5
  <1> QED  BY <1>1, Invariance, PTL
=============================================================================
