-------------------------- MODULE ErofsReadProofs ----------------------------
(***************************************************************************)
(* Proofs about the EROFS read path, for every volume, every block size,    *)
(* every sequence of calls and every place where the device may fail.       *)
(***************************************************************************)
EXTENDS ErofsRead, VerityProofs

(* How far the call under way has got: the caller's positions below Reach    *)
(* are filled.                                                               *)
Reach == IF blk <= call.off THEN call.off ELSE LeastOf(blk, End)

TypeOK ==
    /\ vol \in Volumes
    /\ verifier \in {"merkle", "none"}
    /\ call \in [off : Nat, len : Nat]
    /\ pc \in {"idle", "block", "decode"}
    /\ blk \in Nat
    /\ buf \in [1..call.len -> Byte \cup {Unset}]
    /\ produced \in Nat
    /\ decoded \in Seq(Byte) \cup {NotDecoded}
    /\ dec \in [k : Nat \ {0}, out : Seq(Byte)]

(* A call under way has filled the request from the front up to the block it *)
(* is at, and that block leaves no gap.                                      *)
Underway ==
    pc # "idle" =>
        /\ result = "none"
        /\ call.off < vol.size
        /\ call.off < blk + vol.bs
        /\ produced = Reach - call.off
        /\ \A i \in 1..call.len : (buf[i] = Unset) <=> i > produced

(* What an intact volume's caller has so far is the file. *)
FilledOK == Intact => \A i \in 1..call.len : buf[i] # Unset => buf[i] = Genuine[vol][call.off + i]

(* A decode under way has the file's bytes up to the next head. *)
StartOf(k) == IF k > Len(vol.heads) THEN vol.size ELSE vol.heads[k].start
DecodeOK ==
    /\ pc = "decode" => Compressed
    /\ pc = "decode" /\ Intact =>
         /\ dec.k <= Len(vol.heads) + 1
         /\ StartOf(dec.k) <= vol.size
         /\ Len(dec.out) = StartOf(dec.k)
         /\ \A i \in 1..StartOf(dec.k) : dec.out[i] = Genuine[vol][i]
    /\ pc # "decode" => dec = NoDec

IInv ==
    /\ TypeOK
    /\ Underway
    /\ FilledOK
    /\ DecodeOK
    /\ SurfacedIsTrusted
    /\ ReadsTheFile
    /\ CacheIsWhole

-----------------------------------------------------------------------------
(* The volume's fields, and what follows for the block under way. *)
LEMMA VolType ==
    ASSUME TypeOK
    PROVE  /\ vol.bs \in Nat \ {0} /\ vol.size \in Nat /\ vol.layout \in Layouts
           /\ vol.raw_blkaddr \in Nat /\ vol.inline_off \in Nat
           /\ vol.chunk \in Nat \ {0} /\ vol.table \in Seq(Nat)
           /\ vol.disk \in Seq(Byte) /\ vol.heads \in Seq(Heads)
           /\ Genuine[vol] \in Seq(Byte)
           /\ call.off \in Nat /\ call.len \in Nat
           /\ End \in Nat /\ End <= vol.size /\ End <= call.off + call.len
           /\ Len(buf) = call.len
  <1>1. /\ vol.bs \in Nat \ {0} /\ vol.size \in Nat /\ vol.layout \in Layouts
        /\ vol.raw_blkaddr \in Nat /\ vol.inline_off \in Nat
        /\ vol.chunk \in Nat \ {0} /\ vol.table \in Seq(Nat)
        /\ vol.disk \in Seq(Byte) /\ vol.heads \in Seq(Heads)
        /\ Genuine[vol] \in Seq(Byte)
    BY VolumesAssumption DEF TypeOK
  <1>2. call.off \in Nat /\ call.len \in Nat
    BY DEF TypeOK
  <1>3. End \in Nat /\ End <= vol.size /\ End <= call.off + call.len
    BY <1>1, <1>2 DEF End, LeastOf
  <1>4. Len(buf) = call.len
    BY <1>2 DEF TypeOK
  <1> QED  BY <1>1, <1>2, <1>3, <1>4

LEMMA VolNumbers ==
    ASSUME TypeOK
    PROVE  /\ vol.bs \in Nat \ {0} /\ vol.size \in Nat
           /\ vol.raw_blkaddr \in Nat /\ vol.inline_off \in Nat /\ vol.chunk \in Nat \ {0}
           /\ call.off \in Nat /\ call.len \in Nat /\ blk \in Nat
           /\ End \in Nat /\ End <= vol.size /\ End <= call.off + call.len
  BY VolType DEF TypeOK

LEMMA BlockType ==
    ASSUME TypeOK, blk < End
    PROVE  /\ BlockLen \in 1..vol.bs
           /\ blk + BlockLen <= vol.size
           /\ Len(Block) = BlockLen
           /\ \A k \in 1..BlockLen : Block[k] = ByteAt(blk + k - 1)
           /\ BlockRange = blk..blk + BlockLen - 1
  <1>2. BlockLen \in 1..vol.bs /\ blk + BlockLen <= vol.size
    BY VolNumbers DEF BlockLen, LeastOf
  <1> QED  BY <1>2 DEF Block, BlockRange

(* The code's place of a byte is where an intact volume stores it, and what  *)
(* is read there is a byte.                                                  *)
LEMMA ReadsBytes ==
    ASSUME TypeOK, CacheIsWhole, InBlock, Refusal = "none", Readable, NEW p \in BlockRange
    PROVE  /\ ByteAt(p) \in Byte
           /\ Intact => ByteAt(p) = Genuine[vol][p + 1]
  <1>1. p \in Nat /\ p < vol.size /\ blk <= p /\ p < blk + BlockLen /\ blk \in Nat /\ BlockLen \in Nat
    <2>1. blk < End
      BY DEF InBlock
    <2>2. BlockLen \in 1..vol.bs /\ blk + BlockLen <= vol.size /\ p \in blk..blk + BlockLen - 1
      BY <2>1, BlockType
    <2> QED  BY <2>2, VolNumbers
  <1>2. Zero \in Byte
    BY DEF Zero, Byte
  <1>3. CASE Compressed
    <2>1. decoded # NotDecoded /\ decoded \in Seq(Byte) /\ blk + BlockLen <= Len(decoded)
      BY <1>3 DEF InBlock, TypeOK, Readable
    <2>2. p + 1 \in 1..Len(decoded)
      BY <1>1, <2>1
    <2>3. ByteAt(p) = decoded[p + 1]
      BY <1>3 DEF ByteAt
    <2>4. Intact => decoded = Genuine[vol]
      BY <2>1 DEF CacheIsWhole
    <2> QED  BY <2>1, <2>2, <2>3, <2>4
  <1>4. CASE vol.layout = "plain"
    <2>1. /\ ~ IsHole(p) /\ ~ Compressed
          /\ DiskAddr(p) = vol.raw_blkaddr * vol.bs + p
      BY <1>4 DEF IsHole, DiskAddr, Compressed
    <2>2. DiskAddr(p) \in Nat
      <3>1. vol.raw_blkaddr * vol.bs \in Nat
        BY VolNumbers, Times
      <3> QED  BY <1>1, <2>1, <3>1
    <2>3. DiskAddr(p) < Len(vol.disk)
      BY <2>1 DEF Readable
    <2>4. ByteAt(p) = vol.disk[DiskAddr(p) + 1]
      BY <2>1 DEF ByteAt
    <2>5. ByteAt(p) \in Byte
      BY <2>2, <2>3, <2>4, VolType
    <2>6. Intact => ByteAt(p) = Genuine[vol][p + 1]
      BY <1>1, <1>4, <2>1, <2>4 DEF Intact, Stores, Holds
    <2> QED  BY <2>5, <2>6
  <1>5. CASE vol.layout = "inline"
    <2> DEFINE full == (vol.size \div vol.bs) * vol.bs
    <2>0. full = FullBytes /\ full \in Nat /\ vol.size - full < vol.bs /\ full <= vol.size
      <3>1. /\ vol.size \div vol.bs \in Nat
            /\ vol.bs * (vol.size \div vol.bs) <= vol.size
            /\ vol.size < vol.bs * (vol.size \div vol.bs) + vol.bs
        BY VolNumbers, DivMod
      <3>2. full = vol.bs * (vol.size \div vol.bs) /\ full \in Nat
        BY <3>1, VolNumbers, Times
      <3>3. full = FullBytes
        BY DEF FullBytes
      <3> HIDE DEF full
      <3> QED  BY <3>1, <3>2, <3>3, VolNumbers
    <2>1. /\ ~ IsHole(p) /\ ~ Compressed
          /\ DiskAddr(p) = IF p < full THEN vol.raw_blkaddr * vol.bs + p ELSE vol.inline_off + (p - full)
      BY <1>5 DEF IsHole, DiskAddr, Compressed, FullBytes
    <2>2. DiskAddr(p) \in Nat
      <3>1. vol.raw_blkaddr * vol.bs \in Nat
        BY VolNumbers, Times
      <3> HIDE DEF full
      <3> QED  BY <1>1, <2>0, <2>1, <3>1, VolNumbers
    <2>3. DiskAddr(p) < Len(vol.disk)
      BY <2>1 DEF Readable
    <2>4. ByteAt(p) = vol.disk[DiskAddr(p) + 1]
      BY <2>1 DEF ByteAt
    <2>5. ByteAt(p) \in Byte
      BY <2>2, <2>3, <2>4, VolType
    <2>6. ~ (p < full) => p % vol.bs = p - full
      <3>1. SUFFICES ASSUME ~ (p < full) PROVE p % vol.bs = p - full
        OBVIOUS
      <3> DEFINE q == vol.size \div vol.bs
      <3>2. q \in Nat /\ full = vol.bs * q
        BY VolNumbers, DivMod, Times
      <3>3. p < full + vol.bs
        BY <1>1, <2>0, VolType
      <3> HIDE DEF q, full
      <3>4. p \div vol.bs = q
        <4>1. vol.bs * q <= p /\ p < vol.bs * q + vol.bs
          BY <1>1, <3>1, <3>2, <3>3, <2>0, VolNumbers
        <4> QED  BY <1>1, <3>2, <4>1, VolNumbers, DivUnique
      <3>5. p % vol.bs = p - vol.bs * (p \div vol.bs)
        BY <1>1, VolNumbers, DivMod
      <3> QED  BY <3>2, <3>4, <3>5
    <2>7. Intact => ByteAt(p) = Genuine[vol][p + 1]
      BY <1>1, <1>5, <2>1, <2>4, <2>6 DEF Intact, Stores, Holds
    <2> QED  BY <2>5, <2>7
  <1>6. CASE vol.layout = "chunk"
    <2>1. ~ Compressed
      BY <1>6 DEF Compressed
    <2>2. p \div vol.chunk \in Nat /\ p % vol.chunk \in Nat
      <3>1. vol.chunk \in Nat \ {0}
        BY VolNumbers
      <3>2. p \div vol.chunk \in Nat /\ p % vol.chunk \in 0..vol.chunk - 1
        BY <1>1, <3>1, DivMod
      <3> QED  BY <3>1, <3>2
    <2>3. p \div vol.chunk < Len(vol.table)
      <3>1. blk + BlockLen - 1 \in Nat /\ p <= blk + BlockLen - 1
        BY <1>1
      <3>2. p \div vol.chunk <= (blk + BlockLen - 1) \div vol.chunk
        BY <1>1, <3>1, VolNumbers, DivMonotone
      <3>3. (blk + BlockLen - 1) \div vol.chunk < Len(vol.table)
        BY <1>6, <2>1 DEF Readable
      <3>4. (blk + BlockLen - 1) \div vol.chunk \in Nat
        BY <3>1, VolNumbers, DivMod
      <3> QED  BY <2>2, <3>2, <3>3, <3>4, VolType
    <2>4. ChunkAddr(p) \in Nat
      <3> DEFINE j == p \div vol.chunk
      <3>1. j \in Nat /\ j < Len(vol.table) /\ vol.table \in Seq(Nat)
        BY <2>2, <2>3, VolType
      <3> HIDE DEF j
      <3>2. vol.table[j + 1] \in Nat
        BY <3>1
      <3> QED  BY <3>2 DEF ChunkAddr, j
    <2>5. CASE ChunkAddr(p) = NULL_BLKADDR
      <3>1. ByteAt(p) = Zero
        BY <1>6, <2>1, <2>5 DEF ByteAt, IsHole
      <3>2. Intact => HoldsChunked(Genuine[vol], p)
        BY <1>1, <1>6 DEF Intact, Stores
      <3> QED  BY <1>2, <2>5, <3>1, <3>2 DEF HoldsChunked, ChunkAddr
    <2>6. CASE ChunkAddr(p) # NULL_BLKADDR
      <3>1. ~ IsHole(p) /\ DiskAddr(p) = ChunkAddr(p) * vol.bs + (p % vol.chunk)
        BY <1>6, <2>6 DEF IsHole, DiskAddr
      <3>2. DiskAddr(p) \in Nat
        <4>1. ChunkAddr(p) * vol.bs \in Nat
          BY <2>4, VolNumbers, Times
        <4> QED  BY <2>2, <3>1, <4>1
      <3>3. DiskAddr(p) < Len(vol.disk)
        BY <2>1, <3>1 DEF Readable
      <3>4. ByteAt(p) = vol.disk[DiskAddr(p) + 1]
        BY <2>1, <3>1 DEF ByteAt
      <3>5. ByteAt(p) \in Byte
        BY <3>2, <3>3, <3>4, VolType
      <3>6. Intact => HoldsChunked(Genuine[vol], p)
        BY <1>1, <1>6 DEF Intact, Stores
      <3> QED  BY <2>6, <3>1, <3>4, <3>5, <3>6 DEF HoldsChunked, Holds, ChunkAddr
    <2> QED  BY <2>5, <2>6
  <1>7. vol.layout # "unknown"
    BY DEF Refusal
  <1> QED  BY <1>3, <1>4, <1>5, <1>6, <1>7, VolType DEF Layouts, Compressed

(* Copying a block fills the positions between what earlier blocks filled    *)
(* and the block's end or the request's.                                     *)
LEMMA CopyBlockIInv == IInv /\ CopyBlock => IInv'
  <1> SUFFICES ASSUME IInv, CopyBlock PROVE IInv'
    OBVIOUS
  <1>1. /\ TypeOK /\ Underway /\ FilledOK /\ DecodeOK /\ SurfacedIsTrusted /\ CacheIsWhole
        /\ InBlock /\ Refusal = "none" /\ Readable /\ Verified
        /\ buf' = Copied /\ produced' = produced + Overlap /\ blk' = blk + vol.bs
        /\ vol' = vol /\ verifier' = verifier /\ call' = call /\ pc' = pc
        /\ decoded' = decoded /\ dec' = dec /\ result' = result
    BY DEF IInv, CopyBlock
  <1>2. /\ vol.bs \in Nat \ {0} /\ vol.size \in Nat
        /\ call.off \in Nat /\ call.len \in Nat /\ blk \in Nat
    BY <1>1, VolNumbers
  <1>3. /\ pc = "block" /\ blk < End /\ result = "none" /\ call.off < vol.size
        /\ call.off < blk + vol.bs /\ produced = Reach - call.off
        /\ \A i \in 1..call.len : (buf[i] = Unset) <=> i > produced
    BY <1>1 DEF InBlock, Underway
  <1> DEFINE hi == LeastOf(blk + vol.bs, End)
  <1>4. /\ hi \in Nat /\ Reach \in Nat /\ call.off <= Reach /\ Reach <= hi
        /\ (Reach - call.off) + Overlap = hi - call.off
        /\ \A i \in 1..call.len :
              (call.off + i - 1 \in BlockRange /\ call.off + i - 1 < End)
                 <=> (Reach - call.off < i /\ i <= hi - call.off)
    <2>1. blk < End /\ call.off < vol.size /\ call.off < blk + vol.bs
      BY <1>3
    <2>2. /\ End = LeastOf(call.off + call.len, vol.size) /\ BlockLen = LeastOf(vol.bs, vol.size - blk)
          /\ Reach = IF blk <= call.off THEN call.off ELSE LeastOf(blk, End)
          /\ Overlap = LeastOf(End, blk + BlockLen) - (IF call.off > blk THEN call.off ELSE blk)
          /\ BlockRange = blk..blk + BlockLen - 1
          /\ hi = LeastOf(blk + vol.bs, End)
      BY DEF End, BlockLen, Reach, Overlap, BlockRange
    <2> HIDE DEF hi
    <2>3. /\ End \in Nat /\ End <= vol.size /\ End <= call.off + call.len
          /\ call.off < End \/ End = call.off
      BY <1>2, <2>1, <2>2 DEF LeastOf
    <2>4. BlockLen \in Nat /\ blk + BlockLen = LeastOf(blk + vol.bs, vol.size)
      <3>1. blk < vol.size
        BY <1>2, <2>1, <2>3
      <3> QED  BY <1>2, <3>1 DEF BlockLen, LeastOf
    <2>5. hi \in Nat /\ hi = LeastOf(End, blk + BlockLen)
      <3>1. hi = LeastOf(blk + vol.bs, End)
        BY DEF hi
      <3> QED  BY <1>2, <2>3, <2>4, <3>1 DEF LeastOf
    <2>6. Reach = (IF call.off > blk THEN call.off ELSE blk) /\ Reach \in Nat
      BY <1>2, <2>1, <2>2, <2>3 DEF LeastOf
    <2>7. call.off <= Reach /\ Reach <= hi
      BY <1>2, <2>1, <2>2, <2>3, <2>5, <2>6 DEF LeastOf
    <2>8. (Reach - call.off) + Overlap = hi - call.off
      <3>1. Overlap = hi - Reach
        BY <2>2, <2>5, <2>6
      <3> QED  BY <1>2, <2>5, <2>6, <3>1
    <2>9. ASSUME NEW i \in 1..call.len
          PROVE (call.off + i - 1 \in BlockRange /\ call.off + i - 1 < End)
                 <=> (Reach - call.off < i /\ i <= hi - call.off)
      <3>1. call.off + i - 1 \in BlockRange <=> blk <= call.off + i - 1 /\ call.off + i - 1 < blk + BlockLen
        BY <1>2, <2>4 DEF BlockRange
      <3>2. Reach - call.off < i <=> blk <= call.off + i - 1
        BY <1>2, <2>6
      <3>3. i <= hi - call.off <=> call.off + i - 1 < blk + BlockLen /\ call.off + i - 1 < End
        BY <1>2, <2>3, <2>4, <2>5 DEF LeastOf
      <3> QED  BY <3>1, <3>2, <3>3
    <2> QED  BY <2>5, <2>6, <2>7, <2>8, <2>9
  <1> HIDE DEF hi
  <1>5. /\ BlockLen \in 1..vol.bs /\ blk + BlockLen <= vol.size
        /\ Len(Block) = BlockLen
        /\ \A k \in 1..BlockLen : Block[k] = ByteAt(blk + k - 1)
        /\ BlockRange = blk..blk + BlockLen - 1
    BY <1>1, <1>3, BlockType
  <1>6. ASSUME NEW i \in 1..call.len, Reach - call.off < i, i <= hi - call.off
        PROVE  /\ call.off + i - blk \in 1..BlockLen
               /\ buf'[i] = Block[call.off + i - blk]
               /\ buf'[i] \in Byte
               /\ Intact => buf'[i] = Genuine[vol][call.off + i]
    <2>1. call.off + i - 1 \in BlockRange /\ call.off + i - 1 < End
      BY <1>4, <1>6
    <2>2. call.off + i - blk \in 1..BlockLen /\ blk + (call.off + i - blk) - 1 = call.off + i - 1
      BY <1>2, <1>5, <2>1
    <2>3. buf'[i] = Block[call.off + i - blk]
      BY <1>1, <2>1 DEF Copied
    <2>4. buf'[i] = ByteAt(call.off + i - 1)
      BY <1>5, <2>2, <2>3
    <2>5. /\ ByteAt(call.off + i - 1) \in Byte
          /\ Intact => ByteAt(call.off + i - 1) = Genuine[vol][(call.off + i - 1) + 1]
      BY <1>1, <2>1, ReadsBytes
    <2>6. (call.off + i - 1) + 1 = call.off + i
      BY <1>2
    <2> QED  BY <2>2, <2>3, <2>4, <2>5, <2>6
  <1>7. ASSUME NEW i \in 1..call.len, ~ (Reach - call.off < i /\ i <= hi - call.off)
        PROVE  buf'[i] = buf[i]
    BY <1>1, <1>4, <1>7 DEF Copied
  <1>8. Unset \notin Byte
    BY DEF Unset, Byte
  <1>9. TypeOK'
    <2>1. buf' \in [1..call.len -> Byte \cup {Unset}]
      <3>1. DOMAIN buf' = 1..call.len /\ buf' = [i \in 1..call.len |-> buf'[i]]
        BY <1>1 DEF Copied
      <3>2. \A i \in 1..call.len : buf[i] \in Byte \cup {Unset}
        BY <1>1 DEF TypeOK
      <3>3. \A i \in 1..call.len : buf'[i] \in Byte \cup {Unset}
        BY <1>6, <1>7, <3>2
      <3> QED  BY <3>1, <3>3
    <2>2. produced' \in Nat /\ blk' \in Nat
      BY <1>1, <1>2, <1>3, <1>4
    <2> QED  BY <1>1, <2>1, <2>2 DEF TypeOK
  <1>10. produced' = hi - call.off
    BY <1>1, <1>2, <1>3, <1>4
  <1>11. Underway'
    <2>1. Reach' = hi
      <3>1. End' = End
        BY <1>1 DEF End
      <3> QED  BY <1>1, <1>2, <1>3, <3>1 DEF Reach, hi
    <2>2. ASSUME NEW i \in 1..call.len PROVE (buf'[i] = Unset) <=> i > produced'
      <3>1. CASE Reach - call.off < i /\ i <= hi - call.off
        BY <1>2, <1>4, <1>6, <1>8, <1>10, <3>1
      <3>2. CASE ~ (Reach - call.off < i /\ i <= hi - call.off)
        BY <1>2, <1>3, <1>4, <1>7, <1>10, <3>2
      <3> QED  BY <3>1, <3>2
    <2>3. call.off < blk' + vol.bs
      BY <1>1, <1>2, <1>3
    <2> QED  BY <1>1, <1>3, <1>10, <2>1, <2>2, <2>3 DEF Underway
  <1>12. Intact' = Intact
    BY <1>1 DEF Intact, Stores, HoldsPacked, HoldsChunked, Holds, HeadEnd
  <1>13. FilledOK'
    <2> SUFFICES ASSUME Intact, NEW i \in 1..call.len, buf'[i] # Unset
                 PROVE  buf'[i] = Genuine[vol][call.off + i]
      BY <1>1, <1>12 DEF FilledOK
    <2>1. CASE Reach - call.off < i /\ i <= hi - call.off
      BY <1>6, <2>1
    <2>2. CASE ~ (Reach - call.off < i /\ i <= hi - call.off)
      BY <1>1, <1>7, <2>2 DEF FilledOK
    <2> QED  BY <2>1, <2>2
  <1>14. DecodeOK'
    BY <1>1, <1>3 DEF DecodeOK
  <1>15. SurfacedIsTrusted'
    <2> SUFFICES ASSUME verifier = "merkle", NEW i \in 1..call.len, buf'[i] # Unset
                 PROVE  buf'[i] = TrueByte(call.off + i - 1)
      <3>1. Len(buf') = call.len
        BY <1>9, <1>1, <1>2 DEF TypeOK
      <3>2. \A x : TrueByte(x)' = TrueByte(x)
        BY <1>1 DEF TrueByte
      <3> QED  BY <1>1, <3>1, <3>2 DEF SurfacedIsTrusted, TrueByte
    <2>1. CASE Reach - call.off < i /\ i <= hi - call.off
      <3> DEFINE k == call.off + i - blk
                 g == Genuine[vol]
      <3>1. k \in 1..BlockLen /\ buf'[i] = Block[k] /\ k \in 1..vol.bs
        BY <1>2, <1>5, <1>6, <2>1
      <3>2. VerifyBlock(Leaves(g, vol.bs), vol.bs, blk, Block) = "ok"
        BY <1>1 DEF Verified
      <3>3. g \in Seq(Byte) /\ Len(g) \in Nat
        BY <1>1, VolType
      <3> HIDE DEF g, k
      <3>4. Padded(Block, k) = IF blk + k <= Len(g) THEN g[blk + k] ELSE Zero
        <4>1. \A j \in 1..vol.bs :
                Padded(Block, j) = IF blk + j <= Len(g) THEN g[blk + j] ELSE Zero
          BY <1>2, <3>2, <3>3, VerifierAccepts
        <4> QED  BY <3>1, <4>1
      <3>5. Padded(Block, k) = buf'[i]
        BY <1>2, <1>5, <3>1 DEF Padded
      <3>6. blk + k = call.off + i
        BY <1>2 DEF k
      <3>7. TrueByte(call.off + i - 1) = IF call.off + i <= Len(g) THEN g[call.off + i] ELSE Zero
        <4>1. (call.off + i - 1) + 1 = call.off + i
          BY <1>2
        <4>2. call.off + i - 1 < Len(g) <=> call.off + i <= Len(g)
          BY <1>2, <3>3
        <4> QED  BY <4>1, <4>2 DEF TrueByte, g
      <3> QED  BY <3>4, <3>5, <3>6, <3>7
    <2>2. CASE ~ (Reach - call.off < i /\ i <= hi - call.off)
      <3>1. Len(buf) = call.len
        BY <1>1, VolType
      <3> QED  BY <1>1, <1>7, <2>2, <3>1 DEF SurfacedIsTrusted
    <2> QED  BY <2>1, <2>2
  <1>16. ReadsTheFile'
    BY <1>1, <1>3 DEF ReadsTheFile
  <1>17. CacheIsWhole'
    BY <1>1, <1>12 DEF CacheIsWhole
  <1> QED  BY <1>9, <1>11, <1>13, <1>14, <1>15, <1>16, <1>17 DEF IInv

-----------------------------------------------------------------------------
LEMMA SameVolume == vol' = vol => Intact' = Intact
  BY DEF Intact, Stores, HoldsPacked, HoldsChunked, Holds, HeadEnd

(* What says nothing of the program counter and the result follows the       *)
(* caller's buffer and the cache.                                            *)
LEMMA SameBuffer ==
    ASSUME FilledOK, SurfacedIsTrusted, UNCHANGED <<vol, verifier, call, buf>>
    PROVE  FilledOK' /\ SurfacedIsTrusted'
  <1>1. vol' = vol /\ verifier' = verifier /\ call' = call /\ buf' = buf
    OBVIOUS
  <1>2. FilledOK'
    BY <1>1, SameVolume DEF FilledOK
  <1>3. SurfacedIsTrusted'
    BY <1>1 DEF SurfacedIsTrusted, TrueByte
  <1> QED  BY <1>2, <1>3

LEMMA InitIInv == Init => IInv
  <1> SUFFICES ASSUME Init PROVE IInv
    OBVIOUS
  <1>1. /\ vol \in Volumes /\ verifier \in {"merkle", "none"}
        /\ call.off = 0 /\ call.len = 0 /\ call \in [off : Nat, len : Nat]
        /\ pc = "idle" /\ blk = 0 /\ buf = <<>> /\ produced = 0
        /\ decoded = NotDecoded /\ dec = NoDec /\ result = "none"
    BY DEF Init, NoCall
  <1>2. NoDec \in [k : Nat \ {0}, out : Seq(Byte)]
    BY DEF NoDec
  <1>3. 1..call.len = {} /\ buf \in [1..call.len -> Byte \cup {Unset}] /\ Len(buf) = 0
    BY <1>1
  <1>4. TypeOK
    BY <1>1, <1>2, <1>3 DEF TypeOK
  <1>5. Underway /\ DecodeOK /\ ReadsTheFile /\ CacheIsWhole
    BY <1>1 DEF Underway, DecodeOK, ReadsTheFile, CacheIsWhole
  <1>6. FilledOK /\ SurfacedIsTrusted
    BY <1>3 DEF FilledOK, SurfacedIsTrusted
  <1> QED  BY <1>4, <1>5, <1>6 DEF IInv

(* A call that fails leaves its buffer and the cache as they are. *)
LEMMA FailIInv ==
    ASSUME IInv, NEW r, r # "ok", Return(r)
    PROVE  IInv'
  <1>1. /\ TypeOK /\ FilledOK /\ SurfacedIsTrusted /\ CacheIsWhole
        /\ pc' = "idle" /\ result' = r /\ dec' = NoDec
        /\ vol' = vol /\ verifier' = verifier /\ call' = call /\ blk' = blk /\ buf' = buf
        /\ produced' = produced /\ decoded' = decoded
    BY DEF IInv, Return
  <1>2. NoDec \in [k : Nat \ {0}, out : Seq(Byte)]
    BY DEF NoDec
  <1>3. TypeOK'
    BY <1>1, <1>2 DEF TypeOK
  <1>4. Underway' /\ DecodeOK' /\ ReadsTheFile'
    BY <1>1 DEF Underway, DecodeOK, ReadsTheFile
  <1>5. FilledOK' /\ SurfacedIsTrusted'
    BY <1>1, SameBuffer
  <1>6. CacheIsWhole'
    BY <1>1, SameVolume DEF CacheIsWhole
  <1> QED  BY <1>3, <1>4, <1>5, <1>6 DEF IInv

LEMMA FailuresIInv == IInv /\ (BlockFails \/ DecodeFails \/ IoError) => IInv'
  <1>1. IInv => Refusal # "ok"
    <2>1. IInv => vol.format \in Formats
      BY VolumesAssumption DEF IInv, TypeOK
    <2>2. vol.format \in Formats => ChunkRefusal # "ok"
      BY DEF Formats, ChunkRefusal
    <2> QED  BY <2>1, <2>2 DEF Refusal
  <1>2. IInv /\ BlockFails => IInv'
    <2>1. IInv /\ Refusal # "none" /\ Return(Refusal) => IInv'
      BY <1>1, FailIInv
    <2>2. IInv /\ Return(IF Compressed THEN "Corrupt" ELSE "Io") => IInv'
      BY FailIInv
    <2>3. IInv /\ Return("VerifyFailed") => IInv'
      BY FailIInv
    <2> QED  BY <2>1, <2>2, <2>3 DEF BlockFails
  <1> QED  BY <1>2, FailIInv DEF DecodeFails, IoError

(* The loop ends with the request filled up to its end or the file's. *)
LEMMA ReadDoneIInv == IInv /\ ReadDone => IInv'
  <1> SUFFICES ASSUME IInv, ReadDone PROVE IInv'
    OBVIOUS
  <1>1. /\ TypeOK /\ Underway /\ FilledOK /\ SurfacedIsTrusted /\ CacheIsWhole
        /\ pc = "block" /\ blk >= End /\ pc' = "idle" /\ dec' = NoDec /\ result' = "ok"
        /\ vol' = vol /\ verifier' = verifier /\ call' = call /\ blk' = blk /\ buf' = buf
        /\ produced' = produced /\ decoded' = decoded
    BY DEF IInv, ReadDone, Return
  <1>2. NoDec \in [k : Nat \ {0}, out : Seq(Byte)]
    BY DEF NoDec
  <1>3. TypeOK'
    BY <1>1, <1>2 DEF TypeOK
  <1>4. Underway' /\ DecodeOK'
    BY <1>1 DEF Underway, DecodeOK
  <1>5. FilledOK' /\ SurfacedIsTrusted'
    BY <1>1, SameBuffer
  <1>6. CacheIsWhole'
    BY <1>1, SameVolume DEF CacheIsWhole
  <1>7. call.off < vol.size /\ produced = Reach - call.off
    BY <1>1 DEF Underway
  <1>8. \A i \in 1..call.len : (buf[i] = Unset) <=> i > produced
    BY <1>1 DEF Underway
  <1>9. /\ vol.size \in Nat /\ call.off \in Nat /\ call.len \in Nat /\ blk \in Nat
    BY <1>1, VolNumbers
  <1>10. produced = Expected /\ produced <= call.len /\ produced \in Nat
    <2>1. blk >= End
      BY <1>1
    <2>2. /\ Reach = (IF blk <= call.off THEN call.off ELSE LeastOf(blk, End))
          /\ End = LeastOf(call.off + call.len, vol.size)
      BY DEF Reach, End
    <2>3. Expected = LeastOf(call.len, vol.size - call.off)
      BY <1>7, <1>9 DEF Expected
    <2>4. End \in Nat /\ Reach = End
      BY <1>7, <1>9, <2>1, <2>2 DEF LeastOf
    <2>5. End - call.off = LeastOf(call.len, vol.size - call.off) /\ End <= call.off + call.len
          /\ End >= call.off
      BY <1>7, <1>9, <2>2 DEF LeastOf
    <2> QED  BY <1>7, <1>9, <2>3, <2>4, <2>5
  <1>11. ReadsTheFile'
    <2>1. Expected' = Expected
      BY <1>1 DEF Expected
    <2>2. Len(buf) = call.len
      BY <1>1, VolType
    <2>3. ASSUME Intact, NEW i \in 1..produced PROVE buf[i] = Genuine[vol][call.off + i]
      <3>1. i \in 1..call.len /\ ~ (i > produced)
        BY <1>9, <1>10
      <3> QED  BY <1>1, <1>8, <2>3, <3>1 DEF FilledOK
    <2> QED  BY <1>1, <1>8, <1>10, <2>1, <2>2, <2>3, SameVolume DEF ReadsTheFile
  <1> QED  BY <1>3, <1>4, <1>5, <1>6, <1>11 DEF IInv

(* A call starts with nothing filled, at the block its offset lies in. *)
LEMMA ReadAtIInv == ASSUME IInv, NEW c \in Calls, ReadAt(c) PROVE IInv'
  <1>1. /\ TypeOK /\ DecodeOK /\ CacheIsWhole /\ pc = "idle" /\ call' = c
        /\ buf' = [i \in 1..c.len |-> Unset] /\ produced' = 0
        /\ vol' = vol /\ verifier' = verifier /\ decoded' = decoded /\ dec' = dec
    BY DEF IInv, ReadAt
  <1>2. c \in [off : Nat, len : Nat] /\ c.off \in Nat /\ c.len \in Nat
    BY CallsAssumption
  <1>3. \/ c.off >= vol.size /\ pc' = "idle" /\ result' = "ok" /\ blk' = blk
        \/ c.off < vol.size /\ pc' = "block" /\ result' = "none" /\ blk' = (c.off \div vol.bs) * vol.bs
        \/ pc' = "idle" /\ result' = "IsDirectory" /\ blk' = blk
    BY DEF ReadAt
  <1>4. vol.bs \in Nat \ {0} /\ vol.size \in Nat /\ blk \in Nat
    BY <1>1, VolNumbers
  <1>5. Len(buf') = c.len /\ \A i \in 1..c.len : buf'[i] = Unset
    BY <1>1, <1>2
  <1>6. DecodeOK'
    BY <1>1, <1>3 DEF DecodeOK
  <1>7. FilledOK'
    BY <1>1, <1>5 DEF FilledOK
  <1>8. SurfacedIsTrusted'
    BY <1>1, <1>5 DEF SurfacedIsTrusted
  <1>9. CacheIsWhole'
    BY <1>1, SameVolume DEF CacheIsWhole
  <1>10. buf' \in [1..c.len -> Byte \cup {Unset}]
    BY <1>1
  <1>11. \A i \in 1..c.len : (buf'[i] = Unset) <=> i > produced'
    BY <1>1, <1>2, <1>5
  <1>12. CASE c.off >= vol.size /\ pc' = "idle" /\ result' = "ok" /\ blk' = blk
    <2>1. TypeOK'
      BY <1>1, <1>2, <1>4, <1>10, <1>12 DEF TypeOK
    <2>2. Underway'
      BY <1>12 DEF Underway
    <2>3. ReadsTheFile'
      <3>1. Expected' = 0
        BY <1>1, <1>12 DEF Expected
      <3>2. 1..produced' = {}
        BY <1>1
      <3> QED  BY <1>1, <1>5, <1>11, <3>1, <3>2 DEF ReadsTheFile
    <2> QED  BY <1>6, <1>7, <1>8, <1>9, <2>1, <2>2, <2>3 DEF IInv
  <1>13. CASE c.off < vol.size /\ pc' = "block" /\ result' = "none" /\ blk' = (c.off \div vol.bs) * vol.bs
    <2>1. blk' \in Nat /\ blk' <= c.off /\ c.off < blk' + vol.bs
      <3> DEFINE q == c.off \div vol.bs
      <3>1. q \in Nat /\ vol.bs * q <= c.off /\ c.off < vol.bs * q + vol.bs
        BY <1>2, <1>4, DivMod
      <3> HIDE DEF q
      <3>2. q * vol.bs = vol.bs * q /\ vol.bs * q \in Nat
        BY <1>4, <3>1, Times
      <3>3. blk' = q * vol.bs
        BY <1>13 DEF q
      <3> QED  BY <3>1, <3>2, <3>3
    <2>2. TypeOK'
      BY <1>1, <1>2, <1>10, <1>13, <2>1 DEF TypeOK
    <2>3. Underway'
      <3>1. Reach' = c.off
        BY <1>1, <2>1 DEF Reach
      <3>2. produced' = Reach' - c.off
        BY <1>1, <1>2, <3>1
      <3> QED  BY <1>1, <1>11, <1>13, <2>1, <3>2 DEF Underway
    <2>4. ReadsTheFile'
      BY <1>13 DEF ReadsTheFile
    <2> QED  BY <1>6, <1>7, <1>8, <1>9, <2>2, <2>3, <2>4 DEF IInv
  <1>14. CASE pc' = "idle" /\ result' = "IsDirectory" /\ blk' = blk
    <2>1. TypeOK'
      BY <1>1, <1>2, <1>4, <1>10, <1>14 DEF TypeOK
    <2>2. Underway' /\ ReadsTheFile'
      BY <1>14 DEF Underway, ReadsTheFile
    <2> QED  BY <1>6, <1>7, <1>8, <1>9, <2>1, <2>2 DEF IInv
  <1> QED  BY <1>3, <1>12, <1>13, <1>14

-----------------------------------------------------------------------------
(* The decode: head k's output runs from its start to the next head's. *)
LEMMA HeadType ==
    ASSUME TypeOK, Decoding
    PROVE  /\ dec.k \in 1..Len(vol.heads) /\ dec.out \in Seq(Byte)
           /\ Head_ \in Heads /\ Head_.start \in Nat /\ Head_.yields \in Seq(Byte)
           /\ NextStart \in Nat
           /\ StartOf(dec.k) = Head_.start
           /\ StartOf(dec.k + 1) = NextStart
           /\ HeadEnd(dec.k) = NextStart
  <1>1. dec.k \in Nat \ {0} /\ dec.out \in Seq(Byte) /\ dec.k <= Len(vol.heads)
    BY DEF TypeOK, Decoding
  <1>2. vol.heads \in Seq(Heads) /\ Len(vol.heads) \in Nat /\ vol.size \in Nat
    BY VolType
  <1>3. dec.k \in 1..Len(vol.heads)
    BY <1>1, <1>2
  <1>4. \A j \in 1..Len(vol.heads) : vol.heads[j] \in Heads /\ vol.heads[j].start \in Nat
                                     /\ vol.heads[j].yields \in Seq(Byte)
    <2>1. \A j \in 1..Len(vol.heads) : vol.heads[j] \in Heads
      BY <1>2
    <2>2. \A h \in Heads : h.start \in Nat /\ h.yields \in Seq(Byte)
      BY DEF Heads
    <2> QED  BY <2>1, <2>2
  <1>5. Head_ \in Heads /\ Head_.start \in Nat /\ Head_.yields \in Seq(Byte)
    BY <1>3, <1>4 DEF Head_
  <1>6. NextStart \in Nat
    BY <1>2, <1>3, <1>4 DEF NextStart
  <1>7. StartOf(dec.k) = Head_.start
    BY <1>2, <1>3 DEF StartOf, Head_
  <1>8. StartOf(dec.k + 1) = NextStart
    BY <1>2, <1>3 DEF StartOf, NextStart
  <1>9. HeadEnd(dec.k) = NextStart
    BY DEF HeadEnd, NextStart
  <1> QED  BY <1>1, <1>3, <1>5, <1>6, <1>7, <1>8, <1>9

(* What a codec hands over is cut from the stream's bytes; where the stream  *)
(* has as many as were asked for, it is exactly those.                       *)
LEMMA Decodes ==
    ASSUME NEW head \in Heads, NEW n \in Nat \ {0}, DecodePcluster(head, n) # NotDecoded
    PROVE  /\ DecodePcluster(head, n) \in Seq(Byte)
           /\ n <= Len(head.yields) =>
                /\ Len(DecodePcluster(head, n)) = n
                /\ \A i \in 1..n : DecodePcluster(head, n)[i] = head.yields[i]
  <1> DEFINE y == head.yields
             d == DecodePcluster(head, n)
  <1>1. y \in Seq(Byte) /\ Len(y) \in Nat /\ head.algo \in {"plain", "lz4", "deflate", "lzma", "zstd"}
    BY DEF Heads
  <1>2. ASSUME NEW m \in Nat, m <= Len(y)
        PROVE  /\ SubSeq(y, 1, m) \in Seq(Byte) /\ Len(SubSeq(y, 1, m)) = m
               /\ \A i \in 1..m : SubSeq(y, 1, m)[i] = y[i]
    BY <1>1, <1>2
  <1>3. CASE head.algo \in {"lz4", "deflate"}
    <2>1. d = y /\ Len(y) = n
      BY <1>3 DEF DecodePcluster
    <2> HIDE DEF d, y
    <2>2. d \in Seq(Byte) /\ Len(d) = n /\ \A i \in 1..n : d[i] = y[i]
      BY <1>1, <2>1
    <2> QED  BY <2>2 DEF d, y
  <1>4. CASE head.algo \in {"plain", "lzma"}
    <2>1. d = SubSeq(y, 1, n) /\ Len(y) >= n
      BY <1>4 DEF DecodePcluster
    <2> HIDE DEF d, y
    <2>2. d \in Seq(Byte) /\ Len(d) = n /\ \A i \in 1..n : d[i] = y[i]
      BY <1>1, <1>2, <2>1
    <2> QED  BY <2>2 DEF d, y
  <1>5. CASE head.algo = "zstd"
    <2> DEFINE m == LeastOf(n, Len(y))
    <2>1. d = SubSeq(y, 1, m)
      BY <1>5 DEF DecodePcluster
    <2>2. m \in Nat /\ m <= Len(y) /\ (n <= Len(y) => m = n)
      BY <1>1 DEF LeastOf
    <2> HIDE DEF d, y, m
    <2>3. d \in Seq(Byte) /\ (n <= Len(y) => Len(d) = n /\ \A i \in 1..n : d[i] = y[i])
      BY <1>2, <2>1, <2>2
    <2> QED  BY <2>3 DEF d, y
  <1> QED  BY <1>1, <1>3, <1>4, <1>5

(* The frame the three steps of the decode share. *)
LEMMA DecodeFrame ==
    ASSUME IInv, pc = "decode", pc' \in {"decode", "block"},
           UNCHANGED <<vol, verifier, call, blk, buf, produced, result>>,
           decoded' \in Seq(Byte) \cup {NotDecoded}, dec' \in [k : Nat \ {0}, out : Seq(Byte)],
           DecodeOK', CacheIsWhole'
    PROVE  IInv'
  <1>1. TypeOK /\ Underway /\ FilledOK /\ SurfacedIsTrusted
    BY DEF IInv
  <1>2. TypeOK'
    BY <1>1 DEF TypeOK
  <1>3. Underway'
    <2>1. Reach' = Reach
      BY DEF Reach, End
    <2> QED  BY <1>1, <2>1 DEF Underway
  <1>4. FilledOK' /\ SurfacedIsTrusted'
    BY <1>1, SameBuffer
  <1>5. ReadsTheFile'
    BY <1>1 DEF Underway, ReadsTheFile
  <1> QED  BY <1>2, <1>3, <1>4, <1>5 DEF IInv

LEMMA MaterialiseIInv == IInv /\ Materialise => IInv'
  <1> SUFFICES ASSUME IInv, Materialise PROVE IInv'
    OBVIOUS
  <1>1. CASE \E r \in {"FileTooLarge", "Unsupported", "Corrupt"} : Return(r)
    BY <1>1, FailIInv
  <1>2. CASE pc' = "decode" /\ UNCHANGED <<vol, verifier, calls, call, blk, buf, produced, decoded, dec, result>>
    <2>1. /\ TypeOK /\ Underway /\ FilledOK /\ DecodeOK /\ SurfacedIsTrusted /\ ReadsTheFile /\ CacheIsWhole
          /\ pc = "block" /\ Compressed
      BY DEF IInv, Materialise
    <2>2. TypeOK'
      BY <1>2, <2>1 DEF TypeOK
    <2>3. Underway'
      <3>1. Reach' = Reach
        BY <1>2 DEF Reach, End
      <3> QED  BY <1>2, <2>1, <3>1 DEF Underway
    <2>4. FilledOK' /\ SurfacedIsTrusted'
      BY <1>2, <2>1, SameBuffer
    <2>5. ReadsTheFile'
      BY <1>2, <2>1 DEF Underway, ReadsTheFile
    <2>6. CacheIsWhole'
      BY <1>2, <2>1, SameVolume DEF CacheIsWhole
    <2>7. DecodeOK'
      <3>1. dec' = NoDec /\ dec'.k = 1 /\ dec'.out = <<>> /\ Compressed'
        BY <1>2, <2>1 DEF DecodeOK, NoDec, Compressed
      <3>2. Intact => StartOf(1) = 0
        <4>1. Intact => IF vol.heads = <<>> THEN vol.size = 0 ELSE vol.heads[1].start = 0
          BY <2>1 DEF Intact, Stores, HoldsPacked, Compressed
        <4>2. vol.heads \in Seq(Heads) /\ Len(vol.heads) \in Nat
          BY <2>1, VolType
        <4>3. vol.heads = <<>> <=> 1 > Len(vol.heads)
          BY <4>2
        <4> QED  BY <4>1, <4>3 DEF StartOf
      <3>3. Intact => /\ 1 <= Len(vol.heads) + 1 /\ StartOf(1) <= vol.size
                      /\ Len(<<>>) = StartOf(1) /\ 1..StartOf(1) = {}
        BY <2>1, <3>2, VolType
      <3>4. vol' = vol /\ Intact' = Intact /\ \A x : StartOf(x)' = StartOf(x)
        BY <1>2, SameVolume DEF StartOf
      <3> QED  BY <1>2, <3>1, <3>3, <3>4 DEF DecodeOK
    <2> QED  BY <2>2, <2>3, <2>4, <2>5, <2>6, <2>7 DEF IInv
  <1> QED  BY <1>1, <1>2 DEF Materialise

LEMMA SkipEmptyHeadIInv == IInv /\ SkipEmptyHead => IInv'
  <1> SUFFICES ASSUME IInv, SkipEmptyHead PROVE IInv'
    OBVIOUS
  <1>1. /\ TypeOK /\ DecodeOK /\ CacheIsWhole /\ Decoding /\ pc = "decode" /\ OutLen = 0
        /\ dec' = [dec EXCEPT !.k = @ + 1]
        /\ UNCHANGED <<vol, verifier, calls, call, pc, blk, buf, produced, decoded, result>>
    BY DEF IInv, SkipEmptyHead, Decoding
  <1>2. dec'.k = dec.k + 1 /\ dec'.out = dec.out /\ dec' \in [k : Nat \ {0}, out : Seq(Byte)]
        /\ dec.k \in Nat
    BY <1>1 DEF TypeOK
  <1>3. dec.k \in 1..Len(vol.heads) /\ StartOf(dec.k + 1) = StartOf(dec.k)
    <2>1. dec.k \in 1..Len(vol.heads) /\ Head_.start \in Nat /\ NextStart \in Nat
          /\ StartOf(dec.k) = Head_.start /\ StartOf(dec.k + 1) = NextStart
      BY <1>1, HeadType
    <2> QED  BY <1>1, <2>1 DEF OutLen
  <1>4. dec.k + 1 <= Len(vol.heads) + 1
    BY <1>1, <1>2, <1>3, VolType
  <1>5. vol' = vol /\ Intact' = Intact /\ (\A x : StartOf(x)' = StartOf(x)) /\ Compressed' = Compressed
    BY <1>1, SameVolume DEF StartOf, Compressed
  <1>6. DecodeOK'
    BY <1>1, <1>2, <1>3, <1>4, <1>5 DEF DecodeOK
  <1>7. CacheIsWhole'
    BY <1>1, SameVolume DEF CacheIsWhole
  <1>8. decoded' \in Seq(Byte) \cup {NotDecoded}
    BY <1>1 DEF TypeOK
  <1> QED  BY <1>1, <1>2, <1>6, <1>7, <1>8, DecodeFrame

LEMMA DecodeHeadIInv == IInv /\ DecodeHead => IInv'
  <1> SUFFICES ASSUME IInv, DecodeHead PROVE IInv'
    OBVIOUS
  <1> DEFINE d == DecodePcluster(Head_, OutLen)
  <1>1. /\ TypeOK /\ DecodeOK /\ CacheIsWhole /\ Decoding /\ pc = "decode"
        /\ OutLen \in 1..MAX_DECOMPRESSED_BLOCK_BYTES /\ d # NotDecoded
        /\ dec' = [k |-> dec.k + 1, out |-> dec.out \o d]
        /\ UNCHANGED <<vol, verifier, calls, call, pc, blk, buf, produced, decoded, result>>
    BY DEF IInv, DecodeHead, Decoding
  <1>2. /\ dec.k \in 1..Len(vol.heads) /\ dec.out \in Seq(Byte)
        /\ Head_ \in Heads /\ Head_.start \in Nat
        /\ NextStart \in Nat
        /\ StartOf(dec.k) = Head_.start /\ StartOf(dec.k + 1) = NextStart
        /\ HeadEnd(dec.k) = NextStart
    BY <1>1, HeadType
  <1>3. OutLen \in Nat \ {0} /\ NextStart = Head_.start + OutLen
    BY <1>1, <1>2 DEF OutLen
  <1>4. /\ d \in Seq(Byte)
        /\ OutLen <= Len(Head_.yields) =>
             Len(d) = OutLen /\ \A i \in 1..OutLen : d[i] = Head_.yields[i]
    BY <1>1, <1>2, <1>3, Decodes
  <1> HIDE DEF d
  <1>5. /\ dec'.k = dec.k + 1 /\ dec'.out = dec.out \o d
        /\ dec.out \o d \in Seq(Byte)
        /\ Len(dec.out \o d) = Len(dec.out) + Len(d)
        /\ \A i \in 1..Len(dec.out) + Len(d) :
              (dec.out \o d)[i] = IF i <= Len(dec.out) THEN dec.out[i] ELSE d[i - Len(dec.out)]
    <2>1. dec'.k = dec.k + 1 /\ dec'.out = dec.out \o d
      BY <1>1
    <2>2. dec.out \in Seq(Byte) /\ d \in Seq(Byte)
      BY <1>2, <1>4
    <2>3. /\ dec.out \o d \in Seq(Byte)
          /\ Len(dec.out \o d) = Len(dec.out) + Len(d)
          /\ \A i \in 1..Len(dec.out) + Len(d) :
              (dec.out \o d)[i] = IF i <= Len(dec.out) THEN dec.out[i] ELSE d[i - Len(dec.out)]
      BY <2>2, ConcatProperties, Zenon
    <2> QED  BY <2>1, <2>3
  <1>6. dec.k \in Nat /\ dec.k + 1 \in Nat \ {0} /\ dec.k + 1 <= Len(vol.heads) + 1
    <2>1. Len(vol.heads) \in Nat
      BY <1>1, VolType
    <2>2. dec.k \in 1..Len(vol.heads)
      BY <1>2
    <2> QED  BY <2>1, <2>2
  <1>7. dec' \in [k : Nat \ {0}, out : Seq(Byte)]
    BY <1>1, <1>5, <1>6
  <1>8. ASSUME Intact
        PROVE  /\ NextStart <= vol.size
               /\ Len(dec.out \o d) = NextStart
               /\ \A i \in 1..NextStart : (dec.out \o d)[i] = Genuine[vol][i]
    <2>1. HoldsPacked(Genuine[vol])
      BY <1>1, <1>8 DEF Intact, Stores, DecodeOK, Compressed
    <2>2. /\ HeadEnd(dec.k) \in Head_.start..vol.size
          /\ HeadEnd(dec.k) - Head_.start <= Len(Head_.yields)
          /\ \A i \in 1..HeadEnd(dec.k) - Head_.start : Head_.yields[i] = Genuine[vol][Head_.start + i]
      BY <1>2, <2>1 DEF HoldsPacked, Head_
    <2>3. HeadEnd(dec.k) - Head_.start = OutLen
      BY <1>2 DEF OutLen
    <2>4. /\ Len(d) = OutLen
          /\ \A i \in 1..OutLen : d[i] = Genuine[vol][Head_.start + i]
      BY <1>4, <2>2, <2>3
    <2>5. /\ Len(dec.out) = Head_.start
          /\ \A i \in 1..Head_.start : dec.out[i] = Genuine[vol][i]
      BY <1>1, <1>2, <1>8 DEF DecodeOK
    <2>6. NextStart <= vol.size
      BY <1>1, <1>2, <2>2, VolNumbers
    <2>7. Len(dec.out \o d) = NextStart
      BY <1>3, <1>5, <2>4, <2>5
    <2>8. ASSUME NEW i \in 1..NextStart PROVE (dec.out \o d)[i] = Genuine[vol][i]
      <3>0. i \in 1..Len(dec.out) + Len(d)
        BY <1>3, <2>4, <2>5
      <3>1. CASE i <= Head_.start
        <4>1. i \in 1..Head_.start
          BY <1>2, <3>1
        <4> QED  BY <1>5, <2>5, <3>0, <3>1, <4>1
      <3>2. CASE ~ (i <= Head_.start)
        <4>1. i - Head_.start \in 1..OutLen /\ Head_.start + (i - Head_.start) = i
          BY <1>2, <1>3, <3>2
        <4>2. (dec.out \o d)[i] = d[i - Head_.start]
          BY <1>5, <2>5, <3>0, <3>2
        <4> QED  BY <2>4, <4>1, <4>2
      <3> QED  BY <3>1, <3>2
    <2> QED  BY <2>6, <2>7, <2>8
  <1>9. vol' = vol /\ Intact' = Intact /\ (\A x : StartOf(x)' = StartOf(x)) /\ Compressed' = Compressed
    BY <1>1, SameVolume DEF StartOf, Compressed
  <1>10. DecodeOK'
    BY <1>1, <1>2, <1>5, <1>6, <1>8, <1>9 DEF DecodeOK
  <1>11. CacheIsWhole'
    BY <1>1, SameVolume DEF CacheIsWhole
  <1>12. decoded' \in Seq(Byte) \cup {NotDecoded}
    BY <1>1 DEF TypeOK
  <1> QED  BY <1>1, <1>7, <1>10, <1>11, <1>12, DecodeFrame

LEMMA DecodeDoneIInv == IInv /\ DecodeDone => IInv'
  <1> SUFFICES ASSUME IInv, DecodeDone PROVE IInv'
    OBVIOUS
  <1>1. /\ TypeOK /\ DecodeOK /\ pc = "decode" /\ dec.k > Len(vol.heads)
        /\ decoded' = dec.out /\ pc' = "block" /\ dec' = NoDec
        /\ UNCHANGED <<vol, verifier, calls, call, blk, buf, produced, result>>
    BY DEF IInv, DecodeDone
  <1>2. dec.out \in Seq(Byte) /\ NoDec \in [k : Nat \ {0}, out : Seq(Byte)]
    BY <1>1 DEF TypeOK, NoDec
  <1>3. ASSUME Intact PROVE dec.out = Genuine[vol]
    <2>1. StartOf(dec.k) = vol.size
      BY <1>1 DEF StartOf
    <2>2. Len(dec.out) = vol.size /\ \A i \in 1..vol.size : dec.out[i] = Genuine[vol][i]
      BY <1>1, <1>3, <2>1 DEF DecodeOK
    <2>3. Len(Genuine[vol]) = vol.size /\ Genuine[vol] \in Seq(Byte)
      BY <1>1, <1>3, VolType DEF Intact, Stores
    <2> QED  BY <1>2, <2>2, <2>3, SeqEqual
  <1>4. CacheIsWhole'
    BY <1>1, <1>3, SameVolume DEF CacheIsWhole
  <1>5. DecodeOK'
    BY <1>1 DEF DecodeOK
  <1> QED  BY <1>1, <1>2, <1>4, <1>5, DecodeFrame

-----------------------------------------------------------------------------
LEMMA StutterIInv == IInv /\ UNCHANGED vars => IInv'
  <1> SUFFICES ASSUME IInv, UNCHANGED vars PROVE IInv'
    OBVIOUS
  <1>1. /\ TypeOK /\ Underway /\ FilledOK /\ DecodeOK /\ SurfacedIsTrusted /\ ReadsTheFile /\ CacheIsWhole
        /\ UNCHANGED <<vol, verifier, call, pc, blk, buf, produced, decoded, dec, result>>
    BY DEF IInv, vars
  <1>2. TypeOK'
    BY <1>1 DEF TypeOK
  <1>3. Underway'
    <2>1. Reach' = Reach
      BY <1>1 DEF Reach, End
    <2> QED  BY <1>1, <2>1 DEF Underway
  <1>4. FilledOK' /\ SurfacedIsTrusted'
    BY <1>1, SameBuffer
  <1>5. DecodeOK'
    <2>1. Intact' = Intact /\ (\A x : StartOf(x)' = StartOf(x)) /\ Compressed' = Compressed
      BY <1>1, SameVolume DEF StartOf, Compressed
    <2> QED  BY <1>1, <2>1 DEF DecodeOK
  <1>6. ReadsTheFile'
    <2>1. Expected' = Expected /\ Intact' = Intact
      BY <1>1, SameVolume DEF Expected
    <2> QED  BY <1>1, <2>1 DEF ReadsTheFile
  <1>7. CacheIsWhole'
    BY <1>1, SameVolume DEF CacheIsWhole
  <1> QED  BY <1>2, <1>3, <1>4, <1>5, <1>6, <1>7 DEF IInv

LEMMA NextIInv == IInv /\ [Next]_vars => IInv'
  BY CopyBlockIInv, FailuresIInv, ReadDoneIInv, ReadAtIInv, MaterialiseIInv, SkipEmptyHeadIInv,
     DecodeHeadIInv, DecodeDoneIInv, StutterIInv DEF Next, Step

LEMMA Invariance == Spec => []IInv
  BY InitIInv, NextIInv, PTL DEF Spec

(* With a verifier over the genuine file, every byte in the caller's buffer  *)
(* is the genuine file's at that offset, whatever the volume holds and       *)
(* whatever fails later (erofs.rs:718).                                      *)
THEOREM OnlyTrustedBytes == Spec => []SurfacedIsTrusted
  <1>1. IInv => SurfacedIsTrusted
    BY DEF IInv
  <1> QED  BY <1>1, Invariance, PTL

(* A successful read_at fills exactly the part of the request inside the     *)
(* file, and on an intact volume with the file, in each of the four layouts. *)
THEOREM ReadsExactly == Spec => []ReadsTheFile
  <1>1. IInv => ReadsTheFile
    BY DEF IInv
  <1> QED  BY <1>1, Invariance, PTL

(* What the decoded-file cache of an intact volume holds is the file, after  *)
(* any number of calls that failed in the middle of a decode.                *)
THEOREM CachesWholeFiles == Spec => []CacheIsWhole
  <1>1. IInv => CacheIsWhole
    BY DEF IInv
  <1> QED  BY <1>1, Invariance, PTL
=============================================================================
