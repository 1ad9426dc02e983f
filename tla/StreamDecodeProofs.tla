------------------------ MODULE StreamDecodeProofs --------------------------
(***************************************************************************)
(* Proofs about decode_stream, for every input, cap and LZ4 block size.     *)
(***************************************************************************)
EXTENDS StreamDecode, FiniteSetTheorems, SequenceTheorems, TLAPS

Cell == Nat \X Nat

(* The bytes gathered so far, a zstd frame that is not over included. *)
Gathered == out \o frame

TypeOK ==
    /\ input \in Inputs
    /\ at \in 1..N + 1
    /\ out \in Seq(Cell)
    /\ frame \in Seq(Cell)
    /\ frames \in Nat
    /\ inside \in BOOLEAN
    /\ result \in {"none", "ok", "Unsupported", "Corrupt", "Decompress", "FileTooLarge"}

(* Every chunk before rest has been gathered, whole and in order; only a     *)
(* zstd frame that is not over is kept apart.                                *)
GatheredOK ==
    /\ CellsIn(Gathered) = CellsTo(at - 1)
    /\ InOrder(Gathered)
    /\ frame # <<>> => Codec = "zstd" /\ inside

(* What the items before rest are, by codec: what of its grammar the parser  *)
(* has seen.                                                                 *)
ParsedOne ==
    Codec \in {"gzip", "xz", "lzma"} /\ Running =>
        IF inside THEN at > 1 /\ T(1) = "header" /\ \A k \in 2..at - 1 : T(k) = "chunk"
                  ELSE at = 1
ParsedZstd ==
    Codec = "zstd" =>
        /\ \A i \in 1..at - 1 : ZstdItem(i)
        /\ inside <=> at > 1 /\ Opens(at - 1)
        /\ frames > 0 <=> \E i \in 1..at - 1 : T(i) = "end"
ParsedLz4 ==
    Codec = "lz4" =>
        IF inside THEN /\ at > 1
                       /\ T(1) = "header"
                       /\ \A i \in 1..at - 1 : T(i) \in {"header", "chunk"}
                  ELSE at = 1

IInv ==
    /\ TypeOK
    /\ WithinCap
    /\ GatheredOK
    /\ ParsedOne
    /\ ParsedZstd
    /\ ParsedLz4
    /\ DecodesTheStream
    /\ FailsForAReason

-----------------------------------------------------------------------------
(* What an input is. *)
LEMMA InputType ==
    ASSUME TypeOK
    PROVE  /\ N \in Nat
           /\ \A i \in 1..N : /\ T(i) \in {"header", "skippable", "chunk", "end",
                                           "trailer", "bad", "other"}
                              /\ input.items[i].n \in Nat
  <1>1. input.items \in Seq(Items)
    BY InputsAssumption DEF TypeOK
  <1>2. N \in Nat /\ \A i \in 1..N : input.items[i] \in Items
    BY <1>1 DEF N
  <1> QED  BY <1>2 DEF Items, T

(* Appending the bytes of item a to bytes of items before it keeps their     *)
(* order and adds exactly those bytes.                                       *)
LEMMA AppendItem ==
    ASSUME NEW s \in Seq(Cell), InOrder(s), NEW a \in Nat, NEW n \in Nat,
           \A p \in 1..Len(s) : s[p][1] < a
    PROVE  LET c == [k \in 1..n |-> <<a, k>>] IN
           /\ c \in Seq(Cell)
           /\ Len(c) = n
           /\ s \o c \in Seq(Cell)
           /\ Len(s \o c) = Len(s) + n
           /\ InOrder(s \o c)
           /\ CellsIn(s \o c) = CellsIn(s) \cup {<<a, k>> : k \in 1..n}
  <1> DEFINE c == [k \in 1..n |-> <<a, k>>]
  <1>1. c \in Seq(Cell) /\ Len(c) = n
    BY DEF Cell
  <1>2. /\ s \o c \in Seq(Cell)
        /\ Len(s \o c) = Len(s) + n
        /\ \A i \in 1..Len(s) : (s \o c)[i] = s[i]
        /\ \A i \in Len(s) + 1..Len(s) + n : (s \o c)[i] = <<a, i - Len(s)>>
    BY <1>1, ConcatProperties
  <1>3. Len(s) \in Nat /\ \A p \in 1..Len(s) : s[p] \in Cell
    OBVIOUS
  <1>4. InOrder(s \o c)
    <2> SUFFICES ASSUME NEW q \in 1..Len(s) + n, NEW p \in 1..q - 1
                 PROVE  Precedes((s \o c)[p], (s \o c)[q])
      BY <1>2 DEF InOrder
    <2>1. CASE q <= Len(s)
      BY <1>2, <1>3, <2>1 DEF InOrder
    <2>2. CASE q > Len(s) /\ p <= Len(s)
      BY <1>2, <1>3, <2>2 DEF Precedes
    <2>3. CASE p > Len(s)
      BY <1>2, <1>3, <2>3 DEF Precedes
    <2> QED  BY <1>3, <2>1, <2>2, <2>3
  <1>5. CellsIn(s \o c) = CellsIn(s) \cup {<<a, k>> : k \in 1..n}
    <2>1. ASSUME NEW p \in 1..Len(s) + n
          PROVE  (s \o c)[p] \in CellsIn(s) \cup {<<a, k>> : k \in 1..n}
      <3>1. CASE p <= Len(s)
        BY <1>2, <1>3, <3>1 DEF CellsIn
      <3>2. CASE p > Len(s)
        <4>1. p - Len(s) \in 1..n /\ (s \o c)[p] = <<a, p - Len(s)>>
          BY <1>2, <1>3, <3>2
        <4> QED  BY <4>1
      <3> QED  BY <1>3, <3>1, <3>2
    <2>2. ASSUME NEW p \in 1..Len(s) PROVE s[p] \in CellsIn(s \o c)
      BY <1>2, <1>3 DEF CellsIn
    <2>3. ASSUME NEW k \in 1..n PROVE <<a, k>> \in CellsIn(s \o c)
      <3>1. Len(s) + k \in 1..Len(s \o c) /\ (s \o c)[Len(s) + k] = <<a, k>>
        BY <1>2, <1>3
      <3> QED  BY <3>1 DEF CellsIn
    <2>4. CellsIn(s \o c) \subseteq CellsIn(s) \cup {<<a, k>> : k \in 1..n}
      BY <1>2, <2>1 DEF CellsIn
    <2>5. CellsIn(s) \subseteq CellsIn(s \o c)
      BY <2>2 DEF CellsIn
    <2> QED  BY <2>3, <2>4, <2>5
  <1> QED  BY <1>1, <1>2, <1>4, <1>5

(* Bytes in order are distinct, so they are as many as their set. *)
LEMMA OrderedSize ==
    ASSUME NEW s \in Seq(Cell), InOrder(s)
    PROVE  IsFiniteSet(CellsIn(s)) /\ Cardinality(CellsIn(s)) = Len(s)
  <1>1. Len(s) \in Nat /\ \A p \in 1..Len(s) : s[p] \in Cell
    OBVIOUS
  <1> DEFINE f == [p \in 1..Len(s) |-> s[p]]
  <1>2. ASSUME NEW p \in 1..Len(s), NEW q \in 1..Len(s), p < q
        PROVE  s[p] # s[q]
    <2>1. Precedes(s[p], s[q])
      BY <1>1, <1>2 DEF InOrder
    <2>2. s[p] \in Cell /\ s[q] \in Cell
      BY <1>1
    <2> QED  BY <2>1, <2>2 DEF Precedes, Cell
  <1>3. ASSUME NEW p \in 1..Len(s), NEW q \in 1..Len(s), p # q
        PROVE  s[p] # s[q]
    BY <1>1, <1>2, <1>3
  <1>4. f \in [1..Len(s) -> CellsIn(s)]
    BY DEF CellsIn
  <1>5. f \in Injection(1..Len(s), CellsIn(s))
    BY <1>3, <1>4 DEF Injection, IsInjective
  <1>6. f \in Surjection(1..Len(s), CellsIn(s))
    BY <1>4 DEF Surjection, CellsIn
  <1>7. ExistsBijection(1..Len(s), CellsIn(s))
    BY <1>5, <1>6 DEF ExistsBijection, Bijection
  <1>8. IsFiniteSet(1..Len(s)) /\ Cardinality(1..Len(s)) = Len(s)
    BY <1>1, FS_Interval
  <1> QED  BY <1>7, <1>8, FS_Bijection

(* The bytes of finitely many items are finitely many. *)
LEMMA CellsFinite ==
    ASSUME TypeOK, NEW j \in 0..N
    PROVE  IsFiniteSet(CellsTo(j))
  <1> DEFINE S == {i \in 1..j : T(i) = "chunk"}
             C == {CellsOf(i) : i \in S}
             f == [i \in S |-> CellsOf(i)]
  <1>1. ASSUME NEW i \in S PROVE IsFiniteSet(CellsOf(i))
    <2>1. input.items[i].n \in Nat
      BY InputType
    <2>2. IsFiniteSet(1..input.items[i].n)
      BY <2>1, FS_Interval
    <2>5. IsFiniteSet({i})
      BY FS_Singleton
    <2>3. IsFiniteSet({i} \X (1..input.items[i].n))
      BY <2>2, <2>5, FS_Product
    <2>4. CellsOf(i) \in SUBSET ({i} \X (1..input.items[i].n))
      BY DEF CellsOf
    <2> QED  BY <2>3, <2>4, FS_Subset
  <1>2. IsFiniteSet(1..j)
    BY InputType, FS_Interval
  <1>3. IsFiniteSet(S)
    BY <1>2, FS_Subset
  <1>4. f \in Surjection(S, C)
    <2>1. f \in [S -> C]
      OBVIOUS
    <2>2. \A c \in C : \E i \in S : f[i] = c
      OBVIOUS
    <2> QED  BY <2>1, <2>2 DEF Surjection
  <1>5. IsFiniteSet(C)
    BY <1>3, <1>4, FS_Surjection
  <1>6. IsFiniteSet(UNION C)
    BY <1>1, <1>5, FS_UNION
  <1> QED  BY <1>6 DEF CellsTo

(* The bytes up to one item more are the same, or that chunk's as well. *)
LEMMA NextItem ==
    ASSUME TypeOK, NEW a \in 1..N
    PROVE  /\ T(a) # "chunk" => CellsTo(a) = CellsTo(a - 1)
           /\ T(a) = "chunk" => CellsTo(a) = CellsTo(a - 1) \cup CellsOf(a)
  <1>1. a \in Nat /\ 1..a = 1..a - 1 \cup {a}
    BY InputType
  <1>2. {i \in 1..a : T(i) = "chunk"}
           = {i \in 1..a - 1 : T(i) = "chunk"} \cup (IF T(a) = "chunk" THEN {a} ELSE {})
    BY <1>1
  <1> QED  BY <1>2 DEF CellsTo

LEMMA MoreItems ==
    ASSUME TypeOK, NEW j \in 0..N, NEW i \in 0..j
    PROVE  CellsTo(i) \subseteq CellsTo(j)
  BY InputType DEF CellsTo

(* The bytes gathered come from items before rest. *)
LEMMA GatheredBefore ==
    ASSUME TypeOK, GatheredOK
    PROVE  /\ Gathered \in Seq(Cell)
           /\ Len(Gathered) = Len(out) + Len(frame)
           /\ \A p \in 1..Len(Gathered) : Gathered[p][1] < at
  <1>1. Gathered \in Seq(Cell) /\ Len(Gathered) = Len(out) + Len(frame)
    BY ConcatProperties DEF TypeOK, Gathered
  <1>2. ASSUME NEW p \in 1..Len(Gathered) PROVE Gathered[p][1] < at
    <2>1. Gathered[p] \in CellsTo(at - 1)
      BY DEF GatheredOK, CellsIn
    <2>2. PICK i \in 1..at - 1 : Gathered[p] \in CellsOf(i)
      BY <2>1 DEF CellsTo
    <2>3. Gathered[p][1] = i
      BY <2>2 DEF CellsOf
    <2>4. at \in Nat
      BY InputType DEF TypeOK
    <2> QED  BY <2>3, <2>4
  <1> QED  BY <1>1, <1>2

(* Gathering the chunk at rest: its bytes come last and complete the bytes   *)
(* of the items so far.                                                      *)
LEMMA GatherChunk ==
    ASSUME TypeOK, GatheredOK, Sees("chunk")
    PROVE  /\ Chunk \in Seq(Cell)
           /\ ChunkLen \in Nat
           /\ Len(Chunk) = ChunkLen
           /\ at \in 1..N
           /\ Gathered \o Chunk \in Seq(Cell)
           /\ Len(Gathered \o Chunk) = Len(out) + Len(frame) + ChunkLen
           /\ InOrder(Gathered \o Chunk)
           /\ CellsIn(Gathered \o Chunk) = CellsTo(at)
  <1>1. at \in 1..N /\ at \in Nat /\ T(at) = "chunk"
    BY InputType DEF TypeOK, Sees, N, T
  <1>2. ChunkLen \in Nat
    BY <1>1, InputType DEF ChunkLen
  <1>3. /\ Gathered \in Seq(Cell)
        /\ Len(Gathered) = Len(out) + Len(frame)
        /\ \A p \in 1..Len(Gathered) : Gathered[p][1] < at
    BY GatheredBefore
  <1>4. InOrder(Gathered) /\ CellsIn(Gathered) = CellsTo(at - 1)
    BY DEF GatheredOK
  <1>5. Chunk = [k \in 1..ChunkLen |-> <<at, k>>]
    BY DEF Chunk, ChunkLen
  <1>6. /\ Chunk \in Seq(Cell)
        /\ Len(Chunk) = ChunkLen
        /\ Gathered \o Chunk \in Seq(Cell)
        /\ Len(Gathered \o Chunk) = Len(Gathered) + ChunkLen
        /\ InOrder(Gathered \o Chunk)
        /\ CellsIn(Gathered \o Chunk) = CellsIn(Gathered) \cup {<<at, k>> : k \in 1..ChunkLen}
    BY <1>1, <1>2, <1>3, <1>4, <1>5, AppendItem
  <1>7. CellsTo(at) = CellsTo(at - 1) \cup {<<at, k>> : k \in 1..ChunkLen}
    BY <1>1, NextItem DEF CellsOf, ChunkLen
  <1> QED  BY <1>1, <1>2, <1>3, <1>4, <1>6, <1>7

(* A stream that holds the chunk at rest is above the cap when that chunk    *)
(* does not fit.                                                             *)
LEMMA AboveCap ==
    ASSUME TypeOK, GatheredOK, Sees("chunk"),
           Len(out) + Len(frame) + ChunkLen > MaxOut,
           NEW j \in at..N
    PROVE  Cardinality(CellsTo(j)) > MaxOut
  <1>1. /\ Gathered \o Chunk \in Seq(Cell)
        /\ Len(Gathered \o Chunk) = Len(out) + Len(frame) + ChunkLen
        /\ InOrder(Gathered \o Chunk)
        /\ CellsIn(Gathered \o Chunk) = CellsTo(at)
        /\ at \in 1..N
    BY GatherChunk
  <1>2. Cardinality(CellsTo(at)) = Len(out) + Len(frame) + ChunkLen
    BY <1>1, OrderedSize
  <1>3. j \in 0..N /\ at \in 0..j
    BY <1>1, InputType
  <1>4. IsFiniteSet(CellsTo(j)) /\ CellsTo(at) \in SUBSET CellsTo(j)
    BY <1>3, CellsFinite, MoreItems
  <1>5. Cardinality(CellsTo(at)) <= Cardinality(CellsTo(j))
    BY <1>4, FS_Subset
  <1>6. /\ Cardinality(CellsTo(j)) \in Nat
        /\ Len(out) + Len(frame) + ChunkLen \in Nat
    BY <1>1, <1>4, FS_CardinalityType
  <1> QED  BY <1>2, <1>5, <1>6, CapAssumption

-----------------------------------------------------------------------------
(* What the parser has seen decides which prefixes are whole streams.        *)

(* gzip, xz, lzma: no stream ends among the items before rest. *)
LEMMA OneStream ==
    ASSUME TypeOK, ParsedOne, Running, Codec \in {"gzip", "xz", "lzma"}, inside,
           NEW j \in 1..N, IsStream(j)
    PROVE  /\ Codec \in {"xz", "lzma"} => j >= at /\ (j > at => T(at) = "chunk")
           /\ Codec = "gzip" => j > at /\ (j > at + 1 => T(at) = "chunk")
  <1>1. at \in Nat /\ at > 1 /\ T(1) = "header" /\ \A k \in 2..at - 1 : T(k) = "chunk"
    BY InputType DEF TypeOK, ParsedOne
  <1>2. j \in Nat
    BY InputType
  <1>3. CASE Codec \in {"xz", "lzma"}
    <2>1. j > 1 /\ T(j) = "end" /\ \A k \in 2..j - 1 : T(k) = "chunk"
      BY <1>3 DEF IsStream, Framed
    <2> QED  BY <1>1, <1>2, <1>3, <2>1
  <1>4. CASE Codec = "gzip"
    <2>1. j > 2 /\ T(j - 1) = "end" /\ \A k \in 2..j - 2 : T(k) = "chunk"
      BY <1>2, <1>4 DEF IsStream, Framed
    <2> QED  BY <1>1, <1>2, <1>4, <2>1
  <1> QED  BY <1>3, <1>4

(* xz, lzma: the end at rest makes the stream whole. *)
LEMMA OneEnds ==
    ASSUME TypeOK, ParsedOne, Running, Codec \in {"xz", "lzma"}, inside, Sees("end")
    PROVE  at \in 1..N /\ Longest(at) /\ CellsTo(at) = CellsTo(at - 1)
  <1>1. at \in 1..N /\ at \in Nat /\ T(at) = "end"
    BY InputType DEF TypeOK, Sees, N, T
  <1>2. at > 1 /\ T(1) = "header" /\ \A k \in 2..at - 1 : T(k) = "chunk"
    BY DEF ParsedOne
  <1>3. IsStream(at)
    BY <1>1, <1>2 DEF IsStream, Framed
  <1>4. \A k \in at + 1..N : ~ IsStream(k)
    BY <1>1, OneStream, InputType
  <1>5. CellsTo(at) = CellsTo(at - 1)
    BY <1>1, NextItem
  <1> QED  BY <1>1, <1>3, <1>4, <1>5 DEF Longest

(* gzip: the end and the trailer at rest do. *)
LEMMA GzipEnds ==
    ASSUME TypeOK, ParsedOne, Running, Codec = "gzip", inside, Sees("end"), ~ GzipCut
    PROVE  at + 1 \in 1..N /\ Longest(at + 1) /\ CellsTo(at + 1) = CellsTo(at - 1)
  <1>1. at \in 1..N /\ at + 1 \in 1..N /\ at \in Nat /\ T(at) = "end" /\ T(at + 1) = "trailer"
    BY InputType DEF TypeOK, Sees, N, T, GzipCut
  <1>2. at > 1 /\ T(1) = "header" /\ \A k \in 2..at - 1 : T(k) = "chunk"
    BY DEF ParsedOne
  <1>3. IsStream(at + 1)
    <2>1. (at + 1) - 1 = at /\ at + 1 > 2
      BY <1>1, <1>2
    <2> QED  BY <1>1, <1>2, <2>1 DEF IsStream, Framed
  <1>4. \A k \in at + 2..N : ~ IsStream(k)
    BY <1>1, OneStream, InputType
  <1>5. CellsTo(at) = CellsTo(at - 1) /\ CellsTo(at + 1) = CellsTo(at)
    BY <1>1, NextItem
  <1> QED  BY <1>1, <1>3, <1>4, <1>5 DEF Longest

(* Nothing is a stream when the parser of gzip, xz or lzma fails. *)
LEMMA OneFails ==
    ASSUME TypeOK, ParsedOne, Running, Codec \in {"gzip", "xz", "lzma"}, Misplaced,
           NEW j \in 1..N
    PROVE  ~ IsStream(j)
  <1> SUFFICES ASSUME IsStream(j) PROVE FALSE
    OBVIOUS
  <1>1. at \in Nat /\ j \in Nat /\ N \in Nat
    BY InputType DEF TypeOK
  <1>2. CASE ~ inside
    <2>1. at = 1 /\ ~ Sees("header")
      BY <1>2 DEF ParsedOne, Misplaced
    <2>2. T(1) # "header"
      BY <1>1, <2>1 DEF Sees, T, N
    <2> QED  BY <2>2 DEF IsStream, Framed
  <1>3. CASE inside /\ Codec \in {"xz", "lzma"}
    <2>1. ~ Sees("chunk") /\ ~ Sees("end")
      BY <1>3 DEF Misplaced
    <2>2. T(j) = "end" /\ j >= at /\ (j > at => T(at) = "chunk")
      BY <1>3, OneStream DEF IsStream, Framed
    <2> QED  BY <1>1, <2>1, <2>2 DEF Sees, T, N
  <1>4. CASE inside /\ Codec = "gzip"
    <2>1. ~ Sees("chunk") /\ (Sees("end") => GzipCut)
      BY <1>4 DEF Misplaced
    <2>2. T(j - 1) = "end" /\ T(j) = "trailer" /\ j > at /\ (j > at + 1 => T(at) = "chunk")
      BY <1>4, OneStream DEF IsStream, Framed
    <2>3. at <= N /\ j = at + 1
      BY <1>1, <2>1, <2>2 DEF Sees, T, N
    <2>4. T(at) = "end" /\ T(at + 1) = "trailer"
      BY <1>1, <2>2, <2>3
    <2> QED  BY <1>1, <2>1, <2>3, <2>4 DEF Sees, T, N, GzipCut
  <1> QED  BY <1>2, <1>3, <1>4

(* zstd: a stream that ends before rest is followed by another frame. *)
LEMMA ZstdShort ==
    ASSUME TypeOK, ParsedZstd, Codec = "zstd", NEW j \in 1..N, Longest(j), j < at,
           ~ inside => j < at - 1
    PROVE  BrokenAfter(j)
  <1>1. at \in Nat /\ at <= N + 1 /\ j \in Nat /\ N \in Nat
    BY InputType DEF TypeOK
  <1>2. ZstdFrames(j) /\ \E i \in 1..j : T(i) = "end"
    BY DEF Longest, IsStream
  <1>3. j < at - 1
    BY <1>1, <1>2 DEF ParsedZstd, ZstdFrames
  <1>4. j + 1 \in 1..N /\ ZstdItem(j + 1) /\ ~ Opens(j) /\ (j + 1) - 1 = j
    BY <1>1, <1>2, <1>3 DEF ParsedZstd, ZstdFrames
  <1>5. T(j + 1) \in {"header", "skippable"}
    BY <1>4 DEF ZstdItem
  <1>6. CASE T(j + 1) = "skippable"
    <2>1. ZstdFrames(j + 1)
      <3>1. ~ Opens(j + 1)
        BY <1>6 DEF Opens
      <3>2. \A i \in 1..j + 1 : ZstdItem(i)
        BY <1>1, <1>2, <1>4 DEF ZstdFrames
      <3> QED  BY <3>1, <3>2 DEF ZstdFrames
    <2>2. \E i \in 1..j + 1 : T(i) = "end"
      BY <1>1, <1>2
    <2>3. IsStream(j + 1)
      BY <2>1, <2>2 DEF IsStream
    <2> QED  BY <1>1, <1>4, <2>3 DEF Longest
  <1>7. CASE T(j + 1) = "header"
    BY <1>1, <1>4, <1>7 DEF BrokenAfter
  <1> QED  BY <1>5, <1>6, <1>7

(* zstd: no stream reaches past an item that has no place in one. *)
LEMMA ZstdLong ==
    ASSUME TypeOK, ParsedZstd, Codec = "zstd", NEW j \in 1..N, IsStream(j), j >= at
    PROVE  /\ at \in 1..N
           /\ inside => T(at) \in {"chunk", "end"}
           /\ ~ inside => T(at) \in {"header", "skippable"}
  <1>1. at \in 1..j /\ at \in 1..N /\ at \in Nat
    BY InputType DEF TypeOK
  <1>2. ZstdItem(at)
    BY <1>1 DEF IsStream, ZstdFrames
  <1> QED  BY <1>1, <1>2 DEF ParsedZstd, ZstdItem

-----------------------------------------------------------------------------
LEMMA InitIInv == Init => IInv
  <1> SUFFICES ASSUME Init PROVE IInv
    OBVIOUS
  <1>1. input \in Inputs /\ at = 1 /\ out = <<>> /\ frame = <<>>
    BY DEF Init
  <1>2. input.items \in Seq(Items)
    BY <1>1, InputsAssumption
  <1>3. TypeOK
    <2>1. N \in Nat /\ at \in 1..N + 1
      BY <1>1, <1>2 DEF N
    <2>2. out \in Seq(Cell) /\ frame \in Seq(Cell)
      BY <1>1
    <2> QED  BY <1>1, <2>1, <2>2 DEF Init, TypeOK
  <1>4. out \o frame = <<>>
    BY <1>1
  <1>5. GatheredOK
    BY <1>1, <1>4 DEF GatheredOK, Gathered, CellsIn, CellsTo, InOrder
  <1>6. WithinCap
    BY <1>1, CapAssumption DEF WithinCap
  <1>7. ParsedOne /\ ParsedLz4
    BY DEF Init, ParsedOne, ParsedLz4
  <1>8. ParsedZstd
    BY DEF Init, ParsedZstd
  <1>9. DecodesTheStream /\ FailsForAReason
    BY DEF Init, DecodesTheStream, FailsForAReason
  <1> QED  BY <1>3, <1>5, <1>6, <1>7, <1>8, <1>9 DEF IInv

(* A call that returns leaves everything but its result as it is. *)
LEMMA ReturnKeeps ==
    ASSUME IInv, Running, NEW r \in {"ok", "Unsupported", "Corrupt", "Decompress", "FileTooLarge"},
           Return(r),
           r = "ok" => /\ at - 1 \in 1..N
                       /\ Longest(at - 1)
                       /\ frame = <<>>,
           r # "ok" => \A j \in 1..N : Longest(j) =>
                           \/ BrokenAfter(j)
                           \/ Cardinality(CellsTo(j)) > MaxOut
                           \/ Codec = "lz4" /\ \E i \in 1..j : input.items[i].n > LZ4_LEGACY_BLOCK
    PROVE  IInv'
  <1>1. /\ result' = r /\ input' = input /\ at' = at /\ out' = out /\ frame' = frame
        /\ frames' = frames /\ inside' = inside
    BY DEF Return
  <1>2. TypeOK'
    BY <1>1 DEF IInv, TypeOK, N
  <1>3. WithinCap'
    BY <1>1 DEF IInv, WithinCap
  <1>4. GatheredOK'
    <2>1. Gathered' = Gathered /\ CellsTo(at - 1)' = CellsTo(at - 1)
      BY <1>1 DEF Gathered, CellsTo, CellsOf, T
    <2>2. CellsIn(Gathered)' = CellsIn(Gathered) /\ InOrder(Gathered)' = InOrder(Gathered)
      BY <2>1 DEF CellsIn, InOrder, Precedes
    <2> QED  BY <1>1, <2>1, <2>2 DEF IInv, GatheredOK, Codec
  <1>5. ParsedOne'
    BY <1>1 DEF ParsedOne, Running
  <1>6. ParsedZstd' /\ ParsedLz4'
    BY <1>1 DEF IInv, ParsedZstd, ParsedLz4, ZstdItem, Opens, T, Codec
  <1>7. DecodesTheStream'
    <2>1. CASE r = "ok"
      <3>1. Longest(at - 1)'
        BY <1>1, <2>1 DEF Longest, IsStream, Framed, ZstdFrames, ZstdItem, Opens, T, Codec, N
      <3>2. out \o frame = out
        BY <2>1, ConcatEmptySeq DEF IInv, TypeOK
      <3>3. CellsIn(out) = CellsTo(at - 1) /\ InOrder(out)
        BY <3>2 DEF IInv, GatheredOK, Gathered
      <3>4. (CellsIn(out) = CellsTo(at - 1) /\ InOrder(out))'
        BY <1>1, <3>3 DEF CellsTo, CellsOf, CellsIn, InOrder, Precedes, T
      <3>5. (at - 1 \in 1..N)'
        BY <1>1, <2>1 DEF N
      <3> QED  BY <3>1, <3>4, <3>5 DEF DecodesTheStream
    <2>2. CASE r # "ok"
      BY <1>1, <2>2 DEF DecodesTheStream
    <2> QED  BY <2>1, <2>2
  <1>8. FailsForAReason'
    <2>1. CASE r = "ok"
      BY <1>1, <2>1 DEF FailsForAReason
    <2>2. CASE r # "ok"
      <3> SUFFICES ASSUME NEW j \in 1..N, Longest(j)'
                   PROVE  \/ BrokenAfter(j)'
                          \/ (Cardinality(CellsTo(j)) > MaxOut)'
                          \/ (Codec = "lz4" /\ \E i \in 1..j : input.items[i].n > LZ4_LEGACY_BLOCK)'
        BY <1>1 DEF FailsForAReason, N
      <3>1. Longest(j)
        BY <1>1 DEF Longest, IsStream, Framed, ZstdFrames, ZstdItem, Opens, T, Codec, N
      <3>2. CellsTo(j)' = CellsTo(j)
        BY <1>1 DEF CellsTo, CellsOf, T
      <3>3. BrokenAfter(j)' = BrokenAfter(j)
        BY <1>1 DEF BrokenAfter, T, N, Codec
      <3> QED  BY <1>1, <2>2, <3>1, <3>2, <3>3 DEF Codec
    <2> QED  BY <2>1, <2>2
  <1> QED  BY <1>2, <1>3, <1>4, <1>5, <1>6, <1>7, <1>8 DEF IInv

(* A step that goes on leaves nothing to say of a result. *)
LEMMA GoesOn ==
    ASSUME result' = "none"
    PROVE  DecodesTheStream' /\ FailsForAReason'
  BY DEF DecodesTheStream, FailsForAReason

(* A step that reads item at and gathers nothing of it: a header, a          *)
(* skippable frame.                                                          *)
LEMMA PassItem ==
    ASSUME TypeOK, GatheredOK, at \in 1..N, T(at) # "chunk",
           UNCHANGED <<input, out, frame>>, at' = at + 1, frame = <<>>
    PROVE  GatheredOK'
  <1>1. at \in Nat
    BY InputType
  <1>2. CellsTo(at) = CellsTo(at - 1)
    BY NextItem
  <1>3. CellsTo(at - 1)' = CellsTo(at)
    BY <1>1 DEF CellsTo, CellsOf, T
  <1>4. Gathered' = Gathered
    BY DEF Gathered
  <1>5. CellsIn(Gathered)' = CellsIn(Gathered) /\ InOrder(Gathered)' = InOrder(Gathered)
    BY <1>4 DEF CellsIn, InOrder, Precedes
  <1> QED  BY <1>2, <1>3, <1>5 DEF GatheredOK

(* A step that gathers the chunk at rest. *)
LEMMA TakeChunk ==
    ASSUME TypeOK, GatheredOK, Sees("chunk"), inside, UNCHANGED <<input, inside>>, at' = at + 1,
           \/ Codec = "zstd" /\ frame' = frame \o Chunk /\ UNCHANGED out
           \/ Codec # "zstd" /\ out' = out \o Chunk /\ UNCHANGED frame
    PROVE  /\ GatheredOK'
           /\ out' \in Seq(Cell)
           /\ frame' \in Seq(Cell)
           /\ Len(out') + Len(frame') = Len(out) + Len(frame) + ChunkLen
  <1>1. /\ Chunk \in Seq(Cell)
        /\ ChunkLen \in Nat
        /\ Len(Chunk) = ChunkLen
        /\ at \in 1..N
        /\ InOrder(Gathered \o Chunk)
        /\ CellsIn(Gathered \o Chunk) = CellsTo(at)
    BY GatherChunk
  <1>2. out \in Seq(Cell) /\ frame \in Seq(Cell) /\ at \in Nat
    BY InputType DEF TypeOK
  <1>3. Codec # "zstd" => frame = <<>>
    BY DEF GatheredOK
  <1>9. /\ out \o Chunk \in Seq(Cell) /\ Len(out \o Chunk) = Len(out) + ChunkLen
        /\ frame \o Chunk \in Seq(Cell) /\ Len(frame \o Chunk) = Len(frame) + ChunkLen
        /\ Len(out) \in Nat /\ Len(frame) \in Nat
    <2>1. out \o Chunk \in Seq(Cell) /\ Len(out \o Chunk) = Len(out) + Len(Chunk)
      BY <1>1, <1>2, ConcatProperties, Zenon
    <2>2. frame \o Chunk \in Seq(Cell) /\ Len(frame \o Chunk) = Len(frame) + Len(Chunk)
      BY <1>1, <1>2, ConcatProperties, Zenon
    <2> QED  BY <1>1, <1>2, <2>1, <2>2
  <1>4. /\ out' \in Seq(Cell)
        /\ frame' \in Seq(Cell)
        /\ Len(out') + Len(frame') = Len(out) + Len(frame) + ChunkLen
    <2>1. CASE Codec = "zstd"
      <3>1. frame' = frame \o Chunk /\ out' = out
        BY <2>1
      <3>2. Len(frame') = Len(frame) + ChunkLen /\ Len(out') = Len(out)
        BY <1>9, <3>1
      <3>3. out' \in Seq(Cell) /\ frame' \in Seq(Cell)
        BY <1>2, <1>9, <3>1, Zenon
      <3>4. Len(out') + Len(frame') = Len(out) + Len(frame) + ChunkLen
        BY <1>1, <1>9, <3>2
      <3> QED  BY <3>3, <3>4
    <2>2. CASE Codec # "zstd"
      <3>1. out' = out \o Chunk /\ frame' = frame
        BY <2>2
      <3>2. Len(out') = Len(out) + ChunkLen /\ Len(frame') = Len(frame)
        BY <1>9, <3>1
      <3>3. out' \in Seq(Cell) /\ frame' \in Seq(Cell)
        BY <1>2, <1>9, <3>1, Zenon
      <3>4. Len(out') + Len(frame') = Len(out) + Len(frame) + ChunkLen
        BY <1>1, <1>9, <3>2
      <3> QED  BY <3>3, <3>4
    <2> QED  BY <2>1, <2>2
  <1>5. Gathered' = Gathered \o Chunk
    <2>1. CASE Codec = "zstd"
      <3>1. (out \o frame) \o Chunk = out \o (frame \o Chunk)
        BY <1>1, <1>2, ConcatAssociative
      <3> QED  BY <2>1, <3>1 DEF Gathered
    <2>2. CASE Codec # "zstd"
      <3>1. out \o frame = out /\ out' \o frame' = out'
        BY <1>2, <1>3, <1>4, <2>2, ConcatEmptySeq
      <3> QED  BY <2>2, <3>1 DEF Gathered
    <2> QED  BY <2>1, <2>2
  <1>6. CellsTo(at - 1)' = CellsTo(at)
    BY <1>2 DEF CellsTo, CellsOf, T
  <1>7. CellsIn(Gathered)' = CellsIn(Gathered \o Chunk) /\ InOrder(Gathered)' = InOrder(Gathered \o Chunk)
    BY <1>5 DEF CellsIn, InOrder, Precedes
  <1>8. (frame # <<>> => Codec = "zstd" /\ inside)'
    BY <1>3 DEF Codec
  <1> QED  BY <1>1, <1>4, <1>6, <1>7, <1>8 DEF GatheredOK

LEMMA HeaderIInv == IInv /\ Header => IInv'
  <1> SUFFICES ASSUME IInv, Header PROVE IInv'
    OBVIOUS
  <1>1. /\ TypeOK /\ GatheredOK /\ ParsedOne /\ ParsedZstd /\ ParsedLz4 /\ WithinCap
        /\ Running /\ Codec # "lz4" /\ ~ inside /\ inside' = TRUE /\ at' = at + 1
        /\ UNCHANGED <<input, out, frame, frames, result>>
    BY DEF IInv, Header, Decodes
  <1>2. at \in 1..N /\ at \in Nat /\ T(at) = "header" /\ N \in Nat
    BY <1>1, InputType DEF TypeOK, Header, Sees, N, T
  <1>3. Codec' = Codec /\ N' = N /\ \A i : T(i)' = T(i)
    BY <1>1 DEF T, Codec, N
  <1>4. frame = <<>>
    BY <1>1 DEF GatheredOK
  <1>5. GatheredOK'
    BY <1>1, <1>2, <1>4, PassItem
  <1>6. TypeOK'
    BY <1>1, <1>2, <1>3 DEF TypeOK
  <1>7. WithinCap'
    BY <1>1 DEF WithinCap
  <1>8. ParsedOne'
    BY <1>1, <1>2 DEF ParsedOne, Codec, T, Running
  <1>9. ParsedZstd'
    <2> SUFFICES ASSUME Codec = "zstd" PROVE ParsedZstd'
      BY <1>3 DEF ParsedZstd
    <2>1. ZstdItem(at)
      BY <1>1, <1>2 DEF ParsedZstd, ZstdItem
    <2>2. \A i \in 1..at : ZstdItem(i)
      BY <1>1, <1>2, <2>1 DEF ParsedZstd
    <2>3. \A i : ZstdItem(i)' = ZstdItem(i) /\ Opens(i)' = Opens(i)
      BY <1>3 DEF ZstdItem, Opens
    <2>4. Opens(at - 1)' /\ at' - 1 = at /\ at' > 1
      BY <1>1, <1>2, <1>3 DEF Opens
    <2>5. (\E i \in 1..at : T(i) = "end") <=> (\E i \in 1..at - 1 : T(i) = "end")
      BY <1>2
    <2> QED  BY <1>1, <1>2, <1>3, <2>2, <2>3, <2>4, <2>5 DEF ParsedZstd
  <1>10. ParsedLz4'
    BY <1>1, <1>3 DEF ParsedLz4
  <1>11. DecodesTheStream' /\ FailsForAReason'
    BY <1>1, GoesOn DEF Running
  <1> QED  BY <1>5, <1>6, <1>7, <1>8, <1>9, <1>10, <1>11 DEF IInv

LEMMA SkipFrameIInv == IInv /\ SkipFrame => IInv'
  <1> SUFFICES ASSUME IInv, SkipFrame PROVE IInv'
    OBVIOUS
  <1>1. /\ TypeOK /\ GatheredOK /\ ParsedOne /\ ParsedZstd /\ ParsedLz4 /\ WithinCap
        /\ Running /\ Codec = "zstd" /\ ~ inside /\ at' = at + 1
        /\ UNCHANGED <<input, out, frame, frames, inside, result>>
    BY DEF IInv, SkipFrame, Decodes
  <1>2. at \in 1..N /\ at \in Nat /\ T(at) = "skippable" /\ N \in Nat
    BY <1>1, InputType DEF TypeOK, SkipFrame, Sees, N, T
  <1>3. Codec' = Codec /\ N' = N /\ \A i : T(i)' = T(i)
    BY <1>1 DEF T, Codec, N
  <1>4. frame = <<>>
    BY <1>1 DEF GatheredOK
  <1>5. GatheredOK'
    BY <1>1, <1>2, <1>4, PassItem
  <1>6. TypeOK'
    BY <1>1, <1>2, <1>3 DEF TypeOK
  <1>7. WithinCap'
    BY <1>1 DEF WithinCap
  <1>8. ParsedOne' /\ ParsedLz4'
    BY <1>1, <1>3 DEF ParsedOne, ParsedLz4
  <1>9. ParsedZstd'
    <2>1. ZstdItem(at)
      BY <1>1, <1>2 DEF ParsedZstd, ZstdItem
    <2>2. \A i \in 1..at : ZstdItem(i)
      BY <1>1, <1>2, <2>1 DEF ParsedZstd
    <2>3. \A i : ZstdItem(i)' = ZstdItem(i) /\ Opens(i)' = Opens(i)
      BY <1>3 DEF ZstdItem, Opens
    <2>4. ~ Opens(at - 1)' /\ at' - 1 = at
      BY <1>1, <1>2, <1>3 DEF Opens
    <2>5. (\E i \in 1..at : T(i) = "end") <=> (\E i \in 1..at - 1 : T(i) = "end")
      BY <1>2
    <2> QED  BY <1>1, <1>2, <1>3, <2>2, <2>3, <2>4, <2>5 DEF ParsedZstd
  <1>11. DecodesTheStream' /\ FailsForAReason'
    BY <1>1, GoesOn DEF Running
  <1> QED  BY <1>5, <1>6, <1>7, <1>8, <1>9, <1>11 DEF IInv

LEMMA PushChunkIInv == IInv /\ PushChunk => IInv'
  <1> SUFFICES ASSUME IInv, PushChunk PROVE IInv'
    OBVIOUS
  <1>1. /\ TypeOK /\ GatheredOK /\ ParsedOne /\ ParsedZstd /\ ParsedLz4 /\ WithinCap
        /\ Running /\ Codec # "lz4" /\ inside /\ Sees("chunk") /\ at' = at + 1
        /\ UNCHANGED <<input, frames, inside, result>>
    BY DEF IInv, PushChunk, Decodes
  <1>2. at \in 1..N /\ at \in Nat /\ T(at) = "chunk" /\ N \in Nat
    BY <1>1, InputType DEF TypeOK, Sees, N, T
  <1>3. Codec' = Codec /\ N' = N /\ \A i : T(i)' = T(i)
    BY <1>1 DEF T, Codec, N
  <1>4. \/ Codec = "zstd" /\ frame' = frame \o Chunk /\ UNCHANGED out
        \/ Codec # "zstd" /\ out' = out \o Chunk /\ UNCHANGED frame
    BY DEF PushChunk
  <1>5. /\ GatheredOK'
        /\ out' \in Seq(Cell)
        /\ frame' \in Seq(Cell)
        /\ Len(out') + Len(frame') = Len(out) + Len(frame) + ChunkLen
    BY <1>1, <1>4, TakeChunk
  <1>6. TypeOK'
    BY <1>1, <1>2, <1>3, <1>5 DEF TypeOK
  <1>7. WithinCap'
    <2>1. ChunkLen \in Nat /\ Len(out) \in Nat /\ Len(frame) \in Nat
      BY <1>1, GatherChunk DEF TypeOK
    <2>2. Len(frame) + ChunkLen <= MaxOut - Len(out)
      BY DEF PushChunk, Room
    <2> QED  BY <1>5, <2>1, <2>2, CapAssumption DEF WithinCap
  <1>8. ParsedOne' /\ ParsedLz4'
    <2>1. ParsedLz4'
      BY <1>1, <1>3 DEF ParsedLz4
    <2>2. CASE Codec \in {"gzip", "xz", "lzma"}
      <3>1. at > 1 /\ T(1) = "header" /\ \A k \in 2..at - 1 : T(k) = "chunk"
        BY <1>1, <2>2 DEF ParsedOne
      <3>2. \A k \in 2..at : T(k) = "chunk"
        BY <1>2, <3>1
      <3> QED  BY <1>1, <1>2, <1>3, <2>1, <3>1, <3>2 DEF ParsedOne
    <2>3. CASE Codec \notin {"gzip", "xz", "lzma"}
      BY <1>3, <2>1, <2>3 DEF ParsedOne
    <2> QED  BY <2>2, <2>3
  <1>9. ParsedZstd'
    <2> SUFFICES ASSUME Codec = "zstd" PROVE ParsedZstd'
      BY <1>3 DEF ParsedZstd
    <2>1. ZstdItem(at) /\ at > 1
      BY <1>1, <1>2 DEF ParsedZstd, ZstdItem
    <2>2. \A i \in 1..at : ZstdItem(i)
      BY <1>1, <1>2, <2>1 DEF ParsedZstd
    <2>3. \A i : ZstdItem(i)' = ZstdItem(i) /\ Opens(i)' = Opens(i)
      BY <1>3 DEF ZstdItem, Opens
    <2>4. Opens(at - 1)' /\ at' - 1 = at /\ at' > 1
      BY <1>1, <1>2, <1>3 DEF Opens
    <2>5. (\E i \in 1..at : T(i) = "end") <=> (\E i \in 1..at - 1 : T(i) = "end")
      BY <1>2
    <2> QED  BY <1>1, <1>2, <1>3, <2>2, <2>3, <2>4, <2>5 DEF ParsedZstd
  <1>11. DecodesTheStream' /\ FailsForAReason'
    BY <1>1, GoesOn DEF Running
  <1> QED  BY <1>5, <1>6, <1>7, <1>8, <1>9, <1>11 DEF IInv

LEMMA FrameEndIInv == IInv /\ FrameEnd => IInv'
  <1> SUFFICES ASSUME IInv, FrameEnd PROVE IInv'
    OBVIOUS
  <1>1. /\ TypeOK /\ GatheredOK /\ ParsedOne /\ ParsedZstd /\ ParsedLz4 /\ WithinCap
        /\ Running /\ Codec = "zstd" /\ inside /\ Sees("end") /\ at' = at + 1
        /\ out' = Gathered /\ frame' = <<>> /\ frames' = frames + 1 /\ inside' = FALSE
        /\ UNCHANGED <<input, result>>
    BY DEF IInv, FrameEnd, Decodes, Gathered
  <1>2. at \in 1..N /\ at \in Nat /\ T(at) = "end" /\ N \in Nat
    BY <1>1, InputType DEF TypeOK, Sees, N, T
  <1>3. Codec' = Codec /\ N' = N /\ \A i : T(i)' = T(i)
    BY <1>1 DEF T, Codec, N
  <1>4. Gathered \in Seq(Cell) /\ Len(Gathered) = Len(out) + Len(frame)
    BY <1>1, GatheredBefore
  <1>5. GatheredOK'
    <2>1. Gathered' = Gathered
      BY <1>1, <1>4, ConcatEmptySeq DEF Gathered
    <2>2. CellsIn(Gathered)' = CellsIn(Gathered) /\ InOrder(Gathered)' = InOrder(Gathered)
      BY <2>1 DEF CellsIn, InOrder, Precedes
    <2>3. CellsTo(at - 1)' = CellsTo(at)
      BY <1>1, <1>2 DEF CellsTo, CellsOf, T
    <2>4. CellsTo(at) = CellsTo(at - 1)
      BY <1>1, <1>2, NextItem
    <2> QED  BY <1>1, <2>2, <2>3, <2>4 DEF GatheredOK
  <1>6. TypeOK'
    <2>1. frame' \in Seq(Cell) /\ out' \in Seq(Cell)
      BY <1>1, <1>4
    <2>2. at' = at + 1
      BY <1>1
    <2>3. at' \in 1..N' + 1
      BY <1>2, <1>3, <2>2
    <2>4. frames' \in Nat
      BY <1>1 DEF TypeOK
    <2>5. inside' \in BOOLEAN
      BY <1>1
    <2> QED  BY <1>1, <2>1, <2>3, <2>4, <2>5 DEF TypeOK
  <1>7. WithinCap'
    <2>1. Len(out') = Len(out) + Len(frame) /\ Len(frame') = 0
      BY <1>1, <1>4
    <2>2. Len(out) \in Nat /\ Len(frame) \in Nat
      BY <1>1 DEF TypeOK
    <2> QED  BY <1>1, <2>1, <2>2 DEF WithinCap
  <1>8. ParsedOne' /\ ParsedLz4'
    BY <1>1, <1>3 DEF ParsedOne, ParsedLz4
  <1>9. ParsedZstd'
    <2>1. ZstdItem(at) /\ at > 1
      BY <1>1, <1>2 DEF ParsedZstd, ZstdItem
    <2>2. \A i \in 1..at : ZstdItem(i)
      BY <1>1, <1>2, <2>1 DEF ParsedZstd
    <2>3. \A i : ZstdItem(i)' = ZstdItem(i) /\ Opens(i)' = Opens(i)
      BY <1>3 DEF ZstdItem, Opens
    <2>4. ~ Opens(at - 1)' /\ at' - 1 = at
      BY <1>1, <1>2, <1>3 DEF Opens
    <2>5. (\E i \in 1..at - 1 : T(i) = "end")' /\ frames' > 0
      BY <1>1, <1>2, <1>3, <2>4 DEF TypeOK
    <2> QED  BY <1>1, <1>2, <1>3, <2>2, <2>3, <2>4, <2>5 DEF ParsedZstd
  <1>11. DecodesTheStream' /\ FailsForAReason'
    BY <1>1, GoesOn DEF Running
  <1> QED  BY <1>5, <1>6, <1>7, <1>8, <1>9, <1>11 DEF IInv

LEMMA StreamEndIInv == IInv /\ StreamEnd => IInv'
  <1> SUFFICES ASSUME IInv, StreamEnd PROVE IInv'
    OBVIOUS
  <1>1. /\ TypeOK /\ GatheredOK /\ ParsedOne /\ ParsedZstd /\ ParsedLz4 /\ WithinCap
        /\ Running /\ Codec \in {"gzip", "xz", "lzma"} /\ inside /\ Sees("end")
        /\ Codec = "gzip" => ~ GzipCut
        /\ at' = IF Codec = "gzip" THEN at + 2 ELSE at + 1
        /\ inside' = FALSE /\ result' = "ok"
        /\ UNCHANGED <<input, out, frame, frames>>
    BY DEF IInv, StreamEnd, Decodes
  <1>2. at \in Nat /\ N \in Nat
    BY <1>1, InputType DEF TypeOK
  <1>3. Codec' = Codec /\ N' = N /\ \A i : T(i)' = T(i)
    BY <1>1 DEF T, Codec, N
  <1>4. frame = <<>> /\ Gathered = out
    <2>1. frame = <<>>
      BY <1>1 DEF GatheredOK
    <2> QED  BY <1>1, <2>1, ConcatEmptySeq DEF TypeOK, Gathered
  <1>5. PICK j \in 1..N : at' = j + 1 /\ Longest(j) /\ CellsTo(j) = CellsTo(at - 1)
    <2>1. CASE Codec = "gzip"
      BY <1>1, <1>2, <2>1, GzipEnds
    <2>2. CASE Codec \in {"xz", "lzma"}
      BY <1>1, <1>2, <2>2, OneEnds
    <2> QED  BY <1>1, <2>1, <2>2
  <1>6. CellsTo(at - 1)' = CellsTo(j) /\ at' - 1 = j /\ j \in Nat
    <2>1. at' - 1 = j /\ j \in Nat
      BY <1>2, <1>5
    <2> QED  BY <1>1, <2>1 DEF CellsTo, CellsOf, T
  <1>7. CellsIn(out) = CellsTo(j) /\ InOrder(out)
    BY <1>1, <1>4, <1>5 DEF GatheredOK
  <1>8. Gathered' = out /\ CellsIn(out)' = CellsIn(out) /\ InOrder(out)' = InOrder(out)
    BY <1>1, <1>4 DEF Gathered, CellsIn, InOrder, Precedes
  <1>9. GatheredOK'
    <2>1. CellsIn(Gathered)' = CellsIn(out) /\ InOrder(Gathered)' = InOrder(out)
      BY <1>8 DEF CellsIn, InOrder, Precedes
    <2> QED  BY <1>1, <1>4, <1>6, <1>7, <2>1 DEF GatheredOK
  <1>10. TypeOK'
    <2>1. (at \in 1..N + 1)'
      BY <1>2, <1>3, <1>5
    <2> QED  BY <1>1, <2>1 DEF TypeOK
  <1>11. WithinCap'
    BY <1>1 DEF WithinCap
  <1>12. ParsedOne' /\ ParsedZstd' /\ ParsedLz4'
    BY <1>1, <1>3 DEF ParsedOne, ParsedZstd, ParsedLz4, Running
  <1>13. DecodesTheStream'
    <2>1. Longest(at - 1)'
      <3>1. Longest(j)'
        BY <1>1, <1>5 DEF Longest, IsStream, Framed, ZstdFrames, ZstdItem, Opens, T, Codec, N
      <3> QED  BY <1>6, <3>1 DEF Longest, IsStream, Framed, ZstdFrames, ZstdItem, Opens
    <2> QED  BY <1>3, <1>5, <1>6, <1>7, <1>8, <2>1 DEF DecodesTheStream
  <1>14. FailsForAReason'
    BY <1>1 DEF FailsForAReason
  <1> QED  BY <1>9, <1>10, <1>11, <1>12, <1>13, <1>14 DEF IInv

LEMMA ZstdEndIInv == IInv /\ ZstdEnd => IInv'
  <1> SUFFICES ASSUME IInv, ZstdEnd PROVE IInv'
    OBVIOUS
  <1>1. /\ TypeOK /\ GatheredOK /\ ParsedZstd /\ Running /\ Codec = "zstd" /\ ~ inside
        /\ ~ Sees("header") /\ ~ Sees("skippable")
        /\ Return(IF frames = 0 THEN "Corrupt" ELSE "ok")
    BY DEF IInv, ZstdEnd, Decodes
  <1>2. at \in Nat /\ at <= N + 1 /\ at > 0 /\ N \in Nat /\ frames \in Nat
    BY <1>1, InputType DEF TypeOK
  <1>3. ASSUME NEW j \in 1..N, IsStream(j) PROVE j < at
    <2> SUFFICES ASSUME j >= at PROVE FALSE
      BY <1>2
    <2>1. at \in 1..N /\ T(at) \in {"header", "skippable"}
      BY <1>1, <1>3, ZstdLong
    <2> QED  BY <1>1, <2>1 DEF Sees, T, N
  <1>4. CASE frames = 0
    <2>1. \A i \in 1..at - 1 : T(i) # "end"
      BY <1>1, <1>4 DEF ParsedZstd
    <2>2. ASSUME NEW j \in 1..N PROVE ~ Longest(j)
      BY <1>1, <1>2, <1>3, <2>1 DEF Longest, IsStream
    <2> QED  BY <1>1, <1>4, <2>2, ReturnKeeps
  <1>5. CASE frames # 0
    <2>1. \E i \in 1..at - 1 : T(i) = "end"
      BY <1>1, <1>2, <1>5 DEF ParsedZstd
    <2>2. at - 1 \in 1..N
      BY <1>2, <2>1
    <2>3. ZstdFrames(at - 1)
      BY <1>1, <1>2, <2>2 DEF ParsedZstd, ZstdFrames
    <2>4. IsStream(at - 1)
      BY <1>1, <2>1, <2>3 DEF IsStream
    <2>5. Longest(at - 1)
      BY <1>2, <1>3, <2>4 DEF Longest
    <2>6. frame = <<>>
      BY <1>1 DEF GatheredOK
    <2> QED  BY <1>1, <1>5, <2>2, <2>5, <2>6, ReturnKeeps
  <1> QED  BY <1>4, <1>5

LEMMA UnsupportedIInv == IInv /\ Unsupported => IInv'
  <1> SUFFICES ASSUME IInv, Unsupported PROVE IInv'
    OBVIOUS
  <1>1. \A j \in 1..N : ~ Longest(j)
    BY DEF Unsupported, Longest, IsStream
  <1> QED  BY <1>1, ReturnKeeps DEF Unsupported

LEMMA FailsIInv == IInv /\ Fails => IInv'
  <1> SUFFICES ASSUME IInv, Fails PROVE IInv'
    OBVIOUS
  <1>1. /\ TypeOK /\ GatheredOK /\ ParsedOne /\ ParsedZstd /\ Running /\ Misplaced
        /\ Codec \in {"gzip", "xz", "lzma", "zstd"}
    BY InputsAssumption DEF IInv, Fails, Decodes, TypeOK, Codec
  <1>2. PICK r \in {"Corrupt", "Decompress"} : Return(r)
    BY DEF Fails, Refusal
  <1>3. ASSUME NEW j \in 1..N, Longest(j) PROVE BrokenAfter(j)
    <2>1. CASE Codec # "zstd"
      BY <1>1, <1>3, <2>1, OneFails DEF Longest
    <2>2. CASE Codec = "zstd"
      <3>1. at \in Nat /\ j \in Nat /\ N \in Nat /\ at \in 1..N + 1
        BY <1>1, InputType DEF TypeOK
      <3>2. inside => ~ Sees("chunk") /\ ~ Sees("end")
        BY <1>1, <2>2 DEF Misplaced
      <3>3. ~ inside => Sees("bad")
        BY <1>1, <2>2 DEF Misplaced
      <3>4. j < at
        <4> SUFFICES ASSUME j >= at PROVE FALSE
          BY <3>1
        <4>1. /\ at \in 1..N
              /\ inside => T(at) \in {"chunk", "end"}
              /\ ~ inside => T(at) \in {"header", "skippable"}
          BY <1>1, <1>3, <2>2, ZstdLong DEF Longest
        <4> QED  BY <3>2, <3>3, <4>1 DEF Sees, T, N
      <3>5. CASE ~ inside /\ j = at - 1
        BY <2>2, <3>1, <3>3, <3>5 DEF BrokenAfter, Sees, T, N
      <3>6. CASE inside \/ j # at - 1
        <4>1. ~ inside => j < at - 1
          BY <3>1, <3>4, <3>6
        <4> QED  BY <1>1, <1>3, <2>2, <3>4, <4>1, ZstdShort
      <3> QED  BY <3>5, <3>6
    <2> QED  BY <2>1, <2>2
  <1> QED  BY <1>1, <1>2, <1>3, ReturnKeeps

LEMMA TooLargeIInv == IInv /\ TooLarge => IInv'
  <1> SUFFICES ASSUME IInv, TooLarge PROVE IInv'
    OBVIOUS
  <1>1. /\ TypeOK /\ GatheredOK /\ ParsedOne /\ ParsedZstd /\ Running /\ inside
        /\ Sees("chunk") /\ Return("FileTooLarge")
        /\ Codec \in {"gzip", "xz", "lzma", "zstd"}
    BY InputsAssumption DEF IInv, TooLarge, Decodes, TypeOK, Codec
  <1>2. Len(out) + Len(frame) + ChunkLen > MaxOut
    <2>1. ChunkLen \in Nat /\ Len(out) \in Nat /\ Len(frame) \in Nat
      BY <1>1, GatherChunk DEF TypeOK
    <2>2. Len(frame) + ChunkLen > MaxOut - Len(out)
      BY DEF TooLarge, Room
    <2> QED  BY <2>1, <2>2, CapAssumption
  <1>3. at \in Nat /\ N \in Nat
    BY <1>1, InputType DEF TypeOK
  <1>4. ASSUME NEW j \in 1..N, Longest(j)
        PROVE  BrokenAfter(j) \/ Cardinality(CellsTo(j)) > MaxOut
    <2>1. CASE j >= at
      BY <1>1, <1>2, <1>3, <2>1, AboveCap
    <2>2. CASE j < at
      <3>1. CASE Codec # "zstd"
        <4>1. j >= at
          BY <1>1, <1>3, <1>4, <3>1, OneStream DEF Longest
        <4> QED  BY <1>3, <2>2, <4>1
      <3>2. CASE Codec = "zstd"
        BY <1>1, <1>4, <2>2, <3>2, ZstdShort
      <3> QED  BY <3>1, <3>2
    <2> QED  BY <1>3, <2>1, <2>2
  <1> QED  BY <1>1, <1>4, ReturnKeeps

LEMMA Lz4MagicIInv == IInv /\ Lz4Magic => IInv'
  <1> SUFFICES ASSUME IInv, Lz4Magic PROVE IInv'
    OBVIOUS
  <1>1. /\ TypeOK /\ GatheredOK /\ ParsedOne /\ ParsedZstd /\ ParsedLz4 /\ WithinCap
        /\ Running /\ Codec = "lz4" /\ inside' = TRUE /\ at' = at + 1
        /\ UNCHANGED <<input, out, frame, frames, result>>
    BY DEF IInv, Lz4Magic, Decodes
  <1>2. at \in 1..N /\ at \in Nat /\ T(at) = "header" /\ N \in Nat
    BY <1>1, InputType DEF TypeOK, Lz4Magic, Sees, N, T
  <1>3. Codec' = Codec /\ N' = N /\ \A i : T(i)' = T(i)
    BY <1>1 DEF T, Codec, N
  <1>4. frame = <<>>
    BY <1>1 DEF GatheredOK
  <1>5. GatheredOK'
    BY <1>1, <1>2, <1>4, PassItem
  <1>6. TypeOK'
    BY <1>1, <1>2, <1>3 DEF TypeOK
  <1>7. WithinCap'
    BY <1>1 DEF WithinCap
  <1>8. ParsedOne' /\ ParsedZstd'
    BY <1>1, <1>3 DEF ParsedOne, ParsedZstd
  <1>9. ParsedLz4'
    <2>1. T(1) = "header" /\ \A i \in 1..at : T(i) \in {"header", "chunk"}
      BY <1>1, <1>2 DEF ParsedLz4
    <2> QED  BY <1>1, <1>2, <1>3, <2>1 DEF ParsedLz4
  <1>11. DecodesTheStream' /\ FailsForAReason'
    BY <1>1, GoesOn DEF Running
  <1> QED  BY <1>5, <1>6, <1>7, <1>8, <1>9, <1>11 DEF IInv

LEMMA Lz4BlockIInv == IInv /\ Lz4Block => IInv'
  <1> SUFFICES ASSUME IInv, Lz4Block PROVE IInv'
    OBVIOUS
  <1>1. /\ TypeOK /\ GatheredOK /\ ParsedOne /\ ParsedZstd /\ ParsedLz4 /\ WithinCap
        /\ Running /\ Codec = "lz4" /\ inside /\ Sees("chunk") /\ at' = at + 1
        /\ out' = out \o Chunk /\ ChunkLen <= BlockRoom
        /\ UNCHANGED <<input, frame, frames, inside, result>>
    BY DEF IInv, Lz4Block, Decodes
  <1>2. at \in 1..N /\ at \in Nat /\ T(at) = "chunk" /\ N \in Nat
    BY <1>1, InputType DEF TypeOK, Sees, N, T
  <1>3. Codec' = Codec /\ N' = N /\ \A i : T(i)' = T(i)
    BY <1>1 DEF T, Codec, N
  <1>4. Codec # "zstd" /\ out' = out \o Chunk /\ UNCHANGED frame
    BY <1>1
  <1>5. /\ GatheredOK'
        /\ out' \in Seq(Cell)
        /\ frame' \in Seq(Cell)
        /\ Len(out') + Len(frame') = Len(out) + Len(frame) + ChunkLen
    BY <1>1, <1>4, TakeChunk
  <1>6. TypeOK'
    BY <1>1, <1>2, <1>3, <1>5 DEF TypeOK
  <1>7. WithinCap'
    <2>1. ChunkLen \in Nat /\ Len(out) \in Nat
      BY <1>1, GatherChunk DEF TypeOK
    <2>2. Len(frame) = 0
      BY <1>1 DEF GatheredOK
    <2>3. ChunkLen <= MaxOut - Len(out)
      BY <1>1, <2>1, CapAssumption DEF BlockRoom, Room
    <2> QED  BY <1>5, <2>1, <2>2, <2>3, CapAssumption DEF WithinCap
  <1>8. ParsedOne' /\ ParsedZstd'
    BY <1>1, <1>3 DEF ParsedOne, ParsedZstd
  <1>9. ParsedLz4'
    <2>1. at > 1 /\ T(1) = "header" /\ \A i \in 1..at : T(i) \in {"header", "chunk"}
      BY <1>1, <1>2 DEF ParsedLz4
    <2> QED  BY <1>1, <1>2, <1>3, <2>1 DEF ParsedLz4
  <1>11. DecodesTheStream' /\ FailsForAReason'
    BY <1>1, GoesOn DEF Running
  <1> QED  BY <1>5, <1>6, <1>7, <1>8, <1>9, <1>11 DEF IInv

LEMMA Lz4EndIInv == IInv /\ Lz4End => IInv'
  <1> SUFFICES ASSUME IInv, Lz4End PROVE IInv'
    OBVIOUS
  <1>1. /\ TypeOK /\ GatheredOK /\ ParsedLz4 /\ Running /\ Codec = "lz4" /\ inside
        /\ ~ Sees("header") /\ ~ Sees("chunk") /\ Return("ok")
    BY DEF IInv, Lz4End, Decodes
  <1>2. /\ at > 1 /\ T(1) = "header"
        /\ \A i \in 1..at - 1 : T(i) \in {"header", "chunk"}
    BY <1>1 DEF ParsedLz4
  <1>3. at - 1 \in 1..N /\ N \in Nat /\ at \in Nat
    BY <1>1, <1>2, InputType DEF TypeOK
  <1>4. IsStream(at - 1)
    BY <1>1, <1>2 DEF IsStream
  <1>5. ASSUME NEW k \in at..N PROVE ~ IsStream(k)
    <2>1. at \in 1..N /\ at \in 1..k
      BY <1>3
    <2>2. T(at) \notin {"header", "chunk"}
      BY <1>1, <2>1 DEF Sees, T, N
    <2> QED  BY <1>1, <2>1, <2>2 DEF IsStream
  <1>6. Longest(at - 1)
    BY <1>3, <1>4, <1>5 DEF Longest
  <1>7. frame = <<>>
    BY <1>1 DEF GatheredOK
  <1> QED  BY <1>1, <1>3, <1>6, <1>7, ReturnKeeps

LEMMA Lz4FailsIInv == IInv /\ Lz4Fails => IInv'
  <1> SUFFICES ASSUME IInv, Lz4Fails PROVE IInv'
    OBVIOUS
  <1>1. TypeOK /\ GatheredOK /\ ParsedLz4 /\ Running /\ Codec = "lz4"
    BY DEF IInv, Lz4Fails, Decodes
  <1>2. at \in Nat /\ at \in 1..N + 1 /\ N \in Nat
    BY <1>1, InputType DEF TypeOK
  <1>3. CASE ~ inside /\ ~ Sees("header") /\ Return("Corrupt")
    <2>1. at = 1
      BY <1>1, <1>3 DEF ParsedLz4
    <2>2. ASSUME NEW j \in 1..N PROVE ~ Longest(j)
      <3>1. T(1) # "header"
        BY <1>2, <1>3, <2>1 DEF Sees, T, N
      <3> QED  BY <1>1, <3>1 DEF Longest, IsStream
    <2> QED  BY <1>1, <1>3, <2>2, ReturnKeeps
  <1>4. CASE /\ inside
             /\ Sees("bad") \/ (Sees("chunk") /\ ChunkLen > BlockRoom)
             /\ Return(IF BlockRoom < LZ4_LEGACY_BLOCK THEN "FileTooLarge" ELSE "Decompress")
    <2>1. /\ at > 1 /\ T(1) = "header"
          /\ \A i \in 1..at - 1 : T(i) \in {"header", "chunk"}
      BY <1>1, <1>4 DEF ParsedLz4
    <2>2. at \in 1..N
      BY <1>2, <1>4 DEF Sees, N
    <2>3. ASSUME NEW j \in 1..N, Longest(j)
          PROVE  \/ BrokenAfter(j)
                 \/ Cardinality(CellsTo(j)) > MaxOut
                 \/ Codec = "lz4" /\ \E i \in 1..j : input.items[i].n > LZ4_LEGACY_BLOCK
      <3>1. j >= at - 1
        <4>1. at - 1 \in 1..N /\ IsStream(at - 1)
          BY <1>1, <1>2, <2>1 DEF IsStream
        <4> QED  BY <1>2, <2>3, <4>1 DEF Longest
      <3>2. CASE Sees("bad")
        <4>1. T(at) = "bad"
          BY <3>2 DEF Sees, T
        <4>2. ~ (j >= at)
          BY <1>1, <1>2, <2>2, <2>3, <4>1 DEF Longest, IsStream
        <4>3. j = at - 1
          BY <1>2, <3>1, <4>2
        <4> QED  BY <1>1, <1>2, <2>2, <4>1, <4>3 DEF BrokenAfter
      <3>3. CASE Sees("chunk") /\ ChunkLen > BlockRoom
        <4>1. T(at) = "chunk"
          BY <3>3 DEF Sees, T
        <4>2. IsStream(at)
          BY <1>1, <1>2, <2>1, <4>1 DEF IsStream
        <4>3. j >= at
          BY <1>2, <2>2, <2>3, <3>1, <4>2 DEF Longest
        <4>4. ChunkLen \in Nat /\ Len(out) \in Nat /\ Len(frame) = 0
          BY <1>1, <3>3, GatherChunk DEF TypeOK, GatheredOK
        <4>5. CASE Room < LZ4_LEGACY_BLOCK
          <5>1. Len(out) + Len(frame) + ChunkLen > MaxOut
            BY <3>3, <4>4, <4>5, CapAssumption DEF BlockRoom, Room
          <5> QED  BY <1>1, <1>2, <3>3, <4>3, <5>1, AboveCap
        <4>6. CASE ~ (Room < LZ4_LEGACY_BLOCK)
          <5>1. input.items[at].n > LZ4_LEGACY_BLOCK
            BY <3>3, <4>6 DEF BlockRoom, ChunkLen
          <5> QED  BY <1>1, <1>2, <2>2, <4>3, <5>1
        <4> QED  BY <4>5, <4>6
      <3> QED  BY <1>4, <3>2, <3>3
    <2> QED  BY <1>1, <1>4, <2>3, ReturnKeeps
  <1> QED  BY <1>3, <1>4 DEF Lz4Fails

LEMMA StutterIInv == IInv /\ UNCHANGED vars => IInv'
  <1> SUFFICES ASSUME IInv, UNCHANGED vars PROVE IInv'
    OBVIOUS
  <1>1. /\ input' = input /\ at' = at /\ out' = out /\ frame' = frame
        /\ frames' = frames /\ inside' = inside /\ result' = result
    BY DEF vars
  <1>2. TypeOK' /\ WithinCap'
    BY <1>1 DEF IInv, TypeOK, WithinCap, N
  <1>3. GatheredOK'
    <2>1. Gathered' = Gathered /\ CellsTo(at - 1)' = CellsTo(at - 1)
      BY <1>1 DEF Gathered, CellsTo, CellsOf, T
    <2>2. CellsIn(Gathered)' = CellsIn(Gathered) /\ InOrder(Gathered)' = InOrder(Gathered)
      BY <2>1 DEF CellsIn, InOrder, Precedes
    <2> QED  BY <1>1, <2>1, <2>2 DEF IInv, GatheredOK, Codec
  <1>4. ParsedOne' /\ ParsedZstd' /\ ParsedLz4'
    BY <1>1 DEF IInv, ParsedOne, ParsedZstd, ParsedLz4, ZstdItem, Opens, T, Codec, Running
  <1>5. \A j : Longest(j)' = Longest(j)
    BY <1>1 DEF Longest, IsStream, Framed, ZstdFrames, ZstdItem, Opens, T, Codec, N
  <1>6. \A j : CellsTo(j)' = CellsTo(j)
    BY <1>1 DEF CellsTo, CellsOf, T
  <1>7. Longest(at - 1)' = Longest(at - 1)
    BY <1>1 DEF Longest, IsStream, Framed, ZstdFrames, ZstdItem, Opens, T, Codec, N
  <1>8. CellsTo(at - 1)' = CellsTo(at - 1)
    BY <1>1 DEF CellsTo, CellsOf, T
  <1>9. DecodesTheStream'
    BY <1>1, <1>7, <1>8 DEF IInv, DecodesTheStream, CellsIn, InOrder, Precedes, N
  <1>10. FailsForAReason'
    BY <1>1, <1>5, <1>6 DEF IInv, FailsForAReason, BrokenAfter, T, Codec, N
  <1> QED  BY <1>2, <1>3, <1>4, <1>9, <1>10 DEF IInv

LEMMA NextIInv == IInv /\ [Next]_vars => IInv'
  BY UnsupportedIInv, FailsIInv, HeaderIInv, PushChunkIInv, TooLargeIInv, StreamEndIInv,
     FrameEndIInv, SkipFrameIInv, ZstdEndIInv, Lz4MagicIInv, Lz4BlockIInv, Lz4FailsIInv,
     Lz4EndIInv, StutterIInv DEF Next, Step, Returned

LEMMA Invariance == Spec => []IInv
  BY InitIInv, NextIInv, PTL DEF Spec

-----------------------------------------------------------------------------
(* decode_stream never holds more than max_out bytes decoded, whatever the   *)
(* stream, the codec and how its frames and blocks are cut.                  *)
THEOREM CapNeverExceeded == Spec => []WithinCap
  BY Invariance, PTL DEF IInv

(* decode_stream's answer is the stream at the front of the input: its       *)
(* longest whole prefix in the codec's grammar, every byte of it once and in *)
(* order, and consumed is exactly its length.                                *)
THEOREM DecodesExactly == Spec => []DecodesTheStream
  BY Invariance, PTL DEF IInv

(* decode_stream refuses no whole stream that fits under max_out (and, for   *)
(* LZ4, whose blocks fit theirs) and is not followed by a broken frame.      *)
THEOREM RefusesForAReason == Spec => []FailsForAReason
  BY Invariance, PTL DEF IInv
=============================================================================
