------------------------------ MODULE CpioProofs -----------------------------
(***************************************************************************)
(* Proofs about opening an initramfs, for every image: every chain of       *)
(* archives, padding and compressed members, whole or cut short.            *)
(***************************************************************************)
EXTENDS Cpio, FiniteSetTheorems, SequenceTheorems, WellFoundedInduction, TLAPS

(* The buffers an image can bring in: itself, and its compressed members. *)
StreamsOf(b) == {i \in 1..Len(b.items) : b.items[i].t = "stream"}
Buffers == {m.buffer : m \in Images}
           \cup UNION {{m.buffer.items[i].out : i \in StreamsOf(m.buffer)} : m \in Images}
Frames == [buf : Nat \ {0}, at : Nat \ {0}, pos : Nat]
Names == {Comps(p)[i] : p \in Seq(STRING), i \in Nat}
ChildMaps == UNION {[D -> Nat] : D \in SUBSET Names}
Kinds == STRING \cup {"Directory"}
Modes == STRING \cup {ImpliedMode}
Nodes == [kind : Kinds, data : Spans, mode : Modes, children : ChildMaps]

TypeOK ==
    /\ img \in Images
    /\ pc \in {"open", "chain", "parse", "fold", "done"}
    /\ buffers \in Seq(Buffers)
    /\ nodes \in Seq(Nodes)
    /\ budget \in Nat
    /\ frames \in Seq(Frames)
    /\ records \in Seq(Records)
    /\ folding \in [rec : Nat \ {0}, comp : Nat \ {0}, cur : Nat \ {0}]

(* Between two steps the image is the first buffer, the call stack names     *)
(* buffers that are there, and insert stands on a node.                      *)
Shape ==
    /\ pc = "open" => buffers = <<>> /\ nodes = <<>> /\ records = <<>> /\ frames = <<>> /\ folding = NotFolding
    /\ pc \in {"chain", "parse", "fold"} => buffers # <<>> /\ nodes # <<>> /\ buffers[1] = img.buffer
    /\ pc \in {"chain", "parse"} => frames # <<>>
    /\ \A i \in 1..Len(frames) : frames[i].buf \in 1..Len(buffers)
    /\ pc = "fold" => folding.cur \in 1..Len(nodes)

DecodedFinite == IsFiniteSet(DecodedBytes)

IInv ==
    /\ TypeOK
    /\ Shape
    /\ DecodedFinite
    /\ SpansInBuffers
    /\ BudgetExact
    /\ IsATree

-----------------------------------------------------------------------------
(* A set of positions that is not empty has a last one. *)
LEMMA LastExists ==
    ASSUME NEW n \in Nat, NEW S, S \subseteq 1..n, S # {}
    PROVE  \E x \in S : \A y \in S : y <= x
  <1> DEFINE R == {ss \in Nat \X Nat : ss[1] < ss[2]}
             T == {t \in Nat : n - t \in S}
  <1>1. IsWellFoundedOn(R, Nat)
    BY NatLessThanWellFounded DEF OpToRel
  <1>2. \A x \in S : n - x \in Nat /\ n - (n - x) = x /\ n - x \in T
    OBVIOUS
  <1>0. T \subseteq Nat /\ T # {}
    BY <1>2
  <1> HIDE DEF R, T
  <1>3. PICK t \in T : \A u \in T : ~ (<<u, t>> \in R)
    BY <1>0, <1>1, WFMin
  <1>4. PICK x \in S : x = n - t /\ t \in Nat
    BY <1>0 DEF T
  <1>5. ASSUME NEW y \in S PROVE y <= x
    <2>1. n - y \in T /\ n - y \in Nat /\ t \in Nat /\ x \in Nat /\ y \in Nat
      BY <1>0, <1>2
    <2>2. <<n - y, t>> \in R <=> n - y < t
      BY <2>1 DEF R
    <2> QED  BY <1>3, <1>4, <2>1, <2>2
  <1> QED  BY <1>5

LEMMA BuffersType == \A b \in Buffers : IsBuffer(b) /\ b.len \in Nat
  <1> SUFFICES ASSUME NEW b \in Buffers PROVE IsBuffer(b)
    BY DEF IsBuffer
  <1>1. CASE \E m \in Images : b = m.buffer
    BY <1>1, ImagesAssumption
  <1>2. CASE \E m \in Images : \E i \in StreamsOf(m.buffer) : b = m.buffer.items[i].out
    BY <1>2, ImagesAssumption DEF StreamsOf
  <1> QED  BY <1>1, <1>2 DEF Buffers

(* The frame on top, its buffer and the item it is at. *)
LEMMA TopType ==
    ASSUME TypeOK, Shape, frames # <<>>
    PROVE  /\ Len(frames) \in Nat \ {0} /\ Top \in Frames
           /\ Top.at \in Nat \ {0} /\ Top.pos \in Nat /\ Top.buf \in 1..Len(buffers)
           /\ Buf \in Buffers /\ IsBuffer(Buf) /\ Buf.len \in Nat
           /\ MoreItems => IsItem(Item) /\ Top.at \in 1..Len(Buf.items)
  <1>1. frames \in Seq(Frames) /\ Len(frames) \in Nat \ {0}
    BY DEF TypeOK
  <1>2. Top \in Frames
    BY <1>1 DEF Top
  <1>3. Top.at \in Nat \ {0} /\ Top.pos \in Nat
    BY <1>2 DEF Frames
  <1>4. Top.buf \in 1..Len(buffers)
    BY <1>1 DEF Top, Shape
  <1>5. Buf \in Buffers
    BY <1>4 DEF Buf, TypeOK
  <1>6. IsBuffer(Buf) /\ Buf.len \in Nat
    BY <1>5, BuffersType
  <1>7. MoreItems => Top.at \in 1..Len(Buf.items)
    BY <1>3, <1>6 DEF MoreItems, IsBuffer
  <1>8. MoreItems => IsItem(Item)
    BY <1>6, <1>7 DEF IsBuffer, Item
  <1> QED  BY <1>1, <1>2, <1>3, <1>4, <1>5, <1>6, <1>7, <1>8

LEMMA AdvanceType ==
    ASSUME TypeOK, Shape, frames # <<>>, NEW pos \in Nat
    PROVE  /\ Advance(pos) \in Seq(Frames) /\ Advance(pos) # <<>> /\ Len(Advance(pos)) = Len(frames)
           /\ \A i \in 1..Len(Advance(pos)) : Advance(pos)[i].buf \in 1..Len(buffers)
  <1> DEFINE f == [buf |-> Top.buf, at |-> Top.at + 1, pos |-> pos]
             a == Advance(pos)
  <1>1. Len(frames) \in Nat \ {0} /\ Top.at \in Nat \ {0} /\ Top.buf \in 1..Len(buffers) /\ Top \in Frames
    BY TopType
  <1>2. f \in Frames /\ f.buf = Top.buf
    BY <1>1 DEF Frames
  <1> HIDE DEF f
  <1>3. a = [frames EXCEPT ![Len(frames)] = f]
    BY DEF Advance, f
  <1>4. frames \in Seq(Frames)
    BY DEF TypeOK
  <1> HIDE DEF a
  <1>5. a \in Seq(Frames) /\ Len(a) = Len(frames)
    BY <1>2, <1>3, <1>4
  <1>6. \A i \in 1..Len(a) : a[i].buf \in 1..Len(buffers)
    <2> SUFFICES ASSUME NEW i \in 1..Len(frames) PROVE a[i].buf \in 1..Len(buffers)
      BY <1>5
    <2>1. CASE i = Len(frames)
      BY <1>1, <1>2, <1>3, <1>4, <2>1
    <2>2. CASE i # Len(frames)
      <3>1. a[i] = frames[i]
        BY <1>3, <1>4, <2>2
      <3>2. frames[i].buf \in 1..Len(buffers)
        BY DEF Shape
      <3> QED  BY <3>1, <3>2
    <2> QED  BY <2>1, <2>2
  <1>7. a # <<>>
    BY <1>1, <1>5
  <1> QED  BY <1>5, <1>6, <1>7 DEF a

(* What only moves on in the input leaves the tree and its spans alone. *)
LEMMA SameTree ==
    ASSUME UNCHANGED <<buffers, nodes>>
    PROVE  /\ IsATree => IsATree'
           /\ DecodedFinite => DecodedFinite'
           /\ \A s : InBuffer(s)' <=> InBuffer(s)
           /\ DecodedBytes' = DecodedBytes
  BY DEF IsATree, Edges, DecodedFinite, DecodedBytes, InBuffer

LEMMA SameData ==
    ASSUME IInv, UNCHANGED <<buffers, nodes, records, budget>>, frames' # <<>> => frames # <<>>
    PROVE  DecodedFinite' /\ SpansInBuffers' /\ BudgetExact' /\ IsATree'
  <1>1. DecodedFinite' /\ IsATree' /\ DecodedBytes' = DecodedBytes
    BY SameTree DEF IInv
  <1>2. SpansInBuffers'
    BY DEF IInv, SpansInBuffers, InBuffer
  <1>3. BudgetExact'
    BY <1>1 DEF IInv, BudgetExact
  <1> QED  BY <1>1, <1>2, <1>3

LEMMA ReturnIInv == ASSUME IInv, NEW r, Return(r) PROVE IInv'
  <1>1. TypeOK' /\ Shape'
    BY DEF IInv, TypeOK, Shape, Return
  <1>2. DecodedFinite' /\ SpansInBuffers' /\ BudgetExact' /\ IsATree'
    BY SameData DEF Return
  <1> QED  BY <1>1, <1>2 DEF IInv

LEMMA InitIInv == Init => IInv
  <1> SUFFICES ASSUME Init PROVE IInv
    OBVIOUS
  <1>1. /\ img \in Images /\ pc = "open" /\ buffers = <<>> /\ nodes = <<>> /\ budget = 0
        /\ frames = <<>> /\ records = <<>> /\ folding = NotFolding
    BY DEF Init
  <1>2. NotFolding \in [rec : Nat \ {0}, comp : Nat \ {0}, cur : Nat \ {0}]
    BY DEF NotFolding
  <1>3. TypeOK /\ Shape
    BY <1>1, <1>2 DEF TypeOK, Shape
  <1>4. DecodedBytes = {}
    BY <1>1 DEF DecodedBytes
  <1>5. DecodedFinite
    BY <1>4, FS_EmptySet DEF DecodedFinite
  <1>6. SpansInBuffers /\ BudgetExact /\ IsATree
    BY <1>1 DEF SpansInBuffers, BudgetExact, IsATree
  <1> QED  BY <1>3, <1>5, <1>6 DEF IInv

(* The steps that return. *)
LEMMA ReturnsIInv ==
    IInv /\ (OpenFails \/ MemberRefused \/ JunkBetween \/ ParseFails \/ NameRefused) => IInv'
  BY ReturnIInv DEF OpenFails, MemberRefused, JunkBetween, ParseFails, NameRefused

LEMMA MountIInv ==
    ASSUME IInv, Mount, pc' \in {"chain", "fold"}, TypeOK' /\ Shape', BudgetExact',
           \A i \in 1..Len(records') : /\ records'[i].data.buf \in 1..Len(buffers')
                                       /\ records'[i].data.off + records'[i].data.len
                                            <= buffers'[records'[i].data.buf].len
    PROVE  IInv'
  <1>1. buffers' = <<img.buffer>> /\ nodes' = <<DirNode(ImpliedMode)>>
    BY DEF Mount
  <1>2. img \in Images /\ img.buffer.len \in Nat
    BY ImagesAssumption DEF IInv, TypeOK, IsBuffer
  <1>3. Len(nodes') = 1 /\ Len(buffers') = 1 /\ nodes'[1] = DirNode(ImpliedMode) /\ buffers'[1] = img.buffer
    BY <1>1
  <1>4. DecodedFinite'
    <2>1. DecodedBytes' = {}
      BY <1>3 DEF DecodedBytes
    <2> QED  BY <2>1, FS_EmptySet DEF DecodedFinite
  <1>5. DirNode(ImpliedMode).data = NoSpan /\ DOMAIN DirNode(ImpliedMode).children = {}
    BY DEF DirNode, NoChildren
  <1>6. SpansInBuffers'
    <2>1. /\ NoSpan.buf \in 1..Len(buffers')
          /\ NoSpan.off + NoSpan.len <= buffers'[NoSpan.buf].len
      BY <1>2, <1>3 DEF NoSpan
    <2>2. \A i \in 1..Len(nodes') : nodes'[i].data = NoSpan
      BY <1>3, <1>5
    <2> QED  BY <2>1, <2>2 DEF SpansInBuffers, InBuffer
  <1>7. IsATree'
    BY <1>3, <1>5 DEF IsATree
  <1> QED  BY <1>4, <1>6, <1>7 DEF IInv

LEMMA MountType ==
    ASSUME IInv, Mount
    PROVE  /\ img' = img /\ img \in Images /\ folding' = folding /\ folding = NotFolding
           /\ folding \in [rec : Nat \ {0}, comp : Nat \ {0}, cur : Nat \ {0}]
           /\ buffers' \in Seq(Buffers) /\ Len(buffers') = 1 /\ buffers'[1] = img.buffer /\ buffers' # <<>>
           /\ nodes' \in Seq(Nodes) /\ Len(nodes') = 1 /\ nodes' # <<>>
           /\ budget \in Nat /\ frames = <<>> /\ records = <<>>
  <1>1. /\ buffers' = <<img.buffer>> /\ nodes' = <<DirNode(ImpliedMode)>> /\ pc = "open"
        /\ img' = img /\ folding' = folding
    BY DEF Mount
  <1>2. /\ img \in Images /\ budget \in Nat
        /\ folding \in [rec : Nat \ {0}, comp : Nat \ {0}, cur : Nat \ {0}]
    BY DEF IInv, TypeOK
  <1>3. frames = <<>> /\ records = <<>> /\ folding = NotFolding
    BY <1>1 DEF IInv, Shape
  <1>4. img.buffer \in Buffers
    BY <1>2 DEF Buffers
  <1>5. DirNode(ImpliedMode) \in Nodes
    <2>1. NoChildren \in [{} -> Nat]
      BY DEF NoChildren
    <2>2. {} \in SUBSET Names
      OBVIOUS
    <2>3. NoChildren \in ChildMaps
      BY <2>1, <2>2 DEF ChildMaps
    <2>4. NoSpan \in Spans
      BY DEF NoSpan, Spans
    <2>5. "Directory" \in Kinds /\ ImpliedMode \in Modes
      BY DEF Kinds, Modes
    <2> QED  BY <2>3, <2>4, <2>5 DEF DirNode, Nodes
  <1>6. buffers' \in Seq(Buffers) /\ Len(buffers') = 1 /\ buffers'[1] = img.buffer /\ buffers' # <<>>
    BY <1>1, <1>4
  <1>7. nodes' \in Seq(Nodes) /\ Len(nodes') = 1 /\ nodes' # <<>>
    BY <1>1, <1>5
  <1> QED  BY <1>1, <1>2, <1>3, <1>6, <1>7

LEMMA OpenChainIInv == IInv /\ OpenChain => IInv'
  <1> SUFFICES ASSUME IInv, OpenChain PROVE IInv'
    OBVIOUS
  <1> DEFINE f == [buf |-> 1, at |-> 1, pos |-> 0]
  <1>1. /\ Mount /\ pc' = "chain" /\ budget' = MAX_BOOT_FILE_BYTES /\ records' = records
        /\ frames' = <<f>>
    BY DEF OpenChain
  <1>2. f \in Frames /\ f.buf = 1
    BY DEF Frames
  <1> HIDE DEF f
  <1>3. frames' \in Seq(Frames) /\ Len(frames') = 1 /\ frames'[1] = f /\ frames' # <<>>
    BY <1>1, <1>2
  <1>4. records' = <<>> /\ Len(buffers') = 1
    BY <1>1, MountType
  <1>5. TypeOK'
    BY <1>1, <1>3, <1>4, MountType, CapAssumption DEF TypeOK
  <1>6. Shape'
    BY <1>1, <1>2, <1>3, <1>4, MountType DEF Shape
  <1>7. BudgetExact'
    <2>1. DecodedBytes' = {}
      BY <1>4 DEF DecodedBytes
    <2>2. Cardinality(DecodedBytes)' = 0
      BY <2>1, FS_EmptySet
    <2> QED  BY <1>1, <2>2, CapAssumption DEF BudgetExact
  <1> QED  BY <1>1, <1>4, <1>5, <1>6, <1>7, MountIInv

LEMMA OpenSingleIInv == IInv /\ OpenSingle => IInv'
  <1> SUFFICES ASSUME IInv, OpenSingle PROVE IInv'
    OBVIOUS
  <1>1. /\ Mount /\ pc' = "fold" /\ budget' = budget /\ frames' = frames /\ records' = img.single
    BY DEF OpenSingle
  <1>2. /\ records' \in Seq(Records)
        /\ \A i \in 1..Len(records') :
             records'[i].data.buf = 1 /\ records'[i].data.off + records'[i].data.len <= img.buffer.len
    BY <1>1, MountType, ImagesAssumption
  <1>3. TypeOK'
    BY <1>1, <1>2, MountType DEF TypeOK
  <1>4. Shape'
    BY <1>1, MountType DEF Shape, NotFolding
  <1>5. BudgetExact'
    BY <1>1, MountType DEF BudgetExact
  <1>6. Len(buffers') = 1 /\ buffers'[1] = img.buffer
    BY <1>1, MountType
  <1> QED  BY <1>1, <1>2, <1>3, <1>4, <1>5, <1>6, MountIInv

-----------------------------------------------------------------------------
LEMMA SkipZerosIInv == IInv /\ SkipZeros => IInv'
  <1> SUFFICES ASSUME IInv, SkipZeros PROVE IInv'
    OBVIOUS
  <1>1. /\ TypeOK /\ Shape /\ pc = "chain" /\ MoreItems /\ Item.t = "zeros"
        /\ frames' = Advance(Top.pos + Item.bytes)
        /\ UNCHANGED <<img, pc, buffers, nodes, budget, records, folding>>
    BY DEF IInv, SkipZeros
  <1>2. frames # <<>>
    BY <1>1 DEF Shape
  <1>3. Top.pos + Item.bytes \in Nat
    BY <1>1, <1>2, TopType DEF IsItem
  <1>4. /\ frames' \in Seq(Frames) /\ frames' # <<>>
        /\ \A i \in 1..Len(frames') : frames'[i].buf \in 1..Len(buffers)
    BY <1>1, <1>2, <1>3, AdvanceType
  <1>5. TypeOK' /\ Shape'
    BY <1>1, <1>4 DEF TypeOK, Shape
  <1>6. DecodedFinite' /\ SpansInBuffers' /\ BudgetExact' /\ IsATree'
    BY <1>1, <1>2, SameData
  <1> QED  BY <1>5, <1>6 DEF IInv

LEMMA ChainEndIInv == IInv /\ ChainEnd => IInv'
  <1> SUFFICES ASSUME IInv, ChainEnd PROVE IInv'
    OBVIOUS
  <1>1. CASE Return("ok")
    BY <1>1, ReturnIInv
  <1>2. CASE /\ Len(frames) > 1 /\ frames' = SubSeq(frames, 1, Len(frames) - 1)
             /\ UNCHANGED <<img, pc, buffers, nodes, budget, records, folding>>
    <2>1. TypeOK /\ Shape /\ frames \in Seq(Frames) /\ Len(frames) \in Nat /\ frames # <<>>
      BY <1>2 DEF IInv, TypeOK
    <2>2. /\ frames' \in Seq(Frames) /\ Len(frames') = Len(frames) - 1
          /\ \A i \in 1..Len(frames) - 1 : frames'[i] = frames[i]
      BY <1>2, <2>1
    <2>3. frames' # <<>> /\ \A i \in 1..Len(frames') : frames'[i].buf \in 1..Len(buffers)
      <3>1. \A i \in 1..Len(frames) : frames[i].buf \in 1..Len(buffers)
        BY <2>1 DEF Shape
      <3>2. 1..Len(frames) - 1 \subseteq 1..Len(frames) /\ Len(frames) - 1 # 0
        BY <1>2, <2>1
      <3> QED  BY <2>2, <3>1, <3>2
    <2>4. TypeOK' /\ Shape'
      BY <1>2, <2>1, <2>2, <2>3 DEF TypeOK, Shape
    <2>5. DecodedFinite' /\ SpansInBuffers' /\ BudgetExact' /\ IsATree'
      BY <1>2, <2>1, SameData
    <2> QED  BY <2>4, <2>5 DEF IInv
  <1> QED  BY <1>1, <1>2 DEF ChainEnd

LEMMA ArchiveStartIInv == IInv /\ ArchiveStart => IInv'
  <1> SUFFICES ASSUME IInv, ArchiveStart PROVE IInv'
    OBVIOUS
  <1>1. /\ TypeOK /\ Shape /\ SpansInBuffers /\ BudgetExact /\ pc = "chain" /\ pc' = "parse" /\ records' = <<>>
        /\ UNCHANGED <<img, buffers, nodes, budget, frames, folding>>
    BY DEF IInv, ArchiveStart
  <1>2. TypeOK' /\ Shape'
    BY <1>1 DEF TypeOK, Shape
  <1>3. DecodedFinite' /\ IsATree' /\ DecodedBytes' = DecodedBytes
    BY <1>1, SameTree DEF IInv
  <1>4. SpansInBuffers'
    BY <1>1 DEF SpansInBuffers, InBuffer
  <1>5. BudgetExact'
    BY <1>1, <1>3 DEF BudgetExact
  <1> QED  BY <1>2, <1>3, <1>4, <1>5 DEF IInv

(* A record's data starts after its header and ends inside the buffer. *)
LEMMA ParsesType ==
    ASSUME TypeOK, Shape, frames # <<>>, Parses
    PROVE  /\ DataStart \in Nat /\ DataEnd \in Nat /\ DataEnd <= Buf.len /\ DataEnd = DataStart + Item.len
           /\ Align4(DataEnd) \in Nat /\ Item.len \in Nat /\ IsItem(Item)
           /\ Top.buf \in 1..Len(buffers)
  <1>1. MoreItems /\ IsNewc(Item) /\ DataEnd <= Buf.len
    BY DEF Parses
  <1>2. IsItem(Item) /\ Top.pos \in Nat /\ Top.buf \in 1..Len(buffers)
    BY <1>1, TopType
  <1>3. Item.len \in Nat
    BY <1>1, <1>2 DEF IsItem, IsNewc
  <1>4. DataStart \in Nat /\ DataEnd \in Nat
    BY <1>2, <1>3, HeaderAssumption DEF DataStart, DataEnd
  <1>5. Align4(DataEnd) \in Nat
    BY <1>4 DEF Align4
  <1> QED  BY <1>1, <1>2, <1>3, <1>4, <1>5 DEF DataEnd

LEMMA ParseRecordIInv == IInv /\ ParseRecord => IInv'
  <1> SUFFICES ASSUME IInv, ParseRecord PROVE IInv'
    OBVIOUS
  <1> DEFINE d == [buf |-> Top.buf, off |-> DataStart, len |-> Item.len]
             r == [path |-> Item.path, utf8 |-> Item.utf8, kind |-> Item.kind, mode |-> Item.mode,
                   ino |-> Item.ino, nlink |-> Item.nlink, data |-> d]
  <1>1. /\ TypeOK /\ Shape /\ SpansInBuffers /\ BudgetExact /\ pc = "parse" /\ Parses /\ Item.t = "record"
        /\ records' = Append(records, r) /\ frames' = Advance(Align4(DataEnd))
        /\ UNCHANGED <<img, pc, buffers, nodes, budget, folding>>
    BY DEF IInv, ParseRecord
  <1>2. frames # <<>>
    BY <1>1 DEF Shape
  <1>3. /\ DataStart \in Nat /\ DataStart + Item.len <= Buf.len
        /\ Align4(DataEnd) \in Nat /\ Item.len \in Nat /\ IsItem(Item) /\ Top.buf \in 1..Len(buffers)
    BY <1>1, <1>2, ParsesType
  <1>4. d \in Spans /\ d.buf = Top.buf /\ d.off = DataStart /\ d.len = Item.len
    BY <1>1, <1>3 DEF Spans, TypeOK
  <1> HIDE DEF d
  <1>5. r \in Records /\ r.data = d
    BY <1>1, <1>3, <1>4 DEF Records, IsItem
  <1> HIDE DEF r
  <1>6. /\ records' \in Seq(Records) /\ Len(records') = Len(records) + 1 /\ Len(records) \in Nat
        /\ records'[Len(records) + 1] = r
        /\ \A i \in 1..Len(records) : records'[i] = records[i]
    BY <1>1, <1>5 DEF TypeOK
  <1>7. /\ frames' \in Seq(Frames) /\ frames' # <<>>
        /\ \A i \in 1..Len(frames') : frames'[i].buf \in 1..Len(buffers)
    BY <1>1, <1>2, <1>3, AdvanceType
  <1>8. TypeOK' /\ Shape'
    BY <1>1, <1>6, <1>7 DEF TypeOK, Shape
  <1>9. DecodedFinite' /\ IsATree' /\ DecodedBytes' = DecodedBytes
    BY <1>1, SameTree DEF IInv
  <1>10. SpansInBuffers'
    <2>1. InBuffer(d)
      BY <1>3, <1>4 DEF InBuffer, Buf
    <2>2. \A i \in 1..Len(records') : InBuffer(records'[i].data)
      <3> SUFFICES ASSUME NEW i \in 1..Len(records) + 1 PROVE InBuffer(records'[i].data)
        BY <1>6
      <3>1. CASE i = Len(records) + 1
        BY <1>5, <1>6, <2>1, <3>1
      <3>2. CASE i # Len(records) + 1
        <4>1. i \in 1..Len(records)
          BY <1>6, <3>2
        <4> QED  BY <1>1, <1>6, <4>1 DEF SpansInBuffers
      <3> QED  BY <3>1, <3>2
    <2>3. \A x : InBuffer(x)' <=> InBuffer(x)
      BY <1>1 DEF InBuffer
    <2> QED  BY <1>1, <2>2, <2>3 DEF SpansInBuffers, InBuffer
  <1>11. BudgetExact'
    BY <1>1, <1>2, <1>9 DEF BudgetExact
  <1> QED  BY <1>8, <1>9, <1>10, <1>11 DEF IInv

LEMMA ParseTrailerIInv == IInv /\ ParseTrailer => IInv'
  <1> SUFFICES ASSUME IInv, ParseTrailer PROVE IInv'
    OBVIOUS
  <1>1. /\ TypeOK /\ Shape /\ pc = "parse" /\ Parses /\ pc' = "fold" /\ folding' = NotFolding
        /\ frames' = Advance(Align4(DataEnd))
        /\ UNCHANGED <<img, buffers, nodes, budget, records>>
    BY DEF IInv, ParseTrailer
  <1>2. frames # <<>>
    BY <1>1 DEF Shape
  <1>3. Align4(DataEnd) \in Nat
    BY <1>1, <1>2, ParsesType
  <1>4. /\ frames' \in Seq(Frames) /\ frames' # <<>>
        /\ \A i \in 1..Len(frames') : frames'[i].buf \in 1..Len(buffers)
    BY <1>1, <1>2, <1>3, AdvanceType
  <1>5. NotFolding \in [rec : Nat \ {0}, comp : Nat \ {0}, cur : Nat \ {0}] /\ NotFolding.cur = 1
    BY DEF NotFolding
  <1>6. nodes # <<>> /\ nodes \in Seq(Nodes) /\ 1 \in 1..Len(nodes)
    <2>1. nodes # <<>> /\ nodes \in Seq(Nodes)
      BY <1>1 DEF Shape, TypeOK
    <2> QED  BY <2>1
  <1>7. TypeOK' /\ Shape'
    BY <1>1, <1>4, <1>5, <1>6 DEF TypeOK, Shape
  <1>8. DecodedFinite' /\ SpansInBuffers' /\ BudgetExact' /\ IsATree'
    BY <1>1, <1>2, SameData
  <1> QED  BY <1>7, <1>8 DEF IInv

(* The steps of the fold that leave the tree alone. *)
LEMMA NextRecordIInv == IInv /\ NextRecord => IInv'
  <1> SUFFICES ASSUME IInv, NextRecord PROVE IInv'
    OBVIOUS
  <1>1. /\ TypeOK /\ Shape /\ pc = "fold" /\ folding' = [rec |-> folding.rec + 1, comp |-> 1, cur |-> 1]
        /\ UNCHANGED <<img, pc, buffers, nodes, budget, frames, records>>
    BY DEF IInv, NextRecord
  <1>2. folding' \in [rec : Nat \ {0}, comp : Nat \ {0}, cur : Nat \ {0}] /\ folding'.cur = 1
    BY <1>1 DEF TypeOK
  <1>3. 1 \in 1..Len(nodes)
    <2>1. nodes # <<>> /\ nodes \in Seq(Nodes)
      BY <1>1 DEF Shape, TypeOK
    <2> QED  BY <2>1
  <1>4. TypeOK' /\ Shape'
    BY <1>1, <1>2, <1>3 DEF TypeOK, Shape
  <1>5. DecodedFinite' /\ SpansInBuffers' /\ BudgetExact' /\ IsATree'
    BY <1>1, SameData
  <1> QED  BY <1>4, <1>5 DEF IInv

LEMMA FoldEndIInv == IInv /\ FoldEnd => IInv'
  <1> SUFFICES ASSUME IInv, FoldEnd PROVE IInv'
    OBVIOUS
  <1>1. CASE Return("ok")
    BY <1>1, ReturnIInv
  <1>2. CASE /\ pc = "fold" /\ frames # <<>> /\ pc' = "chain"
             /\ UNCHANGED <<img, buffers, nodes, budget, frames, records, folding>>
    <2>1. TypeOK' /\ Shape'
      BY <1>2 DEF IInv, TypeOK, Shape
    <2>2. DecodedFinite' /\ SpansInBuffers' /\ BudgetExact' /\ IsATree'
      BY <1>2, SameData
    <2> QED  BY <2>1, <2>2 DEF IInv
  <1> QED  BY <1>1, <1>2 DEF FoldEnd

LEMMA StutterIInv == IInv /\ UNCHANGED vars => IInv'
  <1> SUFFICES ASSUME IInv, UNCHANGED vars PROVE IInv'
    OBVIOUS
  <1>1. TypeOK' /\ Shape'
    BY DEF IInv, TypeOK, Shape, vars
  <1>2. DecodedFinite' /\ SpansInBuffers' /\ BudgetExact' /\ IsATree'
    BY SameData DEF vars
  <1> QED  BY <1>1, <1>2 DEF IInv

-----------------------------------------------------------------------------
(* A member is decoded: one more buffer, and its bytes off the budget. *)
LEMMA DecodeMemberIInv == IInv /\ DecodeMember => IInv'
  <1> SUFFICES ASSUME IInv, DecodeMember PROVE IInv'
    OBVIOUS
  <1> DEFINE out == Item.out
             n == Len(buffers)
             f == [buf |-> n + 1, at |-> 1, pos |-> 0]
             a == Advance(Top.pos + Item.bytes)
  <1>1. /\ TypeOK /\ Shape /\ DecodedFinite /\ SpansInBuffers /\ BudgetExact /\ IsATree
        /\ pc = "chain" /\ MoreItems /\ Item.t = "stream" /\ ~ Nested /\ out.len <= budget
        /\ budget' = budget - out.len /\ buffers' = Append(buffers, out) /\ frames' = Append(a, f)
        /\ UNCHANGED <<img, pc, nodes, records, folding>>
    BY DEF IInv, DecodeMember
  <1>2. /\ frames # <<>> /\ buffers # <<>> /\ nodes # <<>> /\ buffers[1] = img.buffer
        /\ buffers \in Seq(Buffers) /\ n \in Nat /\ img \in Images /\ budget \in Nat
    BY <1>1 DEF Shape, TypeOK
  <1>3. Top.pos \in Nat /\ IsItem(Item) /\ Top.at \in 1..Len(Buf.items)
    BY <1>1, <1>2, TopType
  <1>4. out \in Buffers /\ out.len \in Nat
    <2>1. Buf = img.buffer
      BY <1>1, <1>2 DEF Nested, Buf
    <2>2. Top.at \in StreamsOf(img.buffer) /\ out = img.buffer.items[Top.at].out
      BY <1>1, <1>3, <2>1 DEF StreamsOf, Item
    <2>3. out \in Buffers
      BY <1>2, <2>2 DEF Buffers
    <2> QED  BY <2>3, BuffersType
  <1>5. Top.pos + Item.bytes \in Nat
    BY <1>1, <1>3 DEF IsItem
  <1>6. /\ a \in Seq(Frames) /\ \A i \in 1..Len(a) : a[i].buf \in 1..n
    BY <1>1, <1>2, <1>5, AdvanceType
  <1>7. f \in Frames /\ f.buf = n + 1
    BY <1>2 DEF Frames
  <1> HIDE DEF out, f, a
  <1>8. /\ buffers' \in Seq(Buffers) /\ Len(buffers') = n + 1 /\ buffers'[n + 1] = out
        /\ \A i \in 1..n : buffers'[i] = buffers[i]
    BY <1>1, <1>2, <1>4
  <1>9. /\ frames' \in Seq(Frames) /\ Len(frames') = Len(a) + 1 /\ frames'[Len(a) + 1] = f
        /\ \A i \in 1..Len(a) : frames'[i] = a[i]
    BY <1>1, <1>6, <1>7
  <1> HIDE DEF n
  <1>10. TypeOK'
    <2>1. budget' \in Nat
      BY <1>1, <1>2, <1>4
    <2> QED  BY <1>1, <1>8, <1>9, <2>1 DEF TypeOK
  <1>11. Shape'
    <2>1. Len(a) \in Nat
      BY <1>6
    <2>2. ASSUME NEW i \in 1..Len(a) + 1 PROVE frames'[i].buf \in 1..n + 1
      <3>1. CASE i = Len(a) + 1
        BY <1>2, <1>7, <1>9, <3>1
      <3>2. CASE i # Len(a) + 1
        <4>1. i \in 1..Len(a)
          BY <2>1, <3>2
        <4>2. frames'[i].buf \in 1..n
          BY <1>6, <1>9, <4>1
        <4> QED  BY <1>2, <4>2
      <3> QED  BY <3>1, <3>2
    <2>3. buffers' # <<>> /\ frames' # <<>>
      BY <1>2, <1>8, <1>9, <2>1
    <2>4. n # 0
      BY <1>2 DEF n
    <2>5. buffers'[1] = img.buffer
      BY <1>2, <1>8, <2>4
    <2> QED  BY <1>1, <1>2, <1>8, <1>9, <2>2, <2>3, <2>5 DEF Shape
  <1>12. IsATree'
    BY <1>1 DEF IsATree, Edges
  <1>13. \A x : InBuffer(x) => InBuffer(x)'
    <2> SUFFICES ASSUME NEW x, InBuffer(x) PROVE InBuffer(x)'
      OBVIOUS
    <2>1. x.buf \in 1..n /\ x.off + x.len <= buffers[x.buf].len
      BY DEF InBuffer, n
    <2>2. x.buf \in 1..n + 1 /\ buffers'[x.buf] = buffers[x.buf]
      BY <1>2, <1>8, <2>1
    <2> QED  BY <1>8, <2>1, <2>2 DEF InBuffer
  <1>14. SpansInBuffers'
    <2>1. \A i \in 1..Len(nodes) : InBuffer(nodes[i].data)'
      <3>1. \A i \in 1..Len(nodes) : InBuffer(nodes[i].data)
        BY <1>1 DEF SpansInBuffers
      <3> QED  BY <1>1, <1>13, <3>1 DEF InBuffer
    <2>2. \A i \in 1..Len(records) : InBuffer(records[i].data)'
      <3>1. \A i \in 1..Len(records) : InBuffer(records[i].data)
        BY <1>1 DEF SpansInBuffers
      <3> QED  BY <1>1, <1>13, <3>1 DEF InBuffer
    <2> QED  BY <1>1, <2>1, <2>2 DEF SpansInBuffers
  <1>15. DecodedFinite' /\ BudgetExact'
    <2> DEFINE D == DecodedBytes
               T == {n + 1} \X (1..out.len)
    <2>1. DecodedBytes' = D \cup T
      <3>1. 2..n + 1 = (2..n) \cup {n + 1}
        <4>1. n # 0
          BY <1>2 DEF n
        <4> QED  BY <1>2, <4>1
      <3>2. DecodedBytes' = UNION {{i} \X (1..buffers'[i].len) : i \in 2..n + 1}
        BY <1>8 DEF DecodedBytes
      <3>3. D = UNION {{i} \X (1..buffers[i].len) : i \in 2..n}
        BY DEF DecodedBytes, n
      <3>4. \A i \in 2..n : buffers'[i] = buffers[i]
        BY <1>2, <1>8
      <3> QED  BY <1>8, <3>1, <3>2, <3>3, <3>4
    <2>2. IsFiniteSet(T) /\ Cardinality(T) = out.len
      <3>1. IsFiniteSet({n + 1}) /\ Cardinality({n + 1}) = 1
        BY FS_Singleton
      <3>2. IsFiniteSet(1..out.len) /\ Cardinality(1..out.len) = out.len
        BY <1>4, FS_Interval
      <3>3. IsFiniteSet(T) /\ Cardinality(T) = 1 * out.len
        BY <3>1, <3>2, FS_Product
      <3> QED  BY <1>4, <3>3
    <2>3. D \cap T = {}
      <3>1. \A e \in D : e[1] \in 2..n
        BY DEF DecodedBytes, n
      <3>2. \A e \in T : e[1] = n + 1
        OBVIOUS
      <3> HIDE DEF D, T
      <3> QED  BY <1>2, <3>1, <3>2
    <2>4. IsFiniteSet(D) /\ Cardinality(D) \in Nat
      BY <1>1, FS_CardinalityType DEF DecodedFinite
    <2> HIDE DEF D, T
    <2>5. IsFiniteSet(D \cup T) /\ Cardinality(D \cup T) = Cardinality(D) + out.len
      <3>1. /\ IsFiniteSet(D \cup T)
            /\ Cardinality(D \cup T) = Cardinality(D) + Cardinality(T) - Cardinality(D \cap T)
        BY <2>2, <2>4, FS_Union
      <3>2. Cardinality(D \cap T) = 0
        BY <2>3, FS_EmptySet
      <3> QED  BY <1>4, <2>2, <2>4, <3>1, <3>2
    <2>6. budget + Cardinality(D) = MAX_BOOT_FILE_BYTES
      BY <1>1, <1>2 DEF BudgetExact, D
    <2>7. budget' + Cardinality(D \cup T) = MAX_BOOT_FILE_BYTES
      BY <1>1, <1>2, <1>4, <2>4, <2>5, <2>6
    <2> QED  BY <2>1, <2>5, <2>7 DEF DecodedFinite, BudgetExact
  <1> QED  BY <1>10, <1>11, <1>12, <1>14, <1>15 DEF IInv

-----------------------------------------------------------------------------
(* insert: the record in hand, and the span its node is given. *)
LEMMA RecordInHand ==
    ASSUME TypeOK, Shape, SpansInBuffers, InsertingComp
    PROVE  /\ Rec \in Records /\ Rec.kind \in Kinds /\ Rec.mode \in Modes
           /\ Span(Rec) \in Spans /\ InBuffer(Span(Rec))
           /\ Comp \in Names
           /\ folding.cur \in 1..Len(nodes) /\ Cur \in Nodes
  <1>1. records \in Seq(Records) /\ folding.rec \in 1..Len(records)
    BY DEF TypeOK, InsertingComp
  <1>2. \A i \in 1..Len(records) : records[i] \in Records /\ records[i].data \in Spans /\ InBuffer(records[i].data)
    <2>1. \A r \in Records : r.data \in Spans
      BY DEF Records
    <2>2. \A i \in 1..Len(records) : records[i] \in Records
      BY <1>1
    <2> QED  BY <2>1, <2>2 DEF SpansInBuffers
  <1>3. Rec \in Records /\ Rec.data \in Spans /\ InBuffer(Rec.data)
    BY <1>1, <1>2 DEF Rec
  <1>4. Rec.kind \in Kinds /\ Rec.mode \in Modes /\ Rec.path \in Seq(STRING)
    BY <1>3 DEF Records, Kinds, Modes
  <1>5. LinkedData(Rec) \in Spans /\ InBuffer(LinkedData(Rec))
    <2>1. CASE IsLink(Rec) /\ DataLinks(Rec) # {}
      <3> DEFINE S == DataLinks(Rec)
                 j == CHOOSE i \in S : \A k \in S : k <= i
      <3>1. S \subseteq 1..Len(records)
        BY DEF DataLinks
      <3>2. Len(records) \in Nat /\ S # {}
        BY <1>1, <2>1
      <3> HIDE DEF S
      <3>3. \E i \in S : \A k \in S : k <= i
        BY <3>1, <3>2, LastExists
      <3>4. j \in 1..Len(records)
        BY <3>1, <3>3
      <3>5. LinkedData(Rec) = records[j].data
        BY <2>1 DEF LinkedData, S
      <3> HIDE DEF j
      <3> QED  BY <1>2, <3>4, <3>5
    <2>2. CASE ~ (IsLink(Rec) /\ DataLinks(Rec) # {})
      <3>1. LinkedData(Rec) = Rec.data
        BY <2>2 DEF LinkedData
      <3> QED  BY <1>3, <3>1
    <2> QED  BY <2>1, <2>2
  <1>6. Span(Rec) \in Spans /\ InBuffer(Span(Rec))
    BY <1>3, <1>5 DEF Span
  <1>7. Comp \in Names
    BY <1>4 DEF Comp, Path, Names, TypeOK
  <1>8. folding.cur \in 1..Len(nodes) /\ Cur \in Nodes
    BY DEF Shape, InsertingComp, TypeOK, Cur
  <1> QED  BY <1>3, <1>4, <1>6, <1>7, <1>8

(* What a step of insert leaves as it is, once the new nodes are known to be *)
(* nodes, to have their data in the buffers and to form a tree.              *)
LEMMA InsertFrame ==
    ASSUME IInv, InsertingComp, nodes' \in Seq(Nodes), IsATree',
           \A i \in 1..Len(nodes') : InBuffer(nodes'[i].data),
           folding' \in [rec : Nat \ {0}, comp : Nat \ {0}, cur : Nat \ {0}],
           folding'.cur \in 1..Len(nodes'),
           UNCHANGED <<img, pc, buffers, budget, frames, records>>
    PROVE  IInv'
  <1>1. TypeOK /\ Shape /\ SpansInBuffers /\ BudgetExact /\ DecodedFinite /\ pc = "fold"
    BY DEF IInv, InsertingComp
  <1>2. TypeOK'
    BY <1>1 DEF TypeOK
  <1>3. nodes' # <<>>
    OBVIOUS
  <1>4. Shape'
    BY <1>1, <1>3 DEF Shape
  <1>5. DecodedBytes' = DecodedBytes
    BY DEF DecodedBytes
  <1>6. DecodedFinite' /\ BudgetExact'
    BY <1>1, <1>5 DEF DecodedFinite, BudgetExact
  <1>7. SpansInBuffers'
    BY <1>1 DEF SpansInBuffers, InBuffer
  <1> QED  BY <1>2, <1>4, <1>6, <1>7 DEF IInv

LEMMA InsertExistingIInv == IInv /\ InsertExisting => IInv'
  <1> SUFFICES ASSUME IInv, InsertExisting PROVE IInv'
    OBVIOUS
  <1> DEFINE c == Cur.children[Comp]
             old == nodes[c]
             new == Overwrite(old)
  <1>1. /\ TypeOK /\ Shape /\ SpansInBuffers /\ IsATree /\ InsertingComp /\ Comp \in DOMAIN Cur.children
        /\ nodes' = IF Overwrites THEN [nodes EXCEPT ![c] = new] ELSE nodes
        /\ folding' = [folding EXCEPT !.comp = @ + 1, !.cur = c]
        /\ UNCHANGED <<img, pc, buffers, budget, frames, records>>
    BY DEF IInv, InsertExisting
  <1>2. /\ Rec.kind \in Kinds /\ Rec.mode \in Modes /\ Span(Rec) \in Spans /\ InBuffer(Span(Rec))
        /\ folding.cur \in 1..Len(nodes)
    BY <1>1, RecordInHand
  <1>3. nodes \in Seq(Nodes) /\ Len(nodes) \in Nat
    BY <1>1 DEF TypeOK
  <1>4. c \in 1..Len(nodes)
    <2>1. c \in folding.cur + 1..Len(nodes)
      BY <1>1, <1>2 DEF IsATree, Cur
    <2> HIDE DEF c
    <2> QED  BY <1>2, <1>3, <2>1
  <1>5. old \in Nodes
    BY <1>3, <1>4
  <1>6. new \in Nodes /\ new.children = old.children /\ new.data = Span(Rec)
    BY <1>2, <1>5 DEF Overwrite, Nodes
  <1> HIDE DEF c, old, new
  <1>7. folding' \in [rec : Nat \ {0}, comp : Nat \ {0}, cur : Nat \ {0}] /\ folding'.cur = c
    <2>1. c \in Nat \ {0}
      BY <1>3, <1>4
    <2>2. /\ folding \in [rec : Nat \ {0}, comp : Nat \ {0}, cur : Nat \ {0}]
          /\ folding' = [folding EXCEPT !.comp = @ + 1, !.cur = c]
      BY <1>1 DEF TypeOK
    <2>3. folding' = [rec |-> folding.rec, comp |-> folding.comp + 1, cur |-> c]
      BY <2>2
    <2>4. folding.rec \in Nat \ {0} /\ folding.comp + 1 \in Nat \ {0}
      BY <2>2
    <2> QED  BY <2>1, <2>3, <2>4
  <1>8. /\ nodes' \in Seq(Nodes) /\ Len(nodes') = Len(nodes)
        /\ \A i \in 1..Len(nodes) : nodes'[i] = nodes[i] \/ (i = c /\ nodes'[i] = new)
    BY <1>1, <1>3, <1>4, <1>6
  <1>9. \A i \in 1..Len(nodes) : nodes'[i].children = nodes[i].children
    BY <1>6, <1>8 DEF old
  <1>10. IsATree'
    <2>1. Edges' = Edges
      BY <1>8, <1>9 DEF Edges
    <2> QED  BY <1>1, <1>8, <1>9, <2>1 DEF IsATree
  <1>11. \A i \in 1..Len(nodes') : InBuffer(nodes'[i].data)
    BY <1>1, <1>2, <1>6, <1>8 DEF SpansInBuffers
  <1> QED  BY <1>1, <1>4, <1>7, <1>8, <1>10, <1>11, InsertFrame

(* A new node hangs on the one insert stands on, under a name that was free. *)
LEMMA InsertNewIInv == IInv /\ InsertNew => IInv'
  <1> SUFFICES ASSUME IInv, InsertNew PROVE IInv'
    OBVIOUS
  <1> DEFINE n == Len(nodes)
             cur == folding.cur
             cs == nodes[cur].children
             ds == [m \in DOMAIN cs \cup {Comp} |-> IF m = Comp THEN n + 1 ELSE cs[m]]
             par == [nodes[cur] EXCEPT !.children = ds]
             mid == [nodes EXCEPT ![cur] = par]
             new == NewNode
  <1>1. /\ TypeOK /\ Shape /\ SpansInBuffers /\ IsATree /\ InsertingComp /\ Comp \notin DOMAIN cs
        /\ nodes' = Append(mid, new)
        /\ folding' = [folding EXCEPT !.comp = @ + 1, !.cur = n + 1]
        /\ UNCHANGED <<img, pc, buffers, budget, frames, records>>
    BY DEF IInv, InsertNew, Cur, Linked
  <1>2. /\ Rec.kind \in Kinds /\ Rec.mode \in Modes /\ Span(Rec) \in Spans /\ InBuffer(Span(Rec))
        /\ Comp \in Names /\ cur \in 1..n
    BY <1>1, RecordInHand
  <1>3. nodes \in Seq(Nodes) /\ n \in Nat
    BY <1>1 DEF TypeOK
  <1>4. nodes[cur] \in Nodes /\ cs \in ChildMaps
    <2>1. nodes[cur] \in Nodes
      BY <1>2, <1>3
    <2> QED  BY <2>1 DEF Nodes
  <1>5. ds \in ChildMaps
    <2>1. PICK D \in SUBSET Names : cs \in [D -> Nat]
      BY <1>4 DEF ChildMaps
    <2>2. ds \in [D \cup {Comp} -> Nat]
      BY <1>3, <2>1
    <2>3. D \cup {Comp} \in SUBSET Names
      BY <1>2, <2>1
    <2> QED  BY <2>2, <2>3 DEF ChildMaps
  <1>6. /\ DOMAIN ds = DOMAIN cs \cup {Comp} /\ ds[Comp] = n + 1
        /\ \A m \in DOMAIN cs : ds[m] = cs[m]
    BY <1>1
  <1> HIDE DEF ds
  <1>7. par \in Nodes /\ par.children = ds /\ par.data = nodes[cur].data
    BY <1>4, <1>5 DEF Nodes
  <1>8. new \in Nodes /\ new.children = NoChildren /\ InBuffer(new.data)
    <2>1. NoChildren \in ChildMaps
      <3>1. NoChildren \in [{} -> Nat] /\ {} \in SUBSET Names
        BY DEF NoChildren
      <3> QED  BY <3>1 DEF ChildMaps
    <2>2. CASE IsLast
      <3>1. new = [kind |-> Rec.kind, data |-> Span(Rec), mode |-> Rec.mode, children |-> NoChildren]
        BY <2>2 DEF NewNode
      <3> HIDE DEF new
      <3> QED  BY <1>2, <2>1, <3>1 DEF Nodes
    <2>3. CASE ~ IsLast
      <3>1. new = [kind |-> "Directory", data |-> NoSpan, mode |-> ImpliedMode, children |-> NoChildren]
        BY <2>3 DEF NewNode, DirNode
      <3>2. "Directory" \in Kinds /\ ImpliedMode \in Modes /\ NoSpan \in Spans
        BY DEF Kinds, Modes, NoSpan, Spans
      <3>3. InBuffer(NoSpan)
        <4>1. buffers # <<>> /\ buffers \in Seq(Buffers)
          BY <1>1 DEF Shape, InsertingComp, TypeOK
        <4>2. 1 \in 1..Len(buffers) /\ buffers[1] \in Buffers
          BY <4>1
        <4>3. buffers[1].len \in Nat
          BY <4>2, BuffersType
        <4> QED  BY <4>2, <4>3 DEF InBuffer, NoSpan
      <3> HIDE DEF new
      <3> QED  BY <2>1, <3>1, <3>2, <3>3 DEF Nodes
    <2> QED  BY <2>2, <2>3
  <1> HIDE DEF par, new
  <1>9. mid \in Seq(Nodes) /\ Len(mid) = n /\ mid[cur] = par /\ \A i \in 1..n : i # cur => mid[i] = nodes[i]
    BY <1>2, <1>3, <1>7
  <1> HIDE DEF mid
  <1>10. /\ nodes' \in Seq(Nodes) /\ Len(nodes') = n + 1 /\ nodes'[n + 1] = new
         /\ nodes'[cur] = par /\ \A i \in 1..n : i # cur => nodes'[i] = nodes[i]
    BY <1>1, <1>2, <1>3, <1>8, <1>9
  <1>11. folding' \in [rec : Nat \ {0}, comp : Nat \ {0}, cur : Nat \ {0}] /\ folding'.cur = n + 1
    <2>1. /\ folding \in [rec : Nat \ {0}, comp : Nat \ {0}, cur : Nat \ {0}]
          /\ folding' = [folding EXCEPT !.comp = @ + 1, !.cur = n + 1]
      BY <1>1 DEF TypeOK
    <2>2. n + 1 \in Nat \ {0}
      BY <1>3
    <2> HIDE DEF n
    <2>3. folding' = [rec |-> folding.rec, comp |-> folding.comp + 1, cur |-> n + 1]
      BY <2>1
    <2>4. folding.rec \in Nat \ {0} /\ folding.comp + 1 \in Nat \ {0}
      BY <2>1
    <2> QED  BY <2>2, <2>3, <2>4
  <1>12. \A i \in 1..Len(nodes') : InBuffer(nodes'[i].data)
    <2> SUFFICES ASSUME NEW i \in 1..n + 1 PROVE InBuffer(nodes'[i].data)
      BY <1>10
    <2>1. CASE i = n + 1
      BY <1>8, <1>10, <2>1
    <2>2. CASE i # n + 1
      <3>1. i \in 1..n
        BY <1>3, <2>2
      <3>2. nodes'[i].data = nodes[i].data
        BY <1>7, <1>10, <3>1
      <3> QED  BY <1>1, <3>1, <3>2 DEF SpansInBuffers
    <2> QED  BY <2>1, <2>2
  <1>13. ASSUME NEW i \in 1..n + 1, NEW m \in DOMAIN nodes'[i].children
         PROVE  \/ i = cur /\ m = Comp /\ nodes'[i].children[m] = n + 1
                \/ /\ i \in 1..n /\ m \in DOMAIN nodes[i].children
                   /\ nodes'[i].children[m] = nodes[i].children[m]
                   /\ nodes[i].children[m] \in i + 1..n
    <2>1. i # n + 1
      BY <1>8, <1>10, <1>13 DEF NoChildren
    <2>2. i \in 1..n
      BY <1>3, <2>1
    <2>3. \A x \in DOMAIN nodes[i].children : nodes[i].children[x] \in i + 1..n
      BY <1>1, <2>2 DEF IsATree
    <2>4. CASE i = cur
      BY <1>6, <1>7, <1>10, <1>13, <2>2, <2>3, <2>4
    <2>5. CASE i # cur
      BY <1>10, <1>13, <2>2, <2>3, <2>5
    <2> QED  BY <2>4, <2>5
  <1>14. IsATree'
    <2>1. ASSUME NEW i \in 1..n + 1, NEW m \in DOMAIN nodes'[i].children
          PROVE  nodes'[i].children[m] \in i + 1..n + 1
      BY <1>2, <1>3, <1>13
    <2>2. ASSUME NEW i \in 1..n + 1, NEW m \in DOMAIN nodes'[i].children,
                 NEW j \in 1..n + 1, NEW l \in DOMAIN nodes'[j].children,
                 nodes'[j].children[l] = nodes'[i].children[m]
          PROVE  i = j /\ m = l
      <3>1. CASE i = cur /\ m = Comp /\ nodes'[i].children[m] = n + 1
        <4>1. j = cur /\ l = Comp
          <5>1. ~ (nodes'[j].children[l] \in j + 1..n)
            BY <1>3, <2>2, <3>1
          <5> QED  BY <1>13, <5>1
        <4> QED  BY <3>1, <4>1
      <3>2. CASE /\ i \in 1..n /\ m \in DOMAIN nodes[i].children
                 /\ nodes'[i].children[m] = nodes[i].children[m]
                 /\ nodes[i].children[m] \in i + 1..n
        <4>1. nodes'[j].children[l] # n + 1
          BY <1>3, <2>2, <3>2
        <4>2. /\ j \in 1..n /\ l \in DOMAIN nodes[j].children
              /\ nodes'[j].children[l] = nodes[j].children[l]
          BY <1>13, <4>1
        <4>3. nodes[j].children[l] = nodes[i].children[m]
          BY <2>2, <3>2, <4>2
        <4>4. \A x \in 1..n : \A y \in DOMAIN nodes[x].children :
                nodes[x].children[y] = nodes[i].children[m] => i = x /\ m = y
          BY <1>1, <3>2 DEF IsATree
        <4> QED  BY <4>2, <4>3, <4>4
      <3> QED  BY <1>13, <3>1, <3>2
    <2>3. ASSUME NEW k \in 2..n + 1
          PROVE  \E i \in 1..n + 1 : \E m \in DOMAIN nodes'[i].children : nodes'[i].children[m] = k
      <3>1. CASE k = n + 1
        <4>1. cur \in 1..n + 1 /\ Comp \in DOMAIN nodes'[cur].children /\ nodes'[cur].children[Comp] = n + 1
          BY <1>2, <1>3, <1>6, <1>7, <1>10
        <4> QED  BY <3>1, <4>1
      <3>2. CASE k # n + 1
        <4>1. k \in 2..n
          BY <1>3, <3>2
        <4>2. PICK e \in Edges : e[2] = k
          BY <1>1, <4>1 DEF IsATree
        <4>3. PICK i \in 1..n : \E m \in DOMAIN nodes[i].children : nodes[i].children[m] = k
          BY <4>2 DEF Edges
        <4>4. PICK m \in DOMAIN nodes[i].children : nodes[i].children[m] = k
          BY <4>3
        <4>5. m \in DOMAIN nodes'[i].children /\ nodes'[i].children[m] = k
          <5>1. CASE i = cur
            BY <1>6, <1>7, <1>10, <4>4, <5>1
          <5>2. CASE i # cur
            BY <1>10, <4>4, <5>2
          <5> QED  BY <5>1, <5>2
        <4>6. i \in 1..n + 1
          BY <1>3
        <4> QED  BY <4>5, <4>6
      <3> QED  BY <3>1, <3>2
    <2>4. ASSUME NEW k \in 2..n + 1 PROVE \E e \in Edges' : e[2] = k
      <3>1. PICK i \in 1..n + 1 : \E m \in DOMAIN nodes'[i].children : nodes'[i].children[m] = k
        BY <2>3
      <3>2. k \in 1..n + 1
        BY <1>3
      <3>3. <<i, k>> \in Edges'
        BY <1>10, <3>1, <3>2 DEF Edges
      <3> QED  BY <3>3
    <2> QED  BY <1>10, <2>1, <2>2, <2>4 DEF IsATree
  <1>15. folding'.cur \in 1..Len(nodes')
    BY <1>3, <1>10, <1>11
  <1> QED  BY <1>1, <1>10, <1>11, <1>12, <1>14, <1>15, InsertFrame

-----------------------------------------------------------------------------
LEMMA NextIInv == IInv /\ [Next]_vars => IInv'
  BY ReturnsIInv, OpenChainIInv, OpenSingleIInv, SkipZerosIInv, ChainEndIInv, DecodeMemberIInv,
     ArchiveStartIInv, ParseRecordIInv, ParseTrailerIInv, InsertExistingIInv, InsertNewIInv,
     NextRecordIInv, FoldEndIInv, StutterIInv DEF Next, Step, Returned

LEMMA Invariance == Spec => []IInv
  BY InitIInv, NextIInv, PTL DEF Spec

(* Whatever the image holds, the bytes of every file and of every record     *)
(* about to be folded lie inside the buffer they name, so read_at and        *)
(* read_link never slice outside of it (cpio.rs:323).                        *)
THEOREM SpansAreInBuffers == Spec => []SpansInBuffers
  <1>1. IInv => SpansInBuffers
    BY DEF IInv
  <1> QED  BY <1>1, Invariance, PTL

(* The decompressed members and what is left of the budget add up to the     *)
(* read cap, however many members the image chains.                          *)
THEOREM BudgetIsExact == Spec => []BudgetExact
  <1>1. IInv => BudgetExact
    BY DEF IInv
  <1> QED  BY <1>1, Invariance, PTL

(* The nodes insert builds form a tree after every component of every record *)
(* of every archive: one parent and one name for each but the root, and no   *)
(* cycle.                                                                    *)
THEOREM FoldsIntoATree == Spec => []IsATree
  <1>1. IInv => IsATree
    BY DEF IInv
  <1> QED  BY <1>1, Invariance, PTL
=============================================================================
