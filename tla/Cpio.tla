-------------------------------- MODULE Cpio --------------------------------
(***************************************************************************)
(* lamfold-cpio's cpio.rs: opening an initramfs.  A chain of newc archives, *)
(* with zero padding and compressed members between them, is folded record  *)
(* by record into one directory tree; a single odc or binary archive goes   *)
(* through the external cpio_reader crate.  The loops of insert_chain,      *)
(* insert_newc_archive and insert are sequences of steps, one per round.    *)
(*                                                                          *)
(* A buffer is a sequence of items and its length in bytes; the length may  *)
(* cut its items short, as a truncated image does.  Item kinds:             *)
(*   zeros    padding of `bytes` bytes                                      *)
(*   record   a newc/CRC record: HEADER bytes of header and name, then      *)
(*            `len` bytes of data, padded to 4; wellformed is FALSE when    *)
(*            its header, name or checksum is bad                           *)
(*   trailer  the record named TRAILER!!!                                   *)
(*   stream   a compressed member of `bytes` bytes that decodes to the      *)
(*            buffer `out`, or fails to                                     *)
(*   junk     anything else                                                 *)
(***************************************************************************)
EXTENDS Integers, Sequences, FiniteSets

CONSTANTS Images,               \* the inputs considered
          HEADER,               \* bytes of a record's header and name, padded
          MAX_BOOT_FILE_BYTES

(* What the fields of an image hold.  A compressed member's buffer may have   *)
(* members of its own, which are refused unread.  The entries cpio_reader    *)
(* (external) finds in a single archive have their data in place.            *)
Spans == [buf : Nat \ {0}, off : Nat, len : Nat]
Records == [path : Seq(STRING), utf8 : BOOLEAN, kind : STRING, mode : STRING, ino : STRING,
            nlink : Nat, data : Spans]
IsItem(it) ==
    /\ it.t \in {"zeros", "record", "trailer", "stream", "junk"}
    /\ it.t \in {"zeros", "stream"} => it.bytes \in Nat
    /\ it.t \in {"record", "trailer"} => it.len \in Nat
    /\ it.t = "record" =>
         /\ it.path \in Seq(STRING) /\ it.utf8 \in BOOLEAN /\ it.kind \in STRING
         /\ it.mode \in STRING /\ it.ino \in STRING /\ it.nlink \in Nat
IsBuffer(b) ==
    /\ b.len \in Nat /\ Len(b.items) \in Nat
    /\ \A i \in 1..Len(b.items) : IsItem(b.items[i])
ASSUME ImagesAssumption ==
    \A m \in Images :
        /\ IsBuffer(m.buffer)
        /\ \A i \in 1..Len(m.buffer.items) :
             m.buffer.items[i].t = "stream" => IsBuffer(m.buffer.items[i].out)
        /\ m.single \in Seq(Records)
        /\ \A i \in 1..Len(m.single) :
             m.single[i].data.buf = 1 /\ m.single[i].data.off + m.single[i].data.len <= m.buffer.len

ASSUME HeaderAssumption == HEADER \in Nat \ {0} /\ HEADER % 4 = 0
ASSUME CapAssumption == MAX_BOOT_FILE_BYTES \in Nat

VARIABLES img,       \* the source
          pc,        \* open -> chain <-> parse -> fold ... -> done
          buffers,   \* the input, then one buffer per decompressed member
          nodes,     \* the tree; NodeId n is nodes[n + 1], the root nodes[1]
          budget,    \* what is left of the decompressed total
          frames,    \* insert_chain's calls: buffer, next item, its offset
          records,   \* the records of the archive being folded
          folding,   \* insert's progress: record, component, current node
          result     \* "none", "ok" or the error

vars == <<img, pc, buffers, nodes, budget, frames, records, folding, result>>

Align4(n) == ((n + 3) \div 4) * 4

Top == frames[Len(frames)]
Buf == buffers[Top.buf]
Item == Buf.items[Top.at]
MoreItems == Top.at <= Len(Buf.items) /\ Top.pos < Buf.len
IsNewc(it) == it.t \in {"record", "trailer"}

(* The frame on top of the call stack moves on to the next item, at pos. *)
Advance(pos) == [frames EXCEPT ![Len(frames)] = [buf |-> Top.buf, at |-> Top.at + 1, pos |-> pos]]

NoChildren == [n \in {} |-> 0]
NoSpan == [buf |-> 1, off |-> 0, len |-> 0]
DirNode(mode) == [kind |-> "Directory", data |-> NoSpan, mode |-> mode, children |-> NoChildren]
ImpliedMode == "0755"
NotFolding == [rec |-> 1, comp |-> 1, cur |-> 1]

Init ==
    /\ img \in Images
    /\ pc = "open"
    /\ buffers = <<>>
    /\ nodes = <<>>
    /\ budget = 0
    /\ frames = <<>>
    /\ records = <<>>
    /\ folding = NotFolding
    /\ result = "none"

Return(r) ==
    /\ pc' = "done"
    /\ result' = r
    /\ UNCHANGED <<img, buffers, nodes, budget, frames, records, folding>>

-----------------------------------------------------------------------------
(* open: the read cap, then one read of the whole source. *)
OpenFails ==
    /\ pc = "open"
    /\ \/ img.buffer.len > MAX_BOOT_FILE_BYTES /\ Return("FileTooLarge")
       \/ img.buffer.len <= MAX_BOOT_FILE_BYTES /\ Return("Io")

StartsWithMagic == img.buffer.len > 0 /\ img.buffer.items # <<>> /\ IsNewc(img.buffer.items[1])

Mount ==
    /\ pc = "open"
    /\ img.buffer.len <= MAX_BOOT_FILE_BYTES
    /\ buffers' = <<img.buffer>>
    /\ nodes' = <<DirNode(ImpliedMode)>>
    /\ UNCHANGED <<img, folding, result>>

OpenChain ==
    /\ Mount
    /\ StartsWithMagic
    /\ pc' = "chain"
    /\ budget' = MAX_BOOT_FILE_BYTES
    /\ frames' = <<[buf |-> 1, at |-> 1, pos |-> 0]>>
    /\ UNCHANGED records

(* insert_single: the entries cpio_reader finds, each with its data in place. *)
OpenSingle ==
    /\ Mount
    /\ ~ StartsWithMagic
    /\ pc' = "fold"
    /\ records' = img.single
    /\ UNCHANGED <<budget, frames>>

-----------------------------------------------------------------------------
(* A mutant of SkipZeros: pos stays. *)
SkipNoZeros ==
    /\ pc = "chain"
    /\ MoreItems
    /\ Item.t = "zeros"
    /\ UNCHANGED vars

(* insert_chain *)
SkipZeros ==
    /\ pc = "chain"
    /\ MoreItems
    /\ Item.t = "zeros"
    /\ frames' = Advance(Top.pos + Item.bytes)
    /\ UNCHANGED <<img, pc, buffers, nodes, budget, records, folding, result>>

(* Nothing but zeros is left: the call returns to the chain that decoded     *)
(* this member, or the archive is mounted.                                   *)
ChainEnd ==
    /\ pc = "chain"
    /\ ~ MoreItems
    /\ \/ Len(frames) = 1 /\ Return("ok")
       \/ /\ Len(frames) > 1
          /\ frames' = SubSeq(frames, 1, Len(frames) - 1)
          /\ UNCHANGED <<img, pc, buffers, nodes, budget, records, folding, result>>

Nested == Top.buf # 1

(* decode_stream fails on what is malformed or goes past the buffer. *)
Undecodable == Item.fails \/ Top.pos + Item.bytes > Buf.len

MemberRefused ==
    /\ pc = "chain"
    /\ MoreItems
    /\ Item.t = "stream"
    /\ \/ Nested /\ Return("Corrupt")
       \/ ~ Nested /\ Undecodable /\ Return("Undecodable")
       \/ ~ Nested /\ ~ Undecodable /\ Item.out.len > budget /\ Return("FileTooLarge")

(* A mutant of DecodeMember: the budget is not charged. *)
DecodeUncharged ==
    /\ pc = "chain"
    /\ MoreItems
    /\ Item.t = "stream"
    /\ ~ Nested
    /\ ~ Undecodable
    /\ Item.out.len <= budget
    /\ buffers' = Append(buffers, Item.out)
    /\ frames' = Append(Advance(Top.pos + Item.bytes), [buf |-> Len(buffers) + 1, at |-> 1, pos |-> 0])
    /\ UNCHANGED <<img, pc, nodes, budget, records, folding, result>>

DecodeMember ==
    /\ pc = "chain"
    /\ MoreItems
    /\ Item.t = "stream"
    /\ ~ Nested
    /\ ~ Undecodable
    /\ Item.out.len <= budget
    /\ budget' = budget - Item.out.len
    /\ buffers' = Append(buffers, Item.out)
    /\ frames' = Append(Advance(Top.pos + Item.bytes), [buf |-> Len(buffers) + 1, at |-> 1, pos |-> 0])
    /\ UNCHANGED <<img, pc, nodes, records, folding, result>>

JunkBetween ==
    /\ pc = "chain"
    /\ MoreItems
    /\ Item.t = "junk" \/ (IsNewc(Item) /\ Top.pos % 4 # 0)
    /\ Return("Corrupt")

ArchiveStart ==
    /\ pc = "chain"
    /\ MoreItems
    /\ IsNewc(Item)
    /\ Top.pos % 4 = 0
    /\ pc' = "parse"
    /\ records' = <<>>
    /\ UNCHANGED <<img, buffers, nodes, budget, frames, folding, result>>

-----------------------------------------------------------------------------
(* insert_newc_archive: read records up to the trailer, then fold them. *)
DataStart == Top.pos + HEADER
DataEnd == DataStart + Item.len
(* A mutant of Parses: data_end is not checked. *)
ParsesUnbounded == MoreItems /\ IsNewc(Item) /\ Item.wellformed

Parses == MoreItems /\ IsNewc(Item) /\ Item.wellformed /\ DataEnd <= Buf.len

ParseFails == pc = "parse" /\ ~ Parses /\ Return("Corrupt")

ParseRecord ==
    /\ pc = "parse"
    /\ Parses
    /\ Item.t = "record"
    /\ records' = Append(records,
           [path |-> Item.path, utf8 |-> Item.utf8, kind |-> Item.kind, mode |-> Item.mode,
            ino |-> Item.ino, nlink |-> Item.nlink,
            data |-> [buf |-> Top.buf, off |-> DataStart, len |-> Item.len]])
    /\ frames' = Advance(Align4(DataEnd))
    /\ UNCHANGED <<img, pc, buffers, nodes, budget, folding, result>>

ParseTrailer ==
    /\ pc = "parse"
    /\ Parses
    /\ Item.t = "trailer"
    /\ pc' = "fold"
    /\ frames' = Advance(Align4(DataEnd))
    /\ folding' = NotFolding
    /\ UNCHANGED <<img, buffers, nodes, budget, records, result>>

-----------------------------------------------------------------------------
(* A hard link takes the data of the archive's last link that has any. *)
IsLink(r) == r.kind = "Regular" /\ r.nlink > 1
DataLinks(r) ==
    {i \in 1..Len(records) :
        IsLink(records[i]) /\ records[i].ino = r.ino /\ records[i].data.len > 0}
(* A mutant of LinkedData: the first link with data wins. *)
FirstLinkedData(r) ==
    IF IsLink(r) /\ DataLinks(r) # {}
      THEN records[CHOOSE i \in DataLinks(r) : \A j \in DataLinks(r) : i <= j].data
      ELSE r.data

LinkedData(r) ==
    IF IsLink(r) /\ DataLinks(r) # {}
      THEN records[CHOOSE i \in DataLinks(r) : \A j \in DataLinks(r) : j <= i].data
      ELSE r.data

(* insert splits the name at its slashes and drops "" and "."; a ".." is a   *)
(* name like any other.                                                      *)
Comps(p) == SelectSeq(p, LAMBDA c : c # "" /\ c # ".")

Rec == records[folding.rec]
Path == Comps(Rec.path)
Comp == Path[folding.comp]
IsLast == folding.comp = Len(Path)
Cur == nodes[folding.cur]
Span(r) == IF frames = <<>> THEN r.data ELSE LinkedData(r)

NameRefused ==
    /\ pc = "fold"
    /\ folding.rec <= Len(records)
    /\ ~ Rec.utf8
    /\ Return("Unsupported")

InsertingComp ==
    /\ pc = "fold"
    /\ folding.rec <= Len(records)
    /\ Rec.utf8
    /\ folding.comp <= Len(Path)

(* The component exists: go there, and let a record that is not a directory  *)
(* overwrite the node it names.                                              *)
Overwrite(node) == [node EXCEPT !.kind = Rec.kind, !.data = Span(Rec), !.mode = Rec.mode]
Overwrites == IsLast /\ Rec.kind # "Directory"

InsertExisting ==
    /\ InsertingComp
    /\ Comp \in DOMAIN Cur.children
    /\ nodes' = IF Overwrites
                  THEN [nodes EXCEPT ![Cur.children[Comp]] = Overwrite(@)]
                  ELSE nodes
    /\ folding' = [folding EXCEPT !.comp = @ + 1, !.cur = Cur.children[Comp]]
    /\ UNCHANGED <<img, pc, buffers, budget, frames, records, result>>

(* A mutant of NewNode: an implied directory gets the record's kind. *)
NewNodeOfRecord ==
    [kind |-> Rec.kind, data |-> Span(Rec), mode |-> Rec.mode, children |-> NoChildren]

(* It does not: append its node, an implied directory unless it is the last. *)
NewNode ==
    IF IsLast THEN [kind |-> Rec.kind, data |-> Span(Rec), mode |-> Rec.mode, children |-> NoChildren]
              ELSE DirNode(ImpliedMode)

Linked(node, name, child) ==
    [node EXCEPT !.children = [n \in DOMAIN @ \cup {name} |-> IF n = name THEN child ELSE @[n]]]

(* A mutant of InsertNew: the id is taken after the push. *)
InsertNewOffByOne ==
    /\ InsertingComp
    /\ Comp \notin DOMAIN Cur.children
    /\ nodes' = Append([nodes EXCEPT ![folding.cur] = Linked(@, Comp, Len(nodes))], NewNode)
    /\ folding' = [folding EXCEPT !.comp = @ + 1, !.cur = Len(nodes) + 1]
    /\ UNCHANGED <<img, pc, buffers, budget, frames, records, result>>

InsertNew ==
    /\ InsertingComp
    /\ Comp \notin DOMAIN Cur.children
    /\ nodes' = Append([nodes EXCEPT ![folding.cur] = Linked(@, Comp, Len(nodes) + 1)], NewNode)
    /\ folding' = [folding EXCEPT !.comp = @ + 1, !.cur = Len(nodes) + 1]
    /\ UNCHANGED <<img, pc, buffers, budget, frames, records, result>>

NextRecord ==
    /\ pc = "fold"
    /\ folding.rec <= Len(records)
    /\ Rec.utf8
    /\ folding.comp > Len(Path)
    /\ folding' = [rec |-> folding.rec + 1, comp |-> 1, cur |-> 1]
    /\ UNCHANGED <<img, pc, buffers, nodes, budget, frames, records, result>>

(* The archive is folded: the chain goes on after it, and a single archive   *)
(* is all there is.                                                          *)
FoldEnd ==
    /\ pc = "fold"
    /\ folding.rec > Len(records)
    /\ \/ frames = <<>> /\ Return("ok")
       \/ /\ frames # <<>>
          /\ pc' = "chain"
          /\ UNCHANGED <<img, buffers, nodes, budget, frames, records, folding, result>>

Step ==
    \/ OpenFails \/ OpenChain \/ OpenSingle
    \/ SkipZeros \/ ChainEnd \/ MemberRefused \/ DecodeMember \/ JunkBetween \/ ArchiveStart
    \/ ParseFails \/ ParseRecord \/ ParseTrailer
    \/ NameRefused \/ InsertExisting \/ InsertNew \/ NextRecord \/ FoldEnd

Returned == pc = "done" /\ UNCHANGED vars

Next == Step \/ Returned

(* open is one call: its loops run until it returns. *)
Spec == Init /\ [][Next]_vars /\ WF_vars(Step)

-----------------------------------------------------------------------------
(* What the mounted tree answers: lookup walked from the root. *)
Lookup(dir, name) ==
    IF nodes[dir].kind = "Directory" /\ name \in DOMAIN nodes[dir].children
      THEN nodes[dir].children[name] ELSE 0

(* read_dir, metadata, and the bytes that read_at and read_link give: a span *)
(* of the node's buffer.  They change nothing.                               *)
ReadDir(dir) ==
    IF nodes[dir].kind # "Directory" THEN {}
    ELSE {[name |-> m, node |-> nodes[dir].children[m], kind |-> nodes[nodes[dir].children[m]].kind] :
            m \in DOMAIN nodes[dir].children}

GetMetadata(n) ==
    [kind |-> nodes[n].kind, size |-> IF nodes[n].kind = "Directory" THEN 0 ELSE nodes[n].data.len,
     mode |-> nodes[n].mode]

ReadAt(n, off, len) ==
    LET data == nodes[n].data
        rest == IF off >= data.len THEN 0 ELSE data.len - off
    IN  [buf |-> data.buf, off |-> data.off + off, len |-> IF len < rest THEN len ELSE rest]

Mounted == pc = "done" /\ result = "ok"

(* The node a path of up to two names leads to through lookup, 0 if none. *)
At(p) ==
    CASE Len(p) = 0 -> 1
      [] Len(p) = 1 -> Lookup(1, p[1])
      [] Len(p) = 2 -> IF Lookup(1, p[1]) = 0 THEN 0 ELSE Lookup(Lookup(1, p[1]), p[2])

-----------------------------------------------------------------------------
(* The bytes of every file, and of every record about to be folded, lie      *)
(* inside the buffer they name: read_at and read_link never slice outside.   *)
InBuffer(s) == s.buf \in 1..Len(buffers) /\ s.off + s.len <= buffers[s.buf].len
SpansInBuffers ==
    /\ \A i \in 1..Len(nodes) : InBuffer(nodes[i].data)
    /\ \A i \in 1..Len(records) : InBuffer(records[i].data)

(* The decompressed members together never exceed the read cap: the budget   *)
(* and the bytes decoded so far always add up to it.                         *)
DecodedBytes == UNION {{i} \X (1..buffers[i].len) : i \in 2..Len(buffers)}
BudgetExact ==
    frames # <<>> => budget + Cardinality(DecodedBytes) = MAX_BOOT_FILE_BYTES

(* The nodes form a tree: every child is younger than its parent, and no     *)
(* node but the root lacks, or has more than, one parent and name.           *)
Edges == {e \in (1..Len(nodes)) \X (1..Len(nodes)) :
            \E n \in DOMAIN nodes[e[1]].children : nodes[e[1]].children[n] = e[2]}
IsATree ==
    /\ \A i \in 1..Len(nodes) : \A n \in DOMAIN nodes[i].children :
         /\ nodes[i].children[n] \in i + 1..Len(nodes)
         /\ \A j \in 1..Len(nodes) : \A m \in DOMAIN nodes[j].children :
              nodes[j].children[m] = nodes[i].children[n] => i = j /\ n = m
    /\ \A k \in 2..Len(nodes) : \E e \in Edges : e[2] = k

(* open returns, whatever the image holds. *)
Opens == <>(pc = "done")
=============================================================================
