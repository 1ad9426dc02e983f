------------------------------ MODULE SquashFs ------------------------------
(***************************************************************************)
(* lamfold-squash's squash.rs: a mounted SquashFS volume.  Nodes are        *)
(* numbered as the directory walk meets them, one number per inode          *)
(* reference; read_dir parses and interns the children one by one and may   *)
(* fail between two of them, and read_at reads block by block.              *)
(*                                                                          *)
(* Metadata is a sequence of metadata blocks, each a sequence of cells (or  *)
(* torn, when its compressed form does not decompress); a cell stands for a *)
(* fixed-size piece of a record: the 16 bytes every inode starts with, the  *)
(* rest of its fixed part, one entry of a block list, a symlink target, a   *)
(* 16-byte fragment entry, a directory header, and the fixed part and the   *)
(* name of a directory entry.  Tables follow each other without a gap and   *)
(* are addressed by block number.  File data is a sequence of stored bytes: *)
(* a byte of the file, or the i-th of the n bytes that a compressor         *)
(* (external) made of a block.                                              *)
(***************************************************************************)
EXTENDS FrontendCalls

CONSTANTS MAX_BLOCK_SIZE,
          FRAGS_PER_BLOCK,      \* fragment entries per metadata block (512)
          NO_FRAGMENT

-----------------------------------------------------------------------------
(* read_meta_span: from a cell of one block on into the following blocks,    *)
(* ending early at an empty one.  An offset past the first block continues   *)
(* at the start of the next.                                                 *)
EmptyBlocks(abs) == {k \in abs + 1..Len(img.meta) : img.meta[k] = <<>>}

LastBlock(abs) == IF EmptyBlocks(abs) = {} THEN Len(img.meta) ELSE Min(EmptyBlocks(abs))

(* The cells from there to the end of block last. *)
Joined(abs, offset, last) ==
    LET upto[k \in abs..last] == IF k = abs THEN SubSeq(img.meta[abs], offset + 1, Len(img.meta[abs]))
                                 ELSE upto[k - 1] \o img.meta[k]
    IN  upto[last]
MetaStream(abs, offset) == Joined(abs, offset, LastBlock(abs))

(* A block the span reads does not decompress: the first one, which is read   *)
(* for a span of length 0 too, or one before which the span is not complete.  *)
MeetsTorn(abs, offset, length) ==
    \E k \in img.torn :
        k = abs \/ (k \in abs + 1..LastBlock(abs) /\ Len(Joined(abs, offset, k - 1)) < length)

ReadMetaSpan(abs, offset, length) ==
    IF length > MAX_BOOT_FILE_BYTES THEN Bad("FileTooLarge")
    ELSE IF abs \notin DOMAIN img.meta THEN Bad("OutOfRange")
    ELSE IF MeetsTorn(abs, offset, length) THEN Bad("Decompress")
    ELSE LET s == MetaStream(abs, offset)
         IN  IF Len(s) < length /\ EmptyBlocks(abs) = {} THEN Bad("OutOfRange")
             ELSE Good(SubSeq(s, 1, LeastOf(Len(s), length)))

(* le_u16, le_u32 and get on a span: Corrupt if the span came short. *)
Fields(r, n) ==
    IF Failed(r) THEN r ELSE IF Len(r.val) < n THEN Bad("Corrupt") ELSE Good(r.val)

-----------------------------------------------------------------------------
(* parse_inode.  A data block's size is [len, raw]: stored bytes, and whether *)
(* they are stored uncompressed.                                             *)

(* A mutant of BlockCount: the tail never has a block. *)
BlockCountFloor(size, frag_idx) == size \div img.block_size

(* The count is cast to usize, which keeps it where usize has 64 bits. *)
BlockCount(size, frag_idx) ==
    IF frag_idx # NO_FRAGMENT THEN size \div img.block_size
                              ELSE CeilDiv(size, img.block_size)

BlockOffsets(start, sizes) ==
    LET at[i \in 1..Len(sizes)] == IF i = 1 THEN start ELSE at[i - 1] + sizes[i - 1].len
    IN  at

(* The fixed part of an inode after its head, in the layout of its type. *)
FixedPart(c) ==
    [size |-> Num(c, "size"), block |-> Num(c, "block"), offset |-> Num(c, "offset"),
     start |-> Num(c, "start"), frag_idx |-> Num(c, "frag_idx"), frag_off |-> Num(c, "frag_off")]

DirInode(f) ==
    [kind |-> "dir", size |-> f.size,
     body |-> [block |-> img.directory_table_start + f.block, offset |-> f.offset, size |-> f.size]]
FileInode(f, sizes) ==
    [kind |-> "file", size |-> f.size,
     body |-> [block_sizes |-> sizes, block_offsets |-> BlockOffsets(f.start, sizes),
               frag_idx |-> f.frag_idx, frag_off |-> f.frag_off]]
SymlinkInode(target) == [kind |-> "symlink", size |-> Len(target), body |-> [target |-> target]]
OtherInode == [kind |-> "other", size |-> 0, body |-> [target |-> <<>>]]

InodeSpan(ref, n) == Fields(ReadMetaSpan(img.inode_table_start + ref.block, ref.off, n), n)

ParseFile(ref, f) ==
    AndThen(InodeSpan(ref, 2 + BlockCount(f.size, f.frag_idx)),
            LAMBDA c : Good(FileInode(f, SubSeq(c, 3, Len(c)))))
ParseSymlink(ref, f) ==
    IF f.size > MAX_BOOT_FILE_BYTES THEN Bad("FileTooLarge")
    ELSE AndThen(InodeSpan(ref, 2 + f.size), LAMBDA c : Good(SymlinkInode(SubSeq(c, 3, Len(c)))))

ParseBody(ref, itype, f) ==
    CASE itype \in {1, 8}  -> Good(DirInode(f))
      [] itype \in {2, 9}  -> ParseFile(ref, f)
      [] itype \in {3, 10} -> ParseSymlink(ref, f)

ParseInode(ref) ==
    AndThen(InodeSpan(ref, 1), LAMBDA head :
      IF Num(head[1], "itype") \notin {1, 2, 3, 8, 9, 10} THEN Good(OtherInode)
      ELSE AndThen(InodeSpan(ref, 2), LAMBDA fixed : ParseBody(ref, Num(head[1], "itype"), FixedPart(fixed[2]))))

(* dir_entries: runs of a header and count + 1 entries of two cells; entries  *)
(* past the listing's end are dropped, a name past it is Corrupt.            *)

RunLength(listing, p) == LeastOf(Num(listing[p], "count") + 1, CeilDiv(Len(listing) - p, 2))

RunOf(listing, p) ==
    [i \in 1..RunLength(listing, p) |->
        [name |-> IF p + 2 * i <= Len(listing) THEN listing[p + 2 * i].name ELSE "OOB",
         ref |-> [block |-> Num(listing[p], "start"), off |-> Num(listing[p + 2 * i - 1], "off")]]]

(* turn[k] is where the loop is after k runs: at p, with the entries so far. *)
Entries(listing) ==
    LET turn[k \in 0..Len(listing)] ==
            LET t == turn[k - 1]
            IN  IF k = 0 THEN [p |-> 1, es |-> <<>>]
                ELSE IF t.p > Len(listing) THEN t
                ELSE [p |-> t.p + 1 + 2 * RunLength(listing, t.p), es |-> t.es \o RunOf(listing, t.p)]
        es == turn[Len(listing)].es
    IN  IF \E i \in DOMAIN es : es[i].name = "OOB" THEN Bad("Corrupt") ELSE Good(es)

DirEntries(body) ==
    AndThen(ReadMetaSpan(body.block, body.offset, IF body.size < 3 THEN 0 ELSE body.size - 3), Entries)

-----------------------------------------------------------------------------
Probe == img.magic

(* open: the superblock's checks in order, then the root inode as node 0. *)
SuperBlock ==
    IF ~ img.magic THEN Bad("Corrupt")
    ELSE IF img.compression \notin {1, 3, 4, 5, 6} THEN Bad("Unsupported")
    ELSE IF img.block_size = 0 \/ img.block_size > MAX_BLOCK_SIZE THEN Bad("Corrupt")
    ELSE ParseInode(img.root)

Open ==
    /\ pc = "open"
    /\ \E r \in {SuperBlock} :
         IF Failed(r) THEN Return(r) /\ UNCHANGED <<nodes, ids>>
         ELSE Return(Good(<<>>)) /\ Intern(img.root, r.val)
    /\ UNCHANGED sb

(* read_dir; lookup is read_dir and a search of its result. *)
ReadDir ==
    /\ pc \in {"read_dir", "lookup"}
    /\ IF arg.node \notin Ids THEN Return(Bad("NotFound"))
       ELSE IF Inode.kind # "dir" THEN Return(Bad("NotDirectory"))
       ELSE \E r \in {DirEntries(Inode.body)} :
              IF Failed(r) THEN Return(r) ELSE Loop("dir", r.val, 0)
    /\ UNCHANGED Table

DirChild ==
    /\ pc = "dir"
    /\ todo # <<>>
    /\ \E e \in {Head(todo)} : \E r \in {ParseInode(e.ref)} :
         \/ Failed(r) /\ Return(r) /\ UNCHANGED <<nodes, ids>>
         \/ /\ ~ Failed(r)
            /\ Intern(e.ref, r.val)
            /\ out' = Append(out, [name |-> e.name, kind |-> r.val.kind, node |-> ids'[e.ref]])
            /\ todo' = Tail(todo)
            /\ UNCHANGED <<pc, pos, ret>>
    /\ UNCHANGED sb

DirDone ==
    /\ pc = "dir"
    /\ todo = <<>>
    /\ Return(Good(Listed(out)))
    /\ UNCHANGED Table

(* metadata and read_link answer from the interned inode. *)
Answer(v) == Return(IF arg.node \in Ids THEN Good(v) ELSE Bad("NotFound")) /\ UNCHANGED Table

GetMetadata == pc = "metadata" /\ Answer(<<Inode.kind, Inode.size>>)

ReadLink ==
    /\ pc = "read_link"
    /\ Answer(IF Inode.kind = "symlink" THEN <<Inode.body.target>> ELSE <<>>)

-----------------------------------------------------------------------------
(* read_data_block *)
ReadDataBlock(at, size) ==
    IF size.len = 0 THEN Good(<<>>)
    ELSE AndThen(ReadCells(img.data, at, size.len), LAMBDA raw :
           IF size.raw THEN Good([i \in DOMAIN raw |-> Plain(raw[i])]) ELSE Decode(raw, img.block_size))

ReadFragment(idx) ==
    LET p == idx \div FRAGS_PER_BLOCK + 1
    IN  IF p \notin DOMAIN img.fragments THEN Bad("OutOfRange")
        ELSE AndThen(Fields(ReadMetaSpan(img.fragments[p], idx % FRAGS_PER_BLOCK, 1), 1),
                     LAMBDA fe : ReadDataBlock(fe[1].start, fe[1].size))

Slice(r, start, want) ==
    AndThen(r, LAMBDA block : IF start + want > Len(block) THEN Bad("Corrupt")
                              ELSE Good(SubSeq(block, start + 1, start + want)))

(* One turn of read_at's loop. *)
End == LeastOf(Inode.size, arg.off + arg.len)
Idx == pos \div img.block_size
Within == pos % img.block_size

(* A mutant of Want: the rest of the block, however short the buffer is. *)
WantWholeBlock == LeastOf(img.block_size, Inode.size - Idx * img.block_size) - Within

Want == LeastOf(LeastOf(img.block_size, Inode.size - Idx * img.block_size) - Within, End - pos)

(* A mutant of Piece: the fragment's tail is copied from its start. *)
PieceFromStart ==
    LET b == Inode.body
    IN  IF Idx < Len(b.block_sizes)
          THEN LET size == b.block_sizes[Idx + 1]
               IN  IF size.len = 0 THEN Good([i \in 1..Want |-> 0])
                   ELSE Slice(ReadDataBlock(b.block_offsets[Idx + 1], size), Within, Want)
        ELSE IF b.frag_idx # NO_FRAGMENT /\ Idx = Len(b.block_sizes)
          THEN Slice(ReadFragment(b.frag_idx), b.frag_off, Want)
        ELSE Bad("TooLong")

Piece ==
    LET b == Inode.body
    IN  IF Idx < Len(b.block_sizes)
          THEN LET size == b.block_sizes[Idx + 1]
               IN  IF size.len = 0 THEN Good([i \in 1..Want |-> 0])
                   ELSE Slice(ReadDataBlock(b.block_offsets[Idx + 1], size), Within, Want)
        ELSE IF b.frag_idx # NO_FRAGMENT /\ Idx = Len(b.block_sizes)
          THEN Slice(ReadFragment(b.frag_idx), b.frag_off + Within, Want)
        ELSE Bad("TooLong")

ReadAt ==
    /\ pc = "read_at"
    /\ IF arg.node \notin Ids THEN Return(Bad("NotFound"))
       ELSE IF Inode.kind = "dir" THEN Return(Bad("IsDirectory"))
       ELSE IF Inode.kind # "file" THEN Return(Bad("Unsupported"))
       ELSE IF arg.off >= Inode.size THEN Return(Good(<<>>))
       ELSE Loop("file", <<>>, arg.off)
    /\ UNCHANGED Table

ReadPiece ==
    /\ pc = "file"
    /\ pos < End
    /\ \E r \in {Piece} :
         \/ Failed(r) /\ Return(r)
         \/ /\ ~ Failed(r)
            /\ out' = out \o r.val
            /\ pos' = pos + Want
            /\ UNCHANGED <<pc, todo, ret>>
    /\ UNCHANGED Table

ReadDone ==
    /\ pc = "file"
    /\ pos >= End
    /\ Return(Good(out))
    /\ UNCHANGED Table

(* The device fails under a read (external); a sparse block reads nothing. *)
ReadsDevice ==
    \/ pc = "open"
    \/ /\ pc \in {"read_dir", "lookup"}
       /\ arg.node \in Ids
       /\ Inode.kind = "dir" /\ Inode.size <= MAX_BOOT_FILE_BYTES + 3
    \/ pc = "dir" /\ todo # <<>>
    \/ /\ pc = "file"
       /\ pos < End
       /\ Idx < Len(Inode.body.block_sizes) => Inode.body.block_sizes[Idx + 1].len > 0

IoError == ReadsDevice /\ Return(Bad("Io")) /\ UNCHANGED Table

-----------------------------------------------------------------------------
Step ==
    /\ \/ Open \/ ReadDir \/ DirChild \/ DirDone \/ GetMetadata \/ ReadLink
       \/ ReadAt \/ ReadPiece \/ ReadDone \/ IoError
    /\ UNCHANGED Fixed

Next == Step \/ \E n \in 0..Len(nodes) : \E a \in Requests(n) : Call(a)

Spec == Init /\ [][Next]_vars

(* What is left of a loop. *)
Fuel == CASE pc = "dir" -> Len(todo) [] pc = "file" -> End - pos [] OTHER -> 0

-----------------------------------------------------------------------------
NodeOf(ref) == ParseInode(ref).val

(* Every position below an inode's size lies in a block of its list or in its *)
(* fragment, on damaged images too: read_at's last else is never taken.       *)
BlocksCoverFile ==
    \A i \in DOMAIN nodes : nodes[i].kind = "file" =>
        LET n == Len(nodes[i].body.block_sizes)
        IN  nodes[i].size <= (IF nodes[i].body.frag_idx = NO_FRAGMENT THEN n ELSE n + 1) * img.block_size
=============================================================================
