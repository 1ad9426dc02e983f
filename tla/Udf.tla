-------------------------------- MODULE Udf --------------------------------
(***************************************************************************)
(* lamfold-udf's udf.rs: a chain of descriptors to the root, one node per   *)
(* File Entry, file data inline in the entry or in extents that may be      *)
(* unrecorded.                                                              *)
(*                                                                          *)
(* The device is a sequence of cells, SECTOR of them to a sector.  A cell   *)
(* is a descriptor [tag, ...], an allocation descriptor [etype, len,        *)
(* block], the fixed part of a File Identifier [tag, fc, icb, l_fi, l_iu],  *)
(* a name [comp, name], or a stored byte; lengths count cells.  An address  *)
(* is 32 bits wide: sums wrap at ADDRESSES.                                 *)
(***************************************************************************)
EXTENDS FrontendCalls

CONSTANTS SECTOR, AVDP_SECTOR, MAX_VDS_SECTORS,
          ADDRESSES,            \* 2^32
          FID_ALIGN             \* identifiers are padded to 4 bytes

TAG_AVDP == 2
TAG_PARTITION == 5
TAG_LOGICAL_VOLUME == 6
TAG_TERMINATING == 8
TAG_FILE_SET == 256
TAG_FID == 257
TAG_FILE_ENTRY == 261
TAG_EXTENDED_FILE_ENTRY == 266

Wrap(a) == a % ADDRESSES
Tag(c) == Num(c, "tag")

ReadBlock(lba, bs) ==
    IF lba * bs + bs > Len(img.disk) THEN Bad("Corrupt") ELSE ReadCells(img.disk, lba * bs, bs)

-----------------------------------------------------------------------------
Kind(file_type) ==
    CASE file_type = 4 -> "dir" [] file_type = 5 -> "file" [] file_type = 12 -> "symlink" [] OTHER -> "other"

(* parse_extents: an extent [lba, len] has no lba (-1) when it is unrecorded. *)
ParseExtents(b, ad_off, l_ad, stride, part) ==
    LET n == l_ad \div stride
        field(i, f) == Num(b[ad_off + 1 + (i - 1) * stride], f)
        ex[i \in 0..n] ==
            IF i = 0 THEN <<>>
            ELSE IF field(i, "len") = 0 THEN ex[i - 1]
            ELSE Append(ex[i - 1], [lba |-> IF field(i, "etype") = 0 THEN Wrap(part + field(i, "block")) ELSE -1,
                                    len |-> field(i, "len")])
    IN  IF ad_off + l_ad > Len(b) THEN Bad("Corrupt")
        ELSE IF \E i \in 1..n : field(i, "len") > 0 /\ field(i, "etype") = 3 THEN Bad("Unsupported")
        ELSE Good(ex[n])

(* read_fe: of a File Entry, or of an Extended one, whose fixed part is longer. *)
FileEntry(c) ==
    [tag |-> Tag(c), ft |-> Num(c, "ft"), ad |-> Num(c, "ad"), info |-> Num(c, "info"),
     l_ea |-> Num(c, "l_ea"), l_ad |-> Num(c, "l_ad")]

ParseFe(b, part) ==
    LET fe == FileEntry(b[1])
        ad_off == (IF fe.tag = TAG_FILE_ENTRY THEN 1 ELSE 2) + fe.l_ea
        ex == ParseExtents(b, ad_off, fe.l_ad, IF fe.ad = 0 THEN 1 ELSE 2, part)
        inode(inline, data) == [kind |-> Kind(fe.ft), size |-> fe.info, inline |-> inline, data |-> data]
    IN  IF fe.tag \notin {TAG_FILE_ENTRY, TAG_EXTENDED_FILE_ENTRY} THEN Bad("Corrupt")
        ELSE IF fe.ad = 3
          THEN IF fe.info > MAX_BOOT_FILE_BYTES THEN Bad("FileTooLarge")
               ELSE IF ad_off + fe.info > Len(b) THEN Bad("Corrupt")
               ELSE Good(inode(TRUE, SubSeq(b, ad_off + 1, ad_off + fe.info)))
        ELSE IF fe.ad \notin {0, 1} THEN Bad("Unsupported")
        ELSE IF Failed(ex) THEN ex ELSE Good(inode(FALSE, ex.val))

ReadFe(lba, super) ==
    LET r == ReadBlock(lba, super.bs) IN IF Failed(r) THEN r ELSE ParseFe(r.val, super.part)

-----------------------------------------------------------------------------
Probe == Len(img.disk) > AVDP_SECTOR * SECTOR /\ Tag(img.disk[AVDP_SECTOR * SECTOR + 1]) = TAG_AVDP

(* The Main Volume Descriptor Sequence up to its terminator: the last         *)
(* partition and logical volume descriptors of it count.                      *)
Mvds(avdp) ==
    LET n == LeastOf(Num(avdp, "len") \div SECTOR, MAX_VDS_SECTORS)
        sector(i) == ReadBlock(Wrap(Num(avdp, "loc") + i), SECTOR)
        ends == {i \in 0..n - 1 : Failed(sector(i)) \/ Tag(sector(i).val[1]) = TAG_TERMINATING}
        last == IF ends = {} THEN n ELSE Min(ends)
    IN  IF ends # {} /\ Failed(sector(last)) THEN sector(last)
        ELSE Good([i \in 1..last |-> sector(i - 1).val[1]])

LastWith(ds, tag) == ds[Max({i \in DOMAIN ds : Tag(ds[i]) = tag})]
Has(ds, tag) == \E d \in Range(ds) : Tag(d) = tag

(* open: the volume [bs, part, root], root the address of the root's File Entry. *)
Volume ==
    LET avdp == ReadBlock(AVDP_SECTOR, SECTOR)
        ds == Mvds(avdp.val[1])
        lvd == LastWith(ds.val, TAG_LOGICAL_VOLUME)
        part == Num(LastWith(ds.val, TAG_PARTITION), "start")
        bs == IF Num(lvd, "lbs") = 0 THEN SECTOR ELSE Num(lvd, "lbs")
        fsd == ReadBlock(Wrap(part + Num(lvd, "fsd")), bs)
    IN  IF Failed(avdp) THEN avdp
        ELSE IF Tag(avdp.val[1]) # TAG_AVDP THEN Bad("Corrupt")
        ELSE IF Failed(ds) THEN ds
        ELSE IF ~ Has(ds.val, TAG_PARTITION) \/ ~ Has(ds.val, TAG_LOGICAL_VOLUME) THEN Bad("Corrupt")
        ELSE IF Failed(fsd) THEN fsd
        ELSE IF Tag(fsd.val[1]) # TAG_FILE_SET THEN Bad("Corrupt")
        ELSE Good([bs |-> bs, part |-> part, root |-> Wrap(part + Num(fsd.val[1], "icb"))])

Open ==
    /\ pc = "open"
    /\ LET fe == ReadFe(Volume.val.root, Volume.val)
       IN  IF Failed(Volume) THEN Return(Volume) /\ UNCHANGED Table
           ELSE IF Failed(fe) THEN Return(fe) /\ UNCHANGED Table
           ELSE /\ Return(Good(<<>>))
                /\ sb' = Volume.val
                /\ Intern(Volume.val.root, fe.val)

-----------------------------------------------------------------------------
Zeros(n) == [i \in 1..n |-> [of |-> <<0>>, i |-> 1, n |-> 1]]
Piece(e, within, n) == IF e.lba = -1 THEN Good(Zeros(n)) ELSE ReadCells(img.disk, e.lba * sb.bs + within, n)

(* read_all: a directory's data up to its size, or to the end of its extents. *)
ReadAll(inode) ==
    LET ex == inode.data
        got[i \in 0..Len(ex)] ==
            LET prev == got[i - 1]
                need == inode.size - Len(prev.val)
                here == Piece(ex[i], 0, LeastOf(ex[i].len, need))
            IN  IF i = 0 THEN Good(<<>>)
                ELSE IF Failed(prev) THEN prev
                ELSE IF need = 0 THEN prev
                ELSE IF Failed(here) THEN here ELSE Good(prev.val \o here.val)
    IN  IF inode.inline THEN Good(ex)
        ELSE IF inode.size > MAX_BOOT_FILE_BYTES THEN Bad("FileTooLarge") ELSE got[Len(ex)]

(* decode_udf_name; a name that is not UTF-16 is "bad". *)
NoName == ""
DecodeName(fi) ==
    IF fi = <<>> THEN Good(NoName)
    ELSE IF "comp" \notin DOMAIN fi[1] THEN Bad("InvalidPath")
    ELSE IF fi[1].comp = 8 \/ (fi[1].comp = 16 /\ fi[1].name # "bad") THEN Good(fi[1].name)
    ELSE Bad("InvalidPath")

(* A mutant of FidLength: no padding. *)
FidTight(fid) == 1 + Num(fid, "l_iu") + Num(fid, "l_fi")

FidLength(fid) == CeilDiv(1 + Num(fid, "l_iu") + Num(fid, "l_fi"), FID_ALIGN) * FID_ALIGN

(* parse_fids: name and File Entry of each identifier, up to something else;  *)
(* the parent's and deleted ones are passed over.  turn[k] is where the loop  *)
(* is after k turns: at p, with the entries so far in r.                      *)
Ended(data, t) == Failed(t.r) \/ t.p > Len(data)

FidTurn(data, part, t) ==
    LET fid == data[t.p]
        fi_off == t.p + Num(fid, "l_iu")
        name == DecodeName(SubSeq(data, fi_off + 1, fi_off + Num(fid, "l_fi")))
        on(r) == [p |-> t.p + FidLength(fid), r |-> r]
    IN  IF Tag(fid) # TAG_FID THEN [t EXCEPT !.p = Len(data) + 1]
        ELSE IF fi_off + Num(fid, "l_fi") > Len(data) THEN on(Bad("Corrupt"))
        ELSE IF fid.fc # "live" THEN on(t.r)
        ELSE IF Failed(name) THEN on(name)
        ELSE on(Good(Append(t.r.val, [name |-> name.val, lba |-> Wrap(part + Num(fid, "icb"))])))

ParseFids(data, part) ==
    LET turn[k \in 0..Len(data)] ==
            LET t == turn[k - 1]
            IN  IF k = 0 THEN [p |-> 1, r |-> Good(<<>>)]
                ELSE IF Ended(data, t) THEN t ELSE FidTurn(data, part, t)
    IN  turn[Len(data)].r

(* read_dir; lookup searches its result. *)
ReadDir ==
    /\ pc \in {"read_dir", "lookup"}
    /\ IF arg.node \notin Ids THEN Return(Bad("NotFound"))
       ELSE IF Inode.kind # "dir" THEN Return(Bad("NotDirectory"))
       ELSE LET data == ReadAll(Inode)
                fids == ParseFids(data.val, sb.part)
            IN  IF Failed(data) THEN Return(data)
                ELSE IF Failed(fids) THEN Return(fids) ELSE Loop("dir", fids.val, 0)
    /\ UNCHANGED Table

DirChild ==
    /\ pc = "dir"
    /\ todo # <<>>
    /\ LET e == Head(todo)
           fe == ReadFe(e.lba, sb)
       IN  IF Failed(fe) THEN Return(fe) /\ UNCHANGED <<nodes, ids>>
           ELSE /\ Intern(e.lba, fe.val)
                /\ out' = Append(out, [name |-> e.name, kind |-> fe.val.kind, node |-> ids'[e.lba]])
                /\ todo' = Tail(todo)
                /\ UNCHANGED <<pc, pos, ret>>
    /\ UNCHANGED sb

DirDone ==
    /\ pc = "dir"
    /\ todo = <<>>
    /\ Return(Good(Listed(out)))
    /\ UNCHANGED Table

GetMetadata ==
    /\ pc = "metadata"
    /\ Return(IF arg.node \in Ids THEN Good(<<Inode.kind, Inode.size>>) ELSE Bad("NotFound"))
    /\ UNCHANGED Table

(* The trait's default: no node has a target, whatever its kind. *)
ReadLink == pc = "read_link" /\ Return(Good(<<>>)) /\ UNCHANGED Table

-----------------------------------------------------------------------------
(* read_at: todo is the extents left, pos where the first of them starts in   *)
(* the file.                                                                  *)
Want == LeastOf(arg.len, Inode.size - arg.off)
Bytes(cells) == [i \in DOMAIN cells |-> Plain(cells[i])]

ReadAt ==
    /\ pc = "read_at"
    /\ IF arg.node \notin Ids THEN Return(Bad("NotFound"))
       ELSE IF Inode.kind = "dir" THEN Return(Bad("IsDirectory"))
       ELSE IF arg.off >= Inode.size THEN Return(Good(<<>>))
       ELSE IF Inode.inline THEN Return(Good(Bytes(SubSeq(Inode.data, arg.off + 1, arg.off + Want))))
       ELSE Loop("file", Inode.data, 0)
    /\ UNCHANGED Table

Cur == arg.off + Len(out)
InExtent == Cur < pos + Head(todo).len
Take == LeastOf(Head(todo).len - (Cur - pos), Want - Len(out))

ReadExtent ==
    /\ pc = "file"
    /\ todo # <<>> /\ Len(out) < Want
    /\ LET r == Piece(Head(todo), Cur - pos, Take)
       IN  IF InExtent /\ Failed(r) THEN Return(r)
           ELSE /\ out' = IF InExtent THEN out \o Bytes(r.val) ELSE out
                /\ pos' = pos + Head(todo).len
                /\ todo' = Tail(todo)
                /\ UNCHANGED <<pc, ret>>
    /\ UNCHANGED Table

ReadDone ==
    /\ pc = "file"
    /\ todo = <<>> \/ Len(out) >= Want
    /\ Return(Good(out))
    /\ UNCHANGED Table

ReadsDevice ==
    \/ pc = "open" /\ Len(img.disk) >= (AVDP_SECTOR + 1) * SECTOR
    \/ /\ pc \in {"read_dir", "lookup"}
       /\ arg.node \in Ids
       /\ Inode.kind = "dir" /\ ~ Inode.inline /\ Inode.size \in 1..MAX_BOOT_FILE_BYTES
       /\ \E e \in Range(Inode.data) : e.lba # -1
    \/ pc = "dir" /\ todo # <<>>
    \/ pc = "file" /\ todo # <<>> /\ Len(out) < Want /\ InExtent /\ Head(todo).lba # -1

IoError == ReadsDevice /\ Return(Bad("Io")) /\ UNCHANGED Table

-----------------------------------------------------------------------------
Step ==
    /\ \/ Open \/ ReadDir \/ DirChild \/ DirDone \/ GetMetadata \/ ReadLink
       \/ ReadAt \/ ReadExtent \/ ReadDone \/ IoError
    /\ UNCHANGED Fixed

Next == Step \/ \E n \in 0..Len(nodes) : \E a \in Requests(n) : Call(a)

Spec == Init /\ [][Next]_vars

(* What is left of a loop. *)
Fuel == IF pc \in {"dir", "file"} THEN Len(todo) ELSE 0

NodeOf(lba) == ReadFe(lba, sb).val
=============================================================================
