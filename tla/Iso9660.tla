------------------------------ MODULE Iso9660 ------------------------------
(***************************************************************************)
(* lamfold-iso: iso9660.rs with rock_ridge.rs and el_torito.rs.  A node is  *)
(* interned by the place of its directory record; a walk of a directory     *)
(* gathers the records of a multi-extent file and follows the continuation  *)
(* areas of each record's Rock Ridge entries before it interns anything.    *)
(*                                                                          *)
(* The device is a sequence of cells.  A cell is a volume descriptor [vd,   *)
(* id, bs, lba, size, cat, esc], the fixed part of a directory record [len, *)
(* fi, dir, more, lba, size], a SUSP entry [sig, ...], an entry of a boot   *)
(* catalog, the header or a pointer of a zisofs file, or a stored byte;     *)
(* lengths count cells.  A name or a link target is a sequence of tokens,   *)
(* "bad" one that is not text.                                              *)
(***************************************************************************)
EXTENDS FrontendCalls

CONSTANTS VD_REGION_OFFSET, VD_SIZE, MAX_VD_SCAN, MAX_CONTINUATIONS, MAX_EXTENTS,
          U32                   \* 2^32

ROOT_KEY == <<U32 - 1, U32 - 1>>

(* The cells before the first for which stop holds. *)
UpTo(s, stop(_)) ==
    LET hits == {i \in DOMAIN s : stop(s[i])}
    IN  IF hits = {} THEN s ELSE SubSeq(s, 1, Min(hits) - 1)
Has(c, f) == f \in DOMAIN c

-----------------------------------------------------------------------------
(* open *)
IsVd(c) == Has(c, "vd") /\ c.id

Probe == Len(img.disk) > VD_REGION_OFFSET /\ IsVd(img.disk[VD_REGION_OFFSET + 1])

(* The volume descriptors up to the terminator, the end of the device or the  *)
(* bound; the last of each type counts.                                       *)
Scanned ==
    LET at(i) == VD_REGION_OFFSET + i * VD_SIZE
        n == LeastOf(MAX_VD_SCAN, MostOf(0, Len(img.disk) - VD_REGION_OFFSET) \div VD_SIZE)
    IN  UpTo([i \in 1..n |-> img.disk[at(i - 1) + 1]], LAMBDA c : IsVd(c) /\ c.vd = 255)

LastVd(vds, P(_)) == vds[Max({i \in DOMAIN vds : P(vds[i])})]
Primary(c) == c.vd = 1
Joliet(c) == c.vd = 2 /\ c.esc
BootRecord(c) == c.vd = 0 /\ c.esc
Some(vds, P(_)) == \E c \in Range(vds) : P(c)

RootRecord(vd) ==
    [key |-> ROOT_KEY, lba |-> Num(vd, "lba"), size |-> Num(vd, "size"),
     extents |-> <<[lba |-> Num(vd, "lba"), len |-> Num(vd, "size")]>>,
     kind |-> "dir", link |-> <<>>, zf |-> <<>>]

ReadDirExtent(dir, bs) ==
    IF dir.size > MAX_BOOT_FILE_BYTES THEN Bad("FileTooLarge") ELSE ReadCells(img.disk, dir.lba * bs, dir.size)

(* A directory record; a cell of another kind reads as a length of zero. *)
RecordOf(c) ==
    IF Has(c, "fi") THEN [len |-> Num(c, "len"), fi |-> c.fi, dir |-> c.dir, more |-> c.more,
                          lba |-> Num(c, "lba"), size |-> Num(c, "size")]
    ELSE [len |-> 0, fi |-> <<"NUL">>, dir |-> FALSE, more |-> FALSE, lba |-> 0, size |-> 0]

(* detect_sp, in the root's first record: <<skip>>, or nothing. *)
DetectSusp(root, bs) ==
    LET buf == ReadDirExtent(root, bs)
        len == RecordOf(buf.val[1]).len
        rec == SubSeq(buf.val, 2, len)
        sp == SelectSeq(UpTo(rec, LAMBDA c : ~ Has(c, "sig")), LAMBDA c : c.sig = "SP" /\ c.beef)
    IN  IF Failed(buf) THEN buf
        ELSE IF buf.val = <<>> THEN Good(<<>>)
        ELSE IF len \notin 1..Len(buf.val) THEN Bad("Corrupt")
        ELSE Good(IF sp = <<>> THEN <<>> ELSE <<Num(sp[1], "skip")>>)

Open ==
    /\ pc = "open"
    /\ LET vds == Scanned
           pvd == LastVd(vds, Primary)
           bs == Num(pvd, "bs")
           sp == DetectSusp(RootRecord(pvd), bs)
           joliet == sp.val = <<>> /\ Some(vds, Joliet)
       IN  IF \/ \E c \in Range(vds) : ~ IsVd(c)
              \/ \E c \in Range(vds) : Primary(c) /\ Num(c, "bs") = 0
              \/ ~ Some(vds, Primary)
             THEN Return(Bad("Corrupt")) /\ UNCHANGED Table
           ELSE IF Failed(sp) THEN Return(sp) /\ UNCHANGED Table
           ELSE /\ Return(Good(<<>>))
                /\ sb' = [bs |-> bs, rock_ridge |-> sp.val # <<>>, susp_skip |-> IF sp.val = <<>> THEN 0 ELSE sp.val[1],
                          joliet |-> joliet,
                          cat |-> IF Some(vds, BootRecord) THEN <<LastVd(vds, BootRecord).cat>> ELSE <<>>]
                /\ Intern(ROOT_KEY, RootRecord(IF joliet THEN LastVd(vds, Joliet) ELSE pvd))

-----------------------------------------------------------------------------
(* RrParser: the entries of one area after those of the areas before it.      *)
NewParser == [nm |-> <<>>, have_nm |-> FALSE, sl |-> <<>>, have_sl |-> FALSE, sl_continues |-> FALSE, zf |-> <<>>, next |-> <<>>]

(* A mutant of SlComponent: a component that goes on is closed by a slash. *)
SlComponentClosed(p, c) ==
    LET sep == IF p.sl # <<>> /\ p.sl[Len(p.sl)] # "/" THEN <<"/">> ELSE <<>>
        text == CASE c.flag = "current" -> <<".">> [] c.flag = "parent" -> <<"..">> [] OTHER -> c.text
    IN  [p EXCEPT !.sl_continues = c.continues,
                  !.sl = IF c.flag = "root" THEN IF @ = <<>> THEN <<"/">> ELSE @ ELSE @ \o sep \o text]

(* One component of parse_sl_components. *)
SlComponent(p, c) ==
    LET sep == IF ~ p.sl_continues /\ p.sl # <<>> /\ p.sl[Len(p.sl)] # "/" THEN <<"/">> ELSE <<>>
        text == CASE c.flag = "current" -> <<".">> [] c.flag = "parent" -> <<"..">> [] OTHER -> c.text
    IN  [p EXCEPT !.sl_continues = c.continues,
                  !.sl = IF c.flag = "root" THEN IF @ = <<>> THEN <<"/">> ELSE @ ELSE @ \o sep \o text]

FeedEntry(p, c) ==
    CASE c.sig = "NM" /\ c.flag = "name" -> [p EXCEPT !.nm = @ \o c.text, !.have_nm = TRUE]
      [] c.sig = "SL" -> LET sl[i \in 0..Len(c.comps)] == IF i = 0 THEN p ELSE SlComponent(sl[i - 1], c.comps[i])
                             q == sl[Len(c.comps)]
                         IN  [p EXCEPT !.have_sl = TRUE, !.sl = q.sl, !.sl_continues = q.sl_continues]
      [] c.sig = "ZF" /\ c.pz -> [p EXCEPT !.zf = <<[log2 |-> Num(c, "log2"), usize |-> Num(c, "usize")]>>]
      [] c.sig = "CE" -> [p EXCEPT !.next = <<c>>]
      [] OTHER -> p

(* feed: up to an ST entry or one that overruns the area. *)
Feed(parser, su) ==
    LET area == UpTo(su, LAMBDA c : IF Has(c, "sig") THEN c.sig = "ST" ELSE TRUE)
        fed[i \in 0..Len(area)] == IF i = 0 THEN [parser EXCEPT !.next = <<>>] ELSE FeedEntry(fed[i - 1], area[i])
    IN  fed[Len(area)]

IsText(tokens) == "bad" \notin Range(tokens)

(* decode_name and decode_name_joliet. *)
DecodeName(fi, is_dir) ==
    LET base == UpTo(fi, LAMBDA t : t = ";")
    IN  IF is_dir THEN fi
        ELSE IF base # <<>> /\ base[Len(base)] = "." THEN SubSeq(base, 1, Len(base) - 1) ELSE base

-----------------------------------------------------------------------------
(* for_each_entry, a record or a continuation area at a time.  todo is [buf,  *)
(* pending, rr, hops]: the directory's extent, the multi-extent file under    *)
(* way, and the record's parser; out is the entries so far.                   *)

(* lookup and read_dir start in the same way. *)
ReadDir ==
    /\ pc \in {"read_dir", "lookup"}
    /\ IF arg.node \notin Ids THEN Return(Bad("NotFound"))
       ELSE IF Inode.kind # "dir" THEN Return(Bad("NotDirectory"))
       ELSE LET r == ReadDirExtent(Inode, sb.bs)
            IN  IF Failed(r) THEN Return(r)
                ELSE Loop("scan", [buf |-> r.val, pending |-> <<>>, rr |-> NewParser, hops |-> 0], 0)
    /\ UNCHANGED Table

Record == RecordOf(todo.buf[pos + 1])
Extent == [lba |-> Record.lba, len |-> Record.size]

(* The entry is done, or is the start or the middle of a multi-extent file. *)
Emit(entry, more) ==
    /\ pc' = "scan"
    /\ out' = IF more THEN out ELSE Append(out, entry)
    /\ todo' = [todo EXCEPT !.pending = IF more THEN <<entry>> ELSE <<>>, !.rr = NewParser, !.hops = 0]
    /\ pos' = pos + Record.len
    /\ UNCHANGED ret

(* finish: the record with what Rock Ridge says of it. *)
Finish(p) ==
    Emit([name |-> IF p.have_nm /\ p.nm # <<>> /\ IsText(p.nm) THEN p.nm ELSE DecodeName(Record.fi, Record.dir),
          inode |-> [key |-> <<Inode.lba, pos>>, lba |-> Record.lba, size |-> Record.size, extents |-> <<Extent>>,
                     kind |-> IF p.have_sl THEN "symlink" ELSE IF Record.dir THEN "dir" ELSE "file",
                     link |-> IF p.have_sl THEN <<p.sl>> ELSE <<>>, zf |-> p.zf]],
         Record.more /\ ~ Record.dir)

Fed(p) ==
    IF p.next = <<>> THEN Finish(p)
    ELSE /\ pc' = "ce"
         /\ todo' = [todo EXCEPT !.rr = p, !.hops = @ + 1]
         /\ UNCHANGED <<pos, out, ret>>

(* A later record of a multi-extent file. *)
AddExtent ==
    LET e == todo.pending[1]
    IN  IF Record.dir \/ Record.fi # RecordOf(todo.buf[e.inode.key[2] + 1]).fi THEN Return(Bad("Corrupt"))
        ELSE IF Len(e.inode.extents) >= MAX_EXTENTS THEN Return(Bad("Corrupt"))
        ELSE Emit([e EXCEPT !.inode.extents = Append(@, Extent), !.inode.size = @ + Record.size], Record.more)

(* A zero length is the padding of a sector. *)
NextRecord ==
    /\ pc = "scan"
    /\ pos < Len(todo.buf)
    /\ IF Record.len = 0
         THEN pos' = (pos \div sb.bs + 1) * sb.bs /\ UNCHANGED <<pc, todo, out, ret>>
       ELSE IF pos + Record.len > Len(todo.buf) \/ Record.fi = <<"overrun">> THEN Return(Bad("Corrupt"))
       ELSE IF Record.fi \in {<<"NUL">>, <<"SOH">>}
         THEN pos' = pos + Record.len /\ UNCHANGED <<pc, todo, out, ret>>
       ELSE IF todo.pending # <<>> THEN AddExtent
       ELSE IF ~ IsText(Record.fi) THEN Return(Bad("InvalidPath"))
       ELSE IF ~ sb.rock_ridge THEN Finish(NewParser)
       ELSE Fed(Feed(NewParser, SubSeq(todo.buf, pos + 2 + sb.susp_skip, pos + Record.len)))
    /\ UNCHANGED Table

Ce == LET c == todo.rr.next[1] IN [block |-> Num(c, "block"), offset |-> Num(c, "offset"), len |-> Num(c, "len")]
CeAt == Ce.block * sb.bs + Ce.offset

(* A mutant of CeRefused: the hops are not counted. *)
CeRefusedUncounted == Ce.len = 0 \/ Ce.len > sb.bs \/ CeAt + Ce.len > Len(img.disk)

CeRefused == todo.hops > MAX_CONTINUATIONS \/ Ce.len = 0 \/ Ce.len > sb.bs \/ CeAt + Ce.len > Len(img.disk)

(* One turn of parse_rock_ridge. *)
Continue ==
    /\ pc = "ce"
    /\ IF CeRefused THEN Return(Bad("Corrupt"))
       ELSE Fed(Feed(todo.rr, ReadCells(img.disk, CeAt, Ce.len).val))
    /\ UNCHANGED Table

(* read_dir interns all entries, lookup only the first of the name. *)
Kept ==
    LET hits == {i \in 1..Len(out) : out[i].name = arg.name}
    IN  IF arg.op # "lookup" THEN out ELSE IF hits = {} THEN <<>> ELSE <<out[Min(hits)]>>

ScanDone ==
    /\ pc = "scan"
    /\ pos >= Len(todo.buf)
    /\ LET tab[i \in 0..Len(Kept)] == IF i = 0 THEN [nodes |-> nodes, ids |-> ids]
                                       ELSE Interned(tab[i - 1], Kept[i].inode.key, Kept[i].inode)
           t == tab[Len(Kept)]
       IN  IF todo.pending # <<>> THEN Return(Bad("Corrupt")) /\ UNCHANGED Table
           ELSE /\ nodes' = t.nodes
                /\ ids' = t.ids
                /\ Return(Good(IF arg.op = "lookup" THEN [i \in DOMAIN Kept |-> t.ids[Kept[i].inode.key]]
                               ELSE [i \in DOMAIN out |-> [name |-> out[i].name, kind |-> out[i].inode.kind,
                                                           node |-> t.ids[out[i].inode.key]]]))
                /\ UNCHANGED sb

GetMetadata ==
    /\ pc = "metadata"
    /\ Return(IF arg.node \notin Ids THEN Bad("NotFound")
              ELSE Good(<<Inode.kind, IF Inode.zf = <<>> THEN Inode.size ELSE Inode.zf[1].usize>>))
    /\ UNCHANGED Table

ReadLink ==
    /\ pc = "read_link"
    /\ Return(IF arg.node \in Ids THEN Good(Inode.link) ELSE Bad("NotFound"))
    /\ UNCHANGED Table

-----------------------------------------------------------------------------
Bytes(cells) == [i \in DOMAIN cells |-> Plain(cells[i])]
Size == IF Inode.zf = <<>> THEN Inode.size ELSE Inode.zf[1].usize
Want == LeastOf(arg.len, Size - arg.off)

(* read_zisofs up to its loop: a header, then a pointer per block and one more. *)
ZBlockSize == 2 ^ Inode.zf[1].log2
ReadZisofs ==
    LET n == CeilDiv(Size, ZBlockSize)
        head == ReadCells(img.disk, Inode.lba * sb.bs, n + 2)
    IN  IF Inode.zf[1].log2 >= 31 THEN Return(Bad("Corrupt"))
        ELSE IF n + 2 > MAX_BOOT_FILE_BYTES THEN Return(Bad("FileTooLarge"))
        ELSE IF Failed(head) THEN Return(head)
        ELSE IF ~ Has(head.val[1], "zisofs") THEN Return(Bad("Corrupt"))
        ELSE Loop("zblock", Tail(head.val), arg.off)

ReadAt ==
    /\ pc = "read_at"
    /\ IF arg.node \notin Ids THEN Return(Bad("NotFound"))
       ELSE IF Inode.kind = "dir" THEN Return(Bad("IsDirectory"))
       ELSE IF arg.off >= Size THEN Return(Good(<<>>))
       ELSE IF Inode.zf # <<>> THEN ReadZisofs
       ELSE Loop("file", Inode.extents, 0)
    /\ UNCHANGED Table

(* One extent; pos is where it starts in the file. *)
Cur == arg.off + Len(out)
InExtent == Cur < pos + Head(todo).len
Take == LeastOf(Want - Len(out), Head(todo).len - (Cur - pos))

ReadExtent ==
    /\ pc = "file"
    /\ todo # <<>> /\ Len(out) # Want
    /\ LET r == ReadCells(img.disk, Head(todo).lba * sb.bs + Cur - pos, Take)
       IN  IF InExtent /\ Failed(r) THEN Return(r)
           ELSE /\ out' = IF InExtent THEN out \o Bytes(r.val) ELSE out
                /\ pos' = pos + Head(todo).len
                /\ todo' = Tail(todo)
                /\ UNCHANGED <<pc, ret>>
    /\ UNCHANGED Table

ExtentsDone == pc = "file" /\ (todo = <<>> \/ Len(out) = Want) /\ Return(Good(out)) /\ UNCHANGED Table

(* One block of a zisofs file; pos is where the window goes on in the file.   *)
(* A block that inflates to too little ends the read.                         *)
ZBase == (pos \div ZBlockSize) * ZBlockSize
ZStart == Num(todo[pos \div ZBlockSize + 1], "ptr")
ZEnd == Num(todo[pos \div ZBlockSize + 2], "ptr")
ZIsHole == ZEnd <= ZStart
Inflated ==
    LET want == LeastOf(ZBlockSize, Size - ZBase)
        r == ReadCells(img.disk, Inode.lba * sb.bs + ZStart, ZEnd - ZStart)
    IN  IF ZIsHole THEN Good([i \in 1..want |-> 0])
        ELSE IF ZEnd - ZStart > MAX_BOOT_FILE_BYTES THEN Bad("FileTooLarge")
        ELSE IF Failed(r) THEN r ELSE Decode(r.val, want)

InflateBlock ==
    /\ pc = "zblock"
    /\ Len(out) < Want
    /\ LET piece == SubSeq(Inflated.val, pos - ZBase + 1, LeastOf(Len(Inflated.val), pos - ZBase + Want - Len(out)))
       IN  IF Failed(Inflated) THEN Return(Inflated)
           ELSE IF piece = <<>> THEN Return(Good(out))
           ELSE /\ out' = out \o piece
                /\ pos' = pos + Len(piece)
                /\ UNCHANGED <<pc, todo, ret>>
    /\ UNCHANGED Table

BlocksDone == pc = "zblock" /\ Len(out) = Want /\ Return(Good(out)) /\ UNCHANGED Table

-----------------------------------------------------------------------------
(* el_torito_uefi_image: nothing, or <<[lba, sectors]>>. *)
ParseEntry(e) == IF Has(e, "bootable") /\ e.bootable THEN <<[lba |-> e.lba, sectors |-> e.sectors]>> ELSE <<>>

(* A mutant of ParseCatalog: the walk ends at the first section. *)
ParseCatalogFirst(cat) ==
    IF ~ Has(cat[1], "key") \/ ~ cat[1].key THEN <<>>
    ELSE IF cat[1].platform = "uefi" THEN ParseEntry(cat[2])
    ELSE IF Has(cat[3], "section") /\ cat[3].platform = "uefi" THEN ParseEntry(cat[4]) ELSE <<>>

(* The default entry under a UEFI validation entry, or the first bootable     *)
(* entry of a UEFI section.                                                   *)
ParseCatalog(cat) ==
    LET boot(off, n) == {i \in 1..LeastOf(n, Len(cat) - off) : ParseEntry(cat[off + i]) # <<>>}
        sections[off \in 3..Len(cat) + MAX_EXTENTS] ==
            IF off > Len(cat) THEN <<>>
            ELSE LET h == cat[off]
                     found == IF h.platform = "uefi" THEN boot(off, h.n) ELSE {}
                 IN  IF ~ Has(h, "section") THEN <<>>
                     ELSE IF found # {} THEN ParseEntry(cat[off + Min(found)])
                     ELSE IF h.section = "last" THEN <<>> ELSE sections[off + 1 + h.n]
    IN  IF ~ Has(cat[1], "key") \/ ~ cat[1].key THEN <<>>
        ELSE IF cat[1].platform = "uefi" THEN ParseEntry(cat[2])
        ELSE sections[3]

(* The size of a FAT image by its own boot sector; scale is its sector size   *)
(* in 512-byte sectors, 0 when that is not one of the four sizes.             *)
FatImageSectors(c) ==
    IF ~ Has(c, "fat") THEN <<>>
    ELSE LET total == IF c.total16 # 0 THEN c.total16 ELSE c.total32
         IN  IF c.scale = 0 \/ total = 0 \/ total * c.scale >= U32 THEN <<>> ELSE <<total * c.scale>>

UefiImage ==
    LET cat == ReadCells(img.disk, sb.cat[1] * sb.bs, VD_SIZE)
        found == ParseCatalog(cat.val)
        at == found[1].lba * sb.bs
        fat == IF at + 1 > Len(img.disk) THEN <<>> ELSE FatImageSectors(img.disk[at + 1])
    IN  IF sb.cat = <<>> THEN <<>>
        ELSE IF Failed(cat) THEN <<>>
        ELSE IF found = <<>> THEN <<>>
        ELSE IF found[1].sectors <= 1 /\ fat # <<>> THEN <<[found[1] EXCEPT !.sectors = fat[1]]>> ELSE found

Uefi == pc = "uefi" /\ Return(Good(UefiImage)) /\ UNCHANGED Table

-----------------------------------------------------------------------------
ReadsDevice ==
    \/ pc = "open" /\ Len(img.disk) >= VD_REGION_OFFSET + VD_SIZE
    \/ /\ pc \in {"read_dir", "lookup"}
       /\ arg.node \in Ids
       /\ Inode.kind = "dir" /\ Inode.size <= MAX_BOOT_FILE_BYTES
    \/ pc = "ce" /\ ~ CeRefused
    \/ /\ pc = "read_at"
       /\ arg.node \in Ids
       /\ Inode.kind # "dir" /\ Inode.zf # <<>> /\ arg.off < Size /\ Inode.zf[1].log2 < 31
    \/ pc = "file" /\ todo # <<>> /\ Len(out) # Want /\ InExtent
    \/ pc = "zblock" /\ Len(out) < Want /\ ZEnd - ZStart \in 1..MAX_BOOT_FILE_BYTES
    \/ pc = "uefi" /\ sb.cat # <<>> /\ sb.cat[1] * sb.bs + VD_SIZE <= Len(img.disk)

IoError == ReadsDevice /\ Return(Bad("Io")) /\ UNCHANGED Table

Step ==
    /\ \/ Open \/ ReadDir \/ NextRecord \/ Continue \/ ScanDone \/ GetMetadata \/ ReadLink
       \/ ReadAt \/ ReadExtent \/ ExtentsDone \/ InflateBlock \/ BlocksDone \/ Uefi \/ IoError
    /\ UNCHANGED Fixed

Next ==
    \/ Step
    \/ \E n \in 0..Len(nodes) : \E a \in Requests(n) : Call(a)
    \/ Call([op |-> "uefi", node |-> 0])

Spec == Init /\ [][Next]_vars

(* What is left of a loop: records to come and, within one, hops. *)
Fuel ==
    CASE pc \in {"scan", "ce"} -> (Len(todo.buf) - pos) * (MAX_CONTINUATIONS + 2) - todo.hops
      [] pc = "file" -> Len(todo)
      [] pc = "zblock" -> Want - Len(out)
      [] OTHER -> 0

(* One node per directory record, and the node is the record's. *)
TableIsRecords ==
    /\ Len(nodes) = Cardinality(DOMAIN ids)
    /\ \A k \in DOMAIN ids :
         LET node == nodes[ids[k] + 1]
         IN  node.key = k /\ (k # ROOT_KEY => node.extents[1].lba = RecordOf(img.disk[k[1] * sb.bs + k[2] + 1]).lba)
=============================================================================
