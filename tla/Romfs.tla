------------------------------- MODULE Romfs -------------------------------
(***************************************************************************)
(* lamfold-romfs's romfs.rs.  A node id is the offset of a file header; a   *)
(* directory is a chain of headers linked by next, and a hard link a header *)
(* that names another.  Both kinds of link may form a cycle, and each walk  *)
(* is cut off by a bound of its own.                                        *)
(*                                                                          *)
(* Offsets count 16-byte units: a header is a cell [next, ftype, info,      *)
(* size], its padded name a cell [name] after it; a name without its NUL is *)
(* any other cell.  File data takes a cell per byte.  The image is its      *)
(* disk, with the magic and the volume name in the first two cells.         *)
(***************************************************************************)
EXTENDS FrontendCalls

CONSTANTS MAX_LINK_HOPS,
          MAX_ENTRIES           \* the bound on read_dir's walk (1_000_000)

FT_HARDLINK == 0

Kind(ftype) ==
    CASE ftype = 1 -> "dir" [] ftype = 2 -> "file" [] ftype = 3 -> "symlink" [] OTHER -> "other"

IsName(c) == DOMAIN c = {"name"}

ReadHeader(off) ==
    IF off + 1 > Len(img.disk) THEN Bad("Corrupt")
    ELSE IF off + 2 > Len(img.disk) \/ ~ IsName(img.disk[off + 2]) THEN Bad("Corrupt")
    ELSE LET c == img.disk[off + 1]
         IN  Good([off |-> off, next_off |-> Num(c, "next"), ftype |-> Num(c, "ftype"), info |-> Num(c, "info"),
                   size |-> Num(c, "size"), name |-> img.disk[off + 2].name, data_off |-> off + 2])

(* A mutant of ResolvedHeader: one hop. *)
ResolvedOnce(off) ==
    LET h == ReadHeader(off)
    IN  IF Failed(h) \/ h.val.ftype # FT_HARDLINK THEN h ELSE ReadHeader(h.val.info)

(* The header at the end of a chain of hard links: MAX_LINK_HOPS + 1 reads. *)
ResolvedHeader(off) ==
    LET walk[k \in 0..MAX_LINK_HOPS] ==
          IF k = 0 THEN ReadHeader(off)
          ELSE IF Failed(walk[k - 1]) \/ walk[k - 1].val.ftype # FT_HARDLINK THEN walk[k - 1]
          ELSE ReadHeader(walk[k - 1].val.info)
        h == walk[MAX_LINK_HOPS]
    IN  IF ~ Failed(h) /\ h.val.ftype = FT_HARDLINK THEN Bad("Corrupt") ELSE h

Target == ResolvedHeader(arg.node)

-----------------------------------------------------------------------------
Magic == img.disk # <<>> /\ "magic" \in DOMAIN img.disk[1] /\ img.disk[1].magic

Probe == Magic

(* open: the magic, then the volume name, after which the first header is. *)
Open ==
    /\ pc = "open"
    /\ IF ~ Magic \/ Len(img.disk) < 2 THEN Return(Bad("Corrupt")) /\ UNCHANGED ids
       ELSE IF ~ IsName(img.disk[2]) THEN Return(Bad("Corrupt")) /\ UNCHANGED ids
       ELSE Return(Good(<<>>)) /\ HandOut({2})
    /\ UNCHANGED <<sb, nodes>>

(* read_dir; lookup searches its result. *)
ReadDir ==
    /\ pc \in {"read_dir", "lookup"}
    /\ IF Failed(Target) THEN Return(Target)
       ELSE IF Kind(Target.val.ftype) # "dir" THEN Return(Bad("NotDirectory"))
       ELSE Loop("dir", MAX_ENTRIES, Target.val.info)
    /\ UNCHANGED Table

(* One turn of the walk.  A hard link stands for its target. *)
DirEntry ==
    /\ pc = "dir"
    /\ todo > 0
    /\ pos # 0
    /\ LET h == ReadHeader(pos)
           t == ResolvedHeader(pos)
       IN  IF Failed(h) THEN Return(h)
           ELSE IF h.val.name \notin {".", ".."} /\ Failed(t) THEN Return(t)
           ELSE /\ out' = IF h.val.name \in {".", ".."} THEN out
                          ELSE Append(out, [name |-> h.val.name, node |-> t.val.off, kind |-> Kind(t.val.ftype)])
                /\ pos' = h.val.next_off
                /\ todo' = todo - 1
                /\ UNCHANGED <<pc, ret>>
    /\ UNCHANGED Table

DirDone ==
    /\ pc = "dir"
    /\ todo = 0 \/ pos = 0
    /\ Return(Good(Listed(out)))
    /\ HandOut(ListedNodes(out))
    /\ UNCHANGED <<sb, nodes>>

GetMetadata ==
    /\ pc = "metadata"
    /\ Return(IF Failed(Target) THEN Target ELSE Good(<<Kind(Target.val.ftype), Target.val.size>>))
    /\ UNCHANGED Table

(* Data is read in one piece; past the end of the device it is an Io error. *)
Data(h, off, n) ==
    LET r == ReadCells(img.disk, h.data_off + off, n)
    IN  IF Failed(r) THEN r ELSE Good([i \in DOMAIN r.val |-> Plain(r.val[i])])

ReadAt ==
    /\ pc = "read_at"
    /\ LET h == Target.val
       IN  Return(IF Failed(Target) THEN Target
                  ELSE IF Kind(h.ftype) = "dir" THEN Bad("IsDirectory")
                  ELSE IF arg.off >= h.size THEN Good(<<>>)
                  ELSE Data(h, arg.off, LeastOf(arg.len, h.size - arg.off)))
    /\ UNCHANGED Table

ReadLink ==
    /\ pc = "read_link"
    /\ LET h == Target.val
           link == Data(h, 0, h.size)
       IN  Return(IF Failed(Target) THEN Target
                  ELSE IF Kind(h.ftype) # "symlink" THEN Good(<<>>)
                  ELSE IF h.size > MAX_BOOT_FILE_BYTES THEN Bad("FileTooLarge")
                  ELSE IF Failed(link) THEN link ELSE Good(<<link.val>>))
    /\ UNCHANGED Table

(* Every call starts by reading a header. *)
IoError ==
    /\ Busy
    /\ pc = "open" => img.disk # <<>>
    /\ pc = "dir" => todo > 0 /\ pos # 0
    /\ Return(Bad("Io"))
    /\ UNCHANGED Table

-----------------------------------------------------------------------------
Step ==
    /\ Open \/ ReadDir \/ DirEntry \/ DirDone \/ GetMetadata \/ ReadAt \/ ReadLink \/ IoError
    /\ UNCHANGED Fixed

Next == Step \/ \E n \in DOMAIN ids : \E a \in Requests(n) : Call(a)

Spec == Init /\ [][Next]_vars

(* What is left of a loop. *)
Fuel == IF pc = "dir" THEN todo ELSE 0
=============================================================================
