------------------------------- MODULE Cramfs -------------------------------
(***************************************************************************)
(* lamfold-cramfs's cramfs.rs.  A node id is the offset of an inode; a      *)
(* directory's data is a run of inodes, each followed by its name, and a    *)
(* file's is an index of page ends followed by the compressed pages.  A     *)
(* file or a link is always inflated as a whole, page by page.              *)
(*                                                                          *)
(* A cell stands for an inode [mode, size, namelen, data_off], a 4-byte     *)
(* piece of a name [ch] ("nul" its padding), an entry of the page index     *)
(* [ptr], or a stored byte.  The image is its disk and the superblock's     *)
(* magic and flags; the superblock takes the cells before ROOT_INODE_OFF.   *)
(***************************************************************************)
EXTENDS FrontendCalls

CONSTANTS PAGE, ROOT_INODE_OFF

ParseInode(off) ==
    LET r == ReadCells(img.disk, off, 1)
        c == r.val[1]
    IN  IF Failed(r) THEN r
        ELSE Good([mode |-> IF "mode" \in DOMAIN c THEN c.mode ELSE "other", size |-> Num(c, "size"),
                   namelen |-> Num(c, "namelen"), data_off |-> Num(c, "data_off")])

Here == ParseInode(arg.node)

-----------------------------------------------------------------------------
LongEnough == Len(img.disk) > ROOT_INODE_OFF

Probe == LongEnough /\ img.magic = "little"

Open ==
    /\ pc = "open"
    /\ LET refuse == IF ~ LongEnough THEN "Corrupt"
                     ELSE IF img.magic = "big" THEN "Unsupported"
                     ELSE IF img.magic # "little" THEN "Corrupt"
                     ELSE IF img.ext_block_pointers THEN "Unsupported" ELSE "none"
       IN  IF refuse # "none" THEN Return(Bad(refuse)) /\ UNCHANGED ids
           ELSE Return(Good(<<>>)) /\ HandOut({ROOT_INODE_OFF})
    /\ UNCHANGED <<sb, nodes>>

(* read_dir; lookup searches its result. *)
ReadDir ==
    /\ pc \in {"read_dir", "lookup"}
    /\ IF Failed(Here) THEN Return(Here)
       ELSE IF Here.val.mode # "dir" THEN Return(Bad("NotDirectory"))
       ELSE Loop("dir", <<>>, Here.val.data_off)
    /\ UNCHANGED Table

DirEnd == Here.val.data_off + Here.val.size

(* A mutant of NameOf: the padding is a part of the name. *)
NameOfPadded(cells) == [i \in DOMAIN cells |-> cells[i].ch]

(* A name ends at its first zero. *)
NameOf(cells) ==
    LET zeros == {i \in DOMAIN cells : cells[i].ch = "nul"}
        len == IF zeros = {} THEN Len(cells) ELSE Min(zeros) - 1
    IN  [i \in 1..len |-> cells[i].ch]

DirEntry ==
    /\ pc = "dir"
    /\ pos < DirEnd
    /\ LET child == ParseInode(pos)
           name == ReadCells(img.disk, pos + 1, child.val.namelen)
       IN  IF Failed(child) THEN Return(child)
           ELSE IF Failed(name) THEN Return(name)
           ELSE /\ out' = Append(out, [name |-> NameOf(name.val), node |-> pos, kind |-> child.val.mode])
                /\ pos' = pos + 1 + child.val.namelen
                /\ UNCHANGED <<pc, todo, ret>>
    /\ UNCHANGED Table

DirDone ==
    /\ pc = "dir"
    /\ pos >= DirEnd
    /\ Return(Good(Listed(out)))
    /\ HandOut(ListedNodes(out))
    /\ UNCHANGED <<sb, nodes>>

GetMetadata ==
    /\ pc = "metadata"
    /\ Return(IF Failed(Here) THEN Here ELSE Good(<<Here.val.mode, Here.val.size>>))
    /\ UNCHANGED Table

-----------------------------------------------------------------------------
(* read_whole: the index is read at once, then page by page; todo is start,  *)
(* where the next page begins.                                               *)
NBlocks == CeilDiv(Here.val.size, PAGE)
Ptr(i) == Num(img.disk[Here.val.data_off + i + 1], "ptr")

(* What the caller gets of the inflated file.  read_at has compared off with  *)
(* the inode's size only: if the pages came short and off lies past what they *)
(* gave, data[start..start + n] starts past data's end, which panics.         *)
Whole(data) ==
    IF arg.op = "read_link" THEN Return(Good(<<data>>))
    ELSE IF arg.off > Len(data) THEN Panic
    ELSE Return(Good(SubSeq(data, arg.off + 1, LeastOf(Len(data), arg.off + arg.len))))

ReadWhole ==
    IF Here.val.size > MAX_BOOT_FILE_BYTES THEN Return(Bad("FileTooLarge"))
    ELSE IF Here.val.size = 0 THEN Whole(<<>>)
    ELSE IF Failed(ReadCells(img.disk, Here.val.data_off, NBlocks)) THEN Return(Bad("OutOfRange"))
    ELSE Loop("page", Here.val.data_off + NBlocks, 0)

ReadAt ==
    /\ pc = "read_at"
    /\ IF Failed(Here) THEN Return(Here)
       ELSE IF Here.val.mode = "dir" THEN Return(Bad("IsDirectory"))
       ELSE IF arg.off >= Here.val.size THEN Return(Good(<<>>))
       ELSE ReadWhole
    /\ UNCHANGED Table

ReadLink ==
    /\ pc = "read_link"
    /\ IF Failed(Here) THEN Return(Here)
       ELSE IF Here.val.mode # "symlink" THEN Return(Good(<<>>))
       ELSE ReadWhole
    /\ UNCHANGED Table

Want == LeastOf(PAGE, Here.val.size - Len(out))
Page ==
    LET comp == ReadCells(img.disk, todo, Ptr(pos) - todo)
    IN  IF Ptr(pos) <= todo THEN Good([i \in 1..Want |-> 0])
        ELSE IF Failed(comp) THEN comp ELSE Decode(comp.val, Want)

(* A page that inflates to less than Want is taken as it is. *)
InflatePage ==
    /\ pc = "page"
    /\ pos < NBlocks
    /\ IF Failed(Page) THEN Return(Page)
       ELSE /\ out' = out \o Page.val
            /\ pos' = pos + 1
            /\ todo' = Ptr(pos)
            /\ UNCHANGED <<pc, ret>>
    /\ UNCHANGED Table

PagesDone ==
    /\ pc = "page"
    /\ pos = NBlocks
    /\ Whole(out)
    /\ UNCHANGED Table

(* Every step but the last of a loop and a hole reads the device. *)
IoError ==
    /\ Busy
    /\ pc = "open" => LongEnough
    /\ pc = "dir" => pos < DirEnd
    /\ IF pc = "page" THEN IF pos < NBlocks THEN Ptr(pos) > todo ELSE FALSE ELSE TRUE
    /\ Return(Bad("Io"))
    /\ UNCHANGED Table

-----------------------------------------------------------------------------
Step ==
    /\ \/ Open \/ ReadDir \/ DirEntry \/ DirDone \/ GetMetadata
       \/ ReadAt \/ ReadLink \/ InflatePage \/ PagesDone \/ IoError
    /\ UNCHANGED Fixed

Next == Step \/ \E n \in DOMAIN ids : \E a \in Requests(n) : Call(a)

Spec == Init /\ [][Next]_vars

(* What is left of a loop. *)
Fuel == CASE pc = "dir" -> DirEnd - pos [] pc = "page" -> NBlocks - pos [] OTHER -> 0
=============================================================================
