----------------------------- MODULE ErofsTree -----------------------------
(***************************************************************************)
(* lamfold-erofs's erofs.rs: mounting a volume and walking its tree.  A     *)
(* node id is a nid, the place of an inode; inodes are parsed once and      *)
(* kept.  Reading a file is ErofsRead's and ErofsIndex's part; a directory  *)
(* or a link is here stored plain or with an inline tail.                   *)
(*                                                                          *)
(* A cell stands for the superblock, an inode slot [ext, xattr, kind, size, *)
(* layout, raw], the length or the payload of a compression config, a       *)
(* dirent [nid, nameoff, ft], a letter of a name [ch], or a stored byte.    *)
(* An address is 64 bits wide: a nid from NID_LIMIT on overflows it.        *)
(***************************************************************************)
EXTENDS FrontendCalls

CONSTANTS SUPER_OFFSET, NID_LIMIT

ALGO_LZ4 == 0
ALGO_LZMA == 1

LongEnough == Len(img.disk) > SUPER_OFFSET
Super == LET c == img.disk[SUPER_OFFSET + 1] IN IF "magic" \in DOMAIN c THEN c ELSE [magic |-> FALSE]

Probe == LongEnough /\ Super.magic

(* The bits of feature_incompat, named by the features they stand for; there  *)
(* are two to device_table (or compr_head2) and to fragments (or dedupe), and *)
(* for those the superblock's own fields decide.                              *)
KNOWN == {"lz4_0padding", "compr_cfgs", "chunked_file", "device_table", "ztailpacking",
          "fragments", "xattr_prefixes", "48bit", "metabox"}

(* refuse_unsupported_features *)
Unsupported ==
    \/ ~ (Super.incompat \subseteq KNOWN)
    \/ Super.incompat \cap {"metabox", "48bit"} # {}
    \/ Super.extra_devices # 0
    \/ Super.packed_nid # 0

-----------------------------------------------------------------------------
(* open: the superblock's checks, refuse_unsupported_features among them; the *)
(* compression configs; the root inode.                                       *)
Open ==
    /\ pc = "open"
    /\ LET refuse == IF ~ LongEnough THEN "Corrupt"
                     ELSE IF ~ Super.magic \/ Super.blkszbits \notin 9..16 THEN "Corrupt"
                     ELSE IF Unsupported THEN "Unsupported" ELSE "none"
       IN  IF refuse # "none" THEN Return(Bad(refuse)) /\ UNCHANGED sb
           ELSE /\ Loop("config", <<>>, 0)
                /\ sb' = [bs |-> Super.bs, meta_off |-> Num(Super, "meta_blkaddr") * Super.bs, lzma_dict_size |-> <<>>]
    /\ UNCHANGED <<nodes, ids>>

(* A mutant of ComprCfgsOff: the extension slots are not passed over. *)
ComprCfgsOffBare == SUPER_OFFSET + 1

ComprCfgsOff == SUPER_OFFSET + 1 + Super.extslots

(* parse_lzma_cfg: the configs are in the order of their algorithms, each its *)
(* length and then its payload; LZMA's counts only in format 0.               *)
LzmaDict ==
    LET first == ReadCells(img.disk, ComprCfgsOff, 1)
        at == IF ALGO_LZ4 \in Super.algs THEN ComprCfgsOff + 1 + first.val[1].size ELSE ComprCfgsOff
        lzma == ReadCells(img.disk, at, 2)
    IN  IF ALGO_LZMA \notin Super.algs \/ Failed(first) THEN <<>>
        ELSE IF Failed(lzma) THEN <<>>
        ELSE IF lzma.val[2].format = 0 THEN <<lzma.val[2].dict>> ELSE <<>>

(* A read that fails here is no error: the volume opens without the config. *)
ReadConfig ==
    /\ pc = "config"
    /\ \E dict \in {LzmaDict, <<>>} : sb' = [sb EXCEPT !.lzma_dict_size = dict]
    /\ Loop("root", <<>>, 0)
    /\ UNCHANGED <<nodes, ids>>

(* parse_inode of a nid that is not in the table. *)
ParseInode(nid) ==
    LET off == sb.meta_off + nid
        r == ReadCells(img.disk, off, 1)
        c == r.val[1]
    IN  IF nid >= NID_LIMIT THEN Bad("Corrupt")
        ELSE IF Failed(r) THEN r
        ELSE IF c.ext /\ Failed(ReadCells(img.disk, off + 1, 1)) THEN Bad("OutOfRange")
        ELSE Good([kind |-> c.kind, size |-> Num(c, "size"), layout |-> c.layout, raw_blkaddr |-> Num(c, "raw"),
                   inline_off |-> off + (IF c.ext THEN 2 ELSE 1) + Num(c, "xattr")])

Keep(nid, inode) == nodes' = [n \in DOMAIN nodes \cup {nid} |-> IF n = nid THEN inode ELSE nodes[n]]

OpenRoot ==
    /\ pc = "root"
    /\ LET nid == Num(Super, "root_nid")
           r == ParseInode(nid)
       IN  IF Failed(r) THEN Return(r) /\ UNCHANGED <<nodes, ids>>
           ELSE Return(Good(<<>>)) /\ Keep(nid, r.val) /\ HandOut({nid})
    /\ UNCHANGED sb

-----------------------------------------------------------------------------
(* Every call starts with parse_inode. *)
Ops == {"read_dir", "lookup", "metadata", "read_link"}
Parsed == <<"parsed">>

NeedInode ==
    /\ pc \in Ops
    /\ todo = <<>>
    /\ LET r == ParseInode(arg.node)
       IN  IF arg.node \in DOMAIN nodes THEN Loop(pc, Parsed, 0) /\ UNCHANGED nodes
           ELSE IF Failed(r) THEN Return(r) /\ UNCHANGED nodes
           ELSE Loop(pc, Parsed, 0) /\ Keep(arg.node, r.val)
    /\ UNCHANGED <<sb, ids>>

Cached == nodes[arg.node]
Started(op) == pc = op /\ todo = Parsed

(* read_inode_data of a whole directory or link. *)
ReadInodeData(inode) ==
    LET base == inode.raw_blkaddr * sb.bs
        full == (inode.size \div sb.bs) * sb.bs
        blocks == ReadCells(img.disk, base, full)
        tail == ReadCells(img.disk, inode.inline_off, inode.size - full)
    IN  CASE inode.layout = "plain" -> ReadCells(img.disk, base, inode.size)
          [] inode.layout = "inline" ->
               IF full > 0 /\ Failed(blocks) THEN blocks
               ELSE IF inode.size > full /\ Failed(tail) THEN tail
               ELSE Good((IF full > 0 THEN blocks.val ELSE <<>>) \o (IF inode.size > full THEN tail.val ELSE <<>>))
          [] OTHER -> Bad("Unsupported")

FtKind(ft) == CASE ft = 1 -> "file" [] ft = 2 -> "dir" [] ft = 7 -> "symlink" [] OTHER -> "other"

DirentName(block, nameoff, end) ==
    LET text == [j \in 1..end - nameoff |-> block[nameoff + j].ch]
        zeros == {j \in DOMAIN text : text[j] = "nul"}
    IN  IF zeros = {} THEN text ELSE SubSeq(text, 1, Min(zeros) - 1)

(* parse_dir_block: dirents up to the first one's nameoff, then their names,  *)
(* each up to the next one's; the last may be padded with zeros.              *)
ParseDirBlock(block) ==
    LET nameoff(i) == Num(block[i], "nameoff")
        count == nameoff(1)
        end(i) == IF i < count THEN nameoff(i + 1) ELSE Len(block)
        entry(i) == [name |-> DirentName(block, nameoff(i), end(i)), node |-> Num(block[i], "nid"), kind |-> FtKind(block[i].ft)]
        entries[i \in 0..count] ==
            IF i = 0 THEN <<>>
            ELSE IF entry(i).name \in {<<>>, <<".">>, <<"..">>} THEN entries[i - 1] ELSE Append(entries[i - 1], entry(i))
    IN  IF count > Len(block) THEN Bad("Corrupt")
        ELSE IF \E i \in 1..count : ~ (nameoff(i) <= end(i) /\ end(i) <= Len(block)) THEN Bad("Corrupt")
        ELSE Good(entries[count])

(* read_dir: the whole of its data, then block by block. *)
ReadDir ==
    /\ Started("read_dir") \/ Started("lookup")
    /\ LET data == ReadInodeData(Cached)
       IN  IF Cached.kind # "dir" THEN Return(Bad("NotDirectory"))
           ELSE IF Cached.size > MAX_BOOT_FILE_BYTES THEN Return(Bad("FileTooLarge"))
           ELSE IF Cached.size = 0 THEN Loop("dir", <<>>, 0)
           ELSE IF Failed(data) THEN Return(data) ELSE Loop("dir", data.val, 0)
    /\ UNCHANGED Table

DirBlock ==
    /\ pc = "dir"
    /\ pos < Len(todo)
    /\ LET end == LeastOf(pos + sb.bs, Len(todo))
           r == ParseDirBlock(SubSeq(todo, pos + 1, end))
       IN  IF Failed(r) THEN Return(r)
           ELSE /\ out' = out \o r.val
                /\ pos' = end
                /\ UNCHANGED <<pc, todo, ret>>
    /\ UNCHANGED Table

DirDone ==
    /\ pc = "dir"
    /\ pos = Len(todo)
    /\ Return(Good(Listed(out)))
    /\ HandOut(ListedNodes(out))
    /\ UNCHANGED <<sb, nodes>>

GetMetadata == Started("metadata") /\ Return(Good(<<Cached.kind, Cached.size>>)) /\ UNCHANGED Table

(* The target is not shown to the verifier, nor is a directory. *)
ReadLink ==
    /\ Started("read_link")
    /\ LET data == ReadInodeData(Cached)
       IN  Return(IF Cached.kind # "symlink" THEN Good(<<>>)
                  ELSE IF Cached.size > MAX_BOOT_FILE_BYTES THEN Bad("FileTooLarge")
                  ELSE IF Cached.size = 0 THEN Good(<<<<>>>>)
                  ELSE IF Failed(data) THEN data
                  ELSE Good(<<[i \in DOMAIN data.val |-> Plain(data.val[i])]>>))
    /\ UNCHANGED Table

ReadsDevice ==
    \/ pc = "open" /\ LongEnough
    \/ pc = "root"
    \/ pc \in Ops /\ todo = <<>> /\ arg.node \notin DOMAIN nodes
    \/ (Started("read_dir") \/ Started("lookup")) /\ Cached.kind = "dir" /\ Cached.size \in 1..MAX_BOOT_FILE_BYTES
    \/ Started("read_link") /\ Cached.kind = "symlink" /\ Cached.size \in 1..MAX_BOOT_FILE_BYTES

IoError == ReadsDevice /\ Return(Bad("Io")) /\ UNCHANGED Table

-----------------------------------------------------------------------------
Step ==
    /\ \/ Open \/ ReadConfig \/ OpenRoot \/ NeedInode \/ ReadDir \/ DirBlock \/ DirDone
       \/ GetMetadata \/ ReadLink \/ IoError
    /\ UNCHANGED Fixed

Next == Step \/ \E n \in DOMAIN ids : \E a \in {r \in Requests(n) : r.op \in Ops} : Call(a)

Spec == Init /\ [][Next]_vars

(* What is left of a loop. *)
Fuel == IF pc = "dir" THEN Len(todo) - pos ELSE 0

(* The LZMA window is that of the volume's config, never another's bytes. *)
LzmaDictIsTheVolumes ==
    pc # "open" /\ sb # <<>> /\ img.intact => sb.lzma_dict_size \in {<<>>, img.lzma}
=============================================================================
