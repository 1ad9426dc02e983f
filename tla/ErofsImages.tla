---------------------------- MODULE ErofsImages ----------------------------
(***************************************************************************)
(* EROFS images as mkfs.erofs lays them out: superblock with its extension  *)
(* slots, compression configs, inodes with inline tails, data blocks.       *)
(***************************************************************************)
EXTENDS Cells, SequencesExt

BS == 6
Byte(b) == [of |-> <<b>>, i |-> 1, n |-> 1]
Bytes(c) == [i \in DOMAIN c |-> Byte(c[i])]
Fill(cells, n) == cells \o [i \in 1..n - Len(cells) |-> Byte(0)]

Inode(ext, xattr, kind, size, layout, raw) ==
    <<[ext |-> ext, xattr |-> xattr, kind |-> kind, size |-> size, layout |-> layout, raw |-> raw]>>
    \o [i \in 1..(IF ext THEN 1 ELSE 0) + xattr |-> Byte(0)]
Dirent(nid, nameoff, ft) == [nid |-> nid, nameoff |-> nameoff, ft |-> ft]
Ch(c) == [ch |-> c]

(* What a reader that takes an extension slot for a config would find in it. *)
Slot == [size |-> 0, dict |-> 9, format |-> 0]
Config(algs) ==
    (IF 0 \in algs THEN <<[size |-> 1], Slot>> ELSE <<>>)
    \o (IF 1 \in algs THEN <<[size |-> 1], [dict |-> 5, format |-> 0]>> ELSE <<>>)

(* Volumes with long xattrs carry the bits that come with optional features;  *)
(* those of a device table and of fragments stand for other features, too.    *)
Features(xattr) ==
    {"lz4_0padding", "compr_cfgs"} \cup (IF xattr > 1 THEN {"xattr_prefixes", "device_table", "fragments"} ELSE {})

Link == <<11, 12, 13, 14, 15, 16, 17, 18>>

(* The root has a file a, a directory d with a file f, a symlink l and a      *)
(* device o.  Its own entries lie in three blocks, d's in an inline tail, and *)
(* l's target in a block and a tail.                                          *)
Image(extslots, algs, xattr, pad) ==
    LET d == 2
        l == d + 2 + xattr + 4
        o == l + 3
        f == o + 1
        meta == Inode(FALSE, 0, "dir", 14 + pad, "plain", 6) \o Inode(FALSE, 0, "file", 3, "plain", 9)
                \o Inode(TRUE, xattr, "dir", 4, "inline", 0) \o <<Dirent(d, 2, 2), Dirent(f, 3, 1), Ch("."), Ch("f")>>
                \o Inode(FALSE, 0, "symlink", 8, "inline", 9) \o Bytes(SubSeq(Link, 7, 8))
                \o Inode(FALSE, 0, "other", 0, "plain", 0) \o Inode(FALSE, 0, "file", 1, "plain", 9)
        root == <<Dirent(0, 3, 2), Dirent(0, 4, 2), Dirent(1, 5, 1), Ch("."), Ch(".."), Ch("a")>>
                \o <<Dirent(d, 2, 2), Dirent(l, 3, 7), Ch("d"), Ch("l"), Ch("nul"), Ch("nul")>>
                \o <<Dirent(o, 1, 3), Ch("o")>> \o [i \in 1..4 |-> Ch("nul")]
        sb == [magic |-> TRUE, blkszbits |-> 12, bs |-> BS, incompat |-> Features(xattr), extra_devices |-> 0,
               packed_nid |-> 0, root_nid |-> 0, meta_blkaddr |-> 2, extslots |-> extslots, algs |-> algs]
        head == <<Byte(0), sb>> \o [i \in 1..extslots |-> Slot] \o Config(algs)
        disk == Fill(head, 2 * BS) \o Fill(meta, 4 * BS) \o root \o Fill(Bytes(SubSeq(Link, 1, 6)), BS)
        names == <<<<"a">>, <<"d">>, <<"l">>, <<"o">>>>
        file(n) == [kind |-> "file", bytes |-> [i \in 1..n |-> 0]]
    IN  [disk |-> disk, intact |-> TRUE, root |-> 0, lzma |-> IF 1 \in algs THEN <<5>> ELSE <<>>,
         truth |->
           [p \in {0, 1, d, l, o, f} |->
              CASE p = 0 -> [kind |-> "dir", names |-> names,
                             child |-> [x \in ToSet(names) |->
                                CASE x = <<"a">> -> 1 [] x = <<"d">> -> d [] x = <<"l">> -> l [] OTHER -> o]]
                [] p = 1 -> file(3)
                [] p = d -> [kind |-> "dir", names |-> <<<<"f">>>>, child |-> [x \in {<<"f">>} |-> f]]
                [] p = l -> [kind |-> "symlink", target |-> Link]
                [] p = o -> [kind |-> "other"]
                [] p = f -> file(1)]]

Intact == {Image(e, algs, x, p) : e \in {0, 2}, algs \in {{}, {1}, {0, 1}}, x \in {0, 2}, p \in {0, 4}}

(* A byte of the link's target, in the data block or in the tail, or a name   *)
(* of the root, changed after the image was made.                             *)
Tampered ==
    LET s == [Image(0, {}, 0, 0) EXCEPT !.intact = FALSE]
        with(f) == {p \in DOMAIN s.disk : f \in DOMAIN s.disk[p]}
    IN  {[s EXCEPT !.disk[p] = Byte(66)] : p \in {q \in with("of") : s.disk[q].of[1] \in ToSet(Link)}}
        \cup {[s EXCEPT !.disk[p].ch = "b"] : p \in {q \in with("ch") : s.disk[q].ch = "a"}}

(* Damage: the device cut short, wrong offsets and sizes of entries, a layout *)
(* or a feature the reader does not know, and nids out of range.              *)
Damages(s) ==
    LET with(f) == {p \in DOMAIN s.disk : f \in DOMAIN s.disk[p]}
        later == {p \in with("nameoff") : "nameoff" \in DOMAIN s.disk[p - 1]}
    IN  {[s EXCEPT !.disk = SubSeq(@, 1, n)] : n \in {0, 1, 2, 3, 5, 12, 13, 14, 20, 30, 36, 41, 44, 49, 54, 57}}
        \cup {[s EXCEPT !.disk[p].nameoff = n] : p \in later, n \in {2, 7}}
        \cup {[s EXCEPT !.disk[p].nameoff = n] : p \in with("nameoff") \ later, n \in {0, 7}}
        \cup {[s EXCEPT !.disk[p].nid = n] : p \in with("nid"), n \in {50, 64, 1}}
        \cup {[s EXCEPT !.disk[p].layout = "unknown"] : p \in with("layout")}
        \cup {[s EXCEPT !.disk[p].size = n] : p \in with("layout"), n \in {0, 30}}
        \cup {[s EXCEPT !.disk[p].kind = k] : p \in with("layout"), k \in {"file", "symlink"}}
        \cup {[s EXCEPT !.disk[2].blkszbits = n] : n \in {8, 17}}
        \cup {[s EXCEPT !.disk[2].incompat = @ \cup {b}] : b \in {"metabox", "48bit", "unknown"}}
        \cup {[s EXCEPT !.disk[2].magic = FALSE], [s EXCEPT !.disk[2].extra_devices = 1],
              [s EXCEPT !.disk[2].packed_nid = 7], [s EXCEPT !.disk[2].root_nid = 64]}
        \cup {[s EXCEPT !.disk[p].format = 1] : p \in with("format")}

Volumes == Intact \cup Damages([Image(0, {0, 1}, 1, 0) EXCEPT !.intact = FALSE])
=============================================================================
