---------------------------- MODULE SquashImages ----------------------------
(***************************************************************************)
(* Images for SquashFs, laid out as mksquashfs does it: children before     *)
(* their directory, one header per run of entries whose inodes share a      *)
(* metadata block, all-zero blocks sparse, the tail in a fragment or in a   *)
(* short last block.  Metadata blocks hold three cells, data blocks three   *)
(* bytes.  Each image has a root with a file a, a second name c for it, a   *)
(* directory d with a file f of its own, a symlink and a device node.       *)
(***************************************************************************)
EXTENDS Cells, SequencesExt

CONSTANTS NO_FRAGMENT, FRAGS_PER_BLOCK

Meta == 3
BS == 3
Chunk(s, k) == SubSeq(s, (k - 1) * BS + 1, LeastOf(k * BS, Len(s)))
Blocks(s, n) == [k \in 1..CeilDiv(Len(s), n) |-> SubSeq(s, (k - 1) * n + 1, LeastOf(k * n, Len(s)))]
RefAt(p) == [block |-> p \div Meta, off |-> p % Meta]
Sum(s) == FoldLeft(LAMBDA x, y : x + y, 0, s)

(* Stored bytes of a data block; a compressed one takes one byte. *)
IsZero(b) == \A i \in DOMAIN b : b[i] = 0
Stored(b, z) ==
    IF IsZero(b) THEN <<>>
    ELSE Stream(b, IF z THEN 1 ELSE Len(b))
SizeOf(b, z) == [len |-> Len(Stored(b, z)), raw |-> ~ z]

(* The image of the inodes a f l o, the directories d and root, data and      *)
(* fragment entries.  ref gives the places of the six inodes.                 *)
Listing(ref) ==
    LET hdr(n, i) == <<[count |-> n - 1, start |-> ref[i].block]>>
        ent(name, i) == <<[off |-> ref[i].off], [name |-> name]>>
        run(n1, i1, n2, i2) ==
            IF ref[i1].block = ref[i2].block
              THEN hdr(2, i1) \o ent(n1, i1) \o ent(n2, i2)
              ELSE hdr(1, i1) \o ent(n1, i1) \o hdr(1, i2) \o ent(n2, i2)
    IN  [d |-> hdr(1, 2) \o ent("f", 2),
         root |-> hdr(1, 1) \o ent("a", 1) \o run("c", 1, "d", 5) \o run("l", 3, "o", 4)]

Truth(c, ref) ==
    LET file(b) == [kind |-> "file", bytes |-> b]
        names == <<"a", "c", "d", "l", "o">>
    IN  [r \in ToSet(ref) |->
           CASE r = ref[1] -> file(c)
             [] r = ref[2] -> file(<<7>>)
             [] r = ref[3] -> [kind |-> "symlink", target |-> <<"x">>]
             [] r = ref[4] -> [kind |-> "other"]
             [] r = ref[5] -> [kind |-> "dir", names |-> <<"f">>, child |-> [x \in {"f"} |-> ref[2]]]
             [] r = ref[6] -> [kind |-> "dir", names |-> names,
                               child |-> [x \in ToSet(names) |->
                                  CASE x \in {"a", "c"} -> ref[1] [] x = "d" -> ref[5]
                                    [] x = "l" -> ref[3] [] x = "o" -> ref[4]]]]

Assembled(c, ref, itable, dtable, ftable, data) ==
    [magic |-> TRUE, compression |-> 1, block_size |-> BS, root |-> ref[6],
     inode_table_start |-> 1, directory_table_start |-> 1 + Len(itable),
     fragments |-> [k \in DOMAIN ftable |-> Len(itable) + Len(dtable) + k],
     meta |-> itable \o dtable \o ftable \o <<<<"id table">>>>, torn |-> {},
     data |-> data, truth |-> Truth(c, ref), intact |-> TRUE]

WithListing(c, inodes, ref, list, data, entries) ==
    LET dir(t, size, p) == <<[itype |-> t],
                             [size |-> size + 3, block |-> p \div Meta, offset |-> p % Meta, frag_idx |-> 0]>>
    IN  Assembled(c, ref,
                  Blocks(FlattenSeq(inodes) \o dir(1, Len(list.d), 0) \o dir(8, Len(list.root), Len(list.d)), Meta),
                  Blocks(list.d \o list.root, Meta), Blocks(entries, FRAGS_PER_BLOCK), data)

WithRefs(c, inodes, ref, data, entries) == WithListing(c, inodes, ref, Listing(ref), data, entries)

WithTree(c, inodes, data, entries) ==
    WithRefs(c, inodes,
             [i \in 1..6 |-> RefAt(Sum([j \in 1..i - 1 |-> IF j <= 4 THEN Len(inodes[j]) ELSE 2]))], data, entries)

(* File a: contents c; frag its fragment index; z whether blocks compress.   *)
(* File f is the byte 7 in the same fragment, before a's tail.               *)
Image(c, frag, z) ==
    LET inFrag == frag # NO_FRAGMENT /\ Len(c) % BS # 0
        nblk == IF inFrag THEN Len(c) \div BS ELSE CeilDiv(Len(c), BS)
        blk(k) == Chunk(c, k)
        tail == IF inFrag THEN Chunk(c, nblk + 1) ELSE <<>>
        fragment == <<7>> \o tail
        adata == FlattenSeq([k \in 1..nblk |-> Stored(blk(k), z)])
        pad == <<[of |-> <<9>>, i |-> 1, n |-> 1]>>
        fragAt == Len(pad) + Len(adata)
        data == pad \o adata \o Stored(fragment, z)
        head(t) == <<[itype |-> t]>>
        fidx == IF frag = NO_FRAGMENT THEN 0 ELSE frag
        file(t, size, start, fi, fo) ==
            head(t) \o <<[size |-> size, start |-> start, frag_idx |-> fi, frag_off |-> fo]>>
        a == file(2, Len(c), Len(pad), IF inFrag THEN frag ELSE NO_FRAGMENT, IF inFrag THEN 1 ELSE 0)
             \o [k \in 1..nblk |-> SizeOf(blk(k), z)]
        f == file(9, 1, 0, fidx, 0)
        l == head(3) \o <<[size |-> 1, frag_idx |-> 0], "x">>
        entry == [start |-> fragAt, size |-> SizeOf(fragment, z)]
        unused == [start |-> 0, size |-> [len |-> 1, raw |-> TRUE]]
    IN  WithTree(c, <<a, f, l, head(4)>>, data, [i \in 1..fidx + 1 |-> IF i = fidx + 1 THEN entry ELSE unused])

Contents ==
    {<<>>, <<0>>, <<1, 2>>, <<0, 0, 0>>, <<1, 2, 3>>, <<0, 0, 0, 1>>, <<1, 2, 3, 4, 5>>,
     <<0, 0, 0, 1, 2, 3, 4>>, <<1, 2, 3, 0, 0, 0, 4, 5>>, <<1, 0, 0, 2, 3, 4, 0, 0, 0>>}

Intact == {Image(c, frag, z) : c \in Contents, frag \in {NO_FRAGMENT, 0, 3}, z \in BOOLEAN}
Sample == Image(<<1, 2, 3, 0, 0, 0, 4, 5>>, 0, FALSE)

(* Damage: superblock fields, file and listing sizes, metadata blocks that    *)
(* are empty or missing or do not decompress, and missing data.               *)
Damages(s) ==
        {[s EXCEPT !.magic = FALSE], [s EXCEPT !.compression = 2], [s EXCEPT !.block_size = 0],
         [s EXCEPT !.data = SubSeq(@, 1, Len(@) - 1)], [s EXCEPT !.fragments = <<>>],
         [s EXCEPT !.root.block = 30]}
        \cup {[s EXCEPT !.meta = [j \in DOMAIN @ |-> IF j < k THEN @[j] ELSE <<>>]] : k \in DOMAIN s.meta}
        \cup {[s EXCEPT !.meta[1][2].size = n] : n \in {6, 7, 90}}
        \cup {[s EXCEPT !.meta = SubSeq(@, 1, n)] : n \in 3..8}
        \cup {[s EXCEPT !.torn = {k}] : k \in DOMAIN s.meta}
        \cup {[s EXCEPT !.meta[k][j].size = @ - n] :
                n \in {1, 2, 4}, k \in {s.root.block + 1}, j \in {s.root.off + 2} \cap 1..3}
        \cup {[s EXCEPT !.meta[s.root.block + 1][j].size = 2] : j \in {s.root.off + 2} \cap 1..3}

Volumes == Intact \cup Damages([Sample EXCEPT !.intact = FALSE])
=============================================================================
