--------------------------- MODULE CramfsImages ---------------------------
(***************************************************************************)
(* Cramfs images as mkcramfs lays them out: superblock, root inode,         *)
(* directories, then for each file its page index and pages; a page of      *)
(* zeros is a hole.                                                         *)
(***************************************************************************)
EXTENDS Cells, SequencesExt

CONSTANT PAGE

Inode(mode, size, namelen, at) == <<[mode |-> mode, size |-> size, namelen |-> namelen, data_off |-> at]>>
Text(name, n) == [i \in 1..n |-> [ch |-> IF i <= Len(name) THEN name[i] ELSE "nul"]]

PageOf(c, k) == SubSeq(c, (k - 1) * PAGE + 1, LeastOf(k * PAGE, Len(c)))
NPages(c) == CeilDiv(Len(c), PAGE)
(* The stored bytes of page k, n of them; a hole has none. *)
Packed(c, k, n) == IF \A b \in ToSet(PageOf(c, k)) : b = 0 THEN <<>> ELSE Stream(PageOf(c, k), n)
FileData(c, n, at) ==
    LET pages == [k \in 1..NPages(c) |-> Packed(c, k, n)]
        end(k) == at + NPages(c) + Len(FlattenSeq(SubSeq(pages, 1, k)))
    IN  [k \in 1..NPages(c) |-> [ptr |-> end(k)]] \o FlattenSeq(pages)

(* The root has a file a (bytes c, stored in n cells a page), a directory d   *)
(* with a file f, a symlink l and a device o.                                 *)
Image(c, n) ==
    LET root == 1
        a == 2
        d == 4
        l == 7
        o == 9
        f == 11
        adata == 13
        fdata == adata + Len(FileData(c, n, adata))
        ldata == fdata + Len(FileData(<<7>>, 1, fdata))
        disk == <<[superblock |-> TRUE]>>
                \o Inode("dir", 9, 0, a)
                \o Inode("file", Len(c), 1, adata) \o Text(<<"a">>, 1)
                \o Inode("dir", 2, 2, f) \o Text(<<"d">>, 2)
                \o Inode("symlink", 2, 1, ldata) \o Text(<<"l">>, 1)
                \o Inode("other", 0, 1, 0) \o Text(<<"o">>, 1)
                \o Inode("file", 1, 1, fdata) \o Text(<<"f">>, 1)
                \o FileData(c, n, adata) \o FileData(<<7>>, 1, fdata) \o FileData(<<8, 9>>, 2, ldata)
        names == <<<<"a">>, <<"d">>, <<"l">>, <<"o">>>>
        file(b) == [kind |-> "file", bytes |-> b]
    IN  [disk |-> disk, magic |-> "little", ext_block_pointers |-> FALSE, intact |-> TRUE, root |-> root,
         truth |->
           [p \in {root, a, d, l, o, f} |->
              CASE p = root -> [kind |-> "dir", names |-> names,
                                child |-> [x \in ToSet(names) |->
                                   CASE x = <<"a">> -> a [] x = <<"d">> -> d [] x = <<"l">> -> l [] OTHER -> o]]
                [] p = a -> file(c)
                [] p = d -> [kind |-> "dir", names |-> <<<<"f">>>>, child |-> [x \in {<<"f">>} |-> f]]
                [] p = l -> [kind |-> "symlink", target |-> <<8, 9>>]
                [] p = o -> [kind |-> "other"]
                [] p = f -> file(<<7>>)]]

Contents == {<<>>, <<1>>, <<1, 2, 3>>, <<0, 0, 0, 1>>, <<1, 2, 3, 0, 0, 0, 4, 5>>, <<1, 2, 3, 4, 5, 6, 0, 0, 0>>}
Intact == {Image(c, n) : c \in Contents, n \in {1, 2}}

(* The second page of a file of three is made to inflate to something else. *)
Inflating(s, of) ==
    [s EXCEPT !.disk = [q \in DOMAIN @ |-> IF IsByte(@[q]) /\ @[q].of = <<4, 5, 6>> THEN [@[q] EXCEPT !.of = of] ELSE @[q]]]

(* Damage: the device cut short, a size, name length or page end that is too  *)
(* large or too small, a page that inflates to less or more than it should,   *)
(* and images of the other kinds.                                             *)
Damages(s) ==
    LET inodes == {p \in DOMAIN s.disk : "mode" \in DOMAIN s.disk[p]}
        ptrs == {p \in DOMAIN s.disk : "ptr" \in DOMAIN s.disk[p]}
    IN  {[s EXCEPT !.disk = SubSeq(@, 1, n)] : n \in 0..Len(s.disk) - 1}
        \cup {[s EXCEPT !.disk[p].size = n] :
                p \in {q \in inodes : s.disk[q].mode \in {"file", "symlink"}}, n \in {0, 3, 30}}
        \cup {[s EXCEPT !.disk[p].ptr = @ + n] : p \in ptrs, n \in {-1, 1, 40}}
        \cup {Inflating(s, of) : of \in {<<4>>, <<4, 5, 6, 7>>}}
        \cup {[s EXCEPT !.magic = e] : e \in {"big", "other"}}
        \cup {[s EXCEPT !.ext_block_pointers = TRUE]}

Sample == [Image(<<1, 2, 3, 4, 5, 6, 8>>, 2) EXCEPT !.intact = FALSE]
Volumes == Intact \cup Damages(Sample)
ShortPage == {Inflating(Sample, of) : of \in {<<>>, <<4>>, <<4, 5>>}}
=============================================================================
