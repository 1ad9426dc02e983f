---------------------------- MODULE RomfsImages ----------------------------
(***************************************************************************)
(* Romfs images as genromfs lays them out: the root's "." first, a          *)
(* directory's entries linked in order, "." and ".." of a sub-directory     *)
(* hard links to the directories they stand for.                            *)
(***************************************************************************)
EXTENDS Cells, SequencesExt

Hdr(next, ftype, info, size, name) ==
    <<[next |-> next, ftype |-> ftype, info |-> info, size |-> size], [name |-> name]>>

LinkName == <<"k1", "k2", "k3", "k4">>

(* The root has a file a (bytes c), a hard link h to it, a directory d with a *)
(* file f, a symlink l, a device o, and k links to links, the last to d/f.    *)
Image(c, k) ==
    LET n == Len(c)
        a == 4
        h == a + 2 + n
        d == h + 2
        ddot == d + 2
        ddotdot == ddot + 2
        f == ddotdot + 2
        l == f + 3
        o == l + 3
        link(i) == o + 2 * i        \* i = 1..k
        end == o + 2 + 2 * k
        disk == <<[magic |-> TRUE], [name |-> "vol"]>>
                \o Hdr(a, 1, 2, 0, ".")
                \o Hdr(h, 2, 0, n, "a") \o Stream(c, n)
                \o Hdr(d, 0, a, 0, "h")
                \o Hdr(l, 1, ddot, 0, "d")
                \o Hdr(ddotdot, 0, d, 0, ".") \o Hdr(f, 0, 2, 0, "..")
                \o Hdr(0, 2, 0, 1, "f") \o Stream(<<7>>, 1)
                \o Hdr(o, 3, 0, 1, "l") \o Stream(<<"x">>, 1)
                \o Hdr(IF k = 0 THEN 0 ELSE link(1), 5, 0, 0, "o")
                \o FlattenSeq([i \in 1..k |->
                     Hdr(IF i = k THEN 0 ELSE link(i + 1), 0, IF i = k THEN f ELSE link(i + 1), 0, LinkName[i])])
        file(b) == [kind |-> "file", bytes |-> b]
        names == <<"a", "h", "d", "l", "o">> \o SubSeq(LinkName, 1, k)
    IN  [disk |-> disk, intact |-> TRUE, root |-> 2,
         truth |->
           [p \in {2, a, d, f, l, o} |->
              CASE p = 2 -> [kind |-> "dir", names |-> names,
                             child |-> [x \in ToSet(names) |->
                                CASE x = "a" -> a [] x = "h" -> a [] x = "d" -> d
                                  [] x = "l" -> l [] x = "o" -> o [] OTHER -> f]]
                [] p = a -> file(c)
                [] p = d -> [kind |-> "dir", names |-> <<"f">>, child |-> [x \in {"f"} |-> f]]
                [] p = f -> file(<<7>>)
                [] p = l -> [kind |-> "symlink", target |-> <<"x">>]
                [] p = o -> [kind |-> "other"]]]

Intact == {Image(c, k) : c \in {<<>>, <<1>>, <<1, 2, 3, 4, 5, 6, 8, 9>>}, k \in {0, 2}}

Headers(i) == {p \in DOMAIN i.disk : "ftype" \in DOMAIN i.disk[p]}

(* Damage: the device cut short anywhere, a next or a link that goes back, a  *)
(* chain of links longer than the bound, a size past the device, no magic,    *)
(* no volume name.                                                            *)
Damages(s) ==
        {[s EXCEPT !.disk = SubSeq(@, 1, n)] : n \in 0..Len(s.disk) - 1}
        \cup {[s EXCEPT !.disk[p].next = q] : p \in Headers(s), q \in {2, 4}}
        \cup {[s EXCEPT !.disk[p].info = q] : p \in Headers(s), q \in {8, Len(s.disk) - 2, Len(s.disk)}}
        \cup {[s EXCEPT !.disk[p].size = 40] : p \in Headers(s)}
        \cup {[s EXCEPT !.disk[1].magic = FALSE], [s EXCEPT !.disk[2] = s.disk[1]]}

Volumes == Intact \cup Damages([Image(<<1, 2>>, 4) EXCEPT !.intact = FALSE])
=============================================================================
