---------------------------- MODULE MCErofsRead ----------------------------
(***************************************************************************)
(* Instances of ErofsRead for TLC: files of up to six bytes on volumes with *)
(* two-byte blocks, in each layout, intact and damaged.                     *)
(***************************************************************************)
EXTENDS ErofsRead

CONSTANT Sizes

File(n) == [i \in 1..n |-> <<i>>]
Filler == <<9>>
Fill(n) == [i \in 1..n |-> Filler]
PadTo(s, n) == [i \in 1..n |-> IF i <= Len(s) THEN s[i] ELSE Filler]
Up(n) == CeilDiv(n, 2) * 2

Volume(layout, size, raw, inline, chunk, table, disk, heads, supported) ==
    [bs |-> 2, size |-> size, dir |-> FALSE, layout |-> layout, raw_blkaddr |-> raw, inline_off |-> inline,
     format |-> "addresses", chunk |-> chunk, table |-> table, disk |-> disk, heads |-> heads, supported |-> supported]

(* Each volume with the file it was made from. *)
Plain(n) == <<Volume("plain", n, 1, 0, 1, <<>>, Fill(2) \o PadTo(File(n), Up(n)), <<>>, TRUE), File(n)>>

(* The tail, less than a block, sits at offset 1, right after the inode. *)
Inline(n) ==
    LET full == (n \div 2) * 2
        disk == PadTo(Fill(1) \o SubSeq(File(n), full + 1, n), 4) \o SubSeq(File(n), 1, full)
    IN  <<Volume("inline", n, 2, 1, 1, <<>>, disk, <<>>, TRUE), File(n)>>

(* Chunks of c blocks, stored last first; the hole chunk reads as zeros. *)
Chunked(n, c, hole) ==
    LET cs == 2 * c
        count == CeilDiv(n, cs)
        part(k) == PadTo(SubSeq(File(n), (k - 1) * cs + 1, LeastOf(k * cs, n)), cs)
        disk == [a \in 1..count * cs |-> part(count - (a - 1) \div cs)[((a - 1) % cs) + 1]]
        table == [k \in 1..count |-> IF k = hole THEN NULL_BLKADDR ELSE (count - k) * c]
        file == [i \in 1..n |-> IF (i - 1) \div cs + 1 = hole THEN Zero ELSE <<i>>]
    IN  <<Volume("chunk", n, 0, 0, cs, table, disk, <<>>, TRUE), file>>

(* Pclusters that start at 0, a and b (a <= b <= n), the third maybe empty. *)
Part(n, lo, hi) == SubSeq(File(n), lo + 1, hi)
Hd(start, algo, yields) == [start |-> start, algo |-> algo, yields |-> yields]
Packed(n, a, b, g, more) ==
    LET heads == <<Hd(0, g, Part(n, 0, a) \o more), Hd(a, "lz4", Part(n, a, b)), Hd(b, "plain", Part(n, b, n) \o Fill(1))>>
    IN  <<Volume("compressed", n, 0, 0, 1, <<>>, <<>>, heads, TRUE), File(n)>>

Flip(v) == {<<[v[1] EXCEPT !.disk[a] = Filler], v[2]>> : a \in DOMAIN v[1].disk}
CutDisk(v) == <<[v[1] EXCEPT !.disk = SubSeq(@, 1, Len(@) - 1)], v[2]>>

(* A first pcluster that decodes to one byte too few or to other bytes, and  *)
(* pclusters out of order.                                                   *)
ShortHead(n, a, b, g) ==
    LET v == Packed(n, a, b, g, <<>>)
    IN  <<[v[1] EXCEPT !.heads[1].yields = SubSeq(@, 1, Len(@) - 1)], v[2]>>
OtherHead(n, a, b, g) ==
    LET v == Packed(n, a, b, g, <<>>)
    IN  <<[v[1] EXCEPT !.heads[1].yields = [@ EXCEPT ![1] = Filler]], v[2]>>
Disordered(n) ==
    LET v == Packed(n, 2, 3, "zstd", <<>>)
    IN  <<[v[1] EXCEPT !.heads[2].start = n + 1], v[2]>>
Variant(n) == LET v == Packed(n, 1, 2, "lz4", <<>>) IN <<[v[1] EXCEPT !.supported = FALSE], v[2]>>

(* What the reader refuses by the inode alone. *)
Refused ==
    {<<[Plain(3)[1] EXCEPT !.dir = TRUE], File(3)>>, <<[Plain(3)[1] EXCEPT !.layout = "unknown"], File(3)>>}
    \cup {<<[Chunked(5, 1, 0)[1] EXCEPT !.format = f], File(5)>> : f \in Formats \ {"addresses"}}

Flats == {Plain(n) : n \in Sizes} \cup {Inline(n) : n \in Sizes}
         \cup {Chunked(n, c, h) : n \in Sizes, c \in {1, 2}, h \in {0, 2}}
Cuts(n) == {<<1, 2>>, <<2, n>>, <<3, 3>>}
Packs ==
    UNION {{Packed(n, p[1], p[2], g, <<>>) : p \in Cuts(n), g \in {"lz4", "deflate", "zstd"}} : n \in Sizes \ 0..2}
    \cup {Packed(n, 2, 3, g, Fill(1)) : n \in Sizes \ 0..2, g \in {"lzma", "zstd", "plain"}}
Broken ==
    UNION {Flip(v) : v \in {Plain(3), Inline(5), Chunked(5, 1, 2)}}
    \cup {CutDisk(v) : v \in {Plain(4), Inline(4), Chunked(5, 2, 0)}}
    \cup {Variant(3), Disordered(4), Disordered(5)} \cup Refused
    \cup {OtherHead(n, 2, 3, g) : n \in {4, 5}, g \in {"lz4", "zstd"}}
    \cup {ShortHead(n, 2, 3, g) : n \in {4, 5}, g \in {"lz4", "deflate", "lzma", "plain"}}
Shorts == {ShortHead(n, 2, 3, "zstd") : n \in {4, 5}}

Built == Flats \cup Packs \cup Broken
AllVolumes == {v[1] : v \in Built}
AllGenuine == [w \in AllVolumes |-> (CHOOSE v \in Built : v[1] = w)[2]]

ShortVolumes == {v[1] : v \in Shorts}
ShortGenuine == [w \in ShortVolumes |-> (CHOOSE v \in Shorts : v[1] = w)[2]]

MCCalls == [off : {0, 1, 2, 3, 5}, len : {1, 3, 6}]
=============================================================================
