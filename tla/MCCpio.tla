------------------------------- MODULE MCCpio -------------------------------
(***************************************************************************)
(* Instances of Cpio for TLC, and what the unpacked tree should hold: the   *)
(* image's records replayed one after the other over a flat map from paths. *)
(***************************************************************************)
EXTENDS Cpio, TLC

(* Each record's data is told apart by tag, its place in the image. *)
Record(path, kind, mode, nlink, len) ==
    [t |-> "record", path |-> path, utf8 |-> TRUE, kind |-> kind, mode |-> mode, ino |-> "i",
     nlink |-> nlink, len |-> len, wellformed |-> TRUE, bytes |-> HEADER + Align4(len), tag |-> 0]
Trailer == [t |-> "trailer", len |-> 0, wellformed |-> TRUE, bytes |-> HEADER]
Zeros(n) == [t |-> "zeros", bytes |-> n]
Junk == [t |-> "junk", bytes |-> 4]
Stream(n, fails, out) == [t |-> "stream", bytes |-> n, fails |-> fails, out |-> out]

RECURSIVE SumBytes(_)
SumBytes(items) == IF items = <<>> THEN 0 ELSE Head(items).bytes + SumBytes(Tail(items))
Tagged(items, base) ==
    [i \in 1..Len(items) |-> IF items[i].t = "record" THEN [items[i] EXCEPT !.tag = base + i] ELSE items[i]]
Buffer(items, base) == [items |-> Tagged(items, base), len |-> SumBytes(items)]
Cut(b, n) == [b EXCEPT !.len = IF n > @ THEN 0 ELSE @ - n]

-----------------------------------------------------------------------------
(* Contents: two archives of up to two records each, over the paths a, b and *)
(* a/b, the second one possibly compressed.                                  *)
Reg(p) == Record(p, "Regular", "0644", 1, 1)
RegEmpty(p) == Record(p, "Regular", "0600", 1, 0)
Link(p, len) == Record(p, "Regular", "0644", 2, len)
Dir(p) == Record(p, "Directory", "0700", 1, 0)
Sym(p) == Record(p, "Symlink", "0777", 1, 2)

ContentRecords ==
    {Reg(<<"a">>), Reg(<<"a", "b">>), Link(<<"a">>, 0), Link(<<"b">>, 3), Link(<<"a", ".", "b">>, 0),
     Dir(<<"", "a">>), Sym(<<"b">>), RegEmpty(<<"b">>)}
Bodies == {<<>>} \cup {<<x>> : x \in ContentRecords}
                 \cup {<<x, y>> : x \in ContentRecords, y \in ContentRecords}
Image(items) == [buffer |-> Buffer(items, 0), single |-> <<>>]
ContentImages ==
    {Image(x \o <<Trailer>> \o y \o <<Trailer>>) : x \in Bodies, y \in Bodies}
    \cup {Image(x \o <<Trailer, Stream(3, FALSE, Buffer(y \o <<Trailer>>, 10))>>) :
            x \in Bodies, y \in {<<z>> : z \in ContentRecords}}

(* A path through a symlink, and a directory record after a file or after    *)
(* what is in it: two archives of one or two records.                        *)
ReplaceRecords == {Sym(<<"a">>), Reg(<<"a", "b">>), Dir(<<"a">>)}
ReplaceBodies == {<<x>> : x \in ReplaceRecords} \cup {<<x, y>> : x \in ReplaceRecords, y \in ReplaceRecords}
ReplaceImages == {Image(x \o <<Trailer>> \o y \o <<Trailer>>) : x \in ReplaceBodies, y \in ReplaceBodies}

(* Chains: every sequence of up to three items after a first archive, whole  *)
(* and cut short, and a single odc archive.                                  *)
Small == Buffer(<<Reg(<<"b">>), Trailer>>, 10)
Large == Buffer(<<Reg(<<"b">>), Reg(<<"a">>), Trailer, Zeros(4)>>, 30)
ChainItems ==
    {Zeros(1), Zeros(4), Junk, Reg(<<"b">>), Trailer, [Reg(<<"a">>) EXCEPT !.utf8 = FALSE],
     [Reg(<<"b">>) EXCEPT !.wellformed = FALSE],
     Stream(4, FALSE, Small), Stream(3, FALSE, Large), Stream(3, TRUE, Small),
     Stream(4, FALSE, Buffer(<<Zeros(2), Stream(2, FALSE, Small)>>, 20)),
     Stream(4, FALSE, Cut(Small, 2))}
Seqs(S) == {<<>>} \cup {<<x>> : x \in S} \cup {<<x, y>> : x \in S, y \in S}
           \cup {<<x, y, z>> : x \in S, y \in S, z \in S}
SingleEntries ==
    <<[path |-> <<"a", "b">>, utf8 |-> TRUE, kind |-> "Regular", mode |-> "0644", ino |-> "i",
       nlink |-> 2, data |-> [buf |-> 1, off |-> 2, len |-> 1]],
      [path |-> <<"b">>, utf8 |-> TRUE, kind |-> "Regular", mode |-> "0644", ino |-> "i",
       nlink |-> 2, data |-> [buf |-> 1, off |-> 3, len |-> 0]]>>
ChainImages ==
    {[buffer |-> Cut(Buffer(<<Reg(<<"a">>), Trailer>> \o s, 0), n), single |-> <<>>] :
        s \in Seqs(ChainItems), n \in {0, 1, 6}}
    \cup {[buffer |-> Buffer(<<Junk>>, 0), single |-> SingleEntries]}
    \cup {Image(<<Zeros(41)>>)}
AllImages == ContentImages \cup ChainImages

-----------------------------------------------------------------------------
(* The items of the image in the order they are unpacked, those that a cut   *)
(* took off left out; only chains that open successfully are replayed.       *)
RECURSIVE OffsetOf(_, _)
OffsetOf(items, i) == IF i = 1 THEN 0 ELSE OffsetOf(items, i - 1) + items[i - 1].bytes

RECURSIVE Unpacked(_, _)
Unpacked(buf, i) ==
    IF i > Len(buf.items) \/ OffsetOf(buf.items, i) >= buf.len THEN <<>>
    ELSE LET it == buf.items[i]
         IN  (IF it.t = "stream" THEN Unpacked(it.out, 1) ELSE <<it>>) \o Unpacked(buf, i + 1)

Flat == Unpacked(img.buffer, 1)
Replayed == Mounted /\ img.single = <<>>
IsRec(i) == Flat[i].t = "record"
SameArchive(i, j) == \A k \in (IF i < j THEN i..j ELSE j..i) : Flat[k].t # "trailer"

(* Records i and j are links to one file of one archive. *)
HardLinked(i, j) ==
    /\ SameArchive(i, j)
    /\ \A k \in {i, j} : IsRec(k) /\ Flat[k].kind = "Regular" /\ Flat[k].nlink > 1
    /\ Flat[i].ino = Flat[j].ino

(* The record that holds the data of record i: the last of its links with any. *)
Holder(i) ==
    LET holders == {j \in 1..Len(Flat) : HardLinked(i, j) /\ Flat[j].len > 0}
    IN  IF holders = {} THEN i ELSE CHOOSE j \in holders : \A k \in holders : k <= j

NamedBy(p) == {i \in 1..Len(Flat) : IsRec(i) /\ Comps(Flat[i].path) = p}
FilesAt(p) == {i \in NamedBy(p) : Flat[i].kind # "Directory"}
LastOf(S) == CHOOSE i \in S : \A j \in S : j <= i

(* The record whose data a span covers. *)
TagAt(s) ==
    LET items == buffers[s.buf].items
        i == CHOOSE i \in 1..Len(items) : items[i].t = "record" /\ OffsetOf(items, i) + HEADER = s.off
    IN  items[i].tag

AllPaths == {<<"a">>, <<"b">>, <<"a", "b">>}

(* What a path reads is what the last record naming it put there: the data   *)
(* of that record, or of the last of its hard links that has any, with its   *)
(* kind and mode; "a later archive's file replaces an earlier one at the     *)
(* same path" (cpio.rs:187).                                                 *)
LastFileWins ==
    Replayed => \A p \in AllPaths :
        At(p) # 0 /\ FilesAt(p) # {} =>
            LET last == LastOf(FilesAt(p))
                meta == GetMetadata(At(p))
                all == ReadAt(At(p), 0, MAX_BOOT_FILE_BYTES)
            IN  /\ meta.kind = Flat[last].kind
                /\ meta.mode = Flat[last].mode
                /\ meta.size = Flat[Holder(last)].len /\ all.len = meta.size
                /\ TagAt(all) = Flat[Holder(last)].tag

(* The tree is that of the records and no more: a directory lists a name     *)
(* only if a record has that path or one below it, and as what the name is,  *)
(* and every record is found at its path, provided no record puts anything   *)
(* but a directory above it.                                                 *)
Under(p) == {i \in 1..Len(Flat) : IsRec(i) /\ Len(Comps(Flat[i].path)) >= Len(p)
                                  /\ SubSeq(Comps(Flat[i].path), 1, Len(p)) = p}
NothingInvented ==
    \A p \in {<<>>, <<"a">>, <<"b">>} : At(p) # 0 =>
        \A e \in ReadDir(At(p)) :
            /\ Under(Append(p, e.name)) # {}
            /\ e.node = Lookup(At(p), e.name)
            /\ e.kind = GetMetadata(e.node).kind
RecordsFound ==
    \A i \in 1..Len(Flat) :
        /\ IsRec(i)
        /\ \A n \in 1..Len(Comps(Flat[i].path)) - 1 : FilesAt(SubSeq(Comps(Flat[i].path), 1, n)) = {}
        => At(Comps(Flat[i].path)) # 0
TreeIsTheRecords == Replayed => NothingInvented /\ RecordsFound

-----------------------------------------------------------------------------
(* "Fold one archive record into the tree at its path" (cpio.rs:148), as the *)
(* kernel unpacks an initramfs: every record of a mounted image is in the    *)
(* tree at its path unless a later record replaced what it was under.        *)
LaterAbove(i) ==
    \E n \in 1..Len(Comps(Flat[i].path)) - 1 :
        \E j \in FilesAt(SubSeq(Comps(Flat[i].path), 1, n)) : j > i
EveryRecordInTree ==
    Replayed => \A i \in 1..Len(Flat) :
        IsRec(i) /\ ~ LaterAbove(i) => At(Comps(Flat[i].path)) # 0
=============================================================================
