----------------------------- MODULE IsoImages -----------------------------
(***************************************************************************)
(* ISO9660 images as xorriso lays them out: system area, four volume        *)
(* descriptors, then directories, continuation areas, the boot catalog and  *)
(* the files.  A sector is BS cells, and no record crosses one.             *)
(***************************************************************************)
EXTENDS Cells, SequencesExt

CONSTANTS BS, ROOT_KEY

Pad == [len |-> 0]
Sectors(cells) == cells \o [i \in 1..CeilDiv(Len(cells), BS) * BS - Len(cells) |-> Pad]
Pack(recs) ==
    Sectors(FoldLeft(LAMBDA acc, r : IF (Len(acc) % BS) + Len(r) > BS THEN Sectors(acc) \o r ELSE acc \o r, <<>>, recs))

Vd(type, bs, lba, size, cat, esc) ==
    Sectors(<<[vd |-> type, id |-> TRUE, bs |-> bs, lba |-> lba, size |-> size, cat |-> cat, esc |-> esc]>>)

Rec(fi, dir, more, lba, size, su) ==
    <<[len |-> 1 + Len(su), fi |-> fi, dir |-> dir, more |-> more, lba |-> lba, size |-> size]>> \o su
NM(text) == [sig |-> "NM", flag |-> "name", text |-> text]
SL(comps) == [sig |-> "SL", comps |-> comps]
ZF(log2, usize) == [sig |-> "ZF", pz |-> TRUE, log2 |-> log2, usize |-> usize]
CE(block, offset, len) == [sig |-> "CE", block |-> block, offset |-> offset, len |-> len]
SP(skip) == [sig |-> "SP", beef |-> TRUE, skip |-> skip]
Comp(flag, continues, text) == [flag |-> flag, continues |-> continues, text |-> text]

(* File a: its records' extents, the cells of its data (in the sectors from   *)
(* 13 on), its zisofs entry and its bytes.                                     *)
Zis == <<[zisofs |-> TRUE], [ptr |-> 5], [ptr |-> 6], [ptr |-> 6], [ptr |-> 8]>> \o Stream(<<1, 2>>, 1) \o Stream(<<3>>, 2)
Files ==
    {[ex |-> <<[lba |-> 13, len |-> 0]>>, data |-> <<>>, zf |-> <<>>, bytes |-> <<>>],
     [ex |-> <<[lba |-> 13, len |-> 8]>>, data |-> Stream(<<1, 2, 3, 4, 5, 6, 8, 9>>, 8), zf |-> <<>>, bytes |-> <<1, 2, 3, 4, 5, 6, 8, 9>>],
     [ex |-> <<[lba |-> 13, len |-> 6], [lba |-> 14, len |-> 2]>>, data |-> Stream(<<1, 2, 3, 4, 5, 6, 8, 9>>, 8), zf |-> <<>>,
      bytes |-> <<1, 2, 3, 4, 5, 6, 8, 9>>],
     [ex |-> <<[lba |-> 13, len |-> 8]>>, data |-> Zis, zf |-> <<ZF(1, 5)>>, bytes |-> <<1, 2, 0, 0, 3>>]}
Zipped == CHOOSE a \in Files : a.zf # <<>>
Split == CHOOSE a \in Files : Len(a.ex) = 2

(* Symlink l: the entries of its record, of the continuation areas in sector  *)
(* 10 (two areas, at 0 and 3), and its target.                                *)
Links ==
    {[su |-> <<NM(<<"l">>), SL(<<Comp("root", FALSE, <<>>), Comp("name", FALSE, <<"x">>), Comp("parent", FALSE, <<>>)>>)>>,
      ce |-> <<>>, target |-> <<"/", "x", "/", "..">>],
     [su |-> <<CE(10, 0, 3), NM(<<"l">>), SL(<<Comp("name", TRUE, <<"x">>)>>)>>,
      ce |-> <<SL(<<Comp("name", FALSE, <<"y">>), Comp("current", FALSE, <<>>)>>), [sig |-> "ST"], SL(<<>>)>>,
      target |-> <<"x", "y", "/", ".">>],
     [su |-> <<NM(<<>>), CE(10, 0, 3)>>,
      ce |-> <<NM(<<"l">>), SL(<<Comp("name", TRUE, <<"x">>)>>), CE(10, 3, 2),
               SL(<<Comp("name", FALSE, <<"y">>)>>), [sig |-> "PX"]>>,
      target |-> <<"x", "y">>]}
Hops(n) == CHOOSE l \in Links : Len(SelectSeq(l.su \o l.ce, LAMBDA c : c.sig = "CE")) = n

(* El Torito: a catalog for sector 11, the first cell of the image it names   *)
(* (sector 12), and the image to be found.                                    *)
Val(p) == [key |-> TRUE, platform |-> p]
Entry(b, sectors) == [bootable |-> b, sectors |-> sectors, lba |-> 12]
Section(s, p, n) == [section |-> s, platform |-> p, n |-> n]
Fat(t16, t32, scale) == [fat |-> TRUE, total16 |-> t16, total32 |-> t32, scale |-> scale]
Found(n) == <<[lba |-> 12, sectors |-> n]>>
Boots ==
    {[cat |-> <<>>, boot |-> Pad, uefi |-> <<>>],
     [cat |-> <<Val("uefi"), Entry(TRUE, 4)>>, boot |-> Fat(9, 0, 1), uefi |-> Found(4)],
     [cat |-> <<Val("bios"), Entry(TRUE, 4), Section("more", "bios", 1), Entry(TRUE, 9), Section("last", "uefi", 1), Entry(TRUE, 1)>>,
      boot |-> Fat(3, 0, 2), uefi |-> Found(6)],
     [cat |-> <<Val("bios"), Entry(TRUE, 4), Section("last", "uefi", 2), Entry(FALSE, 9), Entry(TRUE, 0)>>,
      boot |-> Fat(0, 7, 1), uefi |-> Found(7)],
     [cat |-> <<Val("bios"), Entry(TRUE, 4), Section("last", "bios", 1), Entry(TRUE, 9)>>, boot |-> Fat(3, 0, 1), uefi |-> <<>>],
     [cat |-> <<Val("uefi"), Entry(TRUE, 1)>>, boot |-> Pad, uefi |-> Found(1)]}
NoBoot == CHOOSE b \in Boots : b.cat = <<>>

-----------------------------------------------------------------------------
Ident(kind, x) == IF kind = "joliet" THEN <<x>> ELSE <<x, ".", ";", "1">>

(* The tree, by the keys of a, d, l, e and f. *)
Truth(rr, a, l, ka, kd, kl, ke, kf) ==
    LET nm(x, y) == IF rr THEN <<y>> ELSE <<x>>
        names == <<nm("a", "A"), nm("d", "D")>> \o (IF rr THEN <<<<"l">>, <<"E">>>> ELSE <<>>)
        file(bytes) == [kind |-> "file", bytes |-> bytes]
    IN  [k \in {ROOT_KEY, ka, kd, kf} \cup (IF rr THEN {kl, ke} ELSE {}) |->
           CASE k = ROOT_KEY -> [kind |-> "dir", names |-> names,
                                 child |-> [x \in ToSet(names) |->
                                    CASE x = nm("a", "A") -> ka [] x = nm("d", "D") -> kd [] x = <<"l">> -> kl [] OTHER -> ke]]
             [] k = ka -> file(a.bytes)
             [] k = kd -> [kind |-> "dir", names |-> <<nm("f", "F")>>, child |-> [x \in {nm("f", "F")} |-> kf]]
             [] k = kf -> file(<<7>>)
             [] OTHER -> IF k = kl THEN [kind |-> "symlink", target |-> l.target] ELSE file(<<>>)]

Assembled(kind, a, l, b, root, ddir) ==
    LET svd == IF kind = "joliet" THEN Vd(2, BS, 5, Len(root), 0, TRUE) ELSE Vd(2, BS, 9, BS, 0, FALSE)
        pvd == IF kind = "joliet" THEN Vd(1, BS, 9, BS, 0, FALSE) ELSE Vd(1, BS, 5, Len(root), 0, FALSE)
        boot == IF b.cat = <<>> THEN Vd(3, BS, 0, 0, 0, FALSE) ELSE Vd(0, BS, 0, 0, 11, TRUE)
        sector(cells, n) == cells \o [i \in 1..n * BS - Len(cells) |-> Pad]
        disk == sector(<<>>, 1) \o pvd \o boot \o svd \o Vd(255, 0, 0, 0, 0, FALSE)
                \o sector(root, 4) \o ddir \o sector(l.ce, 1) \o sector(b.cat, 1) \o sector(<<b.boot>>, 1)
                \o sector(a.data, 2) \o Stream(<<7>>, 1)
        key(lba, dir, x) == <<lba, (CHOOSE i \in DOMAIN dir : /\ dir[i] # Pad /\ "fi" \in DOMAIN dir[i] /\ dir[i].fi = x
                                     /\ \A j \in 1..i - 1 : "fi" \in DOMAIN dir[j] => dir[j].fi # x) - 1>>
        fi(x) == Ident(kind, x)
    IN  [disk |-> disk, intact |-> TRUE, root |-> ROOT_KEY, uefi |-> b.uefi,
         truth |-> Truth(kind = "rr", a, l, key(5, root, fi("a")), key(5, root, <<"d">>), key(5, root, fi("l")),
                         key(5, root, fi("e")), key(9, ddir, fi("f")))]

(* The root, in sector 5, has the file a, a directory d (sector 9) with a     *)
(* file f, and with Rock Ridge a symlink l and an empty file e whose extent   *)
(* is the symlink's.  kind is the tree the volume is read by: "rr", "joliet"  *)
(* (with plain names in the primary tree) or "base".                          *)
Image(kind, skip, a, l, b) ==
    LET rr == kind = "rr"
        su(x) == IF rr THEN [i \in 1..skip |-> [sig |-> "ST"]] \o x ELSE <<>>
        fi(x) == Ident(kind, x)
        dots(lba, sp) == <<Rec(<<"NUL">>, TRUE, FALSE, lba, BS, sp), Rec(<<"SOH">>, TRUE, FALSE, 5, BS, <<>>)>>
        arecs == [i \in DOMAIN a.ex |-> Rec(fi("a"), FALSE, i < Len(a.ex), a.ex[i].lba, a.ex[i].len, su(<<NM(<<"A">>)>> \o a.zf))]
        recs == dots(5, IF rr THEN <<SP(skip)>> ELSE <<>>) \o arecs
                \o <<Rec(<<"d">>, TRUE, FALSE, 9, BS, su(<<NM(<<"D">>)>>))>>
                \o (IF rr THEN <<Rec(fi("l"), FALSE, FALSE, 15, 0, su(l.su)), Rec(fi("e"), FALSE, FALSE, 15, 0, su(<<NM(<<"E">>)>>))>> ELSE <<>>)
        drecs == dots(9, <<>>) \o <<Rec(fi("f"), FALSE, FALSE, 15, 1, su(<<NM(<<"F">>)>>))>>
    IN  Assembled(kind, a, l, b, Pack(recs), Pack(drecs))

Intact ==
    {Image("rr", 0, a, Hops(0), NoBoot) : a \in Files}
    \cup {Image("rr", 1, Split, l, NoBoot) : l \in {Hops(0), Hops(1)}} \cup {Image("rr", 0, Split, Hops(2), NoBoot)}
    \cup {Image(k, 0, Split, Hops(0), b) : k \in {"joliet", "base"}, b \in Boots}

(* Damage: the device cut short; records, lengths and names that are wrong;   *)
(* continuation areas that are too long, too far away or form a cycle; extent *)
(* chains without their end, too long or broken; zisofs headers and pointers; *)
(* descriptors that are missing or not descriptors.                           *)
Damages(s, z) ==
    LET with(i, f) == {p \in DOMAIN i.disk : f \in DOMAIN i.disk[p]}
        sigs(i, g) == {p \in with(i, "sig") : i.disk[p].sig = g}
        files == {p \in with(s, "dir") : ~ s.disk[p].dir}
    IN  {[s EXCEPT !.disk = SubSeq(@, 1, n)] : n \in {7, 12, 18, 29, 31, 40, 54, 60, 61, 64, 80}}
        \cup {[s EXCEPT !.disk[p].len = n] : p \in with(s, "fi"), n \in {0, 40}}
        \cup {[s EXCEPT !.disk[p].fi = x] : p \in with(s, "fi"), x \in {<<"bad">>, <<"overrun">>, <<"NUL">>}}
        \cup {[s EXCEPT !.disk[p].more = ~ @] : p \in with(s, "more")}
        \cup {[s EXCEPT !.disk[p].fi = <<"a", ".", ";", "1">>, !.disk[p].more = TRUE] : p \in files}
        \cup {[s EXCEPT !.disk = [p \in DOMAIN @ |-> IF p \in with(s, "fi") /\ @[p].fi \in {<<"d">>, <<"a", ".", ";", "1">>}
                                    THEN [@[p] EXCEPT !.fi = <<"a", ".", ";", "1">>, !.dir = FALSE, !.more = TRUE] ELSE @[p]]]}
        \cup {[z EXCEPT !.disk[p].lba = 40] : p \in with(z, "more")}
        \cup {[s EXCEPT !.disk[p] = CE(x[1], x[2], x[3])] : p \in sigs(s, "CE"), x \in {<<10, 0, 3>>, <<10, 3, 0>>, <<10, 3, 7>>, <<40, 0, 1>>}}
        \cup {[s EXCEPT !.disk[p].text = <<"bad">>] : p \in sigs(s, "NM")}
        \cup {[s EXCEPT !.disk[p].id = FALSE] : p \in with(s, "vd")}
        \cup {[s EXCEPT !.disk[p].vd = n] : p \in with(s, "vd"), n \in {3, 255}}
        \cup {[s EXCEPT !.disk[p].bs = 0] : p \in with(s, "vd")}
        \cup {[s EXCEPT !.disk[p].size = 30] : p \in with(s, "size")}
        \cup {[z EXCEPT !.disk[p].ptr = n] : p \in with(z, "ptr"), n \in {0, 7, 30, 50}}
        \cup {[z EXCEPT !.disk[p] = e] : p \in sigs(z, "ZF"), e \in {ZF(31, 5), ZF(1, 60), ZF(2, 5)}}
        \cup {[z EXCEPT !.disk[p] = Pad] : p \in with(z, "zisofs") \cup with(z, "key")}
        \cup {[z EXCEPT !.disk[p].cat = 40] : p \in with(z, "cat")}
        \cup {[z EXCEPT !.disk[p] = Fat(t[1], t[2], t[3])] : p \in with(z, "fat"), t \in {<<0, 0, 1>>, <<40, 0, 2>>, <<3, 0, 0>>}}

Volumes ==
    Intact \cup Damages([Image("rr", 0, Split, Hops(2), NoBoot) EXCEPT !.intact = FALSE],
                        [Image("rr", 0, Zipped, Hops(1), CHOOSE b \in Boots : b.uefi = Found(6)) EXCEPT !.intact = FALSE])
=============================================================================
