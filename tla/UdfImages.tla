----------------------------- MODULE UdfImages -----------------------------
(***************************************************************************)
(* UDF images as mkudffs lays them out: anchor, volume descriptors, and a   *)
(* partition with the file set, the File Entries and the data.              *)
(***************************************************************************)
EXTENDS Cells, SequencesExt

CONSTANTS SECTOR, AVDP_SECTOR

NoAd == [etype |-> 0, len |-> 0, block |-> 0]
Sector(cells) == cells \o [i \in 1..SECTOR - Len(cells) |-> NoAd]
Sectors(cells) == cells \o [i \in 1..CeilDiv(Len(cells), SECTOR) * SECTOR - Len(cells) |-> NoAd]

(* A File Entry (tag 261) or an Extended one (266) with l_ea cells of extended *)
(* attributes, and its allocation descriptors or inline data.                  *)
Fe(tag, ft, ad, info, l_ea, area) ==
    Sector(<<[tag |-> tag, ft |-> ft, ad |-> ad, info |-> info, l_ea |-> l_ea, l_ad |-> Len(area)]>>
           \o [i \in 1..(IF tag = 261 THEN 0 ELSE 1) + l_ea |-> NoAd] \o area)
Ad(etype, len, block) == [etype |-> etype, len |-> len, block |-> block]
Long(ads) == FlattenSeq([i \in DOMAIN ads |-> <<ads[i], NoAd>>])

Fid(fc, icb, l_iu, name) ==
    LET cells == <<[tag |-> 257, fc |-> fc, icb |-> icb, l_fi |-> Len(name), l_iu |-> l_iu]>>
                 \o [i \in 1..l_iu |-> NoAd] \o name
    IN  IF Len(cells) % 2 = 0 THEN cells ELSE Append(cells, NoAd)
Name(comp, s) == <<[comp |-> comp, name |-> s]>>

(* How file a is stored: its entry's descriptors or inline bytes, the cells of *)
(* its data (from block 11 of the partition on), and its bytes.                *)
One == <<1, 2, 3, 4, 5, 6>>
Files ==
    {[tag |-> 261, ad |-> 3, l_ea |-> 0, area |-> Stream(<<1, 2, 3>>, 3), bytes |-> <<1, 2, 3>>],
     [tag |-> 266, ad |-> 3, l_ea |-> 1, area |-> Stream(<<1, 2>>, 2), bytes |-> <<1, 2>>],
     [tag |-> 261, ad |-> 0, l_ea |-> 1, area |-> <<>>, bytes |-> <<>>],
     [tag |-> 261, ad |-> 0, l_ea |-> 0, area |-> <<Ad(0, 6, 11), Ad(1, 6, 0), Ad(0, 2, 12)>>,
      bytes |-> One \o [i \in 1..6 |-> 0] \o <<8, 9>>],
     [tag |-> 266, ad |-> 0, l_ea |-> 1, area |-> <<Ad(1, 6, 0), Ad(0, 6, 11), NoAd>>, bytes |-> [i \in 1..6 |-> 0] \o One],
     [tag |-> 261, ad |-> 1, l_ea |-> 0, area |-> Long(<<Ad(0, 6, 11), Ad(0, 2, 12)>>), bytes |-> One \o <<8, 9>>],
     [tag |-> 261, ad |-> 0, l_ea |-> 0, area |-> <<Ad(0, 8, 11)>>, bytes |-> One \o <<8, 9>>]}

(* The last node o of the root: a device, or a symlink whose path components  *)
(* are inline.                                                                *)
Device == [ft |-> 7, area |-> <<>>, is |-> [kind |-> "other"]]
Link == [ft |-> 12, area |-> Stream(<<4>>, 1), is |-> [kind |-> "symlink", target |-> <<4>>]]

(* The root has the file a, a directory d with a file f, a hard link h to a   *)
(* and the node o; ds are the volume descriptors before the terminator.       *)
Image(a, o, ds) ==
    LET part == AVDP_SECTOR + 2 + Len(ds)
        fids == Fid("parent", 1, 0, <<>>) \o Fid("live", 5, 0, Name(8, "a")) \o Fid("deleted", 5, 0, Name(8, "x"))
                \o Fid("live", 6, 1, Name(16, "d")) \o Fid("live", 5, 0, Name(8, "h")) \o Fid("live", 8, 0, Name(8, "o"))
        ffid == Fid("parent", 1, 0, <<>>) \o Fid("live", 7, 0, Name(8, "f"))
        lvd == [tag |-> 6, lbs |-> SECTOR, fsd |-> 0]
        vds == [i \in DOMAIN ds |-> CASE ds[i] = "part" -> [tag |-> 5, start |-> part] [] ds[i] = "lvd" -> lvd [] OTHER -> [tag |-> 1]]
        disk == FlattenSeq([i \in 1..AVDP_SECTOR |-> Sector(<<>>)])
                \o Sector(<<[tag |-> 2, len |-> (Len(ds) + 1) * SECTOR, loc |-> AVDP_SECTOR + 1]>>)
                \o FlattenSeq([i \in DOMAIN ds |-> Sector(<<vds[i]>>)]) \o Sector(<<[tag |-> 8]>>)
                \o Sector(<<[tag |-> 256, icb |-> 1]>>)                                         \* block 0
                \o Fe(261, 4, 0, Len(fids), 0, <<Ad(0, 6, 2), Ad(0, Len(fids) - 6, 3)>>)        \* 1
                \o Sectors(fids)                                                                \* 2, 3, 4
                \o Fe(a.tag, 5, a.ad, Len(a.bytes), a.l_ea, a.area)                             \* 5
                \o Fe(261, 4, 3, Len(ffid), 0, ffid)                                            \* 6
                \o Fe(261, 5, 0, 1, 0, <<Ad(0, 1, 9)>>)                                         \* 7
                \o Fe(261, o.ft, 3, Len(o.area), 0, o.area)                                     \* 8
                \o Sector(Stream(<<7>>, 1)) \o Sector(<<>>)                                     \* 9, 10
                \o Stream(One, 6) \o Sectors(Stream(<<8, 9>>, 2))                               \* 11, 12
        at(k) == part + k
        names == <<"a", "d", "h", "o">>
        file(b) == [kind |-> "file", bytes |-> b]
    IN  [disk |-> disk, intact |-> TRUE, root |-> at(1), part |-> part,
         truth |->
           [p \in {at(k) : k \in {1, 5, 6, 7, 8}} |->
              CASE p = at(1) -> [kind |-> "dir", names |-> names,
                                 child |-> [x \in ToSet(names) |->
                                    CASE x = "d" -> at(6) [] x = "o" -> at(8) [] OTHER -> at(5)]]
                [] p = at(5) -> file(a.bytes)
                [] p = at(6) -> [kind |-> "dir", names |-> <<"f">>, child |-> [x \in {"f"} |-> at(7)]]
                [] p = at(7) -> file(<<7>>)
                [] p = at(8) -> o.is]]

Intact ==
    LET a1 == CHOOSE a \in Files : a.ad = 1
        usual == <<"part", "lvd">>
    IN  {Image(v[1], v[2], v[3]) : v \in
            (Files \X {Device} \X {usual})
            \cup ({a1} \X {Device} \X {<<"pvd", "lvd", "part">>, <<"part", "pvd", "part", "lvd">>})
            \cup {<<a1, Link, usual>>}}

(* Damage: the device cut short, a wrong tag, a descriptor missing, an address *)
(* or a length too large, a name that cannot be decoded.                       *)
Damages(s) ==
    LET with(f) == {p \in DOMAIN s.disk : f \in DOMAIN s.disk[p]}
        mapped == {p \in with("ad") : s.disk[p].ad # 3}
    IN  {[s EXCEPT !.disk = SubSeq(@, 1, n * (SECTOR \div 2) + 1)] : n \in 0..2 * (Len(s.disk) \div SECTOR) - 1}
        \cup {[s EXCEPT !.disk[p] = [tag |-> 3]] : p \in with("tag")}
        \cup {[s EXCEPT !.disk[p].icb = n] : p \in with("icb"), n \in {4, 60}}
        \cup {[s EXCEPT !.disk[p].l_ad = n] : p \in mapped, n \in {1, 6}}
        \cup {[s EXCEPT !.disk[p].info = n] : p \in with("info"), n \in {2, 30}}
        \cup {[s EXCEPT !.disk[p].ad = n] : p \in mapped, n \in {1, 2}}
        \cup {[s EXCEPT !.disk[p] = Ad(n, 1, 50)] : p \in {q \in with("etype") : s.disk[q].len > 0}, n \in {0, 3}}
        \cup {[s EXCEPT !.disk[p].l_iu = 9] : p \in with("l_iu")}
        \cup {[s EXCEPT !.disk[p] = [comp |-> n, name |-> "bad"]] : p \in with("comp"), n \in {9, 16}}
        \cup {[s EXCEPT !.disk[p].lbs = n] : p \in with("lbs"), n \in {0, 3}}
        \cup {[s EXCEPT !.disk[p].fsd = 1] : p \in with("fsd")}

Sample == Image(CHOOSE a \in Files : Len(a.area) = 3 /\ a.tag = 261 /\ a.ad = 0, Device, <<"part", "lvd">>)
Volumes == Intact \cup Damages([Sample EXCEPT !.intact = FALSE])
=============================================================================
