----------------------------- MODULE Frontends -----------------------------
(***************************************************************************)
(* The frontends side by side: a volume of one of the formats is opened and *)
(* called, and each is held to the contract of FoldFrontend, stated once in *)
(* Frontend for all of them.                                                *)
(***************************************************************************)
EXTENDS FrontendCalls

(* The formats' own constants, as their modules declare them. *)
CONSTANTS MAX_BLOCK_SIZE, FRAGS_PER_BLOCK, NO_FRAGMENT,
          MAX_LINK_HOPS, MAX_ENTRIES,
          PAGE, ROOT_INODE_OFF,
          SECTOR, AVDP_SECTOR, MAX_VDS_SECTORS, ADDRESSES, FID_ALIGN,
          VD_REGION_OFFSET, VD_SIZE, MAX_VD_SCAN, MAX_CONTINUATIONS, MAX_EXTENTS, U32,
          SUPER_OFFSET, NID_LIMIT

ASSUME RomfsAssumption == MAX_LINK_HOPS \in Nat /\ MAX_ENTRIES \in Nat

(* A volume is a device, and numbers are unsigned; there is nothing else that *)
(* an image has to be.                                                        *)
ASSUME SquashImagesAssumption ==
    \A v \in Images.squashfs :
        /\ v.block_size \in Nat
        /\ v.root.off \in Nat
        /\ IsDevice(v.meta) /\ \A i \in DOMAIN v.meta : IsDevice(v.meta[i])

ASSUME CramfsAssumption == PAGE \in Nat \ {0}

ASSUME UdfAssumption == {SECTOR, ADDRESSES, FID_ALIGN} \subseteq Nat \ {0} /\ AVDP_SECTOR \in Nat

ASSUME DisksAssumption == \A f \in {"cramfs", "udf", "iso9660", "erofs"} : \A v \in Images[f] : IsDisk(v.disk)

(* A block size is 1 << blkszbits. *)
ASSUME ErofsAssumption ==
    /\ SUPER_OFFSET \in Nat
    /\ \A v \in Images.erofs : \A i \in DOMAIN v.disk : "magic" \in DOMAIN v.disk[i] => v.disk[i].bs \in Nat \ {0}

ASSUME IsoAssumption == {VD_REGION_OFFSET, MAX_VD_SCAN, MAX_CONTINUATIONS} \subseteq Nat /\ VD_SIZE \in Nat \ {0}

VARIABLE fs         \* the frontend the volume is opened with

Squash == INSTANCE SquashFs WITH Images <- Images.squashfs, Names <- Names.squashfs
Rom == INSTANCE Romfs WITH Images <- Images.romfs, Names <- Names.romfs
Cramfs == INSTANCE Cramfs WITH Images <- Images.cramfs, Names <- Names.cramfs
Udf == INSTANCE Udf WITH Images <- Images.udf, Names <- Names.udf
Iso == INSTANCE Iso9660 WITH Images <- Images.iso9660, Names <- Names.iso9660
Erofs == INSTANCE ErofsTree WITH Images <- Images.erofs, Names <- Names.erofs

MCInit ==
    \/ fs = "squashfs" /\ Squash!Init
    \/ fs = "romfs" /\ Rom!Init
    \/ fs = "cramfs" /\ Cramfs!Init
    \/ fs = "udf" /\ Udf!Init
    \/ fs = "iso9660" /\ Iso!Init
    \/ fs = "erofs" /\ Erofs!Init

MCNext ==
    /\ \/ fs = "squashfs" /\ Squash!Next
       \/ fs = "romfs" /\ Rom!Next
       \/ fs = "cramfs" /\ Cramfs!Next
       \/ fs = "udf" /\ Udf!Next
       \/ fs = "iso9660" /\ Iso!Next
       \/ fs = "erofs" /\ Erofs!Next
       \/ Rest
    /\ UNCHANGED fs

MCVars == <<fs, vars>>
MCSpec == MCInit /\ [][MCNext]_MCVars

-----------------------------------------------------------------------------
(* The refinement mapping. *)
Probe ==
    CASE fs = "squashfs" -> Squash!Probe
      [] fs = "romfs"    -> Rom!Probe
      [] fs = "cramfs"   -> Cramfs!Probe
      [] fs = "udf"      -> Udf!Probe
      [] fs = "iso9660"  -> Iso!Probe
      [] fs = "erofs"    -> Erofs!Probe
Volume == [truth |-> img.truth, intact |-> img.intact, root |-> img.root, probe |-> Probe]
Phase ==
    CASE pc = "failed"   -> "dead"
      [] pc = "panicked" -> "panicked"
      [] pc = "idle"     -> "ready"
      [] Opening         -> "new"
      [] OTHER           -> "busy"

Contract == INSTANCE Frontend WITH vol <- Volume, phase <- Phase, call <- arg, reply <- ret

(* The contract has no panic, but there is one call that may end in one: in   *)
(* cramfs, a read_at below the inode's size and past what the file's pages    *)
(* inflated to (cramfs.rs:196).  Nothing else changes then.                   *)
SlicePanic ==
    /\ fs = "cramfs" /\ arg.op = "read_at"
    /\ Len(out) < arg.off /\ arg.off < Cramfs!Here.val.size
    /\ Phase = "busy" /\ Phase' = "panicked"
    /\ UNCHANGED <<img, ids, arg, ret>>

(* UDF gives symlinks the kind Symlink (udf.rs:124) but no read_link: the     *)
(* default answers None, "if `node` is not a symlink" (frontend.rs:97).       *)
LinkUnread ==
    /\ fs = "udf" /\ img.intact /\ arg.op = "read_link"
    /\ \E k \in DOMAIN ids : ids[k] = arg.node /\ img.truth[k].kind = "symlink"
    /\ Phase = "busy" /\ Phase' = "ready"
    /\ ret' = Good(<<>>)
    /\ UNCHANGED <<img, ids, arg>>

(* Every frontend implements the contract of FoldFrontend (frontend.rs:54):   *)
(* whatever calls came before and whichever of them failed half way, an id    *)
(* stands for the inode it was first given for, listings, lookups, links and  *)
(* windows of files of an intact volume are those of the tree it was made     *)
(* from, an error has its reason in the volume or in a failing device, and on *)
(* a damaged volume too ids are good and no read is longer than its buffer.   *)
(* There are two exceptions, and no other: on a damaged volume SlicePanic,    *)
(* and on UDF's symlinks LinkUnread.                                          *)
Implements ==
    Contract!Init /\ [][Contract!Next \/ (SlicePanic /\ ~ img.intact) \/ LinkUnread]_(Contract!vars)

(* What of it holds on any device, damaged volumes included (frontend.rs:54): *)
(* ids are never given up or given twice, an id that was handed out is never  *)
(* NotFound and one that was not is refused, every id in a reply is a good    *)
(* one, no read is longer than its buffer, and only what probe accepts opens; *)
(* and a call ends in such a reply unless it is cramfs's read_at of a file    *)
(* whose pages came short, at an offset past what they gave (SlicePanic).     *)
SafeOnAnyVolume == Contract!Init /\ [][Contract!SafeNext \/ SlicePanic]_(Contract!vars)

(* What is left of the loop under way, in turns of it. *)
Fuel ==
    CASE fs = "squashfs" -> Squash!Fuel
      [] fs = "romfs"    -> Rom!Fuel
      [] fs = "cramfs"   -> Cramfs!Fuel
      [] fs = "udf"      -> Udf!Fuel
      [] fs = "iso9660"  -> Iso!Fuel
      [] fs = "erofs"    -> Erofs!Fuel

(* Every call comes to an end, on any device (with a reply, or in cramfs by   *)
(* SlicePanic): a step leads to a later stage of the call, or it is a turn of *)
(* its loop and brings that nearer its end; cyclic romfs next pointers        *)
(* (romfs.rs:148), cyclic Rock Ridge continuations (iso9660.rs:280) and empty *)
(* pieces of a file included.                                                 *)
Progress == [][Busy /\ Busy' => \/ Stage' < Stage
                                \/ Stage' = Stage /\ Fuel > 0 /\ Fuel' < Fuel]_MCVars

(* The frontends that number their nodes keep one node per inode, and each    *)
(* node is what the device says of it, whichever calls failed after interning *)
(* some of a directory's entries (squash.rs:394, udf.rs, iso9660.rs).         *)
OneIdPerInode ==
    CASE fs = "squashfs" -> TableIs(Squash!NodeOf)
      [] fs = "udf"      -> TableIs(Udf!NodeOf)
      [] fs = "iso9660"  -> Iso!TableIsRecords
      [] OTHER           -> TRUE

(* A squashfs file's block list, whose length is not stored, covers the file: *)
(* every byte below its size is in a block or in the fragment, so read_at     *)
(* never runs out of blocks, on damaged volumes too (squash.rs:118).          *)
BlocksCoverFile == fs = "squashfs" => Squash!BlocksCoverFile

(* The UEFI boot image of an El Torito catalog is found wherever among the    *)
(* sections it is, and no other platform's is taken for it (el_torito.rs).    *)
FindsUefiImage ==
    fs = "iso9660" /\ pc = "idle" /\ arg.op = "uefi" /\ ret.err = "none" /\ img.intact => ret.val = img.uefi

(* The LZMA window of an EROFS volume is the one of its own configuration,    *)
(* past extension slots and other algorithms' configurations, or none         *)
(* (erofs.rs:329).                                                            *)
LzmaDictIsTheVolumes == fs = "erofs" => Erofs!LzmaDictIsTheVolumes

(* frontend.rs:87: read_at "Returns the number of bytes read (0 at EOF)", or  *)
(* an error; and codec.rs:318: "Hostile input must return (Ok or Err) without *)
(* panicking".  So no call ends in a panic, whatever the device holds.        *)
NeverPanics == pc # "panicked"

(* verify.rs:18: "A frontend calls [`Verifier::verify_block`] for each        *)
(* data/metadata block it surfaces": so what a call on a volume that was      *)
(* changed gives is what the genuine volume holds, or an error.               *)
SurfacedIsGenuine ==
    fs = "erofs" /\ pc = "idle" /\ arg # NoArg /\ ret.err = "none" => Contract!RightAnswer
=============================================================================
