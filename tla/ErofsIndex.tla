----------------------------- MODULE ErofsIndex -----------------------------
(***************************************************************************)
(* lamfold-erofs's erofs.rs: from a compressed file's index to the list of  *)
(* its pclusters.  The FULL index has eight bytes per logical cluster; the  *)
(* COMPACT one is bit-packed, in three zones (4-byte groups up to a 32-byte *)
(* border, 2-byte packs, 4-byte groups), with one base address per group    *)
(* from which the addresses of its pclusters are counted.                   *)
(*                                                                          *)
(* An index is the set of the positions of its 1 bits, counted from its     *)
(* first byte, so that a field read from the wrong place is read as the     *)
(* bits that are there.  An index also carries truth, the pclusters it was  *)
(* made from; only the properties look at it.                               *)
(***************************************************************************)
EXTENDS Integers, Sequences, FiniteSetsExt

CONSTANTS Indexes,              \* the indexes considered
          ADDR_BITS,            \* width of a block address (32 in the code)
          MAX_BOOT_FILE_BYTES

VARIABLES idx,
          pc,           \* start -> unpack -> resolve -> sum -> done, or full -> done
          zone, left,   \* the zone being unpacked, its entries still to come
          pos, rid,     \* byte position in the index, number of the group
          raw,          \* the unpacked entries
          i,            \* the entry being resolved, from 0
          heads,
          region_heads, \* heads met so far in each group
          result

vars == <<idx, pc, zone, left, pos, rid, raw, i, heads, region_heads, result>>

PLAIN == 0
HEAD1 == 1
NONHEAD == 2
HEAD2 == 3
LI_HOLE == 14
COMPACT_LOBITS == 12
COMPACT_ENCBITS == 14
COMPACT_CBLKCNT_FLAG == 2048

CeilDiv(a, b) == (a + b - 1) \div b
LeastOf(a, b) == IF a < b THEN a ELSE b

(* read_bits_lsb, and the from_le_bytes of whole fields. *)
ReadBitsLsb(at, n) == SumSet({2 ^ k : k \in {j \in 0..n - 1 : at + j \in idx.bits}})
BlkAddr(at) == ReadBitsLsb(8 * at, ADDR_BITS)

(* build_heads_compact: entries in each zone, and the bytes they take. *)
C4i == LeastOf(((32 - (idx.ebase % 32)) \div 4) % 8, idx.n_lc)
C2b == ((idx.n_lc - C4i) \div 16) * 16
C4f == idx.n_lc - C4i - C2b
ZoneCount(z) == <<C4i, C2b, C4f>>[z]
(* A mutant of IndexLen: a last group of one entry is not counted. *)
IndexLenFloor == (C4i \div 2) * 8 + (C2b \div 16) * 32 + (C4f \div 2) * 8

IndexLen == CeilDiv(C4i, 2) * 8 + (C2b \div 16) * 32 + CeilDiv(C4f, 2) * 8

Init ==
    /\ idx \in Indexes
    /\ pc = "start"
    /\ zone = 1
    /\ left = 0
    /\ pos = 0
    /\ rid = 0
    /\ raw = <<>>
    /\ i = 0
    /\ heads = <<>>
    /\ region_heads = <<>>
    /\ result = "none"

Finish(r) == pc' = "done" /\ result' = r
Fail(r) == Finish(r) /\ UNCHANGED <<idx, zone, left, pos, rid, raw, i, heads, region_heads>>

StartFull ==
    /\ pc = "start"
    /\ idx.layout = "full"
    /\ pc' = "full"
    /\ UNCHANGED <<idx, zone, left, pos, rid, raw, i, heads, region_heads, result>>

StartCompact ==
    /\ pc = "start"
    /\ idx.layout = "compact"
    /\ IndexLen <= MAX_BOOT_FILE_BYTES
    /\ pc' = "unpack"
    /\ left' = C4i
    /\ UNCHANGED <<idx, zone, pos, rid, raw, i, heads, region_heads, result>>

IndexTooLarge ==
    /\ pc = "start"
    /\ idx.layout = "compact"
    /\ IndexLen > MAX_BOOT_FILE_BYTES
    /\ Fail("FileTooLarge")

(* The device fails under the read of the index or of one FULL entry          *)
(* (external).                                                                *)
IoError ==
    /\ \/ pc = "start" /\ idx.layout = "compact" /\ IndexLen <= MAX_BOOT_FILE_BYTES
       \/ pc = "full" /\ i < idx.n_lc
    /\ Fail("Io")

-----------------------------------------------------------------------------
(* read_4b_groups and read_2b_packs, a group at a time. *)
RawEntry(at, base) ==
    [ty |-> ReadBitsLsb(at + COMPACT_LOBITS, 2), value |-> ReadBitsLsb(at, COMPACT_LOBITS),
     region |-> rid, base |-> base]

Unpack(bytes, entries) ==
    IF pos + bytes > IndexLen THEN Fail("Corrupt")
    ELSE /\ pos' = pos + bytes
         /\ rid' = rid + 1
         /\ raw' = raw \o entries
         /\ left' = left - Len(entries)
         /\ UNCHANGED <<idx, pc, zone, i, heads, region_heads, result>>

Read4bGroup ==
    /\ pc = "unpack"
    /\ zone \in {1, 3}
    /\ left > 0
    /\ Unpack(8, [k \in 1..LeastOf(2, left) |-> RawEntry(8 * pos + 16 * (k - 1), BlkAddr(pos + 4))])

Read2bPack ==
    /\ pc = "unpack"
    /\ zone = 2
    /\ left > 0
    /\ Unpack(32, [k \in 1..LeastOf(16, left) |->
                       RawEntry(8 * pos + COMPACT_ENCBITS * (k - 1), BlkAddr(pos + 28))])

NextZone ==
    /\ pc = "unpack"
    /\ left = 0
    /\ IF zone < 3
         THEN zone' = zone + 1 /\ left' = ZoneCount(zone + 1) /\ UNCHANGED pc
         ELSE pc' = "resolve" /\ UNCHANGED <<zone, left>>
    /\ UNCHANGED <<idx, pos, rid, raw, i, heads, region_heads, result>>

-----------------------------------------------------------------------------
(* resolve_compact_heads. *)
Entry == raw[i + 1]
Start(clusterofs) == IF heads = <<>> THEN 0 ELSE i * idx.lcsize + clusterofs
Overflows(a) == a >= 2 ^ ADDR_BITS
HeadsInRegion(r) == IF r \in DOMAIN region_heads THEN region_heads[r] ELSE 0

CarriesCount == idx.big /\ Entry.value >= COMPACT_CBLKCNT_FLAG /\ heads # <<>>
Cblkcnt == Entry.value % COMPACT_CBLKCNT_FLAG

(* A mutant of ResolveNonHead: continue before the entry is stepped over. *)
ResolveNonHeadStays ==
    /\ pc = "resolve"
    /\ i < Len(raw)
    /\ Entry.ty = NONHEAD
    /\ CarriesCount => Cblkcnt > 0
    /\ heads' = IF CarriesCount THEN [heads EXCEPT ![Len(heads)].cblkcnt = Cblkcnt] ELSE heads
    /\ UNCHANGED <<idx, pc, zone, left, pos, rid, raw, i, region_heads, result>>

ResolveNonHead ==
    /\ pc = "resolve"
    /\ i < Len(raw)
    /\ Entry.ty = NONHEAD
    /\ CarriesCount => Cblkcnt > 0
    /\ heads' = IF CarriesCount THEN [heads EXCEPT ![Len(heads)].cblkcnt = Cblkcnt] ELSE heads
    /\ i' = i + 1
    /\ UNCHANGED <<idx, pc, zone, left, pos, rid, raw, region_heads, result>>

HoleRefused ==
    /\ pc = "resolve"
    /\ i < Len(raw)
    /\ Entry.ty = NONHEAD
    /\ CarriesCount
    /\ Cblkcnt = 0
    /\ Fail("Unsupported")

(* A mutant of HeadAddr: the first head of a group sits at the base itself. *)
HeadAddrAtBase == IF idx.big THEN 0 ELSE Entry.base + HeadsInRegion(Entry.region)

HeadAddr == IF idx.big THEN 0 ELSE Entry.base + 1 + HeadsInRegion(Entry.region)

ResolveHead ==
    /\ pc = "resolve"
    /\ i < Len(raw)
    /\ Entry.ty # NONHEAD
    /\ ~ Overflows(HeadAddr)
    /\ heads' = Append(heads, [start |-> Start(Entry.value), ty |-> Entry.ty,
                               blkaddr |-> HeadAddr, cblkcnt |-> 1])
    /\ region_heads' = IF idx.big THEN region_heads
                       ELSE [r \in DOMAIN region_heads \cup {Entry.region} |->
                               HeadsInRegion(r) + (IF r = Entry.region THEN 1 ELSE 0)]
    /\ i' = i + 1
    /\ UNCHANGED <<idx, pc, zone, left, pos, rid, raw, result>>

HeadOverflows ==
    /\ pc = "resolve"
    /\ i < Len(raw)
    /\ Entry.ty # NONHEAD
    /\ Overflows(HeadAddr)
    /\ Fail("Corrupt")

Resolved ==
    /\ pc = "resolve"
    /\ i = Len(raw)
    /\ IF idx.big THEN pc' = "sum" /\ i' = 0 /\ UNCHANGED result ELSE Finish("ok") /\ UNCHANGED i
    /\ UNCHANGED <<idx, zone, left, pos, rid, raw, heads, region_heads>>

(* Big pclusters: addresses are the running sum of the counts. *)
RunningAddr == IF i = 0 THEN raw[1].base ELSE heads[i].blkaddr + heads[i].cblkcnt

SumAddr ==
    /\ pc = "sum"
    /\ i < Len(heads)
    /\ ~ Overflows(RunningAddr)
    /\ heads' = [heads EXCEPT ![i + 1].blkaddr = RunningAddr]
    /\ i' = i + 1
    /\ UNCHANGED <<idx, pc, zone, left, pos, rid, raw, region_heads, result>>

SumOverflows ==
    /\ pc = "sum"
    /\ i < Len(heads)
    /\ Overflows(RunningAddr)
    /\ Fail("Corrupt")

SumDone ==
    /\ pc = "sum"
    /\ i = Len(heads)
    /\ Finish("ok")
    /\ UNCHANGED <<idx, zone, left, pos, rid, raw, i, heads, region_heads>>

-----------------------------------------------------------------------------
(* build_heads_full. *)
FullType == ReadBitsLsb(64 * i, 2)
FullHole == FullType # NONHEAD /\ 64 * i + LI_HOLE \in idx.bits

FullEntry ==
    /\ pc = "full"
    /\ i < idx.n_lc
    /\ ~ FullHole
    /\ heads' = IF FullType = NONHEAD THEN heads
                ELSE Append(heads, [start |-> Start(ReadBitsLsb(64 * i + 16, 16)), ty |-> FullType,
                                    blkaddr |-> BlkAddr(8 * i + 4), cblkcnt |-> 1])
    /\ i' = i + 1
    /\ UNCHANGED <<idx, pc, zone, left, pos, rid, raw, region_heads, result>>

FullHoleRefused ==
    /\ pc = "full"
    /\ i < idx.n_lc
    /\ FullHole
    /\ Fail("Unsupported")

FullDone ==
    /\ pc = "full"
    /\ i = idx.n_lc
    /\ Finish("ok")
    /\ UNCHANGED <<idx, zone, left, pos, rid, raw, i, heads, region_heads>>

Step ==
    \/ StartFull \/ StartCompact \/ IndexTooLarge
    \/ Read4bGroup \/ Read2bPack \/ NextZone
    \/ ResolveNonHead \/ HoleRefused \/ ResolveHead \/ HeadOverflows \/ Resolved
    \/ SumAddr \/ SumOverflows \/ SumDone
    \/ FullEntry \/ FullHoleRefused \/ FullDone

Next == Step \/ IoError

(* The walk is straight-line code: it goes on until it returns. *)
Spec == Init /\ [][Next]_vars /\ WF_vars(Step)

-----------------------------------------------------------------------------
(* The walk finds the pclusters the index was made from: where each starts in *)
(* the file, its type, the block it is stored at and how many blocks it has,  *)
(* wherever the index lies relative to a 32-byte border, whichever zones and  *)
(* groups the entries fall into, big pclusters or not.                        *)
FindsThePclusters == result = "ok" => heads = idx.truth

(* Only an index with a hole is refused as unsupported, and only one whose    *)
(* addresses leave the address width as corrupt, and those two are never      *)
(* read: in particular the branches of read_4b_groups and read_2b_packs that  *)
(* report a group out of range are never taken.                               *)
RefusedForAReason ==
    /\ result = "Unsupported" => idx.hole
    /\ result = "Corrupt" => idx.overflow
    /\ result = "ok" => ~ idx.hole /\ ~ idx.overflow

(* The walk over the zones, the entries and the heads returns. *)
WalkReturns == <>(pc = "done")
=============================================================================
