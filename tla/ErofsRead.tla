------------------------------ MODULE ErofsRead ------------------------------
(***************************************************************************)
(* lamfold-erofs's erofs.rs: reading a file.  read_at works block by block: *)
(* it materialises a whole block, shows it to the verifier and only then    *)
(* copies the part the caller asked for.  A compressed file is decoded as a *)
(* whole, pcluster by pcluster, the first time one of its blocks is needed, *)
(* and the result is kept for later calls.  A call may fail at any device   *)
(* read; the next call starts from whatever the failed one left behind.     *)
(*                                                                          *)
(* A volume holds one file.  Addresses count from 0, sequences from 1, and  *)
(* a byte is a cell of Verity.  Its fields: bs the block size, size the     *)
(* inode's, dir whether it is a directory's, layout, raw_blkaddr,           *)
(* inline_off, and the chunk format and chunk with their table as in the    *)
(* inode, disk the bytes of the device, and heads the pclusters the index   *)
(* names: where each starts in the file, how it is stored and what the      *)
(* stream in its span decompresses to (the codecs are external, and so is   *)
(* where in the padded span the stream starts).                             *)
(***************************************************************************)
EXTENDS Verity, Integers

CONSTANTS Volumes,              \* the volumes considered
          Genuine,              \* the file each volume was made from
          Calls,                \* the calls: [off, len] of read_at
          MaxCalls,             \* bound: calls per behaviour
          MAX_BOOT_FILE_BYTES,
          MAX_DECOMPRESSED_BLOCK_BYTES,
          NULL_BLKADDR

Byte == [1..1 -> Nat]
Heads == [start : Nat, algo : {"plain", "lz4", "deflate", "lzma", "zstd"}, yields : Seq(Byte)]
Layouts == {"plain", "inline", "chunk", "compressed", "unknown"}
Formats == {"addresses", "unknown bits", "48bit", "implausible", "indexes"}

ASSUME VolumesAssumption ==
    \A v \in Volumes :
        /\ v.bs \in Nat \ {0} /\ v.size \in Nat /\ v.layout \in Layouts
        /\ v.raw_blkaddr \in Nat /\ v.inline_off \in Nat
        /\ v.format \in Formats /\ v.chunk \in Nat \ {0} /\ v.table \in Seq(Nat)
        /\ v.disk \in Seq(Byte) /\ v.heads \in Seq(Heads)
        /\ Genuine[v] \in Seq(Byte)

ASSUME CallsAssumption == Calls \subseteq [off : Nat, len : Nat]

VARIABLES vol,
          verifier,   \* "merkle" (over the genuine file) or "none"
          calls,      \* calls made so far
          call,       \* the call under way, or the last one
          pc,         \* idle -> block <-> decode -> idle
          blk,        \* block_start
          buf,        \* what the caller's buffer holds, by position; <<>> unset
          produced,
          decoded,    \* the decoded-file cache's entry for the file
          dec,        \* materialize_compressed: next head and output so far
          result      \* of the last call: "none", "ok" or the error

vars == <<vol, verifier, calls, call, pc, blk, buf, produced, decoded, dec, result>>

NotDecoded == <<"not decoded">>
Unset == <<>>
NoCall == [off |-> 0, len |-> 0]
NoDec == [k |-> 1, out |-> <<>>]

Compressed == vol.layout = "compressed"
End == LeastOf(call.off + call.len, vol.size)
BlockLen == LeastOf(vol.bs, vol.size - blk)

Init ==
    /\ vol \in Volumes
    /\ verifier \in {"merkle", "none"}
    /\ calls = 0
    /\ call = NoCall
    /\ pc = "idle"
    /\ blk = 0
    /\ buf = <<>>
    /\ produced = 0
    /\ decoded = NotDecoded
    /\ dec = NoDec
    /\ result = "none"

Return(r) ==
    /\ pc' = "idle"
    /\ result' = r
    /\ dec' = NoDec
    /\ UNCHANGED <<vol, verifier, calls, call, blk, buf, produced, decoded>>

(* read_at's prologue: a directory is refused, and at or past the end it     *)
(* returns 0 bytes at once.                                                  *)
ReadAt(c) ==
    /\ pc = "idle"
    /\ calls < MaxCalls
    /\ calls' = calls + 1
    /\ call' = c
    /\ buf' = [i \in 1..c.len |-> Unset]
    /\ produced' = 0
    /\ \/ vol.dir /\ pc' = "idle" /\ result' = "IsDirectory" /\ UNCHANGED blk
       \/ ~ vol.dir /\ c.off >= vol.size /\ pc' = "idle" /\ result' = "ok" /\ UNCHANGED blk
       \/ /\ ~ vol.dir
          /\ c.off < vol.size
          /\ pc' = "block"
          /\ result' = "none"
          /\ blk' = (c.off \div vol.bs) * vol.bs
    /\ UNCHANGED <<vol, verifier, decoded, dec>>

-----------------------------------------------------------------------------
(* read_inode_data: the layouts and the chunk formats it refuses unread. *)
ChunkRefusal ==
    CASE vol.format \in {"unknown bits", "implausible"} -> "Corrupt"
      [] vol.format \in {"48bit", "indexes"}           -> "Unsupported"
      [] vol.format = "addresses"                      -> "none"
Refusal ==
    IF vol.layout = "unknown" THEN "Unsupported" ELSE IF vol.layout = "chunk" THEN ChunkRefusal ELSE "none"

(* Where byte p of the file is on the device, by layout. *)
FullBytes == (vol.size \div vol.bs) * vol.bs
(* A mutant of ChunkAddr: the table is indexed by block. *)
ChunkAddrByBlock(p) == vol.table[LeastOf(p \div vol.bs + 1, Len(vol.table))]

ChunkAddr(p) == vol.table[p \div vol.chunk + 1]
DiskAddr(p) ==
    CASE vol.layout = "plain"  -> vol.raw_blkaddr * vol.bs + p
      [] vol.layout = "inline" -> IF p < FullBytes THEN vol.raw_blkaddr * vol.bs + p
                                                   ELSE vol.inline_off + (p - FullBytes)
      [] vol.layout = "chunk"  -> ChunkAddr(p) * vol.bs + (p % vol.chunk)
IsHole(p) == vol.layout = "chunk" /\ ChunkAddr(p) = NULL_BLKADDR

BlockRange == blk..blk + BlockLen - 1
Readable ==
    IF Compressed THEN blk + BlockLen <= Len(decoded)
    ELSE /\ vol.layout = "chunk" => (blk + BlockLen - 1) \div vol.chunk < Len(vol.table)
         /\ \A p \in BlockRange : ~ IsHole(p) => DiskAddr(p) < Len(vol.disk)
ByteAt(p) ==
    IF Compressed THEN decoded[p + 1]
    ELSE IF IsHole(p) THEN Zero
    ELSE vol.disk[DiskAddr(p) + 1]
Block == [i \in 1..BlockLen |-> ByteAt(blk + i - 1)]

(* A mutant of Verified: the verifier is not asked. *)
VerifiedAlways == TRUE

Verified ==
    \/ verifier = "none"
    \/ VerifyBlock(Leaves(Genuine[vol], vol.bs), vol.bs, blk, Block) = "ok"

InBlock == pc = "block" /\ blk < End /\ (Compressed => decoded # NotDecoded)

(* A block is read and verified, then the caller's part of it is copied. *)
Copied == [i \in 1..call.len |->
             IF call.off + i - 1 \in BlockRange /\ call.off + i - 1 < End
               THEN Block[call.off + i - blk] ELSE buf[i]]

Overlap == LeastOf(End, blk + BlockLen) - (IF call.off > blk THEN call.off ELSE blk)

CopyBlock ==
    /\ InBlock
    /\ Refusal = "none"
    /\ Readable
    /\ Verified
    /\ buf' = Copied
    /\ produced' = produced + Overlap
    /\ blk' = blk + vol.bs
    /\ UNCHANGED <<vol, verifier, calls, call, pc, decoded, dec, result>>

BlockFails ==
    /\ InBlock
    /\ \/ Refusal # "none" /\ Return(Refusal)
       \/ Refusal = "none" /\ ~ Readable /\ Return(IF Compressed THEN "Corrupt" ELSE "Io")
       \/ Refusal = "none" /\ Readable /\ ~ Verified /\ Return("VerifyFailed")

ReadDone == pc = "block" /\ blk >= End /\ Return("ok")

-----------------------------------------------------------------------------
(* materialize_compressed: the size is capped before anything is allocated;  *)
(* then the header and the index are read, and refused if they are of a kind *)
(* the reader does not support or malformed.                                 *)
Materialise ==
    /\ pc = "block"
    /\ blk < End
    /\ Compressed
    /\ decoded = NotDecoded
    /\ \/ vol.size > MAX_BOOT_FILE_BYTES /\ Return("FileTooLarge")
       \/ /\ vol.size <= MAX_BOOT_FILE_BYTES
          /\ ~ vol.supported
          /\ \E e \in {"Unsupported", "Corrupt"} : Return(e)
       \/ /\ vol.size <= MAX_BOOT_FILE_BYTES
          /\ vol.supported
          /\ pc' = "decode"
          /\ UNCHANGED <<vol, verifier, calls, call, blk, buf, produced, decoded, dec, result>>

Head_ == vol.heads[dec.k]
NextStart == IF dec.k = Len(vol.heads) THEN vol.size ELSE vol.heads[dec.k + 1].start
OutLen == NextStart - Head_.start
Decoding == pc = "decode" /\ dec.k <= Len(vol.heads)

(* decode_pcluster: a plain pcluster is cut to the output length, LZ4 and    *)
(* deflate must yield exactly that, MicroLZMA at least that, and zstd stops  *)
(* there but may stop earlier.                                               *)
DecodePcluster(head, n) ==
    LET exact == Len(head.yields) = n
        enough == Len(head.yields) >= n
    IN  CASE head.algo \in {"lz4", "deflate"} -> IF exact THEN head.yields ELSE NotDecoded
          [] head.algo \in {"plain", "lzma"} -> IF enough THEN SubSeq(head.yields, 1, n) ELSE NotDecoded
          [] head.algo = "zstd" -> SubSeq(head.yields, 1, LeastOf(n, Len(head.yields)))

(* A mutant of SkipEmptyHead: the loop does not advance. *)
SkipEmptyHeadStuck == Decoding /\ OutLen = 0 /\ UNCHANGED vars

SkipEmptyHead ==
    /\ Decoding
    /\ OutLen = 0
    /\ dec' = [dec EXCEPT !.k = @ + 1]
    /\ UNCHANGED <<vol, verifier, calls, call, pc, blk, buf, produced, decoded, result>>

DecodeHead ==
    /\ Decoding
    /\ OutLen \in 1..MAX_DECOMPRESSED_BLOCK_BYTES
    /\ DecodePcluster(Head_, OutLen) # NotDecoded
    /\ dec' = [k |-> dec.k + 1, out |-> dec.out \o DecodePcluster(Head_, OutLen)]
    /\ UNCHANGED <<vol, verifier, calls, call, pc, blk, buf, produced, decoded, result>>

DecodeFails ==
    /\ Decoding
    /\ \/ OutLen < 0 /\ Return("Corrupt")
       \/ OutLen > MAX_DECOMPRESSED_BLOCK_BYTES /\ Return("FileTooLarge")
       \/ /\ OutLen \in 1..MAX_DECOMPRESSED_BLOCK_BYTES
          /\ DecodePcluster(Head_, OutLen) = NotDecoded
          /\ \E e \in {"Corrupt", "Decompress"} : Return(e)

(* Only a file decoded to its last head enters the cache. *)
DecodeDone ==
    /\ pc = "decode"
    /\ dec.k > Len(vol.heads)
    /\ decoded' = dec.out
    /\ pc' = "block"
    /\ dec' = NoDec
    /\ UNCHANGED <<vol, verifier, calls, call, blk, buf, produced, result>>

(* A read of the device fails: of a block, of the compression header or of   *)
(* a pcluster.  What is in the decoded cache needs no device.                *)
ReadsDevice ==
    \/ InBlock /\ ~ Compressed /\ Refusal = "none"
    \/ /\ pc = "block" /\ blk < End
       /\ Compressed /\ decoded = NotDecoded /\ vol.size <= MAX_BOOT_FILE_BYTES
    \/ Decoding /\ OutLen > 0
(* A mutant of IoError: a partial decode is cached. *)
IoErrorKeepsPart ==
    /\ ReadsDevice
    /\ pc' = "idle"
    /\ result' = "Io"
    /\ decoded' = IF pc = "decode" THEN dec.out ELSE decoded
    /\ dec' = NoDec
    /\ UNCHANGED <<vol, verifier, calls, call, blk, buf, produced>>

IoError == ReadsDevice /\ Return("Io")

Step ==
    \/ CopyBlock \/ BlockFails \/ ReadDone \/ Materialise
    \/ SkipEmptyHead \/ DecodeHead \/ DecodeFails \/ DecodeDone
    \/ IoError

Next == Step \/ \E c \in Calls : ReadAt(c)

(* A call is a plain loop that runs until it returns. *)
Spec == Init /\ [][Next]_vars /\ WF_vars(Step)

-----------------------------------------------------------------------------
(* With a verifier over the genuine file, no byte reaches the caller that is *)
(* not the genuine file's byte at that offset, whatever the volume holds,    *)
(* and not even in a call that fails later on (erofs.rs:718, "before any     *)
(* byte is surfaced").                                                       *)
TrueByte(p) == IF p < Len(Genuine[vol]) THEN Genuine[vol][p + 1] ELSE Zero
SurfacedIsTrusted ==
    verifier = "merkle" =>
        \A i \in 1..Len(buf) : buf[i] # Unset => buf[i] = TrueByte(call.off + i - 1)

(* An intact volume stores the file it was made from, as the format lays it  *)
(* out: each byte in its block, in the tail behind the inode or in its       *)
(* chunk, or the pclusters' streams end to end.                              *)
Holds(f, addr, p) == addr < Len(vol.disk) /\ vol.disk[addr + 1] = f[p + 1]
HoldsChunked(f, p) ==
    /\ p \div vol.chunk < Len(vol.table)
    /\ LET a == vol.table[p \div vol.chunk + 1]
       IN  IF a = NULL_BLKADDR THEN f[p + 1] = Zero ELSE Holds(f, a * vol.bs + (p % vol.chunk), p)
HeadEnd(k) == IF k = Len(vol.heads) THEN vol.size ELSE vol.heads[k + 1].start
HoldsPacked(f) ==
    /\ IF vol.heads = <<>> THEN vol.size = 0 ELSE vol.heads[1].start = 0
    /\ \A k \in 1..Len(vol.heads) :
         LET h == vol.heads[k]
         IN  /\ HeadEnd(k) \in h.start..vol.size
             /\ HeadEnd(k) - h.start <= Len(h.yields)
             /\ \A i \in 1..HeadEnd(k) - h.start : h.yields[i] = f[h.start + i]
Stores(f) ==
    /\ Len(f) = vol.size
    /\ CASE vol.layout = "compressed" -> HoldsPacked(f)
         [] vol.layout = "chunk" -> \A p \in 0..vol.size - 1 : HoldsChunked(f, p)
         [] vol.layout = "plain" -> \A p \in 0..vol.size - 1 : Holds(f, vol.raw_blkaddr * vol.bs + p, p)
         [] vol.layout = "inline" ->
              \A p \in 0..vol.size - 1 :
                Holds(f, IF p < (vol.size \div vol.bs) * vol.bs THEN vol.raw_blkaddr * vol.bs + p
                         ELSE vol.inline_off + (p % vol.bs), p)
         [] vol.layout = "unknown" -> FALSE
Intact == Stores(Genuine[vol])

(* A successful read_at fills exactly the part of the request that lies      *)
(* inside the file, from the front and without gaps, on damaged volumes too; *)
(* on an intact one what it fills it with is the file, whichever layout      *)
(* stores it, however often earlier calls failed, and from the cache as from *)
(* the disk.                                                                 *)
Expected ==
    IF call.off >= vol.size THEN 0 ELSE LeastOf(call.len, vol.size - call.off)
ReadsTheFile ==
    result = "ok" =>
        /\ produced = Expected
        /\ \A i \in 1..Len(buf) : (buf[i] = Unset) <=> i > produced
        /\ Intact => \A i \in 1..produced : buf[i] = Genuine[vol][call.off + i]

(* A cached file is a whole file: a decode that failed half way leaves       *)
(* nothing behind that a later call would take for one.                      *)
CacheIsWhole == decoded # NotDecoded /\ Intact => decoded = Genuine[vol]

(* "Decode one pcluster's span to outlen bytes" (erofs.rs:918): a decoded    *)
(* file has the inode's size, so each pcluster's bytes are at their place.   *)
DecodesToOutlen == decoded # NotDecoded => Len(decoded) = vol.size

(* Every call returns. *)
ReadReturns == pc # "idle" ~> pc = "idle"
=============================================================================
