---------------------------- MODULE StreamDecode ----------------------------
(***************************************************************************)
(* lamfold's stream.rs: decode_stream, which decodes one compressed stream  *)
(* of unknown size from the front of an input, stops at the stream's own    *)
(* end, caps the output and reports how much of the input it used.          *)
(*                                                                          *)
(* The decompressors are external.  An input is a codec and a sequence of   *)
(* items, what the format's parser meets next:                              *)
(*   header    a gzip header, a .lzma header, an LZ4 legacy magic, the      *)
(*             start of a zstd frame                                        *)
(*   skippable a zstd skippable frame                                       *)
(*   chunk     n bytes of output from one call of the decompressor (a Read  *)
(*             that returns 0 is the end, so n > 0 but for gzip and LZ4);   *)
(*             for LZ4 one block, which the decompressor writes as a whole  *)
(*   end       the decompressor says the stream (zstd: the frame) is over   *)
(*   trailer   gzip's checksum and size                                     *)
(*   bad       what makes the parser or the decompressor fail: a malformed  *)
(*             header, corrupt or truncated data, a wrong checksum          *)
(*   other     bytes that are not part of the stream                        *)
(***************************************************************************)
EXTENDS Naturals, Sequences, FiniteSets

CONSTANTS Inputs,            \* the inputs considered
          MaxOut,            \* max_out
          LZ4_LEGACY_BLOCK   \* what one LZ4 block may decompress to

ASSUME CapAssumption == MaxOut \in Nat /\ LZ4_LEGACY_BLOCK \in Nat

Items == [t : {"header", "skippable", "chunk", "end", "trailer", "bad", "other"}, n : Nat]

ASSUME InputsAssumption ==
    Inputs \subseteq [codec : {"gzip", "zstd", "xz", "lzma", "lz4", "bzip2", "lzo"},
                      items : Seq(Items)]

VARIABLES input,    \* [codec, items]
          at,       \* the next item: rest in the code, items before it are used
          out,      \* the output: cell <<i, k>> is byte k of item i
          frame,    \* zstd: the current frame's output, pushed when it ends
          frames,   \* zstd: frames decoded
          inside,   \* in a stream (zstd: in a frame), up to its end
          result

vars == <<input, at, out, frame, frames, inside, result>>

Codec == input.codec
Sees(t) == at <= Len(input.items) /\ input.items[at].t = t
Running == result = "none"

Chunk == [k \in 1..input.items[at].n |-> <<at, k>>]
ChunkLen == input.items[at].n

Init ==
    /\ input \in Inputs
    /\ at = 1
    /\ out = <<>>
    /\ frame = <<>>
    /\ frames = 0
    /\ inside = FALSE
    /\ result = "none"

Return(r) == result' = r /\ UNCHANGED <<input, at, out, frame, frames, inside>>

(* bzip2 and lzop are recognised, not decoded. *)
Unsupported == Running /\ Codec \in {"bzip2", "lzo"} /\ Return("Unsupported")

Decodes == Running /\ Codec \notin {"bzip2", "lzo"}

(* A malformed header, corrupt or truncated data, a wrong checksum: the      *)
(* parser meets an item the format has no place for, or the input's end      *)
(* inside a stream.  LZ4 has its own errors below.                           *)
GzipCut == IF at < Len(input.items) THEN input.items[at + 1].t # "trailer" ELSE TRUE
Misplaced ==
    IF inside THEN ~ Sees("chunk") /\ (Sees("end") => Codec = "gzip" /\ GzipCut)
    ELSE IF Codec = "zstd" THEN Sees("bad") ELSE ~ Sees("header")

(* The decompressors' own failures are Decompress; gzip's, the .lzma header  *)
(* and a cut zstd skippable frame are Corrupt.                               *)
Refusal ==
    CASE Codec = "gzip" \/ (Codec = "lzma" /\ ~ inside) -> {"Corrupt"}
      [] Codec = "zstd" /\ ~ inside -> {"Corrupt", "Decompress"}
      [] OTHER -> {"Decompress"}

Fails ==
    /\ Decodes
    /\ Codec # "lz4"
    /\ Misplaced
    /\ \E r \in Refusal : Return(r)

Header ==
    /\ Decodes
    /\ Codec # "lz4"
    /\ ~ inside
    /\ Sees("header")
    /\ inside' = TRUE
    /\ at' = at + 1
    /\ UNCHANGED <<input, out, frame, frames, result>>

(* A mutant of Room: each frame has the whole cap. *)
RoomPerFrame == MaxOut

(* push_capped: the output grows only after the cap was checked.  A zstd     *)
(* frame is first gathered under what the earlier frames left of the cap.    *)
Room == MaxOut - Len(out)
PushChunk ==
    /\ Decodes
    /\ Codec # "lz4"
    /\ inside
    /\ Sees("chunk")
    /\ Len(frame) + ChunkLen <= Room
    /\ IF Codec = "zstd" THEN frame' = frame \o Chunk /\ UNCHANGED out
                         ELSE out' = out \o Chunk /\ UNCHANGED frame
    /\ at' = at + 1
    /\ UNCHANGED <<input, frames, inside, result>>

(* A mutant of TooLarge: off by one at the cap. *)
TooLargeAtCap ==
    /\ Decodes
    /\ Codec # "lz4"
    /\ inside
    /\ Sees("chunk")
    /\ Len(frame) + ChunkLen >= Room
    /\ Return("FileTooLarge")

TooLarge ==
    /\ Decodes
    /\ Codec # "lz4"
    /\ inside
    /\ Sees("chunk")
    /\ Len(frame) + ChunkLen > Room
    /\ Return("FileTooLarge")

(* gzip, xz and lzma are over when their stream is, gzip with its trailer. *)
StreamEnd ==
    /\ Decodes
    /\ Codec \in {"gzip", "xz", "lzma"}
    /\ inside
    /\ Sees("end")
    /\ Codec = "gzip" => ~ GzipCut
    /\ at' = IF Codec = "gzip" THEN at + 2 ELSE at + 1
    /\ inside' = FALSE
    /\ result' = "ok"
    /\ UNCHANGED <<input, out, frame, frames>>

(* zstd: frames, with skippable frames between them, to whatever is neither. *)
FrameEnd ==
    /\ Decodes
    /\ Codec = "zstd"
    /\ inside
    /\ Sees("end")
    /\ out' = out \o frame
    /\ frame' = <<>>
    /\ frames' = frames + 1
    /\ inside' = FALSE
    /\ at' = at + 1
    /\ UNCHANGED <<input, result>>

(* A mutant of SkipFrame: rest stays. *)
SkipNoFrame ==
    /\ Decodes
    /\ Codec = "zstd"
    /\ ~ inside
    /\ Sees("skippable")
    /\ UNCHANGED vars

SkipFrame ==
    /\ Decodes
    /\ Codec = "zstd"
    /\ ~ inside
    /\ Sees("skippable")
    /\ at' = at + 1
    /\ UNCHANGED <<input, out, frame, frames, inside, result>>

(* A mutant of ZstdEnd: stops after a frame though another follows. *)
ZstdEndAfterFrame ==
    /\ Decodes
    /\ Codec = "zstd"
    /\ ~ inside
    /\ \A t \in {"skippable", "bad"} : ~ Sees(t)
    /\ Return(IF frames = 0 THEN "Corrupt" ELSE "ok")

ZstdEnd ==
    /\ Decodes
    /\ Codec = "zstd"
    /\ ~ inside
    /\ \A t \in {"header", "skippable", "bad"} : ~ Sees(t)
    /\ Return(IF frames = 0 THEN "Corrupt" ELSE "ok")

-----------------------------------------------------------------------------
(* lz4_legacy: a magic, then blocks and further magics, to whatever cannot   *)
(* be a block.  Each block is decompressed into the room the cap leaves, at  *)
(* most LZ4_LEGACY_BLOCK; when that fails for want of room or because the    *)
(* block is corrupt, the decompressor's error is the same.                   *)
BlockRoom == IF Room < LZ4_LEGACY_BLOCK THEN Room ELSE LZ4_LEGACY_BLOCK

Lz4Magic ==
    /\ Decodes
    /\ Codec = "lz4"
    /\ Sees("header")
    /\ inside' = TRUE
    /\ at' = at + 1
    /\ UNCHANGED <<input, out, frame, frames, result>>

Lz4Block ==
    /\ Decodes
    /\ Codec = "lz4"
    /\ inside
    /\ Sees("chunk")
    /\ ChunkLen <= BlockRoom
    /\ out' = out \o Chunk
    /\ at' = at + 1
    /\ UNCHANGED <<input, frame, frames, inside, result>>

Lz4Fails ==
    /\ Decodes
    /\ Codec = "lz4"
    /\ \/ ~ inside /\ ~ Sees("header") /\ Return("Corrupt")
       \/ /\ inside
          /\ Sees("bad") \/ (Sees("chunk") /\ ChunkLen > BlockRoom)
          /\ Return(IF BlockRoom < LZ4_LEGACY_BLOCK THEN "FileTooLarge" ELSE "Decompress")

Lz4End ==
    /\ Decodes
    /\ Codec = "lz4"
    /\ inside
    /\ \A t \in {"header", "chunk", "bad"} : ~ Sees(t)
    /\ Return("ok")

Step ==
    \/ Unsupported \/ Fails \/ Header \/ PushChunk \/ TooLarge \/ StreamEnd
    \/ FrameEnd \/ SkipFrame \/ ZstdEnd
    \/ Lz4Magic \/ Lz4Block \/ Lz4Fails \/ Lz4End

Returned == ~ Running /\ UNCHANGED vars

Next == Step \/ Returned

(* decode_stream is one call; its loops run until it returns. *)
Spec == Init /\ [][Next]_vars /\ WF_vars(Step)

-----------------------------------------------------------------------------
(* Never more than max_out bytes are held decoded, a zstd frame being        *)
(* gathered included ("refused ... before it's allocated", stream.rs:57).    *)
WithinCap == Len(out) + Len(frame) <= MaxOut

(* What a call should return, whatever the order it decodes in: the grammar  *)
(* of each codec's streams and the bytes of the items of one.                *)
T(i) == input.items[i].t
N == Len(input.items)

Framed(i, j) == T(i) = "header" /\ T(j) = "end" /\ \A k \in i + 1..j - 1 : T(k) = "chunk"

(* zstd: skippable frames and frames, that is chunks and an end exactly      *)
(* behind a header or a chunk.                                               *)
Opens(i) == T(i) \in {"header", "chunk"}
ZstdItem(i) ==
    IF i > 1 /\ Opens(i - 1) THEN T(i) \in {"chunk", "end"} ELSE T(i) \in {"header", "skippable"}
ZstdFrames(j) == (\A i \in 1..j : ZstdItem(i)) /\ ~ Opens(j)

(* The items 1..j are a whole stream; no longer prefix is one. *)
IsStream(j) ==
    CASE Codec \in {"xz", "lzma"} -> j > 1 /\ Framed(1, j)
      [] Codec = "gzip" -> j > 2 /\ Framed(1, j - 1) /\ T(j) = "trailer"
      [] Codec = "zstd" -> ZstdFrames(j) /\ \E i \in 1..j : T(i) = "end"
      [] Codec = "lz4" -> T(1) = "header" /\ \A i \in 1..j : T(i) \in {"header", "chunk"}
      [] OTHER -> FALSE
Longest(j) == IsStream(j) /\ \A k \in j + 1..N : ~ IsStream(k)

(* The bytes of items 1..j, and the order they have in the stream. *)
CellsOf(i) == {<<i, k>> : k \in 1..input.items[i].n}
CellsTo(j) == UNION {CellsOf(i) : i \in {i \in 1..j : T(i) = "chunk"}}
Precedes(a, b) == a[1] < b[1] \/ (a[1] = b[1] /\ a[2] < b[2])
InOrder(s) == \A q \in 1..Len(s) : \A p \in 1..q - 1 : Precedes(s[p], s[q])
CellsIn(s) == {s[p] : p \in 1..Len(s)}

(* A successful call returns every byte of the stream, once and in order,    *)
(* and says it used exactly the stream: what follows is left to the caller,  *)
(* and no further frame of it is.                                            *)
DecodesTheStream ==
    result = "ok" => /\ at - 1 \in 1..N
                     /\ Longest(at - 1)
                     /\ CellsIn(out) = CellsTo(at - 1)
                     /\ InOrder(out)

(* A stream that fits is not refused: a call fails only when there is no     *)
(* whole stream, something broken follows where a further frame would be, or *)
(* the output is above the cap.                                              *)
BrokenAfter(j) == Codec \in {"zstd", "lz4"} /\ j < N /\ T(j + 1) \in {"bad", "header"}
FailsForAReason ==
    result \notin {"none", "ok"} =>
        \A j \in 1..N : Longest(j) =>
            \/ BrokenAfter(j)
            \/ Cardinality(CellsTo(j)) > MaxOut
            \/ Codec = "lz4" /\ \E i \in 1..j : input.items[i].n > LZ4_LEGACY_BLOCK

(* Every call returns. *)
Terminates == <>(result # "none")
=============================================================================
