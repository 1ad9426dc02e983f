--------------------------- MODULE MCStreamDecode ---------------------------
(***************************************************************************)
(* Inputs of StreamDecode for TLC.                                          *)
(***************************************************************************)
EXTENDS StreamDecode, SequencesExt

CONSTANTS Codecs, MaxPieces

SmallItems ==
    {[t |-> t, n |-> 0] : t \in {"header", "end", "trailer", "skippable", "bad", "other"}}
    \cup {[t |-> "chunk", n |-> n] : n \in {0, 2, 3}}

(* What each codec's parser can meet. *)
Of(c) ==
    {i \in SmallItems : /\ i.t = "skippable" => c = "zstd"
                        /\ i.t = "trailer" => c = "gzip"
                        /\ i.t = "end" => c # "lz4"
                        /\ i.t = "chunk" /\ i.n = 0 => c \in {"gzip", "lz4"}
                        /\ c \in {"bzip2", "lzo"} => i.t = "header"}
(* Inputs are put together from single items and whole frames, so that       *)
(* several frames, what follows them and every cut of one are all there.     *)
Whole(n) == <<[t |-> "header", n |-> 0], [t |-> "chunk", n |-> n], [t |-> "end", n |-> 0]>>
Pieces(c) == {<<i>> : i \in Of(c)} \cup
             (IF c \in {"bzip2", "lzo", "lz4"} THEN {} ELSE {Whole(n) : n \in {2, 3}})
AllInputs ==
    UNION {{[codec |-> c, items |-> FlattenSeq(s)] :
              s \in UNION {[1..k -> Pieces(c)] : k \in 1..MaxPieces}} : c \in Codecs}
=============================================================================
