------------------------------- MODULE Cells -------------------------------
(***************************************************************************)
(* Results, devices and compressed bytes, as the models of the frontends    *)
(* have them.  A device is a sequence of cells, addressed from 0; a cell is *)
(* a stored byte of a file or a record of the format that is read as one    *)
(* piece.                                                                   *)
(***************************************************************************)
EXTENDS Integers, Sequences, FiniteSetsExt

(* Result<T>: the error, "none" for Ok.  A read past the end of the device,  *)
(* an Io error in the code, is OutOfRange here and Io is a failing device.   *)
Good(v) == [err |-> "none", val |-> v]
Bad(e) == [err |-> e, val |-> <<>>]
Failed(r) == r.err # "none"

(* The ? operator: an error is the result, a value goes on into f. *)
AndThen(r, f(_)) == IF Failed(r) THEN r ELSE f(r.val)

(* le_u16 and the like: field f of a record on the device.  Whatever is      *)
(* stored there reads as a number; of a record of another kind it is 0 here. *)
Num(c, f) == IF f \in DOMAIN c /\ c[f] \in Nat THEN c[f] ELSE 0

(* A device, or a part of one: a sequence, whatever its cells are. *)
IsDevice(s) == Len(s) \in Nat /\ s = [i \in 1..Len(s) |-> s[i]]

(* A volume is a device; what a stored stream holds is a sequence. *)
IsDisk(d) == IsDevice(d) /\ \A i \in DOMAIN d : DOMAIN d[i] = {"of", "i", "n"} => IsDevice(d[i].of)

CeilDiv(a, b) == (a + b - 1) \div b
LeastOf(a, b) == IF a < b THEN a ELSE b
MostOf(a, b) == IF a < b THEN b ELSE a

(* BlockSource::read_at of n cells of a device: all of them or an error. *)
ReadCells(disk, at, n) ==
    IF at + n > Len(disk) THEN Bad("OutOfRange") ELSE Good(SubSeq(disk, at + 1, at + n))

(* A stored byte is [of, i, n]: the i-th of the n bytes that hold the bytes  *)
(* of.  A decompressor (external) gives back what a whole stream holds if it *)
(* is at most what the caller expects; bytes after the stream are not read.  *)
IsByte(c) == DOMAIN c = {"of", "i", "n"}
Stream(of, n) == [i \in 1..n |-> [of |-> of, i |-> i, n |-> n]]
Plain(c) == IF IsByte(c) THEN c.of[c.i] ELSE "junk"
Decode(raw, expected_len) ==
    IF /\ raw # <<>>
       /\ IsByte(raw[1])
       /\ raw[1].n <= Len(raw) /\ SubSeq(raw, 1, raw[1].n) = Stream(raw[1].of, raw[1].n)
       /\ Len(raw[1].of) <= expected_len
      THEN Good(raw[1].of) ELSE Bad("Decompress")
=============================================================================
