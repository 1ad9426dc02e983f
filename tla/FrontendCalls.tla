--------------------------- MODULE FrontendCalls ---------------------------
(***************************************************************************)
(* What the models of the frontends share.  A volume is opened and then     *)
(* answers one call at a time (every method takes &mut self); a call is     *)
(* Call, some steps of its own, and Return.  Any read of the device may     *)
(* fail, and a call that fails half way leaves nodes and ids as they are at *)
(* that point.                                                              *)
(*                                                                          *)
(* An image carries, for the properties only, truth: the tree it was made   *)
(* from, by inode key; and intact: whether it is as its writer made it.     *)
(***************************************************************************)
EXTENDS Cells, FiniteSets

CONSTANTS Images,               \* the images considered
          Names,                \* names to look up
          Offsets, Lengths,     \* the windows of read_at
          MaxCalls,             \* bound: calls of an intact volume,
          MaxCallsDamaged,      \* and of a damaged one
          MAX_BOOT_FILE_BYTES

ASSUME WindowsAssumption == Offsets \subseteq Nat /\ Lengths \subseteq Nat

VARIABLES img,      \* the image the volume is mounted from
          sb,       \* what open has learned from the superblock
          nodes,    \* the frontend's table of parsed inodes
          ids,      \* inode key -> node id, of every id handed out
          pc,       \* open -> idle <-> the name of a call or of its loop; failed, panicked
          arg,      \* the call under way, or the last one
          todo,     \* what is left for the loop of the call
          pos,      \* its position
          out,      \* what it has gathered: entries or bytes
          ret,      \* the last call's result
          calls

vars == <<img, sb, nodes, ids, pc, arg, todo, pos, out, ret, calls>>

-----------------------------------------------------------------------------
NoArg == [op |-> "none"]

Init ==
    /\ img \in Images
    /\ sb = <<>>
    /\ nodes = <<>>
    /\ ids = <<>>
    /\ pc = "open"
    /\ arg = NoArg
    /\ todo = <<>>
    /\ pos = 0
    /\ out = <<>>
    /\ ret = Good(<<>>)
    /\ calls = 0

Requests(n) ==
    {[op |-> o, node |-> n] : o \in {"read_dir", "metadata", "read_link"}}
    \cup {[op |-> "lookup", node |-> n, name |-> m] : m \in Names}
    \cup {[op |-> "read_at", node |-> n, off |-> o, len |-> l] : o \in Offsets, l \in Lengths}

Bound == IF img.intact THEN MaxCalls ELSE MaxCallsDamaged

Call(a) ==
    /\ pc = "idle"
    /\ calls < Bound
    /\ calls' = calls + 1
    /\ arg' = a
    /\ pc' = a.op
    /\ UNCHANGED <<img, sb, nodes, ids, todo, pos, out, ret>>

(* The host makes no more calls. *)
Rest ==
    /\ pc \in {"failed", "panicked"} \/ (pc = "idle" /\ calls = Bound)
    /\ UNCHANGED vars

Busy == pc \notin {"failed", "panicked", "idle"}
Opening == Busy /\ arg = NoArg

(* The call, or open, ends with result r. *)
Return(r) ==
    /\ pc' = IF Opening /\ Failed(r) THEN "failed" ELSE "idle"
    /\ ret' = r
    /\ todo' = <<>>
    /\ pos' = 0
    /\ out' = <<>>

(* The call ends in a panic: no result, and no call after it. *)
Panic ==
    /\ pc' = "panicked"
    /\ todo' = <<>>
    /\ pos' = 0
    /\ out' = <<>>
    /\ UNCHANGED ret

(* The call goes on in its loop at p, with t left to do. *)
Loop(p, t, at) ==
    /\ pc' = p
    /\ todo' = t
    /\ pos' = at
    /\ UNCHANGED <<out, ret>>

(* How far a call is from its loop, its last stage; open has stages of its own. *)
Loops == {"dir", "file", "page", "scan", "ce", "zblock"}
Stage ==
    CASE pc \in Loops -> 0
      [] pc = "open"   -> 3
      [] pc = "config" -> 2
      [] pc = "root"   -> 1
      [] OTHER         -> IF todo = <<>> THEN 2 ELSE 1

Table == <<sb, nodes, ids>>
Fixed == <<img, arg, calls>>

(* A frontend with a table: nodes is a Vec, node id n being nodes[n + 1].     *)
(* intern gives an inode key the id it has, or the next one.                  *)
Ids == 0..Len(nodes) - 1

(* self.inode(node) of the call under way. *)
Inode == nodes[arg.node + 1]

(* A mutant of Interned: every parse makes a new node. *)
InternedAlways(t, key, inode) ==
    [nodes |-> Append(t.nodes, inode),
     ids   |-> [k \in DOMAIN t.ids \cup {key} |-> IF k = key THEN Len(t.nodes) ELSE t.ids[k]]]

Interned(t, key, inode) ==
    IF key \in DOMAIN t.ids THEN t
    ELSE [nodes |-> Append(t.nodes, inode),
          ids   |-> [k \in DOMAIN t.ids \cup {key} |-> IF k = key THEN Len(t.nodes) ELSE t.ids[k]]]

Intern(key, inode) ==
    LET t == Interned([nodes |-> nodes, ids |-> ids], key, inode) IN nodes' = t.nodes /\ ids' = t.ids

(* The table is consistent: one node per inode key, and each what parse, the  *)
(* frontend's reading of its key, gives.                                      *)
TableIs(parse(_)) ==
    /\ Len(nodes) = Cardinality(DOMAIN ids)
    /\ \A k \in DOMAIN ids : nodes[ids[k] + 1] = parse(k)

(* A frontend whose ids are places on the device has no table; ids is then    *)
(* the set of those the caller has been given.                               *)
HandOut(places) == ids' = [k \in DOMAIN ids \cup places |-> k]

(* find(|e| e.name == name).map(|e| e.node) *)
Found(entries, name) ==
    LET hits == {i \in 1..Len(entries) : entries[i].name = name}
    IN  IF hits = {} THEN <<>> ELSE <<entries[Min(hits)].node>>

(* What read_dir and the lookups that search its result give for a listing. *)
Listed(entries) == IF arg.op = "lookup" THEN Found(entries, arg.name) ELSE entries
ListedNodes(entries) ==
    IF arg.op = "lookup" THEN Range(Found(entries, arg.name)) ELSE {e.node : e \in Range(entries)}
=============================================================================
