------------------------------ MODULE Frontend ------------------------------
(***************************************************************************)
(* What FoldFrontend (frontend.rs) promises the layers above it, whatever   *)
(* the format: a volume is an immutable tree; a node id stands for one      *)
(* inode for as long as the volume is mounted, whatever calls fail in       *)
(* between; and a call answers with what the tree holds or with an error    *)
(* that says why it does not.  On a damaged volume any error may do, but    *)
(* ids stay good and a read never gives more than was asked for.            *)
(***************************************************************************)
EXTENDS Integers, Sequences

VARIABLES vol,      \* [truth, intact, probe]: the tree, by inode key
          ids,      \* inode key -> node id, of every id handed out
          phase,    \* "new", "ready", "busy", "dead"
          call,     \* the call under way, or the last one
          reply     \* its result: [err, val]

vars == <<vol, ids, phase, call, reply>>

Known(n) == \E k \in DOMAIN ids : ids[k] = n
Entity(n) == vol.truth[CHOOSE k \in DOMAIN ids : ids[k] = n]
ChildId(dir, name) == ids[dir.child[name]]
InDir(dir, name) == \E i \in DOMAIN dir.names : dir.names[i] = name

(* The answers a call may have on an intact volume, by node and kind. *)
Window(bytes, off, len) == SubSeq(bytes, off + 1, IF off + len < Len(bytes) THEN off + len ELSE Len(bytes))

RightListing(e, r) ==
    /\ e.kind = "dir"
    /\ Len(r) = Len(e.names)
    /\ \A i \in DOMAIN r :
         /\ r[i].name = e.names[i]
         /\ e.child[r[i].name] \in DOMAIN ids
         /\ r[i].node = ChildId(e, r[i].name)
         /\ r[i].kind = vol.truth[e.child[r[i].name]].kind

RightAnswer ==
    LET e == Entity(call.node)
    IN  CASE call.op = "read_dir"  -> RightListing(e, reply.val)
          [] call.op = "lookup"    ->
               /\ e.kind = "dir"
               /\ IF InDir(e, call.name)
                    THEN e.child[call.name] \in DOMAIN ids /\ reply.val = <<ChildId(e, call.name)>>
                    ELSE reply.val = <<>>
          [] call.op = "metadata"  ->
               reply.val[1] = e.kind /\ (e.kind = "file" => reply.val[2] = Len(e.bytes))
          [] call.op = "read_link" ->
               reply.val = IF e.kind = "symlink" THEN <<e.target>> ELSE <<>>
          [] call.op = "read_at"   ->
               /\ e.kind # "dir"
               /\ e.kind = "file" => reply.val = Window(e.bytes, call.off, call.len)
          [] OTHER -> TRUE

RightError ==
    \/ call.op \in {"read_dir", "lookup"} /\ reply.err = "NotDirectory" /\ Entity(call.node).kind # "dir"
    \/ call.op = "read_at" /\ reply.err = "IsDirectory" /\ Entity(call.node).kind = "dir"
    \/ call.op = "read_at" /\ Entity(call.node).kind \notin {"dir", "file"}

(* Every reply, on a damaged volume too: the ids in it are good ids, and     *)
(* there are no more bytes than the buffer holds.                            *)
Sane ==
    /\ call.op = "read_dir" => \A i \in DOMAIN reply.val : Known(reply.val[i].node)
    /\ call.op = "lookup" => \A i \in DOMAIN reply.val : Known(reply.val[i])
    /\ call.op = "read_at" => Len(reply.val) <= call.len

(* What is due on any volume: an id that was never given out is refused, and *)
(* one that was is never taken for such.                                     *)
Proper ==
    IF Known(call.node) THEN reply.err # "NotFound" /\ Sane
    ELSE reply.err \in {"NotFound", "Io"} \/ (call.op = "read_link" /\ reply.val = <<>>)

Right ==
    /\ Proper
    /\ Known(call.node) => \/ ~ vol.intact
                           \/ reply.err = "Io"
                           \/ reply.err = "none" /\ RightAnswer
                           \/ reply.err # "none" /\ RightError

Grows ==
    /\ \A k \in DOMAIN ids : k \in DOMAIN ids' /\ ids'[k] = ids[k]
    /\ \A k, l \in DOMAIN ids' : ids'[k] = ids'[l] => k = l

-----------------------------------------------------------------------------
Init == phase = "new" /\ DOMAIN ids = {}

(* open: the root's id is there; only what probe accepts opens. *)
Opened ==
    /\ phase = "new" /\ phase' = "ready"
    /\ Grows
    /\ \E root \in DOMAIN ids' : DOMAIN ids' = {root}
    /\ vol.probe
    /\ UNCHANGED <<vol, call>>

Refused ==
    /\ phase = "new" /\ phase' = "dead"
    /\ reply'.err # "none"
    /\ UNCHANGED <<vol, ids, call>>

Start ==
    /\ phase = "ready" /\ phase' = "busy"
    /\ UNCHANGED <<vol, ids, reply>>

(* A call may hand ids out to itself before it knows how it will end. *)
Learn == phase = "busy" /\ Grows /\ UNCHANGED <<vol, phase, call, reply>>

Finish ==
    /\ phase = "busy" /\ phase' = "ready"
    /\ Grows
    /\ Proper'
    /\ UNCHANGED <<vol, call>>

(* The promises that hold of any volume, damaged or not. *)
SafeNext == Opened \/ Refused \/ Start \/ Learn \/ Finish

(* An intact volume opens to its root unless the device fails, and its calls  *)
(* have the right answers.                                                    *)
Next ==
    \/ Opened /\ DOMAIN ids' = {vol.root}
    \/ Refused /\ (vol.intact => reply'.err = "Io")
    \/ Start
    \/ Learn
    \/ Finish /\ Right'

Spec == Init /\ [][Next]_vars
=============================================================================
