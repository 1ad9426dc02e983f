---------------------------- MODULE PathResolve ----------------------------
(***************************************************************************)
(* lamfold's path.rs: access by path over any frontend.  resolve walks a    *)
(* path component by component, following symlinks with a stack of pending  *)
(* components; read_path, read_dir_path and metadata_path build on it.      *)
(*                                                                          *)
(* The frontend is the tree fs: an arbitrary labelled graph, as a corrupt   *)
(* volume may present it.  A path is its split('/'): a sequence of          *)
(* components in which "" marks an empty one, so a path that begins with a  *)
(* slash is a sequence of two or more that begins with "".                  *)
(***************************************************************************)
EXTENDS Naturals, Sequences

CONSTANTS Trees,                \* the volumes considered
          Paths,                \* the paths asked for
          MAX_SYMLINKS,
          MAX_BOOT_FILE_BYTES,
          NoTarget,             \* read_link answering None
          NotUtf8               \* a target that is not UTF-8

Ops == {"read_path", "read_dir_path", "metadata_path"}
Kinds == {"Directory", "Regular", "Symlink", "Other"}

(* A volume: its root directory, the kind of each node, the named children   *)
(* of its directories, the targets of its symlinks, the size its metadata    *)
(* reports for a file and the number of bytes its data really has.           *)
IsTree(t) ==
    /\ t.root \in DOMAIN t.kind
    /\ t.kind \in [DOMAIN t.kind -> Kinds]
    /\ t.kind[t.root] = "Directory"
    /\ \A e \in DOMAIN t.child : t.child[e] \in DOMAIN t.kind
    /\ \A n \in DOMAIN t.kind :
         t.kind[n] = "Symlink" /\ t.target[n] \notin {NoTarget, NotUtf8} => t.target[n] \in Seq(STRING)
    /\ t.size \in [DOMAIN t.kind -> Nat]
    /\ t.avail \in [DOMAIN t.kind -> Nat]

ASSUME TreesAssumption == \A t \in Trees : IsTree(t)
ASSUME PathsAssumption == Paths \subseteq Seq(STRING)
ASSUME TargetAssumption == NoTarget # NotUtf8
ASSUME BoundsAssumption == MAX_SYMLINKS \in Nat /\ MAX_BOOT_FILE_BYTES \in Nat

VARIABLES fs,       \* the mounted volume; read-only, so it never changes
          op,       \* the operation and the path it was called with
          path,
          pc,       \* walk -> stat -> (read ->) done
          node,     \* where the walk has got to
          pending,  \* components still to walk; the next one is the last
          links,    \* symlinks followed
          out,      \* read_path's buffer: byte i of a file is the number i
          got,      \* how much of it read_at has filled (done in the code)
          result    \* "none", "ok" or the error

vars == <<fs, op, path, pc, node, pending, links, out, got, result>>

Nodes == DOMAIN fs.kind
Top == pending[Len(pending)]
Pop == SubSeq(pending, 1, Len(pending) - 1)

(* push_components: drop "" and ".", and push the rest in reverse. *)
Reversed(s) == [i \in 1..Len(s) |-> s[Len(s) + 1 - i]]
Named(c) == c # "" /\ c # "."
Clean(p) ==
    LET kept[n \in 0..Len(p)] ==
          IF n = 0 THEN <<>> ELSE IF Named(p[n]) THEN Append(kept[n - 1], p[n]) ELSE kept[n - 1]
    IN  kept[Len(p)]
PushComponents(p, stack) == stack \o Reversed(Clean(p))

StartsWithSlash(p) == Len(p) > 1 /\ p[1] = ""

Init ==
    /\ fs \in Trees
    /\ op \in Ops
    /\ path \in Paths
    /\ pc = "walk"
    /\ node = fs.root
    /\ pending = PushComponents(path, <<>>)
    /\ links = 0
    /\ out = <<>>
    /\ got = 0
    /\ result = "none"

Return(r) ==
    /\ pc' = "done"
    /\ result' = r
    /\ UNCHANGED <<fs, op, path, node, pending, links>>

Fail(e) == Return(e) /\ UNCHANGED <<out, got>>

(* Any call into the frontend may fail: the medium is read underneath it. *)
CallsFrontend ==
    \/ pc = "walk" /\ pending # <<>> /\ Top # ".."
    \/ pc = "stat"
    \/ pc = "read" /\ got < Len(out)
IoError == CallsFrontend /\ Fail("Io")

(* One round of the resolve loop that ends in an early return: a "..", a     *)
(* component looked up in a file, a name that is not there.                  *)
WalkFails ==
    /\ pc = "walk"
    /\ pending # <<>>
    /\ \/ Top = ".." /\ Fail("InvalidPath")
       \/ Top # ".." /\ fs.kind[node] # "Directory" /\ Fail("NotDirectory")
       \/ /\ Top # ".."
          /\ fs.kind[node] = "Directory"
          /\ <<node, Top>> \notin DOMAIN fs.child
          /\ Fail("NotFound")

Found(child) ==
    /\ pc = "walk"
    /\ pending # <<>>
    /\ Top # ".."
    /\ fs.kind[node] = "Directory"
    /\ <<node, Top>> \in DOMAIN fs.child
    /\ child = fs.child[<<node, Top>>]

(* A mutant of Descend: symlinks are not told apart. *)
DescendAnywhere ==
    \E child \in Nodes :
        /\ Found(child)
        /\ node' = child
        /\ pending' = Pop
        /\ UNCHANGED <<fs, op, path, pc, links, out, got, result>>

Descend ==
    \E child \in Nodes :
        /\ Found(child)
        /\ fs.kind[child] # "Symlink"
        /\ node' = child
        /\ pending' = Pop
        /\ UNCHANGED <<fs, op, path, pc, links, out, got, result>>

(* A mutant of FollowLink: off by one at MAX_SYMLINKS. *)
FollowOneMore ==
    \E child \in Nodes :
        /\ Found(child)
        /\ fs.kind[child] = "Symlink"
        /\ links <= MAX_SYMLINKS
        /\ fs.target[child] \notin {NoTarget, NotUtf8}
        /\ links' = links + 1
        /\ node' = IF StartsWithSlash(fs.target[child]) THEN fs.root ELSE node
        /\ pending' = PushComponents(fs.target[child], Pop)
        /\ UNCHANGED <<fs, op, path, pc, out, got, result>>

(* A mutant of FollowLink: a relative target starts at the root. *)
FollowFromRoot ==
    \E child \in Nodes :
        /\ Found(child)
        /\ fs.kind[child] = "Symlink"
        /\ links < MAX_SYMLINKS
        /\ fs.target[child] \notin {NoTarget, NotUtf8}
        /\ links' = links + 1
        /\ node' = fs.root
        /\ pending' = PushComponents(fs.target[child], Pop)
        /\ UNCHANGED <<fs, op, path, pc, out, got, result>>

(* A mutant of FollowLink: one-component targets are not counted. *)
FollowUncounted ==
    \E child \in Nodes :
        /\ Found(child)
        /\ fs.kind[child] = "Symlink"
        /\ links < MAX_SYMLINKS
        /\ fs.target[child] \notin {NoTarget, NotUtf8}
        /\ links' = IF Len(fs.target[child]) > 1 THEN links + 1 ELSE links
        /\ node' = IF StartsWithSlash(fs.target[child]) THEN fs.root ELSE node
        /\ pending' = PushComponents(fs.target[child], Pop)
        /\ UNCHANGED <<fs, op, path, pc, out, got, result>>

(* An absolute target restarts from the root, a relative one from the        *)
(* directory the link is in; the rest of the path stays queued behind it.    *)
FollowLink ==
    \E child \in Nodes :
        /\ Found(child)
        /\ fs.kind[child] = "Symlink"
        /\ links < MAX_SYMLINKS
        /\ fs.target[child] \notin {NoTarget, NotUtf8}
        /\ links' = links + 1
        /\ node' = IF StartsWithSlash(fs.target[child]) THEN fs.root ELSE node
        /\ pending' = PushComponents(fs.target[child], Pop)
        /\ UNCHANGED <<fs, op, path, pc, out, got, result>>

LinkFails ==
    \E child \in Nodes :
        /\ Found(child)
        /\ fs.kind[child] = "Symlink"
        /\ \/ links >= MAX_SYMLINKS /\ Fail("InvalidPath")
           \/ links < MAX_SYMLINKS /\ fs.target[child] = NoTarget /\ Fail("Corrupt")
           \/ links < MAX_SYMLINKS /\ fs.target[child] = NotUtf8 /\ Fail("InvalidPath")

Resolved ==
    /\ pc = "walk"
    /\ pending = <<>>
    /\ pc' = "stat"
    /\ UNCHANGED <<fs, op, path, node, pending, links, out, got, result>>

MetadataPath == pc = "stat" /\ op = "metadata_path" /\ Return("ok") /\ UNCHANGED <<out, got>>

ReadDirPath ==
    /\ pc = "stat"
    /\ op = "read_dir_path"
    /\ Fail(IF fs.kind[node] = "Directory" THEN "ok" ELSE "NotDirectory")

(* read_path before its loop: a directory is refused, then a size above the  *)
(* read cap, and only then is the zeroed buffer allocated.                   *)
ReadRefused ==
    /\ pc = "stat"
    /\ op = "read_path"
    /\ \/ fs.kind[node] = "Directory" /\ Fail("IsDirectory")
       \/ /\ fs.kind[node] # "Directory"
          /\ fs.size[node] > MAX_BOOT_FILE_BYTES
          /\ Fail("FileTooLarge")

ReadStart ==
    /\ pc = "stat"
    /\ op = "read_path"
    /\ fs.kind[node] # "Directory"
    /\ fs.size[node] <= MAX_BOOT_FILE_BYTES
    /\ pc' = "read"
    /\ out' = [i \in 1..fs.size[node] |-> 0]
    /\ UNCHANGED <<fs, op, path, node, pending, links, got, result>>

(* fs.read_at(node, done, &mut out[done..]): some of what is left of the     *)
(* file, never more than the buffer has room for.                            *)
ReadSome ==
    /\ pc = "read"
    /\ got < Len(out)
    /\ \E n \in 1..Len(out) - got :
        /\ got + n <= fs.avail[node]
        /\ out' = [i \in 1..Len(out) |-> IF i \in got + 1..got + n THEN i ELSE out[i]]
        /\ got' = got + n
    /\ UNCHANGED <<fs, op, path, pc, node, pending, links, result>>

(* A mutant of Truncate: the buffer is returned as allocated. *)
KeepWholeBuffer(n) == out

(* The loop ends when the buffer is full or read_at answers 0 at the end of  *)
(* the data; the buffer is cut to what was read.                             *)
Truncate(n) == SubSeq(out, 1, n)
(* A mutant of ReadDone: the first short read ends the loop. *)
ReadDoneShort ==
    /\ pc = "read"
    /\ got = Len(out) \/ got >= fs.avail[node] \/ got > 0
    /\ out' = Truncate(got)
    /\ UNCHANGED got
    /\ Return("ok")

ReadDone ==
    /\ pc = "read"
    /\ got = Len(out) \/ got >= fs.avail[node]
    /\ out' = Truncate(got)
    /\ UNCHANGED got
    /\ Return("ok")

Step ==
    \/ WalkFails \/ Descend \/ FollowLink \/ LinkFails \/ Resolved
    \/ MetadataPath \/ ReadDirPath
    \/ ReadRefused \/ ReadStart \/ ReadSome \/ ReadDone
    \/ IoError

(* The call has returned and the host does nothing more with it. *)
Returned == pc = "done" /\ UNCHANGED vars

Next == Step \/ Returned

(* resolve and read_path are plain loops: they keep running until they return. *)
Spec == Init /\ [][Next]_vars /\ WF_vars(Step)

-----------------------------------------------------------------------------
(* Every variable has its type, for the volume the walk runs on. *)
TypeOK ==
    /\ IsTree(fs)
    /\ op \in Ops
    /\ path \in Paths
    /\ pc \in {"walk", "stat", "read", "done"}
    /\ node \in Nodes
    /\ links \in 0..MAX_SYMLINKS
    /\ got \in 0..Len(out)
    /\ result \in {"none", "ok", "Io", "InvalidPath", "NotDirectory", "NotFound", "Corrupt",
                   "IsDirectory", "FileTooLarge"}

(* The walk never stands on a symlink, so what resolve returns is never one  *)
(* and metadata_path "reports the target's kind" (path.rs:108).              *)
NeverOnSymlink == fs.kind[node] # "Symlink"

(* What a path names, by substituting symlinks in its text: At(n), or Wrong  *)
(* with the reason why it names nothing.                                     *)
At(n) == <<"at", n>>
Wrong(e) == <<"error", e>>

(* Where component c leads from w. *)
Onward(t, w, c) ==
    IF w[1] = "error" THEN w
    ELSE IF c = ".." THEN Wrong("InvalidPath")
    ELSE IF t.kind[w[2]] # "Directory" THEN Wrong("NotDirectory")
    ELSE IF <<w[2], c>> \notin DOMAIN t.child THEN Wrong("NotFound")
    ELSE At(t.child[<<w[2], c>>])

(* A walk of text c from the root that follows no symlink: where its first i *)
(* components lead.                                                          *)
WalkTo(t, c) == LET w[i \in 0..Len(c)] == IF i = 0 THEN At(t.root) ELSE Onward(t, w[i - 1], c[i]) IN w

IsLink(t, w) == w[1] = "at" /\ t.kind[w[2]] = "Symlink"
HasLink(t, c) == \E i \in 1..Len(c) : IsLink(t, WalkTo(t, c)[i])
FirstLink(t, c) ==
    CHOOSE i \in 1..Len(c) : IsLink(t, WalkTo(t, c)[i]) /\ \A j \in 1..i - 1 : ~ IsLink(t, WalkTo(t, c)[j])
Target(t, c) == t.target[WalkTo(t, c)[FirstLink(t, c)][2]]
CanFollow(t, c) == HasLink(t, c) /\ Target(t, c) \notin {NoTarget, NotUtf8}

(* The text with its first symlink replaced by the link's target: an         *)
(* absolute one replaces what is before it too.                              *)
Substituted(t, c) ==
    LET i == FirstLink(t, c)
        before == IF StartsWithSlash(Target(t, c)) THEN <<>> ELSE SubSeq(c, 1, i - 1)
    IN  before \o (Clean(Target(t, c)) \o SubSeq(c, i + 1, Len(c)))

(* The texts that k substitutions give, as long as there are links to follow. *)
TextsOf(t, c) ==
    LET text[k \in Nat] ==
          IF k = 0 THEN c
          ELSE IF CanFollow(t, text[k - 1]) THEN Substituted(t, text[k - 1]) ELSE text[k - 1]
    IN  text

NamedBy(t, p) ==
    LET text == TextsOf(t, Clean(p))
        ends == {k \in 0..MAX_SYMLINKS : ~ CanFollow(t, text[k])}
        k == CHOOSE k \in ends : \A j \in ends : k <= j
    IN  IF ends = {} THEN Wrong("InvalidPath")
        ELSE IF ~ HasLink(t, text[k]) THEN WalkTo(t, text[k])[Len(text[k])]
        ELSE IF k = MAX_SYMLINKS \/ Target(t, text[k]) = NotUtf8 THEN Wrong("InvalidPath")
        ELSE Wrong("Corrupt")

(* resolve returns what textual substitution of at most MAX_SYMLINKS links   *)
(* says the path names, with the same error when it names nothing.           *)
ResolveIsSubstitution ==
    /\ pc \in {"stat", "read"} \/ result = "ok" => NamedBy(fs, path) = At(node)
    /\ op = "metadata_path" /\ pc = "done" /\ result \notin {"ok", "Io"} => NamedBy(fs, path) = Wrong(result)

(* A successful read returns file bytes at their own offsets and no filler   *)
(* of the zeroed buffer, however read_at cut the reads up.                   *)
ReadIsPrefix ==
    op = "read_path" /\ result = "ok" =>
        /\ \A i \in 1..Len(out) : out[i] = i
        /\ Len(out) <= fs.avail[node]
        /\ Len(out) <= fs.size[node]

(* When the volume has all the bytes the metadata announces, a successful    *)
(* read returns all of them.                                                 *)
ReadIsWhole ==
    op = "read_path" /\ result = "ok" /\ fs.avail[node] >= fs.size[node] =>
        Len(out) = fs.size[node]

(* Every call returns: symlink cycles and cyclic directories included. *)
Terminates == <>(pc = "done")
=============================================================================
