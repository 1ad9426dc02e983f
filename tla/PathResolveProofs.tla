------------------------- MODULE PathResolveProofs -------------------------
(***************************************************************************)
(* Proofs about path resolution and whole-file reads, for every volume      *)
(* (cyclic and corrupt ones included), every path and every read cap.       *)
(***************************************************************************)
EXTENDS PathResolve, VerityProofs

(* What read_path's buffer holds at each stage. *)
BufferOK ==
    /\ out \in Seq(Nat)
    /\ pc \in {"walk", "stat"} => got = 0 /\ out = <<>>
    /\ pc = "read" => /\ Len(out) = fs.size[node]
                      /\ got <= fs.avail[node]
                      /\ \A i \in 1..got : out[i] = i
    /\ pc # "done" => result = "none"

(* The inductive invariant. *)
IInv == TypeOK /\ NeverOnSymlink /\ BufferOK /\ ReadIsPrefix /\ ReadIsWhole

LEMMA InitIInv == Init => IInv
  <1>. SUFFICES ASSUME Init PROVE IInv
    OBVIOUS
  <1>1. IsTree(fs)
    BY TreesAssumption DEF Init
  <1>2. TypeOK
    BY <1>1, BoundsAssumption DEF Init, TypeOK, IsTree, Nodes
  <1>3. NeverOnSymlink
    BY <1>1 DEF Init, NeverOnSymlink, IsTree
  <1>4. BufferOK /\ ReadIsPrefix /\ ReadIsWhole
    BY DEF Init, BufferOK, ReadIsPrefix, ReadIsWhole
  <1>. QED  BY <1>2, <1>3, <1>4 DEF IInv

(* An early return with an error keeps everything but pc and result. *)
LEMMA FailIInv ==
    ASSUME IInv, NEW e, Fail(e),
           e \in {"Io", "InvalidPath", "NotDirectory", "NotFound", "Corrupt", "IsDirectory",
                  "FileTooLarge"}
    PROVE  IInv'
  <1>1. TypeOK'
    BY DEF Fail, Return, IInv, TypeOK, Nodes
  <1>2. NeverOnSymlink'
    BY DEF Fail, Return, IInv, NeverOnSymlink
  <1>3. (BufferOK /\ ReadIsPrefix /\ ReadIsWhole)'
    BY DEF Fail, Return, IInv, BufferOK, ReadIsPrefix, ReadIsWhole
  <1>. QED  BY <1>1, <1>2, <1>3 DEF IInv

(* A step that only moves the walk, to a node that is not a symlink. *)
LEMMA MoveIInv ==
    ASSUME IInv, pc = "walk", pc' = "walk", UNCHANGED <<fs, op, path, out, got, result>>,
           node' \in Nodes, fs.kind[node'] # "Symlink", links' \in 0..MAX_SYMLINKS
    PROVE  IInv'
  <1>1. TypeOK'
    BY DEF IInv, TypeOK, Nodes
  <1>2. NeverOnSymlink'
    BY DEF NeverOnSymlink
  <1>3. (BufferOK /\ ReadIsPrefix /\ ReadIsWhole)'
    BY DEF IInv, BufferOK, ReadIsPrefix, ReadIsWhole
  <1>. QED  BY <1>1, <1>2, <1>3 DEF IInv

LEMMA NextIInv == IInv /\ [Next]_vars => IInv'
  <1>. SUFFICES ASSUME IInv, [Next]_vars PROVE IInv'
    OBVIOUS
  <1>1. CASE WalkFails
    BY <1>1, FailIInv DEF WalkFails
  <1>2. CASE Descend
    BY <1>2, MoveIInv DEF Descend, Found, IInv, TypeOK
  <1>3. CASE FollowLink
    <2>1. links' \in 0..MAX_SYMLINKS
      BY <1>3, BoundsAssumption DEF FollowLink, IInv, TypeOK
    <2>2. node' \in Nodes /\ fs.kind[node'] # "Symlink"
      BY <1>3 DEF FollowLink, IInv, TypeOK, IsTree, Nodes, NeverOnSymlink
    <2>. QED  BY <1>3, <2>1, <2>2, MoveIInv DEF FollowLink, Found
  <1>4. CASE LinkFails
    BY <1>4, FailIInv DEF LinkFails
  <1>5. CASE Resolved
    BY <1>5 DEF Resolved, IInv, TypeOK, Nodes, NeverOnSymlink, BufferOK, ReadIsPrefix, ReadIsWhole
  <1>6. CASE MetadataPath
    BY <1>6 DEF MetadataPath, Return, IInv, TypeOK, Nodes, NeverOnSymlink, BufferOK, ReadIsPrefix,
                ReadIsWhole
  <1>7. CASE ReadDirPath
    BY <1>7 DEF ReadDirPath, Fail, Return, IInv, TypeOK, Nodes, NeverOnSymlink, BufferOK,
                ReadIsPrefix, ReadIsWhole
  <1>8. CASE ReadRefused
    BY <1>8, FailIInv DEF ReadRefused
  <1>9. CASE ReadStart
    <2>1. fs.size[node] \in Nat /\ fs.avail[node] \in Nat
      BY DEF IInv, TypeOK, IsTree, Nodes
    <2>2. out' \in Seq(Nat) /\ Len(out') = fs.size[node] /\ got' = 0
      BY <1>9, <2>1 DEF ReadStart, IInv, BufferOK
    <2>3. TypeOK'
      BY <1>9, <2>1, <2>2 DEF ReadStart, IInv, TypeOK, Nodes
    <2>4. (BufferOK /\ ReadIsPrefix /\ ReadIsWhole /\ NeverOnSymlink)'
      BY <1>9, <2>1, <2>2 DEF ReadStart, IInv, BufferOK, ReadIsPrefix, ReadIsWhole, NeverOnSymlink
    <2>. QED  BY <2>3, <2>4 DEF IInv
  <1>10. CASE ReadSome
    <2>1. PICK n \in 1..Len(out) - got :
            /\ got + n <= fs.avail[node]
            /\ out' = [i \in 1..Len(out) |-> IF i \in got + 1..got + n THEN i ELSE out[i]]
            /\ got' = got + n
      BY <1>10 DEF ReadSome
    <2>2. got \in Nat /\ Len(out) \in Nat /\ out \in Seq(Nat)
      BY DEF IInv, TypeOK, BufferOK
    <2>3. out' \in Seq(Nat) /\ Len(out') = Len(out)
      BY <2>1, <2>2
    <2>4. \A i \in 1..got' : out'[i] = i
      BY <1>10, <2>1, <2>2 DEF ReadSome, IInv, BufferOK
    <2>5. TypeOK'
      BY <1>10, <2>1, <2>2, <2>3 DEF ReadSome, IInv, TypeOK, Nodes
    <2>6. BufferOK'
      BY <1>10, <2>1, <2>3, <2>4 DEF ReadSome, IInv, BufferOK
    <2>7. (ReadIsPrefix /\ ReadIsWhole /\ NeverOnSymlink)'
      BY <1>10 DEF ReadSome, IInv, BufferOK, ReadIsPrefix, ReadIsWhole, NeverOnSymlink
    <2>. QED  BY <2>5, <2>6, <2>7 DEF IInv
  <1>11. CASE ReadDone
    <2>1. /\ got \in Nat /\ got <= Len(out) /\ out \in Seq(Nat)
          /\ Len(out) = fs.size[node] /\ got <= fs.avail[node]
          /\ \A i \in 1..got : out[i] = i
          /\ fs.avail[node] \in Nat
      BY <1>11 DEF ReadDone, IInv, TypeOK, BufferOK, IsTree, Nodes
    <2>2. /\ out' \in Seq(Nat) /\ Len(out') = got
          /\ \A i \in 1..got : out'[i] = out[i]
      BY <1>11, <2>1 DEF ReadDone, Truncate
    <2>3. TypeOK'
      BY <1>11, <2>1, <2>2 DEF ReadDone, Return, IInv, TypeOK, Nodes
    <2>4. (BufferOK /\ NeverOnSymlink)'
      BY <1>11, <2>2 DEF ReadDone, Return, IInv, BufferOK, NeverOnSymlink
    <2>5. ReadIsPrefix'
      BY <1>11, <2>1, <2>2 DEF ReadDone, Return, ReadIsPrefix
    <2>6. ReadIsWhole'
      BY <1>11, <2>1, <2>2 DEF ReadDone, Return, ReadIsWhole
    <2>. QED  BY <2>3, <2>4, <2>5, <2>6 DEF IInv
  <1>12. CASE IoError
    BY <1>12, FailIInv DEF IoError
  <1>13. CASE UNCHANGED vars
    BY <1>13 DEF vars, IInv, TypeOK, Nodes, NeverOnSymlink, BufferOK, ReadIsPrefix, ReadIsWhole
  <1>. QED
    BY <1>1, <1>2, <1>3, <1>4, <1>5, <1>6, <1>7, <1>8, <1>9, <1>10, <1>11, <1>12, <1>13
    DEF Next, Step, Returned

LEMMA Invariance == Spec => []IInv
  BY InitIInv, NextIInv, PTL DEF Spec

(* path.rs: every variable keeps its type; in particular no walk follows     *)
(* more than MAX_SYMLINKS links and no read overruns its buffer.             *)
THEOREM TypeCorrect == Spec => []TypeOK
  BY Invariance, PTL DEF IInv

(* path.rs resolve: the node a path resolves to is never a symlink. *)
THEOREM ResolvesPastSymlinks == Spec => []NeverOnSymlink
  BY Invariance, PTL DEF IInv

(* path.rs read_path: whatever the sizes of the partial reads, a successful  *)
(* read returns bytes of the file, each at its own offset, and no others.    *)
THEOREM ReadsFaithfully == Spec => []ReadIsPrefix
  BY Invariance, PTL DEF IInv

(* path.rs read_path: a successful read of a file whose bytes are all on the *)
(* volume returns all of them.                                               *)
THEOREM ReadsWholeFile == Spec => []ReadIsWhole
  BY Invariance, PTL DEF IInv
-----------------------------------------------------------------------------
(* A sequence built step by step exists: the recursive functions below are   *)
(* chosen to satisfy their equations, and this shows that they can be.  The   *)
(* step is a function, so that no operator has to be instantiated.           *)
Begins(S, s0, G, n, g) ==
    /\ g \in [0..n -> S]
    /\ g[0] = s0
    /\ \A k \in 0..n - 1 : g[k + 1] = G[k][g[k]]

LEMMA BeginsExists ==
    ASSUME NEW S, NEW s0 \in S, NEW G \in [Nat -> [S -> S]]
    PROVE  \A n \in Nat : \E g : Begins(S, s0, G, n, g)
  <1> DEFINE D == {n \in Nat : \E g : Begins(S, s0, G, n, g)}
  <1>1. 0 \in D
    <2> DEFINE g == [k \in 0..0 |-> s0]
    <2>1. Begins(S, s0, G, 0, g)
      BY DEF Begins
    <2> QED  BY <2>1
  <1>2. ASSUME NEW n \in Nat, n \in D PROVE n + 1 \in D
    <2>1. PICK g : Begins(S, s0, G, n, g)
      BY <1>2
    <2> DEFINE h == [k \in 0..n + 1 |-> IF k = n + 1 THEN G[n][g[n]] ELSE g[k]]
    <2>2. g[n] \in S /\ G[n][g[n]] \in S
      BY <2>1 DEF Begins
    <2>3. h \in [0..n + 1 -> S] /\ h[0] = s0
      BY <2>1, <2>2 DEF Begins
    <2>4. ASSUME NEW k \in 0..n PROVE h[k + 1] = G[k][h[k]]
      <3>1. h[k] = g[k]
        OBVIOUS
      <3>2. CASE k = n
        BY <3>1, <3>2
      <3>3. CASE k # n
        <4>1. k \in 0..n - 1 /\ h[k + 1] = g[k + 1]
          BY <3>3
        <4> QED  BY <2>1, <3>1, <4>1 DEF Begins
      <3> QED  BY <3>2, <3>3
    <2>5. Begins(S, s0, G, n + 1, h)
      <3> HIDE DEF h
      <3> QED  BY <2>3, <2>4 DEF Begins
    <2> QED  BY <2>5
  <1> HIDE DEF D
  <1>3. \A n \in Nat : n \in D
    BY <1>1, <1>2, NatInd
  <1> QED  BY <1>3 DEF D

Iterates(S, s0, G, f) ==
    /\ f \in [Nat -> S]
    /\ f[0] = s0
    /\ \A k \in Nat : f[k + 1] = G[k][f[k]]

LEMMA Recursion ==
    ASSUME NEW S, NEW s0 \in S, NEW G \in [Nat -> [S -> S]]
    PROVE  \E f : Iterates(S, s0, G, f)
  <1> DEFINE B(n) == CHOOSE g : Begins(S, s0, G, n, g)
             f == [k \in Nat |-> B(k)[k]]
             D == {k \in Nat : \A n \in Nat : k <= n => B(k)[k] = B(n)[k]}
  <1>1. \A n \in Nat : Begins(S, s0, G, n, B(n))
    BY BeginsExists
  <1> HIDE DEF B
  <1>2. 0 \in D
    BY <1>1 DEF Begins
  <1>3. ASSUME NEW k \in Nat, k \in D PROVE k + 1 \in D
    <2> SUFFICES ASSUME NEW n \in Nat, k + 1 <= n PROVE B(k + 1)[k + 1] = B(n)[k + 1]
      OBVIOUS
    <2>1. B(k)[k] = B(n)[k] /\ B(k)[k] = B(k + 1)[k]
      BY <1>3
    <2>2. k \in 0..(k + 1) - 1 /\ k \in 0..n - 1 /\ k + 1 \in Nat
      OBVIOUS
    <2>3. B(k + 1)[k + 1] = G[k][B(k + 1)[k]]
      BY <1>1, <2>2 DEF Begins
    <2>4. B(n)[k + 1] = G[k][B(n)[k]]
      BY <1>1, <2>2 DEF Begins
    <2> QED  BY <2>1, <2>3, <2>4
  <1>4. \A k \in Nat : k \in D
    <2> HIDE DEF D
    <2> QED  BY <1>2, <1>3, NatInd
  <1>5. f \in [Nat -> S] /\ f[0] = s0
    BY <1>1 DEF Begins
  <1>6. ASSUME NEW k \in Nat PROVE f[k + 1] = G[k][f[k]]
    <2>1. B(k)[k] = B(k + 1)[k]
      BY <1>4
    <2>2. k \in 0..(k + 1) - 1 /\ k + 1 \in Nat
      OBVIOUS
    <2>3. B(k + 1)[k + 1] = G[k][B(k + 1)[k]]
      BY <1>1, <2>2 DEF Begins
    <2> QED  BY <2>1, <2>2, <2>3
  <1>7. Iterates(S, s0, G, f)
    <2> HIDE DEF f
    <2> QED  BY <1>5, <1>6 DEF Iterates
  <1> QED  BY <1>7

-----------------------------------------------------------------------------
(* Dropping components gives a text again. *)
LEMMA CleanType == ASSUME NEW C, NEW p \in Seq(C) PROVE Clean(p) \in Seq(C)
  <1> DEFINE T == Seq(C)
             More(n, s) == IF Named(p[n]) THEN Append(s, p[n]) ELSE s
             G == [n \in Nat |-> [s \in T |-> IF n + 1 <= Len(p) THEN More(n + 1, s) ELSE s]]
             Is(g) == g = [n \in 0..Len(p) |->
                            IF n = 0 THEN <<>>
                            ELSE IF Named(p[n]) THEN Append(g[n - 1], p[n]) ELSE g[n - 1]]
             kept == CHOOSE g : Is(g)
  <1>1. <<>> \in T
    OBVIOUS
  <1>2. \A n \in 1..Len(p), s \in T : More(n, s) \in T
    OBVIOUS
  <1>3. G \in [Nat -> [T -> T]]
    <2>1. ASSUME NEW n \in Nat, NEW s \in T
          PROVE  (IF n + 1 <= Len(p) THEN More(n + 1, s) ELSE s) \in T
      <3> HIDE DEF More, T
      <3> QED  BY <1>2
    <2> HIDE DEF More, T
    <2> QED  BY <2>1
  <1>4. PICK f : Iterates(T, <<>>, G, f)
    <2> HIDE DEF G, T
    <2> QED  BY <1>1, <1>3, Recursion
  <1>5. f \in [Nat -> T] /\ f[0] = <<>> /\ \A k \in Nat : f[k + 1] = G[k][f[k]]
    <2> HIDE DEF G, T
    <2> QED  BY <1>4 DEF Iterates
  <1> DEFINE g0 == [n \in 0..Len(p) |-> f[n]]
  <1>6. ASSUME NEW n \in 1..Len(p) PROVE f[n] = More(n, f[n - 1])
    <2>1. n - 1 \in Nat /\ (n - 1) + 1 = n
      OBVIOUS
    <2>2. G[n - 1][f[n - 1]] = More(n, f[n - 1])
      <3> HIDE DEF More, T
      <3> QED  BY <2>1, <1>5
    <2> HIDE DEF G, More
    <2> QED  BY <1>5, <2>1, <2>2
  <1>7. Is(g0)
    <2>1. ASSUME NEW n \in 0..Len(p)
          PROVE  f[n] = IF n = 0 THEN <<>>
                        ELSE IF Named(p[n]) THEN Append(g0[n - 1], p[n]) ELSE g0[n - 1]
      <3>1. CASE n = 0
        BY <1>5, <3>1
      <3>2. CASE n # 0
        <4>1. n \in 1..Len(p) /\ g0[n - 1] = f[n - 1]
          BY <3>2
        <4> QED  BY <1>6, <3>2, <4>1
      <3> QED  BY <3>1, <3>2
    <2> QED  BY <2>1
  <1>8. Is(kept)
    <2> HIDE DEF Is, g0
    <2> QED  BY <1>7
  <1>9. Clean(p) = kept[Len(p)]
    BY DEF Clean
  <1> HIDE DEF kept
  <1> DEFINE D == {n \in Nat : n <= Len(p) => kept[n] \in T}
  <1>10. 0 \in D
    <2>1. 0 \in 0..Len(p)
      OBVIOUS
    <2>2. kept[0] = <<>>
      BY <1>8, <2>1
    <2> HIDE DEF T
    <2> QED  BY <1>1, <2>2
  <1>11. ASSUME NEW n \in Nat, n \in D PROVE n + 1 \in D
    <2> SUFFICES ASSUME n + 1 <= Len(p) PROVE kept[n + 1] \in T
      OBVIOUS
    <2>1. n + 1 \in 0..Len(p) /\ n + 1 # 0 /\ (n + 1) - 1 = n /\ n + 1 \in 1..Len(p) /\ kept[n] \in T
      BY <1>11
    <2>2. kept[n + 1] = More(n + 1, kept[n])
      BY <1>8, <2>1
    <2> HIDE DEF More, T
    <2> QED  BY <1>2, <2>1, <2>2
  <1>12. \A n \in Nat : n \in D
    <2> HIDE DEF D
    <2> QED  BY <1>10, <1>11, NatInd
  <1> QED  BY <1>9, <1>12
(* The walk of a text that follows no link, component by component. *)
Places(t) == {At(n) : n \in DOMAIN t.kind}
             \cup {Wrong(e) : e \in {"InvalidPath", "NotDirectory", "NotFound"}}

LEMMA PlaceFields ==
    /\ \A n : At(n)[1] = "at" /\ At(n)[2] = n
    /\ \A e : Wrong(e)[1] = "error" /\ Wrong(e)[2] = e
    /\ \A t : \A w \in Places(t) :
         \/ w[1] = "at" /\ w[2] \in DOMAIN t.kind /\ w = At(w[2])
         \/ w[1] = "error"
  BY DEF At, Wrong, Places

LEMMA OnwardType ==
    ASSUME NEW t, IsTree(t), NEW w \in Places(t), NEW c
    PROVE  Onward(t, w, c) \in Places(t)
  <1>1. \A n \in DOMAIN t.kind : At(n) \in Places(t)
    BY DEF Places
  <1>2. \A e \in {"InvalidPath", "NotDirectory", "NotFound"} : Wrong(e) \in Places(t)
    BY DEF Places
  <1>3. \A e \in DOMAIN t.child : t.child[e] \in DOMAIN t.kind
    BY DEF IsTree
  <1> QED  BY <1>1, <1>2, <1>3 DEF Onward

LEMMA WalkStep ==
    ASSUME NEW t, IsTree(t), NEW C, NEW c \in Seq(C)
    PROVE  /\ WalkTo(t, c)[0] = At(t.root)
           /\ \A i \in 1..Len(c) : WalkTo(t, c)[i] = Onward(t, WalkTo(t, c)[i - 1], c[i])
           /\ \A i \in 0..Len(c) : WalkTo(t, c)[i] \in Places(t)
  <1> DEFINE P == Places(t)
             G == [n \in Nat |-> [w \in P |-> Onward(t, w, c[n + 1])]]
             Is(g) == g = [i \in 0..Len(c) |-> IF i = 0 THEN At(t.root) ELSE Onward(t, g[i - 1], c[i])]
             walk == CHOOSE g : Is(g)
  <1>0. Len(c) \in Nat
    OBVIOUS
  <1>1. At(t.root) \in P
    BY DEF IsTree, Places
  <1>2. G \in [Nat -> [P -> P]]
    <2>1. \A n \in Nat, w \in P : Onward(t, w, c[n + 1]) \in P
      BY OnwardType
    <2> HIDE DEF P
    <2> QED  BY <2>1
  <1>3. PICK f : Iterates(P, At(t.root), G, f)
    <2> HIDE DEF G, P
    <2> QED  BY <1>1, <1>2, Recursion
  <1>4. f \in [Nat -> P] /\ f[0] = At(t.root) /\ \A k \in Nat : f[k + 1] = G[k][f[k]]
    <2> HIDE DEF G, P
    <2> QED  BY <1>3 DEF Iterates
  <1> DEFINE g0 == [i \in 0..Len(c) |-> f[i]]
  <1>5. Is(g0)
    <2>1. ASSUME NEW i \in 0..Len(c)
          PROVE  f[i] = IF i = 0 THEN At(t.root) ELSE Onward(t, g0[i - 1], c[i])
      <3>1. CASE i = 0
        BY <1>4, <3>1
      <3>2. CASE i # 0
        <4>1. i - 1 \in Nat /\ (i - 1) + 1 = i /\ g0[i - 1] = f[i - 1]
          BY <1>0, <3>2
        <4>2. G[i - 1][f[i - 1]] = Onward(t, f[i - 1], c[i])
          <5> HIDE DEF P
          <5> QED  BY <1>4, <4>1
        <4> HIDE DEF G, g0
        <4> QED  BY <1>4, <3>2, <4>1, <4>2
      <3> QED  BY <3>1, <3>2
    <2> QED  BY <2>1
  <1>6. Is(walk)
    <2> HIDE DEF Is, g0
    <2> QED  BY <1>5
  <1>7. WalkTo(t, c) = walk
    BY DEF WalkTo
  <1> HIDE DEF walk
  <1>8. walk[0] = At(t.root)
    BY <1>0, <1>6
  <1>9. \A i \in 1..Len(c) : walk[i] = Onward(t, walk[i - 1], c[i])
    BY <1>0, <1>6
  <1> DEFINE D == {i \in Nat : i <= Len(c) => walk[i] \in P}
  <1>10. 0 \in D
    <2> HIDE DEF P
    <2> QED  BY <1>1, <1>8
  <1>11. ASSUME NEW i \in Nat, i \in D PROVE i + 1 \in D
    <2> SUFFICES ASSUME i + 1 <= Len(c) PROVE walk[i + 1] \in P
      OBVIOUS
    <2>1. i + 1 \in 1..Len(c) /\ (i + 1) - 1 = i /\ walk[i] \in P
      BY <1>0, <1>11
    <2>2. walk[i + 1] = Onward(t, walk[i], c[i + 1])
      <3> HIDE DEF D, Is
      <3> QED  BY <1>9, <2>1
    <2> QED  BY <2>1, <2>2, OnwardType
  <1>12. \A i \in Nat : i \in D
    <2> HIDE DEF D
    <2> QED  BY <1>10, <1>11, NatInd
  <1> QED  BY <1>0, <1>7, <1>8, <1>9, <1>12

(* Two texts lead to the same places as far as they agree. *)
LEMMA WalkPrefix ==
    ASSUME NEW t, IsTree(t), NEW C, NEW c \in Seq(C), NEW d \in Seq(C),
           NEW m \in Nat, m <= Len(c), m <= Len(d), \A i \in 1..m : c[i] = d[i]
    PROVE  \A i \in 0..m : WalkTo(t, c)[i] = WalkTo(t, d)[i]
  <1> DEFINE D == {i \in Nat : i <= m => WalkTo(t, c)[i] = WalkTo(t, d)[i]}
  <1>1. 0 \in D
    BY WalkStep
  <1>2. ASSUME NEW i \in Nat, i \in D PROVE i + 1 \in D
    <2> SUFFICES ASSUME i + 1 <= m PROVE WalkTo(t, c)[i + 1] = WalkTo(t, d)[i + 1]
      OBVIOUS
    <2>1. /\ i + 1 \in 1..Len(c) /\ i + 1 \in 1..Len(d) /\ (i + 1) - 1 = i
          /\ c[i + 1] = d[i + 1] /\ WalkTo(t, c)[i] = WalkTo(t, d)[i]
      BY <1>2
    <2>2. WalkTo(t, c)[i + 1] = Onward(t, WalkTo(t, c)[i], c[i + 1])
      BY <2>1, WalkStep
    <2>3. WalkTo(t, d)[i + 1] = Onward(t, WalkTo(t, d)[i], d[i + 1])
      BY <2>1, WalkStep
    <2> QED  BY <2>1, <2>2, <2>3
  <1>3. \A i \in Nat : i \in D
    <2> HIDE DEF D
    <2> QED  BY <1>1, <1>2, NatInd
  <1> QED  BY <1>3

(* A walk that has gone wrong stays where it is. *)
LEMMA WrongStays ==
    ASSUME NEW t, IsTree(t), NEW C, NEW c \in Seq(C), NEW m \in 0..Len(c),
           WalkTo(t, c)[m][1] = "error"
    PROVE  \A i \in m..Len(c) : WalkTo(t, c)[i] = WalkTo(t, c)[m]
  <1> DEFINE D == {j \in Nat : m + j <= Len(c) => WalkTo(t, c)[m + j] = WalkTo(t, c)[m]}
  <1>1. 0 \in D
    OBVIOUS
  <1>2. ASSUME NEW j \in Nat, j \in D PROVE j + 1 \in D
    <2> SUFFICES ASSUME m + (j + 1) <= Len(c) PROVE WalkTo(t, c)[m + (j + 1)] = WalkTo(t, c)[m]
      OBVIOUS
    <2>1. m + (j + 1) \in 1..Len(c) /\ (m + (j + 1)) - 1 = m + j /\ WalkTo(t, c)[m + j] = WalkTo(t, c)[m]
      BY <1>2
    <2>2. WalkTo(t, c)[m + (j + 1)] = Onward(t, WalkTo(t, c)[m + j], c[m + (j + 1)])
      BY <2>1, WalkStep
    <2> QED  BY <2>1, <2>2 DEF Onward
  <1>3. \A j \in Nat : j \in D
    <2> HIDE DEF D
    <2> QED  BY <1>1, <1>2, NatInd
  <1>4. ASSUME NEW i \in m..Len(c) PROVE WalkTo(t, c)[i] = WalkTo(t, c)[m]
    <2>1. i - m \in Nat /\ m + (i - m) = i /\ i - m \in D
      BY <1>3
    <2> QED  BY <2>1
  <1> QED  BY <1>4

(* The first link of a text that has one. *)
LEMMA FirstLinkIs ==
    ASSUME NEW t, NEW C, NEW c \in Seq(C)
    PROVE  /\ HasLink(t, c) =>
                /\ FirstLink(t, c) \in 1..Len(c)
                /\ IsLink(t, WalkTo(t, c)[FirstLink(t, c)])
           /\ \A i \in 1..Len(c) :
                IsLink(t, WalkTo(t, c)[i]) /\ (\A j \in 1..i - 1 : ~ IsLink(t, WalkTo(t, c)[j]))
                  => FirstLink(t, c) = i
  <1> DEFINE L(i) == IsLink(t, WalkTo(t, c)[i])
             First(i) == L(i) /\ \A j \in 1..i - 1 : ~ L(j)
             S == {i \in 1..Len(c) : L(i)}
  <1>0. FirstLink(t, c) = CHOOSE i \in 1..Len(c) : First(i)
    BY DEF FirstLink
  <1>1. HasLink(t, c) <=> \E i \in 1..Len(c) : L(i)
    BY DEF HasLink
  <1> HIDE DEF L
  <1>2. ASSUME S # {} PROVE \E i \in 1..Len(c) : First(i)
    <2>1. S \subseteq Nat
      OBVIOUS
    <2>2. PICK i \in S : \A j \in S : i <= j
      <3> HIDE DEF S
      <3> QED  BY <1>2, <2>1, NatLeast
    <2>3. First(i)
      BY <2>2
    <2> QED  BY <2>3
  <1>3. ASSUME NEW i \in 1..Len(c), NEW j \in 1..Len(c), First(i), First(j) PROVE i = j
    BY <1>3
  <1>4. ASSUME NEW i \in 1..Len(c), First(i) PROVE FirstLink(t, c) = i
    BY <1>0, <1>3, <1>4
  <1>5. ASSUME HasLink(t, c) PROVE FirstLink(t, c) \in 1..Len(c) /\ L(FirstLink(t, c))
    BY <1>0, <1>1, <1>2, <1>5
  <1> QED  BY <1>4, <1>5 DEF L
(* Substitution gives a text again, and so do the texts of a path. *)
Text == Seq(STRING)

LEMMA SubstitutedType ==
    ASSUME NEW t, IsTree(t), NEW c \in Text, CanFollow(t, c)
    PROVE  Substituted(t, c) \in Text
  <1> DEFINE i == FirstLink(t, c)
             u == Target(t, c)
             before == IF StartsWithSlash(u) THEN <<>> ELSE SubSeq(c, 1, i - 1)
             after == SubSeq(c, i + 1, Len(c))
  <1>1. i \in 1..Len(c) /\ IsLink(t, WalkTo(t, c)[i]) /\ Len(c) \in Nat
    BY FirstLinkIs DEF Text, CanFollow
  <1>2. WalkTo(t, c)[i] \in Places(t)
    BY <1>1, WalkStep DEF Text
  <1>3. u \in Text
    <2>1. WalkTo(t, c)[i][2] \in DOMAIN t.kind /\ t.kind[WalkTo(t, c)[i][2]] = "Symlink"
      BY <1>1, <1>2, PlaceFields DEF IsLink
    <2> QED  BY <2>1 DEF CanFollow, Target, IsTree, Text
  <1> HIDE DEF i, u
  <1>4. Clean(u) \in Text
    BY <1>3, CleanType DEF Text
  <1>5. SubSeq(c, 1, i - 1) \in Text /\ after \in Text
    BY <1>1 DEF Text
  <1>6. before \in Text
    <2>1. <<>> \in Text
      BY DEF Text
    <2> HIDE DEF Text
    <2> QED  BY <1>5, <2>1
  <1> HIDE DEF before, after
  <1>7. before \o (Clean(u) \o after) \in Text
    BY <1>4, <1>5, <1>6 DEF Text
  <1> QED  BY <1>7 DEF Substituted, before, after, i, u

LEMMA TextsStep ==
    ASSUME NEW t, IsTree(t), NEW c \in Text
    PROVE  /\ TextsOf(t, c)[0] = c
           /\ \A k \in Nat : /\ TextsOf(t, c)[k] \in Text
                             /\ CanFollow(t, TextsOf(t, c)[k])
                                  => TextsOf(t, c)[k + 1] = Substituted(t, TextsOf(t, c)[k])
  <1> DEFINE More(s) == IF CanFollow(t, s) THEN Substituted(t, s) ELSE s
             G == [n \in Nat |-> [s \in Text |-> More(s)]]
             Is(g) == g = [k \in Nat |->
                            IF k = 0 THEN c
                            ELSE IF CanFollow(t, g[k - 1]) THEN Substituted(t, g[k - 1]) ELSE g[k - 1]]
             texts == CHOOSE g : Is(g)
  <1>1. \A s \in Text : More(s) \in Text
    BY SubstitutedType
  <1> HIDE DEF More
  <1>2. G \in [Nat -> [Text -> Text]]
    BY <1>1
  <1>3. PICK f : Iterates(Text, c, G, f)
    <2> HIDE DEF G
    <2> QED  BY <1>2, Recursion
  <1>4. f \in [Nat -> Text] /\ f[0] = c /\ \A k \in Nat : f[k + 1] = G[k][f[k]]
    <2> HIDE DEF G
    <2> QED  BY <1>3 DEF Iterates
  <1>5. \A k \in Nat : f[k + 1] = More(f[k])
    BY <1>4
  <1>6. Is(f)
    <2>1. ASSUME NEW k \in Nat
          PROVE  f[k] = IF k = 0 THEN c
                        ELSE IF CanFollow(t, f[k - 1]) THEN Substituted(t, f[k - 1]) ELSE f[k - 1]
      <3>1. CASE k = 0
        BY <1>4, <3>1
      <3>2. CASE k # 0
        <4>1. k - 1 \in Nat /\ (k - 1) + 1 = k
          BY <3>2
        <4>2. f[k] = More(f[k - 1])
          BY <1>5, <4>1
        <4> QED  BY <3>2, <4>2 DEF More
      <3> QED  BY <3>1, <3>2
    <2>2. f = [k \in Nat |-> f[k]]
      BY <1>4
    <2> QED  BY <2>1, <2>2
  <1>7. Is(texts)
    <2> HIDE DEF Is
    <2> QED  BY <1>6
  <1>8. TextsOf(t, c) = texts
    BY DEF TextsOf
  <1> HIDE DEF texts
  <1>9. texts[0] = c
    BY <1>7
  <1>10. ASSUME NEW k \in Nat PROVE texts[k + 1] = More(texts[k])
    <2>1. k + 1 \in Nat /\ k + 1 # 0 /\ (k + 1) - 1 = k
      OBVIOUS
    <2> QED  BY <1>7, <2>1 DEF More
  <1> DEFINE D == {k \in Nat : texts[k] \in Text}
  <1>11. 0 \in D
    BY <1>9
  <1>12. ASSUME NEW k \in Nat, k \in D PROVE k + 1 \in D
    BY <1>1, <1>10, <1>12
  <1>13. \A k \in Nat : k \in D
    <2> HIDE DEF D
    <2> QED  BY <1>11, <1>12, NatInd
  <1>14. ASSUME NEW k \in Nat, CanFollow(t, texts[k]) PROVE texts[k + 1] = Substituted(t, texts[k])
    BY <1>10, <1>14 DEF More
  <1> QED  BY <1>8, <1>9, <1>13, <1>14

(* The stack holds what is left of the text, the next component last. *)
LEMMA ReversedType ==
    ASSUME NEW C, NEW s \in Seq(C)
    PROVE  Reversed(s) \in Seq(C) /\ Len(Reversed(s)) = Len(s)
  BY DEF Reversed

LEMMA ReversedPush ==
    ASSUME NEW C, NEW s \in Seq(C), NEW u \in Seq(C)
    PROVE  Reversed(s \o Reversed(u)) = u \o Reversed(s)
  <1>1. /\ Reversed(u) \in Seq(C) /\ Len(Reversed(u)) = Len(u) /\ Len(s) \in Nat /\ Len(u) \in Nat
        /\ Reversed(s) \in Seq(C) /\ Len(Reversed(s)) = Len(s)
    BY ReversedType
  <1> DEFINE l == Reversed(s \o Reversed(u))
             r == u \o Reversed(s)
             n == Len(s) + Len(u)
  <1>2. s \o Reversed(u) \in Seq(C) /\ Len(s \o Reversed(u)) = n
    BY <1>1
  <1>3. l \in Seq(C) /\ Len(l) = n
    <2> HIDE DEF n
    <2> QED  BY <1>2, ReversedType
  <1>4. r \in Seq(C) /\ Len(r) = n
    BY <1>1
  <1>5. ASSUME NEW i \in 1..n PROVE l[i] = r[i]
    <2> DEFINE j == n + 1 - i
    <2>1. j \in 1..n /\ l[i] = (s \o Reversed(u))[j]
      BY <1>1, <1>2 DEF Reversed
    <2>2. CASE i <= Len(u)
      <3>1. j > Len(s) /\ j - Len(s) \in 1..Len(u) /\ Len(u) + 1 - (j - Len(s)) = i
        BY <1>1, <2>2
      <3>2. (s \o Reversed(u))[j] = Reversed(u)[j - Len(s)]
        BY <1>1, <2>1, <3>1
      <3>3. Reversed(u)[j - Len(s)] = u[i]
        BY <1>1, <3>1 DEF Reversed
      <3>4. r[i] = u[i]
        BY <1>1, <2>2
      <3> QED  BY <2>1, <3>2, <3>3, <3>4
    <2>3. CASE i > Len(u)
      <3>1. j \in 1..Len(s) /\ i - Len(u) \in 1..Len(s) /\ Len(s) + 1 - (i - Len(u)) = j
        BY <1>1, <2>3
      <3>2. (s \o Reversed(u))[j] = s[j]
        BY <1>1, <3>1
      <3>3. r[i] = Reversed(s)[i - Len(u)]
        BY <1>1, <2>3
      <3>4. Reversed(s)[i - Len(u)] = s[j]
        BY <1>1, <3>1 DEF Reversed
      <3> QED  BY <2>1, <3>2, <3>3, <3>4
    <2> QED  BY <1>1, <2>2, <2>3
  <1> HIDE DEF l, r, n
  <1>6. l = r
    BY <1>3, <1>4, <1>5
  <1> QED  BY <1>6 DEF l, r

LEMMA ReversedPop ==
    ASSUME NEW C, NEW s \in Seq(C), s # <<>>
    PROVE  /\ Len(s) \in Nat \ {0}
           /\ SubSeq(s, 1, Len(s) - 1) \in Seq(C)
           /\ Reversed(s) = <<s[Len(s)]>> \o Reversed(SubSeq(s, 1, Len(s) - 1))
  <1> DEFINE q == SubSeq(s, 1, Len(s) - 1)
             l == Reversed(s)
             r == <<s[Len(s)]>> \o Reversed(q)
  <1>1. /\ Len(s) \in Nat \ {0} /\ q \in Seq(C) /\ Len(q) = Len(s) - 1
        /\ \A i \in 1..Len(s) - 1 : q[i] = s[i]
    <2>1. Len(s) \in Nat \ {0} /\ \A i \in 1..Len(s) : s[i] \in C
      OBVIOUS
    <2>2. 1 \in Int /\ Len(s) - 1 \in Int /\ \A i \in 1..Len(s) - 1 : s[i] \in C
      BY <2>1
    <2>3. /\ q \in Seq(C)
          /\ Len(q) = IF 1 <= Len(s) - 1 THEN (Len(s) - 1) - 1 + 1 ELSE 0
          /\ \A i \in 1..(Len(s) - 1) - 1 + 1 : q[i] = s[1 + i - 1]
      BY <2>2, SubSeqProperties
    <2> HIDE DEF q
    <2>4. Len(q) = Len(s) - 1
      <3>1. \A n \in Nat \ {0} : (IF 1 <= n - 1 THEN (n - 1) - 1 + 1 ELSE 0) = n - 1
        OBVIOUS
      <3> QED  BY <2>1, <2>3, <3>1, Zenon
    <2>5. ASSUME NEW i \in 1..Len(s) - 1 PROVE q[i] = s[i]
      <3>1. i \in 1..(Len(s) - 1) - 1 + 1 /\ 1 + i - 1 = i
        BY <2>1
      <3> QED  BY <2>3, <3>1
    <2> QED  BY <2>1, <2>3, <2>4, <2>5
  <1>2. l \in Seq(C) /\ Len(l) = Len(s) /\ \A i \in 1..Len(s) : l[i] = s[Len(s) + 1 - i]
    BY <1>1 DEF Reversed
  <1>3. Reversed(q) \in Seq(C) /\ Len(Reversed(q)) = Len(s) - 1
    BY <1>1, ReversedType
  <1>4. ASSUME NEW i \in 1..Len(s) - 1 PROVE Reversed(q)[i] = s[Len(s) - i]
    BY <1>1 DEF Reversed
  <1>5. <<s[Len(s)]>> \in Seq(C) /\ Len(<<s[Len(s)]>>) = 1
    BY <1>1
  <1> HIDE DEF q
  <1>6. r \in Seq(C) /\ Len(r) = Len(s)
    BY <1>1, <1>3, <1>5
  <1>7. ASSUME NEW i \in 1..Len(s) PROVE l[i] = r[i]
    <2>1. CASE i = 1
      BY <1>1, <1>2, <1>3, <2>1
    <2>2. CASE i # 1
      <3>1. i - 1 \in 1..Len(s) - 1 /\ Len(s) - (i - 1) = Len(s) + 1 - i
        BY <1>1, <2>2
      <3>2. r[i] = Reversed(q)[i - 1]
        BY <1>1, <1>3, <1>5, <2>2, <3>1
      <3> QED  BY <1>2, <1>4, <3>1, <3>2
    <2> QED  BY <2>1, <2>2
  <1> HIDE DEF l, r
  <1>8. l = r
    BY <1>2, <1>6, <1>7
  <1> QED  BY <1>1, <1>8 DEF l, r, q
LEMMA SameSeq ==
    ASSUME NEW C, NEW s \in Seq(C), NEW u \in Seq(C), Len(s) = Len(u), \A i \in 1..Len(u) : s[i] = u[i]
    PROVE  s = u
  OBVIOUS

(* Where the components of a concatenation and of a part of a text are. *)
LEMMA ConcatAt ==
    ASSUME NEW C, NEW s \in Seq(C), NEW u \in Seq(C)
    PROVE  /\ s \o u \in Seq(C) /\ Len(s \o u) = Len(s) + Len(u)
           /\ \A i \in 1..Len(s) : (s \o u)[i] = s[i]
           /\ \A i \in 1..Len(u) : (s \o u)[Len(s) + i] = u[i]
  <1>1. Len(s) \in Nat /\ Len(u) \in Nat
    OBVIOUS
  <1>2. s \o u \in Seq(C) /\ Len(s \o u) = Len(s) + Len(u)
    OBVIOUS
  <1>3. ASSUME NEW i \in 1..Len(s) PROVE (s \o u)[i] = s[i]
    BY <1>1
  <1>4. ASSUME NEW i \in 1..Len(u) PROVE (s \o u)[Len(s) + i] = u[i]
    BY <1>1
  <1> QED  BY <1>2, <1>3, <1>4

LEMMA SubSeqAt ==
    ASSUME NEW C, NEW s \in Seq(C), NEW m \in Nat, NEW n \in Nat, m >= 1, n <= Len(s), m <= n + 1
    PROVE  /\ SubSeq(s, m, n) \in Seq(C) /\ Len(SubSeq(s, m, n)) = n + 1 - m
           /\ \A i \in 1..n + 1 - m : SubSeq(s, m, n)[i] = s[m + i - 1]
  <1> DEFINE q == SubSeq(s, m, n)
  <1>1. m \in Int /\ n \in Int /\ Len(s) \in Nat /\ \A i \in m..n : s[i] \in C
    OBVIOUS
  <1>2. /\ q \in Seq(C)
        /\ Len(q) = IF m <= n THEN n - m + 1 ELSE 0
        /\ \A i \in 1..n - m + 1 : q[i] = s[m + i - 1]
    BY <1>1, SubSeqProperties
  <1> HIDE DEF q
  <1>3. Len(q) = n + 1 - m /\ n - m + 1 = n + 1 - m
    BY <1>2
  <1>4. q \in Seq(C) /\ Len(q) = n + 1 - m /\ \A i \in 1..n + 1 - m : q[i] = s[m + i - 1]
    BY <1>2, <1>3
  <1> QED  BY <1>4 DEF q

(* A text cut at one of its components. *)
LEMMA SplitText ==
    ASSUME NEW C, NEW d \in Seq(C), NEW x \in C, NEW q \in Seq(C), NEW c, c = d \o (<<x>> \o q)
    PROVE  /\ c \in Seq(C) /\ Len(c) = Len(d) + 1 + Len(q)
           /\ c[Len(d) + 1] = x /\ \A i \in 1..Len(d) : c[i] = d[i]
           /\ c = Append(d, x) \o q
           /\ SubSeq(c, 1, Len(d)) = d
           /\ SubSeq(c, (Len(d) + 1) + 1, Len(c)) = q
  <1>1. Len(d) \in Nat /\ Len(q) \in Nat /\ <<x>> \in Seq(C) /\ Len(<<x>>) = 1 /\ <<x>>[1] = x
    OBVIOUS
  <1>2. /\ <<x>> \o q \in Seq(C) /\ Len(<<x>> \o q) = 1 + Len(q) /\ (<<x>> \o q)[1] = x
        /\ \A i \in 1..Len(q) : (<<x>> \o q)[i + 1] = q[i]
    BY <1>1
  <1>3. /\ c \in Seq(C) /\ Len(c) = Len(d) + 1 + Len(q)
        /\ c[Len(d) + 1] = x /\ \A i \in 1..Len(d) : c[i] = d[i]
        /\ \A i \in 1..Len(q) : c[Len(d) + 1 + i] = q[i]
    <2> DEFINE r == <<x>> \o q
    <2>1. r \in Seq(C) /\ Len(r) = 1 + Len(q) /\ r[1] = x /\ \A i \in 1..Len(q) : r[i + 1] = q[i]
      BY <1>2
    <2> HIDE DEF r
    <2>2. /\ d \o r \in Seq(C) /\ Len(d \o r) = Len(d) + Len(r)
          /\ \A i \in 1..Len(d) : (d \o r)[i] = d[i]
          /\ \A i \in 1..Len(r) : (d \o r)[Len(d) + i] = r[i]
      BY <2>1, ConcatAt
    <2>3. c = d \o r
      BY DEF r
    <2>4. ASSUME NEW i \in 1..Len(q) PROVE c[Len(d) + 1 + i] = q[i]
      <3>1. i + 1 \in 1..Len(r) /\ Len(d) + 1 + i = Len(d) + (i + 1)
        BY <1>1, <2>1
      <3> QED  BY <2>1, <2>2, <2>3, <3>1
    <2>5. c[Len(d) + 1] = x
      <3>1. 1 \in 1..Len(r)
        BY <1>1, <2>1
      <3> QED  BY <2>1, <2>2, <2>3, <3>1
    <2>6. Len(c) = Len(d) + 1 + Len(q)
      BY <1>1, <2>1, <2>2, <2>3
    <2> QED  BY <2>2, <2>3, <2>4, <2>5, <2>6
  <1>4. c = Append(d, x) \o q
    <2>1. Append(d, x) = d \o <<x>>
      BY AppendIsConcat
    <2>2. (d \o <<x>>) \o q = d \o (<<x>> \o q)
      BY <1>1, ConcatAssociative
    <2> QED  BY <2>1, <2>2
  <1>5. SubSeq(c, 1, Len(d)) = d
    <2> DEFINE s == SubSeq(c, 1, Len(d))
    <2>1. 1 \in Nat /\ 1 >= 1 /\ Len(d) <= Len(c) /\ 1 <= Len(d) + 1 /\ Len(d) + 1 - 1 = Len(d)
      BY <1>1, <1>3
    <2>2. s \in Seq(C) /\ Len(s) = Len(d) /\ \A i \in 1..Len(d) : s[i] = c[1 + i - 1]
      BY <1>1, <1>3, <2>1, SubSeqAt
    <2> HIDE DEF s
    <2>3. ASSUME NEW i \in 1..Len(d) PROVE s[i] = d[i]
      <3>1. 1 + i - 1 = i
        BY <1>1
      <3> QED  BY <1>3, <2>2, <3>1
    <2>4. s = d
      BY <2>2, <2>3, SameSeq, Zenon
    <2> QED  BY <2>4 DEF s
  <1>6. SubSeq(c, (Len(d) + 1) + 1, Len(c)) = q
    <2> DEFINE m == (Len(d) + 1) + 1
               s == SubSeq(c, m, Len(c))
    <2>1. /\ m \in Nat /\ m >= 1 /\ Len(c) \in Nat /\ Len(c) <= Len(c) /\ m <= Len(c) + 1
          /\ Len(c) + 1 - m = Len(q) /\ \A i \in 1..Len(q) : m + i - 1 = Len(d) + 1 + i
      BY <1>1, <1>3
    <2> HIDE DEF m
    <2>2. s \in Seq(C) /\ Len(s) = Len(q) /\ \A i \in 1..Len(q) : s[i] = c[m + i - 1]
      BY <1>3, <2>1, SubSeqAt
    <2> HIDE DEF s
    <2>3. ASSUME NEW i \in 1..Len(q) PROVE s[i] = q[i]
      BY <1>3, <2>1, <2>2
    <2>4. s = q
      BY <2>2, <2>3, SameSeq, Zenon
    <2> QED  BY <2>4 DEF s, m
  <1> QED  BY <1>3, <1>4, <1>5, <1>6

-----------------------------------------------------------------------------
(* What a path names, once it is known which of its texts is the last. *)
LEMMA NamedAtEnd ==
    ASSUME NEW t, NEW p, NEW c, NEW k \in 0..MAX_SYMLINKS,
           c = TextsOf(t, Clean(p))[k], ~ CanFollow(t, c),
           \A j \in 0..k - 1 : CanFollow(t, TextsOf(t, Clean(p))[j])
    PROVE  NamedBy(t, p) =
             IF ~ HasLink(t, c) THEN WalkTo(t, c)[Len(c)]
             ELSE IF k = MAX_SYMLINKS \/ Target(t, c) = NotUtf8 THEN Wrong("InvalidPath")
             ELSE Wrong("Corrupt")
  <1> DEFINE text == TextsOf(t, Clean(p))
             ends == {j \in 0..MAX_SYMLINKS : ~ CanFollow(t, text[j])}
             last == CHOOSE j \in ends : \A i \in ends : j <= i
  <1>1. k \in ends /\ \A j \in ends : k <= j
    BY BoundsAssumption
  <1>2. ends \subseteq Nat
    BY BoundsAssumption
  <1>3. last = k
    <2> HIDE DEF ends
    <2>1. last \in ends /\ \A i \in ends : last <= i
      BY <1>1
    <2> HIDE DEF last
    <2>2. last \in Nat /\ k \in Nat /\ last <= k /\ k <= last
      BY <1>1, <1>2, <2>1
    <2> QED  BY <2>2
  <1>4. NamedBy(t, p) =
          IF ends = {} THEN Wrong("InvalidPath")
          ELSE IF ~ HasLink(t, text[last]) THEN WalkTo(t, text[last])[Len(text[last])]
          ELSE IF last = MAX_SYMLINKS \/ Target(t, text[last]) = NotUtf8 THEN Wrong("InvalidPath")
          ELSE Wrong("Corrupt")
    BY DEF NamedBy
  <1> HIDE DEF ends, last, text
  <1>5. ends # {} /\ c = text[k]
    BY <1>1 DEF text
  <1> QED  BY <1>3, <1>4, <1>5

LEMMA NamedNever ==
    ASSUME NEW t, NEW p, \A j \in 0..MAX_SYMLINKS : CanFollow(t, TextsOf(t, Clean(p))[j])
    PROVE  NamedBy(t, p) = Wrong("InvalidPath")
  <1>1. {j \in 0..MAX_SYMLINKS : ~ CanFollow(t, TextsOf(t, Clean(p))[j])} = {}
    OBVIOUS
  <1> QED  BY <1>1 DEF NamedBy

-----------------------------------------------------------------------------
(* The walk in the text c: it has gone through the components d without      *)
(* meeting a link, stands on n, and the stack s holds the others.            *)
Reached(t, c, d, n, s) ==
    /\ d \in Text
    /\ s \in Text
    /\ c = d \o Reversed(s)
    /\ WalkTo(t, c)[Len(d)] = At(n)
    /\ \A j \in 1..Len(d) : ~ IsLink(t, WalkTo(t, c)[j])

LastOf(s) == s[Len(s)]
ButLast(s) == SubSeq(s, 1, Len(s) - 1)

LEMMA ReachedStart ==
    ASSUME NEW t, IsTree(t), NEW c \in Text
    PROVE  Reached(t, c, <<>>, t.root, <<>> \o Reversed(c))
  <1>1. <<>> \in Text /\ Len(<<>>) = 0
    BY DEF Text
  <1>2. Reversed(c) \in Text
    BY ReversedType DEF Text
  <1>3. <<>> \o Reversed(c) \in Text
    BY <1>2 DEF Text
  <1>4. Reversed(<<>>) = <<>>
    BY <1>1 DEF Reversed
  <1>5. Reversed(<<>> \o Reversed(c)) = c \o <<>>
    BY <1>1, <1>4, ReversedPush DEF Text
  <1>6. c \o <<>> = c /\ <<>> \o c = c
    BY DEF Text
  <1>7. c = <<>> \o Reversed(<<>> \o Reversed(c))
    BY <1>5, <1>6
  <1>8. WalkTo(t, c)[0] = At(t.root)
    BY WalkStep DEF Text
  <1>9. \A j \in 1..0 : ~ IsLink(t, WalkTo(t, c)[j])
    OBVIOUS
  <1> QED  BY <1>1, <1>3, <1>7, <1>8, <1>9 DEF Reached

(* What the next round of the walk looks at. *)
LEMMA ReachedNext ==
    ASSUME NEW t, IsTree(t), NEW c, NEW d, NEW n, NEW s, Reached(t, c, d, n, s), s # <<>>
    PROVE  /\ c \in Text /\ Len(d) \in Nat /\ Len(d) + 1 \in 1..Len(c)
           /\ LastOf(s) \in STRING /\ ButLast(s) \in Text /\ Reversed(ButLast(s)) \in Text
           /\ c = d \o (<<LastOf(s)>> \o Reversed(ButLast(s)))
           /\ WalkTo(t, c)[Len(d) + 1] = Onward(t, At(n), LastOf(s))
  <1>1. s \in Seq(STRING) /\ d \in Seq(STRING) /\ Len(d) \in Nat
    BY DEF Reached, Text
  <1>2. /\ Len(s) \in Nat \ {0} /\ ButLast(s) \in Seq(STRING)
        /\ Reversed(s) = <<LastOf(s)>> \o Reversed(ButLast(s))
    BY <1>1, ReversedPop DEF LastOf, ButLast
  <1>3. LastOf(s) \in STRING
    BY <1>1, <1>2 DEF LastOf
  <1>4. Reversed(ButLast(s)) \in Seq(STRING)
    BY <1>2, ReversedType
  <1>5. c = d \o (<<LastOf(s)>> \o Reversed(ButLast(s)))
    BY <1>2 DEF Reached
  <1> DEFINE x == LastOf(s)
             q == Reversed(ButLast(s))
  <1> HIDE DEF x, q
  <1>6. /\ c \in Seq(STRING) /\ Len(c) = Len(d) + 1 + Len(q) /\ c[Len(d) + 1] = x
    BY <1>1, <1>3, <1>4, <1>5, SplitText DEF x, q
  <1>7. Len(q) \in Nat
    BY <1>4 DEF q
  <1>8. Len(d) + 1 \in 1..Len(c) /\ (Len(d) + 1) - 1 = Len(d)
    BY <1>1, <1>6, <1>7
  <1>9. WalkTo(t, c)[Len(d) + 1] = Onward(t, WalkTo(t, c)[(Len(d) + 1) - 1], c[Len(d) + 1])
    BY <1>6, <1>8, WalkStep
  <1>10. WalkTo(t, c)[Len(d)] = At(n)
    BY DEF Reached
  <1>11. WalkTo(t, c)[Len(d) + 1] = Onward(t, At(n), x)
    BY <1>6, <1>8, <1>9, <1>10
  <1> QED  BY <1>1, <1>2, <1>3, <1>4, <1>5, <1>6, <1>8, <1>11 DEF x, Text

LEMMA ReachedDown ==
    ASSUME NEW t, IsTree(t), NEW c, NEW d, NEW n, NEW s, Reached(t, c, d, n, s), s # <<>>,
           NEW m, Onward(t, At(n), LastOf(s)) = At(m), t.kind[m] # "Symlink"
    PROVE  Reached(t, c, Append(d, LastOf(s)), m, ButLast(s))
  <1> DEFINE x == LastOf(s)
             q == Reversed(ButLast(s))
             e == Append(d, x)
  <1>1. /\ c \in Text /\ Len(d) \in Nat /\ Len(d) + 1 \in 1..Len(c)
        /\ x \in STRING /\ ButLast(s) \in Text /\ q \in Text
        /\ c = d \o (<<x>> \o q)
        /\ WalkTo(t, c)[Len(d) + 1] = Onward(t, At(n), x)
    BY ReachedNext
  <1>2. d \in Text /\ \A j \in 1..Len(d) : ~ IsLink(t, WalkTo(t, c)[j])
    BY DEF Reached
  <1>3. e \in Text /\ Len(e) = Len(d) + 1
    BY <1>1, <1>2 DEF Text
  <1>4. c = e \o q
    BY <1>1, <1>2, SplitText DEF Text
  <1>5. ~ IsLink(t, At(m))
    BY PlaceFields DEF IsLink
  <1>6. ASSUME NEW j \in 1..Len(d) + 1 PROVE ~ IsLink(t, WalkTo(t, c)[j])
    <2>1. j \in 1..Len(d) \/ j = Len(d) + 1
      BY <1>1
    <2> QED  BY <1>1, <1>2, <1>5, <2>1
  <1> HIDE DEF e
  <1> QED  BY <1>1, <1>3, <1>4, <1>6 DEF Reached, e

(* A walk that cannot go on has met no link and never will. *)
LEMMA ReachedWrong ==
    ASSUME NEW t, IsTree(t), NEW c, NEW d, NEW n, NEW s, Reached(t, c, d, n, s), s # <<>>,
           NEW e, Onward(t, At(n), LastOf(s)) = Wrong(e)
    PROVE  ~ HasLink(t, c) /\ WalkTo(t, c)[Len(c)] = Wrong(e)
  <1>1. /\ c \in Text /\ Len(d) \in Nat /\ Len(d) + 1 \in 1..Len(c)
        /\ WalkTo(t, c)[Len(d) + 1] = Wrong(e)
    <2>1. /\ c \in Text /\ Len(d) \in Nat /\ Len(d) + 1 \in 1..Len(c)
          /\ LastOf(s) \in STRING /\ ButLast(s) \in Text /\ Reversed(ButLast(s)) \in Text
          /\ c = d \o (<<LastOf(s)>> \o Reversed(ButLast(s)))
          /\ WalkTo(t, c)[Len(d) + 1] = Onward(t, At(n), LastOf(s))
      BY ReachedNext
    <2> QED  BY <2>1
  <1>2. \A j \in 1..Len(d) : ~ IsLink(t, WalkTo(t, c)[j])
    BY DEF Reached
  <1>3. Wrong(e)[1] = "error" /\ ~ IsLink(t, Wrong(e))
    BY PlaceFields DEF IsLink
  <1>4. Len(c) \in Nat /\ Len(d) + 1 \in 0..Len(c)
    BY <1>1 DEF Text
  <1>5. \A i \in Len(d) + 1..Len(c) : WalkTo(t, c)[i] = WalkTo(t, c)[Len(d) + 1]
    BY <1>1, <1>3, <1>4, WrongStays DEF Text
  <1>6. ASSUME NEW j \in 1..Len(c) PROVE ~ IsLink(t, WalkTo(t, c)[j])
    <2>1. j \in 1..Len(d) \/ j \in Len(d) + 1..Len(c)
      BY <1>1, <1>4
    <2> QED  BY <1>1, <1>2, <1>3, <1>5, <2>1
  <1>7. Len(c) \in Len(d) + 1..Len(c)
    BY <1>1, <1>4
  <1> QED  BY <1>1, <1>5, <1>6, <1>7 DEF HasLink

LEMMA ReachedEnd ==
    ASSUME NEW t, NEW c, NEW d, NEW n, Reached(t, c, d, n, <<>>)
    PROVE  ~ HasLink(t, c) /\ WalkTo(t, c)[Len(c)] = At(n)
  <1>1. d \in Seq(STRING) /\ c = d \o Reversed(<<>>)
    BY DEF Reached, Text
  <1>2. Reversed(<<>>) = <<>>
    BY DEF Reversed
  <1>3. c = d
    BY <1>1, <1>2
  <1> QED  BY <1>3 DEF Reached, HasLink

(* The text before a link, its target u and the text q after it. *)
Rewritten(d, u, q) == (IF StartsWithSlash(u) THEN <<>> ELSE d) \o (Clean(u) \o q)

(* A walk that comes to a link has come to the first link of its text, and   *)
(* what it goes on with is the text with the link substituted.               *)
LEMMA ReachedLink ==
    ASSUME NEW t, IsTree(t), NEW c, NEW d, NEW n, NEW s, Reached(t, c, d, n, s), s # <<>>,
           NEW m, Onward(t, At(n), LastOf(s)) = At(m), t.kind[m] = "Symlink"
    PROVE  /\ HasLink(t, c)
           /\ Target(t, c) = t.target[m]
           /\ Substituted(t, c) = Rewritten(d, t.target[m], Reversed(ButLast(s)))
  <1> DEFINE x == LastOf(s)
             q == Reversed(ButLast(s))
             i == Len(d) + 1
  <1>1. /\ c \in Text /\ Len(d) \in Nat /\ i \in 1..Len(c)
        /\ x \in STRING /\ q \in Text
        /\ c = d \o (<<x>> \o q)
        /\ WalkTo(t, c)[i] = At(m)
    BY ReachedNext
  <1>2. d \in Text /\ \A j \in 1..Len(d) : ~ IsLink(t, WalkTo(t, c)[j])
    BY DEF Reached
  <1>3. IsLink(t, WalkTo(t, c)[i]) /\ WalkTo(t, c)[i][2] = m
    BY <1>1, PlaceFields DEF IsLink
  <1>4. HasLink(t, c)
    BY <1>1, <1>3 DEF HasLink
  <1>5. i - 1 = Len(d)
    BY <1>1
  <1>6. FirstLink(t, c) = i
    <2> HIDE DEF i
    <2> QED  BY <1>1, <1>2, <1>3, <1>5, FirstLinkIs DEF Text
  <1>7. Target(t, c) = t.target[m]
    BY <1>3, <1>6 DEF Target
  <1>8. SubSeq(c, 1, i - 1) = d /\ SubSeq(c, i + 1, Len(c)) = q
    <2>1. SubSeq(c, 1, Len(d)) = d /\ SubSeq(c, (Len(d) + 1) + 1, Len(c)) = q
      <3> HIDE DEF x, q
      <3> QED  BY <1>1, <1>2, SplitText DEF Text
    <2> QED  BY <1>5, <2>1
  <1> HIDE DEF i, q
  <1>9. Substituted(t, c) = Rewritten(d, t.target[m], q)
    BY <1>6, <1>7, <1>8 DEF Substituted, Rewritten
  <1> QED  BY <1>4, <1>7, <1>9 DEF q

LEMMA ReachedAgain ==
    ASSUME NEW t, IsTree(t), NEW c, NEW d, NEW n, NEW s, Reached(t, c, d, n, s), s # <<>>,
           NEW m, Onward(t, At(n), LastOf(s)) = At(m), t.kind[m] = "Symlink",
           t.target[m] \in Text, NEW e, NEW k,
           e = IF StartsWithSlash(t.target[m]) THEN <<>> ELSE d,
           k = IF StartsWithSlash(t.target[m]) THEN t.root ELSE n
    PROVE  Reached(t, Substituted(t, c), e, k, PushComponents(t.target[m], ButLast(s)))
  <1> DEFINE u == Clean(t.target[m])
             q == ButLast(s)
             r == u \o Reversed(q)
             z == e \o r
  <1>1. c \in Text /\ Len(d) \in Nat /\ Len(d) + 1 \in 1..Len(c) /\ q \in Text /\ Reversed(q) \in Text
    BY ReachedNext
  <1>2. /\ d \in Text /\ c = d \o Reversed(s) /\ WalkTo(t, c)[Len(d)] = At(n)
        /\ \A j \in 1..Len(d) : ~ IsLink(t, WalkTo(t, c)[j])
    BY DEF Reached
  <1>3. u \in Text
    BY CleanType DEF Text
  <1>4. e \in Text
    <2>1. <<>> \in Text
      BY DEF Text
    <2> QED  BY <1>2, <2>1
  <1> HIDE DEF u, q
  <1>5. Substituted(t, c) = z
    <2>1. /\ HasLink(t, c)
          /\ Target(t, c) = t.target[m]
          /\ Substituted(t, c) = Rewritten(d, t.target[m], Reversed(ButLast(s)))
      BY ReachedLink
    <2> QED  BY <2>1 DEF u, q, Rewritten
  <1>6. PushComponents(t.target[m], q) \in Text /\ Reversed(PushComponents(t.target[m], q)) = r
    <2>1. PushComponents(t.target[m], q) = q \o Reversed(u)
      BY DEF PushComponents, u
    <2>2. Reversed(u) \in Text
      BY <1>3, ReversedType DEF Text
    <2>3. q \o Reversed(u) \in Text
      BY <1>1, <2>2, ConcatAt DEF Text
    <2>4. Reversed(q \o Reversed(u)) = r
      BY <1>1, <1>3, ReversedPush DEF Text
    <2> QED  BY <2>1, <2>3, <2>4
  <1>7. r \in Text
    BY <1>1, <1>3, ConcatAt DEF Text
  <1> HIDE DEF r
  <1>8. z \in Text /\ Len(z) = Len(e) + Len(r) /\ \A i \in 1..Len(e) : z[i] = e[i]
    BY <1>4, <1>7, ConcatAt DEF Text
  <1> HIDE DEF z
  <1>9. WalkTo(t, z)[Len(e)] = At(k) /\ \A j \in 1..Len(e) : ~ IsLink(t, WalkTo(t, z)[j])
    <2>1. CASE StartsWithSlash(t.target[m])
      <3>1. e = <<>> /\ k = t.root
        BY <2>1
      <3>2. Len(e) = 0
        BY <3>1
      <3>3. WalkTo(t, z)[0] = At(t.root)
        BY <1>8, WalkStep DEF Text
      <3> QED  BY <3>1, <3>2, <3>3
    <2>2. CASE ~ StartsWithSlash(t.target[m])
      <3>1. e = d /\ k = n
        BY <2>2
      <3>2. Len(d) <= Len(z) /\ Len(d) <= Len(c) /\ Len(c) \in Nat
        <4>1. Len(r) \in Nat /\ Len(c) \in Nat
          BY <1>1, <1>7 DEF Text
        <4> QED  BY <1>1, <1>8, <3>1, <4>1
      <3>3. \A i \in 1..Len(d) : z[i] = c[i]
        <4>1. Reversed(s) \in Text
          BY ReversedType DEF Reached, Text
        <4>2. \A i \in 1..Len(d) : (d \o Reversed(s))[i] = d[i]
          BY <1>2, <4>1, ConcatAt DEF Text
        <4> QED  BY <1>2, <1>8, <3>1, <4>2
      <3>4. \A i \in 0..Len(d) : WalkTo(t, z)[i] = WalkTo(t, c)[i]
        <4>1. z \in Seq(STRING) /\ c \in Seq(STRING)
          BY <1>1, <1>8 DEF Text
        <4>2. Len(d) \in Nat
          BY <1>1
        <4> HIDE DEF Text
        <4> QED  BY <3>2, <3>3, <4>1, <4>2, WalkPrefix
      <3>5. Len(d) \in 0..Len(d) /\ 1..Len(d) \subseteq 0..Len(d)
        BY <1>1
      <3> QED  BY <1>2, <3>1, <3>4, <3>5
    <2> QED  BY <2>1, <2>2
  <1>10. z = e \o Reversed(PushComponents(t.target[m], q))
    BY <1>6 DEF z
  <1> QED  BY <1>4, <1>5, <1>6, <1>9, <1>10 DEF Reached, q

-----------------------------------------------------------------------------
(* The walk of path p with k links followed: it is in the text that k        *)
(* substitutions give, each of which there was a link for.                   *)
Walks(t, p, k, n, s) ==
    /\ \A j \in 0..k - 1 : CanFollow(t, TextsOf(t, Clean(p))[j])
    /\ \E d : Reached(t, TextsOf(t, Clean(p))[k], d, n, s)

LEMMA WalksStart ==
    ASSUME NEW t, IsTree(t), NEW p \in Text
    PROVE  Walks(t, p, 0, t.root, PushComponents(p, <<>>))
  <1>1. Clean(p) \in Text
    BY CleanType DEF Text
  <1>2. TextsOf(t, Clean(p))[0] = Clean(p)
    BY <1>1, TextsStep
  <1>3. Reached(t, Clean(p), <<>>, t.root, <<>> \o Reversed(Clean(p)))
    BY <1>1, ReachedStart
  <1>4. Reached(t, TextsOf(t, Clean(p))[0], <<>>, t.root, PushComponents(p, <<>>))
    BY <1>2, <1>3 DEF PushComponents
  <1>5. \A j \in 0..0 - 1 : CanFollow(t, TextsOf(t, Clean(p))[j])
    OBVIOUS
  <1> QED  BY <1>4, <1>5 DEF Walks

LEMMA WalksDown ==
    ASSUME NEW t, IsTree(t), NEW p, NEW k, NEW n, NEW s, Walks(t, p, k, n, s), s # <<>>,
           NEW m, Onward(t, At(n), LastOf(s)) = At(m), t.kind[m] # "Symlink"
    PROVE  Walks(t, p, k, m, ButLast(s))
  <1> DEFINE c == TextsOf(t, Clean(p))[k]
  <1>1. PICK d : Reached(t, c, d, n, s)
    BY DEF Walks
  <1> HIDE DEF c
  <1>2. Reached(t, c, Append(d, LastOf(s)), m, ButLast(s))
    BY <1>1, ReachedDown
  <1>3. \E e : Reached(t, c, e, m, ButLast(s))
    BY <1>2
  <1> QED  BY <1>3 DEF Walks, c

LEMMA WalksThroughLink ==
    ASSUME NEW t, IsTree(t), NEW p \in Text, NEW k \in Nat, NEW n, NEW s, Walks(t, p, k, n, s),
           s # <<>>, NEW m, Onward(t, At(n), LastOf(s)) = At(m), t.kind[m] = "Symlink",
           t.target[m] \in Text, t.target[m] \notin {NoTarget, NotUtf8},
           NEW o, o = IF StartsWithSlash(t.target[m]) THEN t.root ELSE n
    PROVE  Walks(t, p, k + 1, o, PushComponents(t.target[m], ButLast(s)))
  <1> DEFINE text == TextsOf(t, Clean(p))
             c == text[k]
  <1>1. PICK d : Reached(t, c, d, n, s)
    BY DEF Walks
  <1> HIDE DEF c
  <1>2. PICK e : e = IF StartsWithSlash(t.target[m]) THEN <<>> ELSE d
    OBVIOUS
  <1>3. /\ HasLink(t, c)
        /\ Target(t, c) = t.target[m]
        /\ Substituted(t, c) = Rewritten(d, t.target[m], Reversed(ButLast(s)))
    BY <1>1, ReachedLink
  <1>4. CanFollow(t, c)
    BY <1>3 DEF CanFollow
  <1>5. Reached(t, Substituted(t, c), e, o, PushComponents(t.target[m], ButLast(s)))
    BY <1>1, <1>2, ReachedAgain
  <1>6. text[k + 1] = Substituted(t, c)
    <2>1. Clean(p) \in Text
      BY CleanType DEF Text
    <2>2. CanFollow(t, TextsOf(t, Clean(p))[k])
             => TextsOf(t, Clean(p))[k + 1] = Substituted(t, TextsOf(t, Clean(p))[k])
      BY <2>1, TextsStep
    <2> QED  BY <1>4, <2>2 DEF c
  <1>7. \A j \in 0..(k + 1) - 1 : CanFollow(t, text[j])
    <2>1. \A j \in 0..k - 1 : CanFollow(t, text[j])
      BY DEF Walks
    <2> HIDE DEF text
    <2>2. \A j \in 0..(k + 1) - 1 : j \in 0..k - 1 \/ j = k
      OBVIOUS
    <2> QED  BY <1>4, <2>1, <2>2 DEF c
  <1>8. \E f : Reached(t, text[k + 1], f, o, PushComponents(t.target[m], ButLast(s)))
    BY <1>5, <1>6
  <1> QED  BY <1>7, <1>8 DEF Walks

LEMMA WalksAstray ==
    ASSUME NEW t, IsTree(t), NEW p, NEW k \in 0..MAX_SYMLINKS, NEW n, NEW s, Walks(t, p, k, n, s),
           s # <<>>, NEW e, Onward(t, At(n), LastOf(s)) = Wrong(e)
    PROVE  NamedBy(t, p) = Wrong(e)
  <1> DEFINE c == TextsOf(t, Clean(p))[k]
  <1>1. PICK d : Reached(t, c, d, n, s)
    BY DEF Walks
  <1> HIDE DEF c
  <1>2. ~ HasLink(t, c) /\ WalkTo(t, c)[Len(c)] = Wrong(e)
    BY <1>1, ReachedWrong
  <1>3. ~ CanFollow(t, c)
    BY <1>2 DEF CanFollow
  <1>4. c = TextsOf(t, Clean(p))[k] /\ \A j \in 0..k - 1 : CanFollow(t, TextsOf(t, Clean(p))[j])
    BY DEF Walks, c
  <1> QED  BY <1>2, <1>3, <1>4, NamedAtEnd

LEMMA WalksHome ==
    ASSUME NEW t, NEW p, NEW k \in 0..MAX_SYMLINKS, NEW n, Walks(t, p, k, n, <<>>)
    PROVE  NamedBy(t, p) = At(n)
  <1> DEFINE c == TextsOf(t, Clean(p))[k]
  <1>1. PICK d : Reached(t, c, d, n, <<>>)
    BY DEF Walks
  <1> HIDE DEF c
  <1>2. ~ HasLink(t, c) /\ WalkTo(t, c)[Len(c)] = At(n)
    BY <1>1, ReachedEnd
  <1>3. ~ CanFollow(t, c)
    BY <1>2 DEF CanFollow
  <1>4. c = TextsOf(t, Clean(p))[k] /\ \A j \in 0..k - 1 : CanFollow(t, TextsOf(t, Clean(p))[j])
    BY DEF Walks, c
  <1> QED  BY <1>2, <1>3, <1>4, NamedAtEnd

(* A link that is not followed: one too many, one that cannot be read. *)
LEMMA WalksToDeadLink ==
    ASSUME NEW t, IsTree(t), NEW p, NEW k \in 0..MAX_SYMLINKS, NEW n, NEW s, Walks(t, p, k, n, s),
           s # <<>>, NEW m, Onward(t, At(n), LastOf(s)) = At(m), t.kind[m] = "Symlink"
    PROVE  /\ k = MAX_SYMLINKS => NamedBy(t, p) = Wrong("InvalidPath")
           /\ k < MAX_SYMLINKS /\ t.target[m] = NoTarget => NamedBy(t, p) = Wrong("Corrupt")
           /\ k < MAX_SYMLINKS /\ t.target[m] = NotUtf8 => NamedBy(t, p) = Wrong("InvalidPath")
  <1> DEFINE c == TextsOf(t, Clean(p))[k]
  <1>1. PICK d : Reached(t, c, d, n, s)
    BY DEF Walks
  <1> HIDE DEF c
  <1>2. /\ HasLink(t, c)
        /\ Target(t, c) = t.target[m]
        /\ Substituted(t, c) = Rewritten(d, t.target[m], Reversed(ButLast(s)))
    BY <1>1, ReachedLink
  <1>3. c = TextsOf(t, Clean(p))[k] /\ \A j \in 0..k - 1 : CanFollow(t, TextsOf(t, Clean(p))[j])
    BY DEF Walks, c
  <1>4. CASE CanFollow(t, c)
    <2>1. t.target[m] \notin {NoTarget, NotUtf8}
      BY <1>2, <1>4 DEF CanFollow
    <2>2. ASSUME k = MAX_SYMLINKS PROVE NamedBy(t, p) = Wrong("InvalidPath")
      <3>1. \A j \in 0..MAX_SYMLINKS : j \in 0..k - 1 \/ j = k
        BY <2>2, BoundsAssumption
      <3>2. \A j \in 0..MAX_SYMLINKS : CanFollow(t, TextsOf(t, Clean(p))[j])
        BY <1>3, <1>4, <3>1
      <3> QED  BY <3>2, NamedNever
    <2> QED  BY <2>1, <2>2
  <1>5. CASE ~ CanFollow(t, c)
    <2>1. NamedBy(t, p) =
             IF ~ HasLink(t, c) THEN WalkTo(t, c)[Len(c)]
             ELSE IF k = MAX_SYMLINKS \/ Target(t, c) = NotUtf8 THEN Wrong("InvalidPath")
             ELSE Wrong("Corrupt")
      BY <1>3, <1>5, NamedAtEnd
    <2> QED  BY <1>2, <2>1, TargetAssumption, BoundsAssumption
  <1> QED  BY <1>4, <1>5

-----------------------------------------------------------------------------
(* While it walks, resolve is where substitution puts it. *)
TextOK == pc = "walk" => Walks(fs, path, links, node, pending)

(* The inductive invariant of path resolution. *)
SInv == IInv /\ TextOK /\ ResolveIsSubstitution

LEMMA InitSInv == Init => SInv
  <1>. SUFFICES ASSUME Init PROVE SInv
    OBVIOUS
  <1>1. IInv
    BY InitIInv
  <1>2. IsTree(fs) /\ path \in Text
    BY TreesAssumption, PathsAssumption DEF Init, Text
  <1>3. Walks(fs, path, 0, fs.root, PushComponents(path, <<>>))
    BY <1>2, WalksStart
  <1>4. TextOK
    BY <1>3 DEF Init, TextOK
  <1>5. ResolveIsSubstitution
    BY DEF Init, ResolveIsSubstitution
  <1>. QED  BY <1>1, <1>4, <1>5 DEF SInv

(* Where the next component leads, as the code finds out. *)
LEMMA FoundOnward ==
    ASSUME NEW child, Found(child)
    PROVE  Onward(fs, At(node), LastOf(pending)) = At(child)
  BY PlaceFields DEF Found, Onward, LastOf, Top

LEMMA FailSInv ==
    ASSUME SInv, NEW e, Fail(e), IInv',
           e # "ok", op = "metadata_path" /\ e # "Io" => NamedBy(fs, path) = Wrong(e)
    PROVE  SInv'
  BY DEF SInv, Fail, Return, TextOK, ResolveIsSubstitution

LEMMA NextSInv == SInv /\ [Next]_vars => SInv'
  <1>. SUFFICES ASSUME SInv, [Next]_vars PROVE SInv'
    OBVIOUS
  <1>0. IInv'
    BY NextIInv DEF SInv
  <1>a. IsTree(fs) /\ path \in Text /\ links \in 0..MAX_SYMLINKS /\ links \in Nat
    BY PathsAssumption, BoundsAssumption DEF SInv, IInv, TypeOK, Text
  <1>b. pc # "done" => result = "none"
    BY DEF SInv, IInv, BufferOK
  <1>c. pc = "walk" => Walks(fs, path, links, node, pending)
    BY DEF SInv, TextOK
  <1>1. CASE WalkFails
    <2>1. pending # <<>> /\ Walks(fs, path, links, node, pending)
      BY <1>1, <1>c DEF WalkFails
    <2>2. PICK e \in {"InvalidPath", "NotDirectory", "NotFound"} :
            Fail(e) /\ Onward(fs, At(node), LastOf(pending)) = Wrong(e)
      BY <1>1, PlaceFields DEF WalkFails, Onward, LastOf, Top
    <2>3. NamedBy(fs, path) = Wrong(e)
      BY <1>a, <2>1, <2>2, WalksAstray
    <2>. QED  BY <1>0, <2>2, <2>3, FailSInv
  <1>2. CASE Descend
    <2>1. PICK child \in Nodes : Found(child) /\ fs.kind[child] # "Symlink" /\ node' = child
      BY <1>2 DEF Descend
    <2>2. Onward(fs, At(node), LastOf(pending)) = At(child)
      BY <2>1, FoundOnward
    <2>3. pc = "walk" /\ pending # <<>> /\ Walks(fs, path, links, node, pending)
      BY <1>c, <2>1 DEF Found
    <2>4. Walks(fs, path, links, child, ButLast(pending))
      BY <1>a, <2>1, <2>2, <2>3, WalksDown
    <2>5. /\ pending' = ButLast(pending)
          /\ UNCHANGED <<fs, op, path, pc, links, result>>
      BY <1>2 DEF Descend, Pop, ButLast
    <2>6. TextOK'
      BY <2>1, <2>4, <2>5 DEF TextOK
    <2>7. ResolveIsSubstitution'
      BY <1>b, <2>3, <2>5 DEF ResolveIsSubstitution
    <2>. QED  BY <1>0, <2>6, <2>7 DEF SInv
  <1>3. CASE FollowLink
    <2>1. PICK child \in Nodes :
            /\ Found(child)
            /\ fs.kind[child] = "Symlink"
            /\ fs.target[child] \notin {NoTarget, NotUtf8}
            /\ node' = IF StartsWithSlash(fs.target[child]) THEN fs.root ELSE node
            /\ pending' = PushComponents(fs.target[child], Pop)
      BY <1>3 DEF FollowLink
    <2>2. Onward(fs, At(node), LastOf(pending)) = At(child)
      BY <2>1, FoundOnward
    <2>3. pc = "walk" /\ pending # <<>> /\ Walks(fs, path, links, node, pending)
      BY <1>c, <2>1 DEF Found
    <2>4. fs.target[child] \in Text
      BY <1>a, <2>1 DEF IsTree, Nodes, Text
    <2>5. Walks(fs, path, links + 1, node', PushComponents(fs.target[child], ButLast(pending)))
      BY <1>a, <2>1, <2>2, <2>3, <2>4, WalksThroughLink
    <2>6. pending' = PushComponents(fs.target[child], ButLast(pending))
      BY <2>1 DEF Pop, ButLast
    <2>7. links' = links + 1 /\ UNCHANGED <<fs, op, path, pc, result>>
      BY <1>3 DEF FollowLink
    <2>8. TextOK'
      BY <2>5, <2>6, <2>7 DEF TextOK
    <2>9. ResolveIsSubstitution'
      BY <1>b, <2>3, <2>7 DEF ResolveIsSubstitution
    <2>. QED  BY <1>0, <2>8, <2>9 DEF SInv
  <1>4. CASE LinkFails
    <2>1. PICK child \in Nodes :
            /\ Found(child)
            /\ fs.kind[child] = "Symlink"
            /\ \/ links >= MAX_SYMLINKS /\ Fail("InvalidPath")
               \/ links < MAX_SYMLINKS /\ fs.target[child] = NoTarget /\ Fail("Corrupt")
               \/ links < MAX_SYMLINKS /\ fs.target[child] = NotUtf8 /\ Fail("InvalidPath")
      BY <1>4 DEF LinkFails
    <2>2. Onward(fs, At(node), LastOf(pending)) = At(child)
      BY <2>1, FoundOnward
    <2>3. pc = "walk" /\ pending # <<>> /\ Walks(fs, path, links, node, pending)
      BY <1>c, <2>1 DEF Found
    <2>4. /\ links = MAX_SYMLINKS => NamedBy(fs, path) = Wrong("InvalidPath")
          /\ links < MAX_SYMLINKS /\ fs.target[child] = NoTarget => NamedBy(fs, path) = Wrong("Corrupt")
          /\ links < MAX_SYMLINKS /\ fs.target[child] = NotUtf8 => NamedBy(fs, path) = Wrong("InvalidPath")
      BY <1>a, <2>1, <2>2, <2>3, WalksToDeadLink
    <2>5. links >= MAX_SYMLINKS => links = MAX_SYMLINKS
      BY <1>a, BoundsAssumption
    <2>6. \E e \in {"InvalidPath", "Corrupt"} : Fail(e) /\ NamedBy(fs, path) = Wrong(e)
      BY <2>1, <2>4, <2>5
    <2>. QED  BY <1>0, <2>6, FailSInv
  <1>5. CASE Resolved
    <2>1. pc = "walk" /\ pending = <<>> /\ pc' = "stat" /\ UNCHANGED <<fs, op, path, node, result>>
      BY <1>5 DEF Resolved
    <2>2. Walks(fs, path, links, node, <<>>)
      BY <1>c, <2>1
    <2>3. NamedBy(fs, path) = At(node)
      BY <1>a, <2>2, WalksHome
    <2>. QED  BY <1>0, <2>1, <2>3 DEF SInv, TextOK, ResolveIsSubstitution
  <1>6. CASE MetadataPath
    BY <1>0, <1>6 DEF MetadataPath, Return, SInv, TextOK, ResolveIsSubstitution
  <1>7. CASE ReadDirPath
    BY <1>0, <1>7 DEF ReadDirPath, Fail, Return, SInv, TextOK, ResolveIsSubstitution
  <1>8. CASE ReadRefused
    <2>1. op # "metadata_path" /\ \E e \in {"IsDirectory", "FileTooLarge"} : Fail(e)
      BY <1>8 DEF ReadRefused
    <2>. QED  BY <1>0, <2>1, FailSInv
  <1>9. CASE ReadStart
    BY <1>0, <1>b, <1>9 DEF ReadStart, SInv, TextOK, ResolveIsSubstitution
  <1>10. CASE ReadSome
    BY <1>0, <1>b, <1>10 DEF ReadSome, SInv, TextOK, ResolveIsSubstitution
  <1>11. CASE ReadDone
    BY <1>0, <1>11 DEF ReadDone, Return, SInv, TextOK, ResolveIsSubstitution
  <1>12. CASE IoError
    BY <1>0, <1>12, FailSInv DEF IoError
  <1>13. CASE UNCHANGED vars
    BY <1>0, <1>13 DEF vars, SInv, TextOK, ResolveIsSubstitution
  <1>. QED
    BY <1>1, <1>2, <1>3, <1>4, <1>5, <1>6, <1>7, <1>8, <1>9, <1>10, <1>11, <1>12, <1>13
    DEF Next, Step, Returned

(* path.rs resolve: the stack of pending components computes what replacing  *)
(* the first symlink of the path's text by its target, at most MAX_SYMLINKS  *)
(* times, computes; a path that names nothing gets the error that            *)
(* substitution gives.  For every volume, cyclic and corrupt ones included,  *)
(* every path and every limit.                                               *)
THEOREM ResolvesBySubstitution == Spec => []ResolveIsSubstitution
  <1>1. Spec => []SInv
    BY InitSInv, NextSInv, PTL DEF Spec
  <1>. QED  BY <1>1, PTL DEF SInv
=============================================================================
