--------------------------- MODULE FrontendProofs ---------------------------
(***************************************************************************)
(* Proofs about the frontends, for every device, whatever is stored on it,  *)
(* every sequence of calls and every choice of the formats' constants.      *)
(***************************************************************************)
EXTENDS Frontends, FiniteSetTheorems, SequenceTheorems, TLAPS

V == INSTANCE VerityProofs

-----------------------------------------------------------------------------
(* Sequences whose elements are of no matter. *)
IsSeq(s) == \E S : s \in Seq(S)

LEMMA SeqBasics ==
    ASSUME NEW s, IsSeq(s)
    PROVE  /\ Len(s) \in Nat
           /\ DOMAIN s = 1..Len(s)
           /\ s = [i \in 1..Len(s) |-> s[i]]
  BY DEF IsSeq

LEMMA FcnIsSeq ==
    ASSUME NEW n \in Nat, NEW s, s = [i \in 1..n |-> s[i]]
    PROVE  IsSeq(s) /\ Len(s) = n
  <1> DEFINE S == {s[i] : i \in 1..n}
  <1>1. s \in [1..n -> S]
    OBVIOUS
  <1>2. s \in Seq(S) /\ Len(s) = n
    BY <1>1
  <1> QED  BY <1>2 DEF IsSeq

LEMMA EmptyIsSeq == IsSeq(<<>>) /\ Len(<<>>) = 0
  <1>1. <<>> \in Seq({})
    OBVIOUS
  <1> QED  BY <1>1 DEF IsSeq

LEMMA AppendIsSeq ==
    ASSUME NEW s, IsSeq(s), NEW e
    PROVE  /\ IsSeq(Append(s, e))
           /\ Len(Append(s, e)) = Len(s) + 1
           /\ Append(s, e)[Len(s) + 1] = e
           /\ \A i \in 1..Len(s) : Append(s, e)[i] = s[i]
  <1>1. PICK S : s \in Seq(S)
    BY DEF IsSeq
  <1>2. s \in Seq(S \cup {e}) /\ e \in S \cup {e}
    BY <1>1
  <1>3. Append(s, e) \in Seq(S \cup {e})
    BY <1>2
  <1>4. IsSeq(Append(s, e))
    BY <1>3 DEF IsSeq
  <1>5. Len(s) \in Nat
    BY <1>1
  <1>6. Len(Append(s, e)) = Len(s) + 1 /\ Append(s, e)[Len(s) + 1] = e
    BY <1>2, <1>5
  <1>7. \A i \in 1..Len(s) : Append(s, e)[i] = s[i]
    BY <1>2, <1>5
  <1> QED  BY <1>4, <1>6, <1>7

LEMMA ConcatIsSeq ==
    ASSUME NEW s, IsSeq(s), NEW t, IsSeq(t)
    PROVE  /\ IsSeq(s \o t)
           /\ Len(s \o t) = Len(s) + Len(t)
           /\ \A i \in 1..Len(s) : (s \o t)[i] = s[i]
           /\ \A i \in 1..Len(t) : (s \o t)[Len(s) + i] = t[i]
  <1>1. PICK S : s \in Seq(S)
    BY DEF IsSeq
  <1>2. PICK T : t \in Seq(T)
    BY DEF IsSeq
  <1>3. s \in Seq(S \cup T) /\ t \in Seq(S \cup T)
    BY <1>1, <1>2
  <1>4. s \o t \in Seq(S \cup T)
    BY <1>3
  <1>5. IsSeq(s \o t)
    BY <1>4 DEF IsSeq
  <1>6. Len(s) \in Nat /\ Len(t) \in Nat
    BY <1>3
  <1>7. Len(s \o t) = Len(s) + Len(t)
    BY <1>3
  <1>8. \A i \in 1..Len(s) : (s \o t)[i] = s[i]
    BY <1>3, <1>6
  <1>9. \A i \in 1..Len(t) : (s \o t)[Len(s) + i] = t[i]
    BY <1>3, <1>6
  <1> QED  BY <1>5, <1>7, <1>8, <1>9

LEMMA TailIsSeq ==
    ASSUME NEW s, IsSeq(s), s # <<>>
    PROVE  /\ IsSeq(Tail(s)) /\ Len(Tail(s)) = Len(s) - 1 /\ Len(s) > 0
           /\ Head(s) = s[1]
           /\ \A i \in 1..Len(s) - 1 : Tail(s)[i] = s[i + 1]
  <1>1. PICK S : s \in Seq(S)
    BY DEF IsSeq
  <1>2. Tail(s) \in Seq(S) /\ Len(Tail(s)) = Len(s) - 1 /\ Len(s) > 0 /\ Len(s) \in Nat
    BY <1>1
  <1>3. Head(s) = s[1] /\ \A i \in 1..Len(s) - 1 : Tail(s)[i] = s[i + 1]
    BY <1>1, <1>2
  <1> QED  BY <1>2, <1>3 DEF IsSeq

LEMMA SubSeqIsSeq ==
    ASSUME NEW s, NEW m \in Int, NEW n \in Nat
    PROVE  /\ IsSeq(SubSeq(s, m + 1, m + n))
           /\ Len(SubSeq(s, m + 1, m + n)) = n
           /\ \A i \in 1..n : SubSeq(s, m + 1, m + n)[i] = s[m + i]
  <1> DEFINE q == SubSeq(s, m + 1, m + n)
  <1>1. q = [i \in 1..n |-> s[m + i]]
    OBVIOUS
  <1>2. q = [i \in 1..n |-> q[i]] /\ \A i \in 1..n : q[i] = s[m + i]
    BY <1>1
  <1> HIDE DEF q
  <1>3. IsSeq(q) /\ Len(q) = n
    BY <1>2, FcnIsSeq
  <1> QED  BY <1>2, <1>3 DEF q

LEMMA PrefixIsSeq ==
    ASSUME NEW s, NEW n \in Nat
    PROVE  /\ IsSeq(SubSeq(s, 1, n))
           /\ Len(SubSeq(s, 1, n)) = n
           /\ \A i \in 1..n : SubSeq(s, 1, n)[i] = s[i]
  <1> DEFINE q == SubSeq(s, 1, n)
  <1>1. q = [i \in 1..n |-> s[i]]
    OBVIOUS
  <1>2. q = [i \in 1..n |-> q[i]] /\ \A i \in 1..n : q[i] = s[i]
    BY <1>1
  <1> HIDE DEF q
  <1>3. IsSeq(q) /\ Len(q) = n
    BY <1>2, FcnIsSeq
  <1> QED  BY <1>2, <1>3 DEF q

-----------------------------------------------------------------------------
(* Recursive functions over 0..n exist, and induction over 0..n. *)
LEMMA UpTo ==
    ASSUME NEW n \in Nat, NEW T, NEW f, f[0] \in T, \A i \in 1..n : f[i - 1] \in T => f[i] \in T
    PROVE  \A i \in 0..n : f[i] \in T
  <1> DEFINE D == {i \in Nat : i <= n => f[i] \in T}
  <1>1. 0 \in D
    OBVIOUS
  <1>2. ASSUME NEW i \in Nat, i \in D PROVE i + 1 \in D
    <2> SUFFICES ASSUME i + 1 <= n PROVE f[i + 1] \in T
      OBVIOUS
    <2>1. i + 1 \in 1..n /\ (i + 1) - 1 = i /\ f[i] \in T
      BY <1>2
    <2> QED  BY <2>1
  <1>3. \A i \in Nat : i \in D
    <2> HIDE DEF D
    <2> QED  BY <1>1, <1>2, V!NatInd
  <1> QED  BY <1>3

Climbs(T, a, G, n, f) ==
    /\ f \in [0..n -> T]
    /\ f[0] = a
    /\ \A i \in 1..n : f[i] = G[i][f[i - 1]]

LEMMA Recursion ==
    ASSUME NEW n \in Nat, NEW T, NEW a \in T, NEW G \in [1..n -> [T -> T]]
    PROVE  \E f : Climbs(T, a, G, n, f)
  <1> DEFINE D == {m \in Nat : m <= n => \E f : Climbs(T, a, G, m, f)}
  <1>1. 0 \in D
    <2> DEFINE f == [i \in 0..0 |-> a]
    <2>1. Climbs(T, a, G, 0, f)
      BY DEF Climbs
    <2> QED  BY <2>1
  <1>2. ASSUME NEW m \in Nat, m \in D PROVE m + 1 \in D
    <2> SUFFICES ASSUME m + 1 <= n PROVE \E f : Climbs(T, a, G, m + 1, f)
      OBVIOUS
    <2>1. PICK f : Climbs(T, a, G, m, f)
      BY <1>2
    <2> DEFINE h == [i \in 0..m + 1 |-> IF i = m + 1 THEN G[m + 1][f[m]] ELSE f[i]]
    <2>2. f[m] \in T /\ G[m + 1][f[m]] \in T /\ f \in [0..m -> T] /\ f[0] = a
      BY <2>1 DEF Climbs
    <2>3. h \in [0..m + 1 -> T] /\ h[0] = a
      BY <2>2
    <2>4. ASSUME NEW i \in 1..m + 1 PROVE h[i] = G[i][h[i - 1]]
      <3>1. h[i - 1] = f[i - 1]
        OBVIOUS
      <3>2. CASE i = m + 1
        BY <3>1, <3>2
      <3>3. CASE i # m + 1
        <4>1. i \in 1..m /\ h[i] = f[i]
          BY <3>3
        <4> QED  BY <2>1, <3>1, <4>1 DEF Climbs
      <3> QED  BY <3>2, <3>3
    <2>5. Climbs(T, a, G, m + 1, h)
      <3> HIDE DEF h
      <3> QED  BY <2>3, <2>4 DEF Climbs
    <2> QED  BY <2>5
  <1>3. \A m \in Nat : m \in D
    <2> HIDE DEF D
    <2> QED  BY <1>1, <1>2, V!NatInd
  <1> QED  BY <1>3

-----------------------------------------------------------------------------
(* A table of nodes and the ids its keys have: as many nodes as keys, and     *)
(* each node's number is the id of one key.                                   *)
Tabled(ns, tab) ==
    /\ IsSeq(ns)
    /\ IsFiniteSet(DOMAIN tab) /\ Cardinality(DOMAIN tab) = Len(ns)
    /\ \A k \in DOMAIN tab : tab[k] \in 0..Len(ns) - 1
    /\ \A k, l \in DOMAIN tab : tab[k] = tab[l] => k = l
    /\ \A n \in 0..Len(ns) - 1 : \E k \in DOMAIN tab : tab[k] = n

Extends(tab, tab2) == \A k \in DOMAIN tab : k \in DOMAIN tab2 /\ tab2[k] = tab[k]

LEMMA EmptyTabled == Tabled(<<>>, <<>>)
  <1>1. DOMAIN <<>> = {}
    OBVIOUS
  <1> QED  BY <1>1, EmptyIsSeq, FS_EmptySet DEF Tabled

(* What intern does to a table. *)
LEMMA InternedTabled ==
    ASSUME NEW ns, NEW tab, Tabled(ns, tab), NEW key, NEW inode, NEW t,
           t = Interned([nodes |-> ns, ids |-> tab], key, inode)
    PROVE  /\ Tabled(t.nodes, t.ids)
           /\ Extends(tab, t.ids)
           /\ DOMAIN t.ids = DOMAIN tab \cup {key}
           /\ Len(ns) <= Len(t.nodes) /\ \A i \in 1..Len(ns) : t.nodes[i] = ns[i]
           /\ key \notin DOMAIN tab => t.nodes[t.ids[key] + 1] = inode
           /\ t.ids[key] \in 0..Len(t.nodes) - 1
           /\ Len(t.nodes) > 0
           /\ \A k \in DOMAIN tab : t.nodes[t.ids[k] + 1] = ns[tab[k] + 1]
  <1>0. Len(ns) \in Nat /\ IsSeq(ns)
    BY SeqBasics DEF Tabled
  <1>1. CASE key \in DOMAIN tab
    <2>1. t.nodes = ns /\ t.ids = tab
      BY <1>1 DEF Interned
    <2> QED  BY <1>0, <1>1, <2>1 DEF Tabled, Extends
  <1>2. CASE key \notin DOMAIN tab
    <2>1. t.nodes = Append(ns, inode)
      BY <1>2 DEF Interned
    <2>2. t.ids = [k \in DOMAIN tab \cup {key} |-> IF k = key THEN Len(ns) ELSE tab[k]]
      BY <1>2 DEF Interned
    <2>3. /\ IsSeq(t.nodes)
          /\ Len(t.nodes) = Len(ns) + 1
          /\ t.nodes[Len(ns) + 1] = inode
          /\ \A i \in 1..Len(ns) : t.nodes[i] = ns[i]
      <3>1. /\ IsSeq(Append(ns, inode))
            /\ Len(Append(ns, inode)) = Len(ns) + 1
            /\ Append(ns, inode)[Len(ns) + 1] = inode
            /\ \A i \in 1..Len(ns) : Append(ns, inode)[i] = ns[i]
        BY <1>0, AppendIsSeq
      <3> QED  BY <2>1, <3>1
    <2>4. DOMAIN t.ids = DOMAIN tab \cup {key} /\ t.ids[key] = Len(ns) /\ \A k \in DOMAIN tab : t.ids[k] = tab[k]
      BY <1>2, <2>2
    <2>5. IsFiniteSet(DOMAIN t.ids) /\ Cardinality(DOMAIN t.ids) = Len(ns) + 1
      <3>1. IsFiniteSet(DOMAIN tab) /\ Cardinality(DOMAIN tab) = Len(ns)
        BY DEF Tabled
      <3>2. /\ IsFiniteSet(DOMAIN tab \cup {key})
            /\ Cardinality(DOMAIN tab \cup {key}) = IF key \in DOMAIN tab THEN Cardinality(DOMAIN tab)
                                                    ELSE Cardinality(DOMAIN tab) + 1
        BY <3>1, FS_AddElement
      <3> QED  BY <1>2, <2>4, <3>1, <3>2
    <2>6. \A k \in DOMAIN tab : tab[k] \in 0..Len(ns) - 1
      BY DEF Tabled
    <2>7. \A k \in DOMAIN t.ids : t.ids[k] \in 0..Len(t.nodes) - 1
      BY <1>0, <2>3, <2>4, <2>6
    <2>8. ASSUME NEW k \in DOMAIN t.ids, NEW l \in DOMAIN t.ids, t.ids[k] = t.ids[l] PROVE k = l
      <3>1. tab[k] # Len(ns) \/ k \notin DOMAIN tab
        BY <1>0, <2>6
      <3>2. tab[l] # Len(ns) \/ l \notin DOMAIN tab
        BY <1>0, <2>6
      <3> QED  BY <2>4, <2>8, <3>1, <3>2 DEF Tabled
    <2>9. ASSUME NEW n \in 0..Len(t.nodes) - 1 PROVE \E k \in DOMAIN t.ids : t.ids[k] = n
      <3>1. CASE n = Len(ns)
        BY <2>4, <3>1
      <3>2. CASE n # Len(ns)
        <4>1. n \in 0..Len(ns) - 1
          BY <1>0, <2>3, <3>2
        <4> QED  BY <2>4, <4>1 DEF Tabled
      <3> QED  BY <3>1, <3>2
    <2>10. Tabled(t.nodes, t.ids)
      BY <2>3, <2>5, <2>7, <2>8, <2>9 DEF Tabled
    <2>11. ASSUME NEW k \in DOMAIN tab PROVE t.nodes[t.ids[k] + 1] = ns[tab[k] + 1]
      <3>1. tab[k] + 1 \in 1..Len(ns) /\ t.ids[k] = tab[k]
        BY <1>0, <2>4, <2>6
      <3> QED  BY <2>3, <3>1
    <2> QED  BY <1>0, <2>3, <2>4, <2>7, <2>10, <2>11 DEF Extends
  <1> QED  BY <1>1, <1>2

-----------------------------------------------------------------------------
(* The contract's steps, in the frontends' own variables. *)
Handed(n, tab) == \E k \in DOMAIN tab : tab[k] = n
GrowsTo(tab, tab2) ==
    /\ Extends(tab, tab2)
    /\ \A k, l \in DOMAIN tab2 : tab2[k] = tab2[l] => k = l

SaneReply(r, tab) ==
    /\ arg.op = "read_dir" => \A i \in DOMAIN r.val : Handed(r.val[i].node, tab)
    /\ arg.op = "lookup" => \A i \in DOMAIN r.val : Handed(r.val[i], tab)
    /\ arg.op = "read_at" => Len(r.val) <= arg.len
ProperReply(r, tab) ==
    IF Handed(arg.node, tab) THEN r.err # "NotFound" /\ SaneReply(r, tab)
    ELSE r.err \in {"NotFound", "Io"} \/ (arg.op = "read_link" /\ r.val = <<>>)

Mounts ==
    /\ Opening /\ pc' = "idle"
    /\ GrowsTo(ids, ids')
    /\ \E root \in DOMAIN ids' : DOMAIN ids' = {root}
    /\ Probe
    /\ UNCHANGED <<img, arg>>
Refuses == Opening /\ pc' = "failed" /\ Failed(ret') /\ UNCHANGED <<img, ids, arg>>
StillOpens == Opening /\ Opening' /\ UNCHANGED <<img, ids, arg, ret>>
Calls == pc = "idle" /\ Busy' /\ arg' # NoArg /\ UNCHANGED <<img, ids, ret>>
GoesOn == Busy /\ ~ Opening /\ Busy' /\ GrowsTo(ids, ids') /\ UNCHANGED <<img, arg, ret>>
Replies ==
    /\ Busy /\ ~ Opening /\ pc' = "idle"
    /\ GrowsTo(ids, ids')
    /\ ProperReply(ret', ids')
    /\ UNCHANGED <<img, arg>>
Panics ==
    /\ fs = "cramfs" /\ arg.op = "read_at"
    /\ Len(out) < arg.off /\ arg.off < Cramfs!Here.val.size
    /\ Busy /\ ~ Opening /\ pc' = "panicked"
    /\ UNCHANGED <<img, ids, arg, ret>>
SafeStep == Mounts \/ Refuses \/ StillOpens \/ Calls \/ GoesOn \/ Replies \/ Panics \/ UNCHANGED vars

LEMMA VolumeFixed == UNCHANGED <<img, fs>> => Volume' = Volume
  <1> SUFFICES ASSUME img' = img, fs' = fs PROVE Volume' = Volume
    OBVIOUS
  <1>1. Squash!Probe' = Squash!Probe
    BY DEF Squash!Probe
  <1>2. Rom!Probe' = Rom!Probe
    BY DEF Rom!Probe, Rom!Magic
  <1>3. Cramfs!Probe' = Cramfs!Probe
    BY DEF Cramfs!Probe, Cramfs!LongEnough
  <1>4. Udf!Probe' = Udf!Probe
    BY DEF Udf!Probe, Udf!Tag, Udf!Num, Udf!TAG_AVDP
  <1>5. Iso!Probe' = Iso!Probe
    BY DEF Iso!Probe, Iso!IsVd, Iso!Has
  <1>6. Erofs!Probe' = Erofs!Probe
    BY DEF Erofs!Probe, Erofs!LongEnough, Erofs!Super
  <1>7. Probe' = Probe
    BY <1>1, <1>2, <1>3, <1>4, <1>5, <1>6 DEF Probe
  <1> QED  BY <1>7 DEF Volume

LEMMA SafeStepIsContract == SafeStep /\ UNCHANGED fs => Contract!SafeNext \/ SlicePanic \/ UNCHANGED Contract!vars
  <1> SUFFICES ASSUME SafeStep, fs' = fs PROVE Contract!SafeNext \/ SlicePanic \/ UNCHANGED Contract!vars
    OBVIOUS
  <1>1. img' = img => Volume' = Volume
    BY VolumeFixed
  <1>2. CASE Mounts
    <2>1. Phase = "new" /\ Phase' = "ready"
      BY <1>2 DEF Mounts, Busy, Opening, Phase
    <2>2. Volume.probe
      BY <1>2 DEF Mounts, Volume
    <2>3. Contract!Opened
      BY <1>1, <1>2, <2>1, <2>2 DEF Mounts, Contract!Opened, Contract!Grows, GrowsTo, Extends
    <2> QED  BY <2>3 DEF Contract!SafeNext
  <1>3. CASE Refuses
    <2>1. Phase = "new" /\ Phase' = "dead"
      BY <1>3 DEF Refuses, Busy, Opening, Phase
    <2>2. Contract!Refused
      BY <1>1, <1>3, <2>1 DEF Refuses, Contract!Refused, Failed
    <2> QED  BY <2>2 DEF Contract!SafeNext
  <1>4. CASE StillOpens
    <2>1. Phase = "new" /\ Phase' = "new"
      BY <1>4 DEF StillOpens, Busy, Opening, Phase
    <2> QED  BY <1>1, <1>4, <2>1 DEF StillOpens, Contract!vars
  <1>5. CASE Calls
    <2>1. Phase = "ready" /\ Phase' = "busy"
      BY <1>5 DEF Calls, Busy, Opening, Phase
    <2>2. Contract!Start
      BY <1>1, <1>5, <2>1 DEF Calls, Contract!Start
    <2> QED  BY <2>2 DEF Contract!SafeNext
  <1>6. CASE GoesOn
    <2>1. Phase = "busy" /\ Phase' = "busy"
      BY <1>6 DEF GoesOn, Busy, Opening, Phase
    <2>2. Contract!Learn
      BY <1>1, <1>6, <2>1 DEF GoesOn, Contract!Learn, Contract!Grows, GrowsTo, Extends
    <2> QED  BY <2>2 DEF Contract!SafeNext
  <1>7. CASE Replies
    <2>1. Phase = "busy" /\ Phase' = "ready"
      BY <1>7 DEF Replies, Busy, Opening, Phase
    <2>2. Contract!Proper'
      BY <1>7 DEF Replies, Contract!Proper, Contract!Sane, Contract!Known, ProperReply, SaneReply, Handed
    <2>3. Contract!Finish
      BY <1>1, <1>7, <2>1, <2>2 DEF Replies, Contract!Finish, Contract!Grows, GrowsTo, Extends
    <2> QED  BY <2>3 DEF Contract!SafeNext
  <1>8. CASE UNCHANGED vars
    <2>1. Phase' = Phase
      BY <1>8 DEF Phase, Busy, Opening, vars
    <2> QED  BY <1>1, <1>8, <2>1 DEF Contract!vars, vars
  <1>9. CASE Panics
    <2>1. Phase = "busy" /\ Phase' = "panicked"
      BY <1>9 DEF Panics, Busy, Opening, Phase
    <2> QED  BY <1>9, <2>1 DEF Panics, SlicePanic
  <1> QED  BY <1>2, <1>3, <1>4, <1>5, <1>6, <1>7, <1>8, <1>9 DEF SafeStep

-----------------------------------------------------------------------------
(* The steps that every frontend has: a call comes in, goes into its loop, and *)
(* ends in a reply.                                                            *)
Ops == {"read_dir", "lookup", "metadata", "read_link", "read_at", "uefi"}
WellAsked(a) == a.op \in Ops /\ (a.op = "read_at" => a.off \in Nat /\ a.len \in Nat)

CallState(opens, loops) ==
    /\ pc \in {"idle", "failed", "panicked"} \cup opens \cup Ops \cup loops
    /\ pc \in opens => arg = NoArg /\ ids = <<>> /\ nodes = <<>>
    /\ pc \in Ops \cup loops => WellAsked(arg)
    /\ pc \in Ops => arg.op = pc
    /\ pc \notin loops => todo = <<>> /\ out = <<>>

Advances == Busy /\ Busy' => \/ Stage' < Stage
                             \/ Stage' = Stage /\ Fuel > 0 /\ Fuel' < Fuel

(* Where nothing is under way. *)
Rested(tag) == pc' = tag /\ todo' = <<>> /\ out' = <<>>

LEMMA AskedIsNoOpen == WellAsked(arg) => ~ Opening
  BY DEF WellAsked, Opening, Busy, NoArg, Ops

Injective(tab) == \A k, l \in DOMAIN tab : tab[k] = tab[l] => k = l

LEMMA SameGrows == ASSUME Injective(ids), ids' = ids PROVE GrowsTo(ids, ids')
  BY DEF Injective, GrowsTo, Extends

(* A call ends. *)
LEMMA ReplyStep ==
    ASSUME NEW r, Busy, WellAsked(arg), Return(r), UNCHANGED <<img, arg>>, GrowsTo(ids, ids'), ProperReply(r, ids')
    PROVE  SafeStep /\ Advances /\ Rested("idle")
  <1>1. ~ Opening
    BY AskedIsNoOpen
  <1>2. Rested("idle") /\ ret' = r
    BY <1>1 DEF Return, Rested
  <1>3. Replies
    BY <1>1, <1>2 DEF Replies, Rested
  <1>4. ~ Busy'
    BY <1>2 DEF Rested, Busy
  <1> QED  BY <1>2, <1>3, <1>4 DEF SafeStep, Advances

(* A call ends in a panic. *)
LEMMA PanicStep ==
    ASSUME fs = "cramfs", Busy, WellAsked(arg), arg.op = "read_at", Len(out) < arg.off, arg.off < Cramfs!Here.val.size,
           Panic, UNCHANGED <<img, ids, arg>>
    PROVE  SafeStep /\ Advances /\ Rested("panicked")
  <1>1. ~ Opening
    BY AskedIsNoOpen
  <1>2. Rested("panicked") /\ ret' = ret
    BY DEF Panic, Rested
  <1>3. Panics
    BY <1>1, <1>2 DEF Panics, Rested
  <1>4. ~ Busy'
    BY <1>2 DEF Rested, Busy
  <1> QED  BY <1>2, <1>3, <1>4 DEF SafeStep, Advances

(* open ends: with an error, or with the root in the table. *)
LEMMA RefuseStep ==
    ASSUME NEW r, Busy, arg = NoArg, Failed(r), Return(r), UNCHANGED <<img, arg, ids>>
    PROVE  SafeStep /\ Advances /\ Rested("failed")
  <1>1. Opening
    BY DEF Busy, Opening
  <1>2. Rested("failed") /\ ret' = r
    BY <1>1 DEF Return, Rested
  <1>3. Refuses
    BY <1>1, <1>2 DEF Refuses, Rested, Failed
  <1>4. ~ Busy'
    BY <1>2 DEF Rested, Busy
  <1> QED  BY <1>2, <1>3, <1>4 DEF SafeStep, Advances

LEMMA MountStep ==
    ASSUME NEW r, Busy, arg = NoArg, ~ Failed(r), Return(r), UNCHANGED <<img, arg>>, ids = <<>>,
           NEW root, DOMAIN ids' = {root}, Probe
    PROVE  SafeStep /\ Advances /\ Rested("idle")
  <1>1. Opening
    BY DEF Busy, Opening
  <1>2. Rested("idle") /\ ret' = r
    BY <1>1 DEF Return, Rested
  <1>3. GrowsTo(ids, ids')
    BY DEF GrowsTo, Extends
  <1>4. Mounts
    BY <1>1, <1>2, <1>3 DEF Mounts, Rested
  <1>5. ~ Busy'
    BY <1>2 DEF Rested, Busy
  <1> QED  BY <1>2, <1>4, <1>5 DEF SafeStep, Advances

LEMMA CallStep ==
    ASSUME NEW a, WellAsked(a), pc = "idle", arg' = a, pc' = a.op, UNCHANGED <<img, sb, nodes, ids, todo, pos, out, ret>>
    PROVE  SafeStep /\ Advances
  <1>1. Busy' /\ arg' # NoArg /\ ~ Busy
    BY DEF Busy, WellAsked, Ops, NoArg
  <1>2. Calls
    BY <1>1 DEF Calls
  <1> QED  BY <1>1, <1>2 DEF SafeStep, Advances

(* A call goes into its loop, or takes a turn of it. *)
LEMMA GoesOnStep ==
    ASSUME Busy, WellAsked(arg), pc' \notin {"idle", "failed", "panicked"}, UNCHANGED <<img, arg, ret>>, GrowsTo(ids, ids')
    PROVE  SafeStep
  <1>1. ~ Opening
    BY AskedIsNoOpen
  <1>2. GoesOn
    BY <1>1 DEF GoesOn, Busy
  <1> QED  BY <1>2 DEF SafeStep

LEMMA IntoLoop ==
    ASSUME pc \in Ops, todo = <<>>, pc' \in Loops
    PROVE  Advances
  <1>1. Stage = 2
    BY DEF Stage, Ops, Loops
  <1>2. Stage' = 0
    BY DEF Stage, Loops
  <1> QED  BY <1>1, <1>2 DEF Advances

LEMMA LoopTurn ==
    ASSUME pc \in Loops, pc' \in Loops, Fuel > 0, Fuel' < Fuel
    PROVE  Advances
  <1>1. Stage = 0 /\ Stage' = 0
    BY DEF Stage, Loops
  <1> QED  BY <1>1 DEF Advances

LEMMA Burns == \A e, p, q \in Int : p < e /\ q > p => e - p > 0 /\ e - q < e - p
  OBVIOUS

LEMMA RestStep == Rest => UNCHANGED vars /\ SafeStep /\ Advances
  <1> SUFFICES ASSUME Rest PROVE UNCHANGED vars /\ SafeStep /\ Advances
    OBVIOUS
  <1>1. UNCHANGED vars /\ ~ Busy
    BY DEF Rest, Busy
  <1> QED  BY <1>1 DEF SafeStep, Advances

(* Errors are proper replies. *)
LEMMA ErrorReply ==
    ASSUME NEW r, r.val = <<>>, NEW tab, WellAsked(arg), IF Handed(arg.node, tab) THEN r.err # "NotFound" ELSE r.err \in {"NotFound", "Io"}
    PROVE  ProperReply(r, tab)
  <1>1. DOMAIN r.val = {} /\ Len(r.val) = 0
    OBVIOUS
  <1>2. arg.op = "read_at" => Len(r.val) <= arg.len
    BY <1>1 DEF WellAsked
  <1> QED  BY <1>1, <1>2 DEF ProperReply, SaneReply

-----------------------------------------------------------------------------
(* Of a frontend with a table, the ids handed out are those of its nodes. *)
LEMMA TabledHanded ==
    ASSUME NEW ns, NEW tab, Tabled(ns, tab)
    PROVE  /\ \A n : Handed(n, tab) <=> n \in 0..Len(ns) - 1
           /\ Injective(tab)
  BY DEF Tabled, Handed, Injective

LEMMA HandedStill == ASSUME NEW tab, NEW tab2, Extends(tab, tab2) PROVE \A n : Handed(n, tab) => Handed(n, tab2)
  BY DEF Extends, Handed

(* Listings and what a lookup finds in them. *)
LEMMA ListedIsSane ==
    ASSUME NEW es, IsSeq(es), NEW tab, \A i \in 1..Len(es) : Handed(es[i].node, tab), arg.op \in {"read_dir", "lookup"}
    PROVE  ProperReply(Good(Listed(es)), tab) \/ ~ Handed(arg.node, tab)
  <1>0. Len(es) \in Nat /\ DOMAIN es = 1..Len(es)
    BY SeqBasics
  <1>1. CASE arg.op = "read_dir"
    BY <1>0, <1>1 DEF Listed, ProperReply, SaneReply, Good
  <1>2. CASE arg.op = "lookup"
    <2> DEFINE I == {i \in 1..Len(es) : es[i].name = arg.name}
               f == Found(es, arg.name)
    <2>1. CASE I = {}
      <3>1. f = <<>>
        BY <2>1 DEF Found
      <3> HIDE DEF f
      <3> QED  BY <1>2, <3>1 DEF Listed, ProperReply, SaneReply, Good, f
    <2>2. CASE I # {}
      <3>1. I \subseteq Nat
        BY <1>0
      <3>2. \E i \in I : \A j \in I : i <= j
        <4> HIDE DEF I
        <4> QED  BY <2>2, <3>1, V!NatLeast
      <3>3. Min(I) \in I
        <4> HIDE DEF I
        <4> QED  BY <3>2 DEF Min
      <3>4. Min(I) \in 1..Len(es)
        <4>1. \A i \in I : i \in 1..Len(es)
          BY <1>0
        <4> HIDE DEF I
        <4> QED  BY <3>3, <4>1
      <3>5. f = <<es[Min(I)].node>>
        BY <2>2 DEF Found
      <3>6. Handed(f[1], tab) /\ DOMAIN f = {1}
        <4> HIDE DEF I
        <4> QED  BY <3>4, <3>5
      <3> HIDE DEF f, I
      <3> QED  BY <1>2, <3>6 DEF Listed, ProperReply, SaneReply, Good, f
    <2> QED  BY <2>1, <2>2
  <1> QED  BY <1>1, <1>2

-----------------------------------------------------------------------------
(* Of a frontend without a table, an id is its own key. *)
IdTab(tab) == \A k \in DOMAIN tab : tab[k] = k

LEMMA IdTabHanded ==
    ASSUME NEW tab, IdTab(tab)
    PROVE  (\A n : Handed(n, tab) <=> n \in DOMAIN tab) /\ Injective(tab)
  BY DEF IdTab, Handed, Injective

LEMMA HandsOut ==
    ASSUME IdTab(ids), NEW places, ids' = [k \in DOMAIN ids \cup places |-> k]
    PROVE  /\ GrowsTo(ids, ids') /\ IdTab(ids') /\ DOMAIN ids' = DOMAIN ids \cup places
           /\ \A n : Handed(n, ids') <=> n \in DOMAIN ids \cup places
  BY DEF IdTab, GrowsTo, Extends, Handed

(* What a listing hands out is what it shows. *)
LEMMA ListedIsHanded ==
    ASSUME NEW es, IsSeq(es), arg.op \in {"read_dir", "lookup"}, IdTab(ids), Handed(arg.node, ids),
           ids' = [k \in DOMAIN ids \cup ListedNodes(es) |-> k]
    PROVE  ProperReply(Good(Listed(es)), ids')
  <1>1. \A n : Handed(n, ids') <=> n \in DOMAIN ids \cup ListedNodes(es)
    BY HandsOut
  <1>2. Handed(arg.node, ids')
    BY <1>1, IdTabHanded
  <1>3. CASE arg.op = "read_dir"
    <2>1. \A i \in DOMAIN es : es[i].node \in ListedNodes(es)
      BY <1>3 DEF ListedNodes, Range
    <2> QED  BY <1>1, <1>2, <1>3, <2>1 DEF Listed, ProperReply, SaneReply, Good
  <1>4. CASE arg.op = "lookup"
    <2>1. \A i \in DOMAIN Found(es, arg.name) : Found(es, arg.name)[i] \in ListedNodes(es)
      BY <1>4 DEF ListedNodes, Range
    <2> QED  BY <1>1, <1>2, <1>4, <2>1 DEF Listed, ProperReply, SaneReply, Good
  <1> QED  BY <1>3, <1>4

(* And which places those are. *)
LEMMA ListedPlaces ==
    ASSUME NEW es, IsSeq(es), NEW S, \A i \in 1..Len(es) : es[i].node \in S
    PROVE  ListedNodes(es) \subseteq S
  <1>0. Len(es) \in Nat /\ DOMAIN es = 1..Len(es)
    BY SeqBasics
  <1>1. CASE arg.op # "lookup"
    BY <1>0, <1>1 DEF ListedNodes, Range
  <1>2. CASE arg.op = "lookup"
    <2> DEFINE I == {i \in 1..Len(es) : es[i].name = arg.name}
    <2>1. CASE I = {}
      <3>1. Found(es, arg.name) = <<>>
        BY <2>1 DEF Found
      <3> QED  BY <1>2, <3>1 DEF ListedNodes, Range
    <2>2. CASE I # {}
      <3>1. I \subseteq Nat
        BY <1>0
      <3>2. \E i \in I : \A j \in I : i <= j
        <4> HIDE DEF I
        <4> QED  BY <2>2, <3>1, V!NatLeast
      <3>3. Min(I) \in I
        <4> HIDE DEF I
        <4> QED  BY <3>2 DEF Min
      <3>4. Found(es, arg.name) = <<es[Min(I)].node>>
        BY <2>2 DEF Found
      <3>5. es[Min(I)].node \in S
        <4>1. \A i \in I : es[i].node \in S
          OBVIOUS
        <4> HIDE DEF I
        <4> QED  BY <3>3, <4>1
      <3> HIDE DEF I
      <3> QED  BY <1>2, <3>4, <3>5 DEF ListedNodes, Range
    <2> QED  BY <2>1, <2>2
  <1> QED  BY <1>1, <1>2

-----------------------------------------------------------------------------
(* SquashFS. *)
LEMMA ParseFixed ==
    ASSUME img' = img
    PROVE  \A k : (Squash!ParseInode(k))' = Squash!ParseInode(k)
  <1>1. ASSUME NEW k, NEW n PROVE (Squash!InodeSpan(k, n))' = Squash!InodeSpan(k, n)
    BY DEF Squash!InodeSpan, Squash!Fields, Squash!ReadMetaSpan, Squash!MetaStream, Squash!MeetsTorn, Squash!Joined, Squash!LastBlock,
           Squash!EmptyBlocks, Squash!Min, Squash!Bad, Squash!Good, Squash!LeastOf, Squash!Failed
  <1>2. ASSUME NEW k, NEW f PROVE (Squash!ParseFile(k, f))' = Squash!ParseFile(k, f)
    <2>1. (Squash!BlockCount(f.size, f.frag_idx))' = Squash!BlockCount(f.size, f.frag_idx)
      BY DEF Squash!BlockCount, Squash!CeilDiv
    <2>2. ASSUME NEW c PROVE (Squash!FileInode(f, c))' = Squash!FileInode(f, c)
      OBVIOUS
    <2> QED  BY <1>1, <2>1, <2>2 DEF Squash!ParseFile, Squash!AndThen, Squash!Failed, Squash!Good
  <1>3. ASSUME NEW k, NEW f PROVE (Squash!ParseSymlink(k, f))' = Squash!ParseSymlink(k, f)
    BY <1>1 DEF Squash!ParseSymlink, Squash!AndThen, Squash!Failed, Squash!SymlinkInode, Squash!Good, Squash!Bad
  <1>4. ASSUME NEW k, NEW t, NEW f PROVE (Squash!ParseBody(k, t, f))' = Squash!ParseBody(k, t, f)
    BY <1>2, <1>3 DEF Squash!ParseBody, Squash!DirInode, Squash!Good
  <1>5. ASSUME NEW k PROVE (Squash!ParseInode(k))' = Squash!ParseInode(k)
    BY <1>1, <1>4 DEF Squash!ParseInode, Squash!AndThen, Squash!Failed, Squash!Good, Squash!OtherInode, Squash!Num, Squash!FixedPart
  <1> QED  BY <1>5

LEMMA DeviceIsSeq == ASSUME NEW s, IsDevice(s) PROVE IsSeq(s)
  BY FcnIsSeq DEF IsDevice

(* Pieces that follow each other make a sequence. *)
Joins(g, a, n, first, m) == g = [k \in a..a + n |-> IF k = a THEN first ELSE g[k - 1] \o m[k]]

LEMMA JoinedIsSeq ==
    ASSUME NEW a \in Nat, NEW n \in Nat, NEW first, IsSeq(first), NEW m, \A k \in a + 1..a + n : IsSeq(m[k])
    PROVE  /\ \E g : Joins(g, a, n, first, m)
           /\ \A g : Joins(g, a, n, first, m) => IsSeq(g[a + n])
  <1> DEFINE S == {first[j] : j \in 1..Len(first)} \cup UNION {{m[k][j] : j \in 1..Len(m[k])} : k \in a + 1..a + n}
             T == Seq(S)
             G == [i \in 1..n |-> [t \in T |-> t \o m[a + i]]]
             Is(g) == g = [k \in a..a + n |-> IF k = a THEN first ELSE g[k - 1] \o m[k]]
  <1>1. ASSUME NEW k \in a + 1..a + n PROVE m[k] \in T
    <2>1. Len(m[k]) \in Nat /\ m[k] = [j \in 1..Len(m[k]) |-> m[k][j]]
      BY SeqBasics
    <2>2. \A j \in 1..Len(m[k]) : m[k][j] \in S
      OBVIOUS
    <2> HIDE DEF S
    <2>3. m[k] \in [1..Len(m[k]) -> S]
      BY <2>1, <2>2
    <2> QED  BY <2>1, <2>3
  <1>2. first \in T
    <2>1. Len(first) \in Nat /\ first = [j \in 1..Len(first) |-> first[j]]
      BY SeqBasics
    <2>2. \A j \in 1..Len(first) : first[j] \in S
      OBVIOUS
    <2> HIDE DEF S
    <2>3. first \in [1..Len(first) -> S]
      BY <2>1, <2>2
    <2> QED  BY <2>1, <2>3
  <1> HIDE DEF S
  <1>3. \A i \in 1..n, t \in T : t \o m[a + i] \in T
    <2>1. \A i \in 1..n : a + i \in a + 1..a + n
      OBVIOUS
    <2> QED  BY <1>1, <2>1
  <1>4. G \in [1..n -> [T -> T]]
    <2> HIDE DEF T
    <2> QED  BY <1>3
  <1>5. PICK f : Climbs(T, first, G, n, f)
    <2> HIDE DEF G, T
    <2> QED  BY <1>2, <1>4, Recursion
  <1>6. f \in [0..n -> T] /\ f[0] = first /\ \A i \in 1..n : f[i] = f[i - 1] \o m[a + i]
    <2>1. f \in [0..n -> T] /\ f[0] = first /\ \A i \in 1..n : f[i] = G[i][f[i - 1]]
      <3> HIDE DEF G, T
      <3> QED  BY <1>5 DEF Climbs
    <2>2. \A i \in 1..n : f[i - 1] \in T
      <3> HIDE DEF T
      <3> QED  BY <2>1
    <2> HIDE DEF T
    <2> QED  BY <2>1, <2>2
  <1> DEFINE g0 == [k \in a..a + n |-> f[k - a]]
  <1>7. Is(g0)
    <2>1. ASSUME NEW k \in a..a + n PROVE f[k - a] = IF k = a THEN first ELSE g0[k - 1] \o m[k]
      <3>1. CASE k = a
        BY <1>6, <3>1
      <3>2. CASE k # a
        <4>1. k - a \in 1..n /\ k - 1 \in a..a + n /\ a + (k - a) = k /\ (k - 1) - a = (k - a) - 1
          BY <3>2
        <4>2. g0[k - 1] = f[(k - 1) - a]
          BY <4>1
        <4> HIDE DEF g0
        <4> QED  BY <1>6, <3>2, <4>1, <4>2
      <3> QED  BY <3>1, <3>2
    <2> QED  BY <2>1
  <1>8. ASSUME NEW g, Is(g) PROVE IsSeq(g[a + n])
    <2> DEFINE h == [i \in 0..n |-> g[a + i]]
    <2>1. h[0] = first
      <3>1. a \in a..a + n /\ a + 0 = a /\ 0 \in 0..n
        OBVIOUS
      <3>2. g[a] = first
        BY <1>8, <3>1
      <3> QED  BY <3>1, <3>2
    <2>2. ASSUME NEW i \in 1..n PROVE h[i] = h[i - 1] \o m[a + i]
      <3>1. a + i \in a..a + n /\ a + i # a /\ (a + i) - 1 = a + (i - 1) /\ i \in 0..n /\ i - 1 \in 0..n
        OBVIOUS
      <3>2. g[a + i] = g[(a + i) - 1] \o m[a + i]
        BY <1>8, <3>1
      <3>3. h[i] = g[a + i] /\ h[i - 1] = g[a + (i - 1)]
        BY <3>1
      <3> HIDE DEF h
      <3> QED  BY <3>1, <3>2, <3>3
    <2>3. h[n] = g[a + n]
      OBVIOUS
    <2> HIDE DEF h, T
    <2>4. h[0] \in T /\ \A i \in 1..n : h[i - 1] \in T => h[i] \in T
      BY <1>2, <1>3, <2>1, <2>2
    <2>5. \A i \in 0..n : h[i] \in T
      BY <2>4, UpTo
    <2>6. h[n] \in T
      BY <2>5
    <2> QED  BY <2>3, <2>6 DEF IsSeq, T
  <1> HIDE DEF g0
  <1> QED  BY <1>7, <1>8 DEF Joins

(* An error that does not say that there is no such node, and no value. *)
Sound(r) == r.err # "none" => r.err # "NotFound" /\ r.val = <<>>

LEMMA NumType == \A c, f : Num(c, f) \in Nat
  BY DEF Num

LEMMA SquashStream ==
    ASSUME img \in Images.squashfs, NEW abs \in DOMAIN img.meta, NEW off \in Nat
    PROVE  IsSeq(Squash!MetaStream(abs, off))
  <1> DEFINE E == Squash!EmptyBlocks(abs)
             last == IF E = {} THEN Len(img.meta) ELSE Squash!Min(E)
             block == SubSeq(img.meta[abs], off + 1, Len(img.meta[abs]))
  <1>1. IsSeq(img.meta) /\ \A i \in DOMAIN img.meta : IsSeq(img.meta[i])
    BY SquashImagesAssumption, DeviceIsSeq
  <1>2. Len(img.meta) \in Nat /\ DOMAIN img.meta = 1..Len(img.meta)
    BY <1>1, SeqBasics
  <1>3. Len(img.meta[abs]) \in Nat /\ abs \in Nat
    BY <1>1, <1>2, SeqBasics
  <1>4. E \subseteq abs + 1..Len(img.meta)
    BY DEF Squash!EmptyBlocks
  <1>5. last \in abs..Len(img.meta)
    <2>1. CASE E = {}
      BY <1>2, <1>3, <2>1
    <2>2. CASE E # {}
      <3>1. \E k \in E : \A j \in E : k <= j
        <4>1. E \subseteq Nat
          BY <1>2, <1>3, <1>4
        <4> HIDE DEF E
        <4> QED  BY <2>2, <4>1, V!NatLeast
      <3>2. last \in E
        <4> HIDE DEF E
        <4> QED  BY <2>2, <3>1 DEF Squash!Min
      <3> HIDE DEF E, last
      <3> QED  BY <1>2, <1>3, <1>4, <3>2
    <2> HIDE DEF E
    <2> QED  BY <2>1, <2>2
  <1> HIDE DEF E, last
  <1>6. IsSeq(block)
    <2>1. CASE off <= Len(img.meta[abs])
      <3> DEFINE m == Len(img.meta[abs]) - off
      <3>1. m \in Nat /\ off + m = Len(img.meta[abs]) /\ off \in Int
        BY <1>3, <2>1
      <3>2. /\ IsSeq(SubSeq(img.meta[abs], off + 1, off + m))
            /\ Len(SubSeq(img.meta[abs], off + 1, off + m)) = m
            /\ \A i \in 1..m : SubSeq(img.meta[abs], off + 1, off + m)[i] = img.meta[abs][off + i]
        <4> HIDE DEF m
        <4> QED  BY <3>1, SubSeqIsSeq
      <3> QED  BY <3>1, <3>2
    <2>2. CASE Len(img.meta[abs]) < off
      <3>1. block = [i \in 1..0 |-> block[i]]
        BY <1>3, <2>2
      <3> HIDE DEF block
      <3> QED  BY <3>1, FcnIsSeq
    <2> QED  BY <1>3, <2>1, <2>2
  <1> DEFINE n == last - abs
             Is(g) == Joins(g, abs, n, block, img.meta)
             upto == CHOOSE g : Is(g)
  <1>7. n \in Nat /\ abs + n = last /\ \A k \in abs + 1..abs + n : k \in DOMAIN img.meta
    BY <1>2, <1>3, <1>5
  <1> HIDE DEF block, n
  <1>8. Squash!MetaStream(abs, off) = upto[abs + n]
    BY <1>7 DEF Squash!MetaStream, Squash!Joined, Squash!LastBlock, last, E, block, Joins
  <1> HIDE DEF upto
  <1>9. \A k \in abs + 1..abs + n : IsSeq(img.meta[k])
    BY <1>1, <1>7
  <1>10. (\E g : Is(g)) /\ \A g : Is(g) => IsSeq(g[abs + n])
    BY <1>3, <1>6, <1>7, <1>9, JoinedIsSeq
  <1>11. Is(upto)
    <2> HIDE DEF Is
    <2> QED  BY <1>10 DEF upto
  <1> HIDE DEF Is
  <1> QED  BY <1>8, <1>10, <1>11

LEMMA SquashSpan ==
    ASSUME img \in Images.squashfs, NEW abs, NEW off \in Nat, NEW n \in Nat, NEW r, r = Squash!ReadMetaSpan(abs, off, n)
    PROVE  /\ Sound(r)
           /\ r.err = "none" => IsSeq(r.val)
  <1>1. CASE r.err # "none"
    BY <1>1 DEF Squash!ReadMetaSpan, Squash!Bad, Squash!Good, Sound
  <1>2. CASE r.err = "none"
    <2> DEFINE s == Squash!MetaStream(abs, off)
               m == Squash!LeastOf(Len(s), n)
    <2>1. abs \in DOMAIN img.meta /\ r.val = SubSeq(s, 1, m)
      BY <1>2 DEF Squash!ReadMetaSpan, Squash!Bad, Squash!Good
    <2>2. IsSeq(s)
      BY <2>1, SquashStream
    <2>3. m \in Nat
      <3>1. Len(s) \in Nat
        BY <2>2, SeqBasics
      <3> QED  BY <3>1 DEF Squash!LeastOf
    <2> HIDE DEF s, m
    <2>4. IsSeq(SubSeq(s, 1, m))
      BY <2>3, PrefixIsSeq
    <2> QED  BY <1>2, <2>1, <2>3, <2>4 DEF Sound
  <1> QED  BY <1>1, <1>2

LEMMA SquashInodeSpan ==
    ASSUME img \in Images.squashfs, NEW ref, ref.off \in Nat, NEW n \in Nat, NEW r, r = Squash!InodeSpan(ref, n)
    PROVE  /\ Sound(r)
           /\ r.err = "none" => IsSeq(r.val) /\ Len(r.val) >= n
  <1> DEFINE q == Squash!ReadMetaSpan(img.inode_table_start + ref.block, ref.off, n)
  <1>1. Sound(q) /\ (q.err = "none" => IsSeq(q.val))
    BY SquashSpan
  <1>2. r = Squash!Fields(q, n)
    BY DEF Squash!InodeSpan
  <1> HIDE DEF q
  <1>3. q.err = "none" => Len(q.val) \in Nat
    BY <1>1, SeqBasics
  <1> QED  BY <1>1, <1>2, <1>3 DEF Squash!Fields, Squash!Failed, Squash!Bad, Squash!Good, Sound

(* What parse_inode gives: the block list is as long as the size asks for. *)
SquashInode(v) ==
    /\ v.kind = "dir" => v.body.offset \in Nat /\ v.body.size \in Nat
    /\ v.kind = "file" =>
         /\ v.size \in Nat
         /\ v.body.frag_off \in Nat
         /\ LET n == Len(v.body.block_sizes)
            IN  n \in Nat /\ n >= Squash!BlockCount(v.size, v.body.frag_idx)

LEMMA SquashParse ==
    ASSUME img \in Images.squashfs, img.block_size # 0, NEW ref, ref.off \in Nat, NEW r, r = Squash!ParseInode(ref)
    PROVE  Sound(r) /\ (r.err = "none" => SquashInode(r.val))
  <1>0. img.block_size \in Nat \ {0}
    BY SquashImagesAssumption
  <1> DEFINE head == Squash!InodeSpan(ref, 1)
             fixed == Squash!InodeSpan(ref, 2)
             f == Squash!FixedPart(fixed.val[2])
             t == Squash!Num(head.val[1], "itype")
  <1>1. Sound(head) /\ Sound(fixed)
    BY SquashInodeSpan
  <1>2. f.size \in Nat /\ f.offset \in Nat /\ f.frag_off \in Nat /\ f.frag_idx \in Nat
    BY DEF Squash!FixedPart, Squash!Num
  <1>3. \/ r = head /\ head.err # "none"
        \/ r = Squash!Good(Squash!OtherInode)
        \/ r = fixed /\ fixed.err # "none"
        \/ r = Squash!ParseBody(ref, t, f) /\ t \in {1, 2, 3, 8, 9, 10}
    <2> HIDE DEF head, fixed
    <2>1. r = Squash!AndThen(head, LAMBDA h :
                IF Squash!Num(h[1], "itype") \notin {1, 2, 3, 8, 9, 10} THEN Squash!Good(Squash!OtherInode)
                ELSE Squash!AndThen(fixed, LAMBDA x : Squash!ParseBody(ref, Squash!Num(h[1], "itype"), Squash!FixedPart(x[2]))))
      BY DEF Squash!ParseInode, head, fixed
    <2> QED  BY <2>1 DEF Squash!AndThen, Squash!Failed
  <1> HIDE DEF f, t
  <1>4. ASSUME r = Squash!ParseFile(ref, f) PROVE Sound(r) /\ (r.err = "none" => SquashInode(r.val))
    <2> DEFINE n == Squash!BlockCount(f.size, f.frag_idx)
               c == Squash!InodeSpan(ref, 2 + n)
               sizes == SubSeq(c.val, 3, Len(c.val))
    <2>1. n \in Nat
      <3>1. f.size \div img.block_size \in Nat /\ (f.size + img.block_size - 1) \div img.block_size \in Nat
        <4>1. f.size + img.block_size - 1 \in Nat
          BY <1>0, <1>2
        <4> QED  BY <1>0, <1>2, <4>1, V!DivMod
      <3> QED  BY <3>1 DEF Squash!BlockCount, Squash!CeilDiv
    <2> HIDE DEF n
    <2>2. 2 + n \in Nat
      BY <2>1
    <2>3. Sound(c) /\ (c.err = "none" => IsSeq(c.val) /\ Len(c.val) >= 2 + n)
      BY <2>2, SquashInodeSpan
    <2> HIDE DEF c
    <2>4. r = IF c.err # "none" THEN c ELSE Squash!Good(Squash!FileInode(f, sizes))
      BY <1>4 DEF Squash!ParseFile, Squash!AndThen, Squash!Failed, c, n
    <2>5. CASE c.err # "none"
      BY <2>3, <2>4, <2>5
    <2>6. CASE c.err = "none"
      <3>1. Len(c.val) \in Nat
        BY <2>3, <2>6, SeqBasics
      <3>2. Len(sizes) = Len(c.val) - 2
        BY <2>1, <2>3, <2>6, <3>1
      <3> HIDE DEF sizes
      <3>3. r.err = "none" /\ r.val = Squash!FileInode(f, sizes)
        BY <2>4, <2>6 DEF Squash!Good
      <3>4. r.val.size = f.size /\ r.val.body.frag_off = f.frag_off /\ r.val.body.frag_idx = f.frag_idx
            /\ r.val.body.block_sizes = sizes /\ r.val.kind = "file"
        BY <3>3 DEF Squash!FileInode
      <3>5. SquashInode(r.val)
        BY <1>2, <2>1, <2>3, <2>6, <3>1, <3>2, <3>4 DEF SquashInode, n
      <3> QED  BY <3>3, <3>5 DEF Sound
    <2> QED  BY <2>5, <2>6
  <1>5. ASSUME r = Squash!ParseSymlink(ref, f) PROVE Sound(r) /\ (r.err = "none" => SquashInode(r.val))
    <2> DEFINE c == Squash!InodeSpan(ref, 2 + f.size)
    <2>1. 2 + f.size \in Nat
      BY <1>2
    <2>2. Sound(c)
      BY <2>1, SquashInodeSpan
    <2> HIDE DEF c
    <2>3. r = IF f.size > MAX_BOOT_FILE_BYTES THEN Squash!Bad("FileTooLarge")
              ELSE IF c.err # "none" THEN c ELSE Squash!Good(Squash!SymlinkInode(SubSeq(c.val, 3, Len(c.val))))
      BY <1>5 DEF Squash!ParseSymlink, Squash!AndThen, Squash!Failed, c
    <2> QED  BY <2>2, <2>3 DEF Squash!Good, Squash!Bad, Squash!SymlinkInode, Sound, SquashInode
  <1>6. r = Squash!Good(Squash!OtherInode) => Sound(r) /\ SquashInode(r.val)
    BY DEF Squash!Good, Squash!OtherInode, Sound, SquashInode
  <1>7. r = Squash!Good(Squash!DirInode(f)) => Sound(r) /\ SquashInode(r.val)
    BY <1>2 DEF Squash!Good, Squash!DirInode, Sound, SquashInode
  <1>8. r = Squash!ParseBody(ref, t, f) /\ t \in {1, 2, 3, 8, 9, 10} =>
           \/ r = Squash!Good(Squash!DirInode(f)) \/ r = Squash!ParseFile(ref, f) \/ r = Squash!ParseSymlink(ref, f)
    BY DEF Squash!ParseBody
  <1> HIDE DEF head, fixed
  <1> QED  BY <1>1, <1>3, <1>4, <1>5, <1>6, <1>7, <1>8

(* dir_entries: a sequence of names and references. *)
SquashRefs(es) == IsSeq(es) /\ \A i \in 1..Len(es) : es[i].ref.off \in Nat

LEMMA SquashEntries ==
    ASSUME NEW listing, IsSeq(listing), NEW r, r = Squash!Entries(listing)
    PROVE  Sound(r) /\ (r.err = "none" => SquashRefs(r.val))
  <1> DEFINE n == Len(listing)
             N == {listing[j].name : j \in 1..n} \cup {"OOB"}
             E == [name : N, ref : [block : Nat, off : Nat]]
             T == [p : Nat \ {0}, es : Seq(E)]
             first == [p |-> 1, es |-> <<>>]
             More(t) == IF t.p > n THEN t
                        ELSE [p |-> t.p + 1 + 2 * Squash!RunLength(listing, t.p), es |-> t.es \o Squash!RunOf(listing, t.p)]
             G == [k \in 1..n |-> [t \in T |-> More(t)]]
             Is(g) == g = [k \in 0..n |-> IF k = 0 THEN first
                                          ELSE IF g[k - 1].p > n THEN g[k - 1]
                                          ELSE [p |-> g[k - 1].p + 1 + 2 * Squash!RunLength(listing, g[k - 1].p),
                                                es |-> g[k - 1].es \o Squash!RunOf(listing, g[k - 1].p)]]
             turn == CHOOSE g : Is(g)
  <1>0. n \in Nat
    BY SeqBasics
  <1>1. ASSUME NEW p \in Nat \ {0}, p <= n
        PROVE  Squash!RunLength(listing, p) \in Nat /\ Squash!RunOf(listing, p) \in Seq(E)
    <2> DEFINE m == Squash!RunLength(listing, p)
    <2>1. m \in Nat
      <3>1. Squash!Num(listing[p], "count") \in Nat
        BY DEF Squash!Num
      <3>2. (n - p + 2 - 1) \div 2 \in Nat
        BY <1>0, <1>1
      <3> QED  BY <3>1, <3>2 DEF Squash!RunLength, Squash!LeastOf, Squash!CeilDiv
    <2> HIDE DEF m
    <2>2. ASSUME NEW i \in 1..m
          PROVE  [name |-> IF p + 2 * i <= n THEN listing[p + 2 * i].name ELSE "OOB",
                  ref |-> [block |-> Squash!Num(listing[p], "start"), off |-> Squash!Num(listing[p + 2 * i - 1], "off")]] \in E
      <3>1. (IF p + 2 * i <= n THEN listing[p + 2 * i].name ELSE "OOB") \in N
        BY <1>0, <1>1, <2>1
      <3>2. Squash!Num(listing[p], "start") \in Nat /\ Squash!Num(listing[p + 2 * i - 1], "off") \in Nat
        BY DEF Squash!Num
      <3> HIDE DEF N
      <3> QED  BY <3>1, <3>2
    <2>3. Squash!RunOf(listing, p) \in [1..m -> E]
      <3> HIDE DEF E
      <3> QED  BY <2>2 DEF Squash!RunOf, m
    <2>4. Squash!RunOf(listing, p) \in Seq(E)
      <3> HIDE DEF E
      <3> QED  BY <2>1, <2>3
    <2> QED  BY <2>1, <2>4 DEF m
  <1> HIDE DEF E
  <1>2. \A t \in T : More(t) \in T
    <2> SUFFICES ASSUME NEW t \in T, t.p <= n PROVE More(t) \in T
      BY <1>0
    <2>1. t.p \in Nat \ {0} /\ t.es \in Seq(E)
      OBVIOUS
    <2>2. Squash!RunLength(listing, t.p) \in Nat /\ Squash!RunOf(listing, t.p) \in Seq(E)
      BY <1>1, <2>1
    <2>3. t.p + 1 + 2 * Squash!RunLength(listing, t.p) \in Nat \ {0} /\ t.es \o Squash!RunOf(listing, t.p) \in Seq(E)
      BY <2>1, <2>2
    <2>4. More(t) = [p |-> t.p + 1 + 2 * Squash!RunLength(listing, t.p), es |-> t.es \o Squash!RunOf(listing, t.p)]
      BY <1>0, <2>1
    <2> QED  BY <2>3, <2>4
  <1>3. first \in T
    BY DEF first
  <1>4. G \in [1..n -> [T -> T]]
    <2> HIDE DEF T, More
    <2> QED  BY <1>2
  <1>5. PICK f : Climbs(T, first, G, n, f)
    <2> HIDE DEF T, G, first, n
    <2> QED  BY <1>0, <1>3, <1>4, Recursion
  <1>6. f \in [0..n -> T] /\ f[0] = first /\ \A k \in 1..n : f[k] = More(f[k - 1])
    <2>1. f \in [0..n -> T] /\ f[0] = first /\ \A k \in 1..n : f[k] = G[k][f[k - 1]]
      <3> HIDE DEF T, G, first, n
      <3> QED  BY <1>5 DEF Climbs
    <2>2. \A k \in 1..n : f[k - 1] \in T
      <3> HIDE DEF T
      <3> QED  BY <1>0, <2>1
    <2> HIDE DEF T, More, first
    <2> QED  BY <2>1, <2>2
  <1>7. Is(f)
    <2>1. ASSUME NEW k \in 0..n PROVE f[k] = IF k = 0 THEN first ELSE More(f[k - 1])
      <3> HIDE DEF More, first, T
      <3> QED  BY <1>0, <1>6
    <2>2. f = [k \in 0..n |-> IF k = 0 THEN first ELSE More(f[k - 1])]
      <3> HIDE DEF More, first, T
      <3> QED  BY <1>6, <2>1
    <2> HIDE DEF first, n
    <2> QED  BY <2>2
  <1>8. Is(turn)
    <2> HIDE DEF Is
    <2> QED  BY <1>7
  <1> HIDE DEF turn
  <1>9. turn[0] \in T /\ \A k \in 1..n : turn[k - 1] \in T => turn[k] \in T
    <2>1. turn[0] = first
      <3> HIDE DEF first
      <3> QED  BY <1>0, <1>8
    <2>2. ASSUME NEW k \in 1..n PROVE turn[k] = More(turn[k - 1])
      <3>1. turn = [j \in 0..n |-> IF j = 0 THEN first ELSE More(turn[j - 1])]
        <4> HIDE DEF first, n
        <4> QED  BY <1>8
      <3>2. k \in 0..n /\ k # 0
        BY <1>0
      <3> HIDE DEF first, More, n
      <3> QED  BY <3>1, <3>2
    <2> HIDE DEF More, T, first
    <2> QED  BY <1>2, <1>3, <2>1, <2>2
  <1>10. turn[n] \in T
    <2>1. \A k \in 0..n : turn[k] \in T
      <3> HIDE DEF T, n
      <3> QED  BY <1>0, <1>9, UpTo
    <2> HIDE DEF T
    <2> QED  BY <1>0, <2>1
  <1> DEFINE es == turn[n].es
  <1>11. es \in Seq(E)
    BY <1>10
  <1>12. r = IF \E i \in DOMAIN es : es[i].name = "OOB" THEN Squash!Bad("Corrupt") ELSE Squash!Good(es)
    BY DEF Squash!Entries, turn
  <1> HIDE DEF es
  <1>13. SquashRefs(es)
    <2>1. IsSeq(es)
      BY <1>11 DEF IsSeq
    <2>2. \A i \in 1..Len(es) : es[i] \in E
      BY <1>11
    <2> QED  BY <2>1, <2>2 DEF SquashRefs, E
  <1> QED  BY <1>12, <1>13 DEF Squash!Good, Squash!Bad, Sound

LEMMA SquashDirEntries ==
    ASSUME img \in Images.squashfs, NEW b, b.offset \in Nat, b.size \in Nat, NEW r, r = Squash!DirEntries(b)
    PROVE  Sound(r) /\ (r.err = "none" => SquashRefs(r.val))
  <1> DEFINE n == IF b.size < 3 THEN 0 ELSE b.size - 3
             q == Squash!ReadMetaSpan(b.block, b.offset, n)
  <1>1. n \in Nat
    OBVIOUS
  <1> HIDE DEF n
  <1>2. Sound(q) /\ (q.err = "none" => IsSeq(q.val))
    BY <1>1, SquashSpan
  <1> HIDE DEF q
  <1>3. r = IF q.err # "none" THEN q ELSE Squash!Entries(q.val)
    BY DEF Squash!DirEntries, Squash!AndThen, Squash!Failed, q, n
  <1> QED  BY <1>2, <1>3, SquashEntries

(* A piece of a file is exactly what the loop wants of it. *)
LEMMA SquashBlock ==
    ASSUME NEW at, NEW size
    PROVE  Sound(Squash!ReadDataBlock(at, size))
  BY DEF Squash!ReadDataBlock, Squash!AndThen, Squash!ReadCells, Squash!Decode, Squash!Good, Squash!Bad, Squash!Failed, Sound

Pieces(p, want) == Sound(p) /\ (p.err = "none" => IsSeq(p.val) /\ Len(p.val) = want)

LEMMA SquashSlice ==
    ASSUME NEW r, Sound(r), NEW start \in Nat, NEW want \in Nat
    PROVE  Pieces(Squash!Slice(r, start, want), want)
  <1> DEFINE p == Squash!Slice(r, start, want)
  <1>1. p = IF r.err # "none" THEN r
            ELSE IF start + want > Len(r.val) THEN Squash!Bad("Corrupt")
            ELSE Squash!Good(SubSeq(r.val, start + 1, start + want))
    BY DEF Squash!Slice, Squash!AndThen, Squash!Failed
  <1>2. /\ IsSeq(SubSeq(r.val, start + 1, start + want))
        /\ Len(SubSeq(r.val, start + 1, start + want)) = want
        /\ \A i \in 1..want : SubSeq(r.val, start + 1, start + want)[i] = r.val[start + i]
    <2>1. start \in Int
      OBVIOUS
    <2> QED  BY <2>1, SubSeqIsSeq
  <1> HIDE DEF p
  <1>3. Pieces(p, want)
    BY <1>1, <1>2 DEF Squash!Good, Squash!Bad, Sound, Pieces
  <1> QED  BY <1>3 DEF p

LEMMA SquashFragment ==
    ASSUME NEW idx
    PROVE  Sound(Squash!ReadFragment(idx))
  <1> DEFINE a == img.fragments[idx \div FRAGS_PER_BLOCK + 1]
             q == Squash!ReadMetaSpan(a, idx % FRAGS_PER_BLOCK, 1)
             w == Squash!Fields(q, 1)
  <1>1. Sound(q)
    BY DEF Squash!ReadMetaSpan, Squash!Good, Squash!Bad, Sound
  <1> HIDE DEF q
  <1>2. Sound(w)
    BY <1>1 DEF Squash!Fields, Squash!Good, Squash!Bad, Squash!Failed, Sound
  <1> HIDE DEF w
  <1>3. \/ Squash!ReadFragment(idx) = Squash!Bad("OutOfRange")
        \/ Squash!ReadFragment(idx) = IF w.err # "none" THEN w ELSE Squash!ReadDataBlock(w.val[1].start, w.val[1].size)
    BY DEF Squash!ReadFragment, Squash!AndThen, Squash!Failed, w, q
  <1>4. Sound(Squash!Bad("OutOfRange"))
    BY DEF Squash!Bad, Sound
  <1> QED  BY <1>2, <1>3, <1>4, SquashBlock

LEMMA SquashWant ==
    ASSUME img.block_size \in Nat \ {0}, Squash!Inode.size \in Nat, arg.off \in Nat, arg.len \in Nat,
           pos \in Nat, pos < Squash!End
    PROVE  /\ Squash!Within \in Nat
           /\ Squash!Idx \in Nat
           /\ Squash!Want \in 1..Squash!End - pos
           /\ Squash!End \in Nat
  <1> DEFINE bs == img.block_size
             q == pos \div bs
             m == pos % bs
             s == Squash!Inode.size
             e == Squash!End
  <1>1. q \in Nat /\ m \in 0..bs - 1 /\ m = pos - bs * q
    BY V!DivMod
  <1>2. bs * q \in Nat /\ q * bs = bs * q
    BY <1>1, V!Times
  <1>3. e \in Nat /\ e <= s
    BY DEF Squash!End, Squash!LeastOf
  <1>4. Squash!Idx = q /\ Squash!Within = m
    BY DEF Squash!Idx, Squash!Within
  <1>5. Squash!Want = Squash!LeastOf(Squash!LeastOf(bs, s - q * bs) - m, e - pos)
    BY <1>4 DEF Squash!Want
  <1> HIDE DEF q, m, e
  <1>6. Squash!Want \in 1..e - pos
    <2> DEFINE l == Squash!LeastOf(bs, s - q * bs) - m
    <2>1. l \in Nat \ {0}
      <3> DEFINE x == bs * q
      <3>1. x \in Nat /\ q * bs = x /\ m = pos - x
        BY <1>1, <1>2
      <3> HIDE DEF x
      <3> QED  BY <1>1, <1>3, <3>1 DEF Squash!LeastOf, e
    <2> HIDE DEF l
    <2> QED  BY <1>3, <1>5, <2>1 DEF Squash!LeastOf, l, e
  <1> QED  BY <1>1, <1>3, <1>4, <1>6 DEF e

LEMMA SquashPiece ==
    ASSUME img.block_size \in Nat \ {0}, SquashInode(Squash!Inode), Squash!Inode.kind = "file",
           arg.off \in Nat, arg.len \in Nat, pos \in Nat, pos < Squash!End
    PROVE  Pieces(Squash!Piece, Squash!Want)
  <1> DEFINE b == Squash!Inode.body
             w == Squash!Want
             z == [i \in 1..w |-> 0]
             data == Squash!ReadDataBlock(b.block_offsets[Squash!Idx + 1], b.block_sizes[Squash!Idx + 1])
             frag == Squash!ReadFragment(b.frag_idx)
  <1>1. Squash!Inode.size \in Nat /\ b.frag_off \in Nat
    BY DEF SquashInode
  <1>2. Squash!Within \in Nat /\ w \in Nat
    BY <1>1, SquashWant
  <1>3. b.frag_off + Squash!Within \in Nat
    BY <1>1, <1>2
  <1>4. Pieces(Squash!Good(z), w)
    <2>1. z = [i \in 1..w |-> z[i]]
      OBVIOUS
    <2> HIDE DEF z, w
    <2>2. IsSeq(z) /\ Len(z) = w
      BY <1>2, <2>1, FcnIsSeq
    <2> QED  BY <2>2 DEF Squash!Good, Sound, Pieces
  <1>5. \/ Squash!Piece = Squash!Good(z)
        \/ Squash!Piece = Squash!Slice(data, Squash!Within, w)
        \/ Squash!Piece = Squash!Slice(frag, b.frag_off + Squash!Within, w)
        \/ Squash!Piece = Squash!Bad("TooLong")
    BY DEF Squash!Piece
  <1>6. Pieces(Squash!Bad("TooLong"), w)
    BY DEF Squash!Bad, Sound, Pieces
  <1>7. Sound(data) /\ Sound(frag)
    BY SquashBlock, SquashFragment
  <1> HIDE DEF b, w, z, data, frag
  <1>8. Pieces(Squash!Slice(data, Squash!Within, w), w)
    BY <1>2, <1>7, SquashSlice
  <1>9. Pieces(Squash!Slice(frag, b.frag_off + Squash!Within, w), w)
    BY <1>2, <1>3, <1>7, SquashSlice
  <1>10. Pieces(Squash!Piece, w)
    BY <1>4, <1>5, <1>6, <1>8, <1>9
  <1> QED  BY <1>10 DEF w

-----------------------------------------------------------------------------
(* The invariant of a SquashFS volume. *)
SquashTable ==
    /\ img \in Images.squashfs
    /\ Tabled(nodes, ids)
    /\ \A k \in DOMAIN ids : /\ k.off \in Nat
                             /\ Squash!ParseInode(k).err = "none"
                             /\ nodes[ids[k] + 1] = Squash!ParseInode(k).val
    /\ DOMAIN ids # {} => img.block_size # 0

SquashLoops ==
    /\ pc = "dir" =>
         /\ arg.op \in {"read_dir", "lookup"}
         /\ Handed(arg.node, ids)
         /\ SquashRefs(todo)
         /\ IsSeq(out) /\ \A i \in 1..Len(out) : Handed(out[i].node, ids)
    /\ pc = "file" =>
         /\ arg.op = "read_at" /\ arg.node \in 0..Len(nodes) - 1
         /\ nodes[arg.node + 1].kind = "file"
         /\ pos \in Nat /\ arg.off <= pos /\ pos <= Squash!End
         /\ IsSeq(out) /\ Len(out) = pos - arg.off

SquashInv == CallState({"open"}, {"dir", "file"}) /\ SquashTable /\ SquashLoops

(* A node is what parse_inode gives. *)
LEMMA SquashNodes ==
    ASSUME SquashTable, NEW n \in 0..Len(nodes) - 1
    PROVE  img.block_size \in Nat \ {0} /\ SquashInode(nodes[n + 1])
  <1>1. PICK k \in DOMAIN ids : ids[k] = n
    BY DEF SquashTable, Tabled
  <1>2. img.block_size \in Nat \ {0}
    BY <1>1, SquashImagesAssumption DEF SquashTable
  <1>3. k.off \in Nat /\ img \in Images.squashfs /\ Squash!ParseInode(k).err = "none"
        /\ nodes[n + 1] = Squash!ParseInode(k).val
    BY <1>1 DEF SquashTable
  <1>4. SquashInode(Squash!ParseInode(k).val)
    BY <1>2, <1>3, SquashParse
  <1> QED  BY <1>2, <1>3, <1>4

(* A step that leaves the table alone, and one that gives a key an id. *)
LEMMA SquashSameTable == SquashTable /\ UNCHANGED <<img, nodes, ids>> => SquashTable'
  <1> SUFFICES ASSUME SquashTable, img' = img, nodes' = nodes, ids' = ids PROVE SquashTable'
    OBVIOUS
  <1>1. \A k : (Squash!ParseInode(k))' = Squash!ParseInode(k)
    BY ParseFixed
  <1> QED  BY <1>1 DEF SquashTable

LEMMA SquashInterns ==
    ASSUME SquashTable, img' = img, NEW key, key.off \in Nat, img.block_size # 0,
           Squash!ParseInode(key).err = "none", Squash!Intern(key, Squash!ParseInode(key).val)
    PROVE  /\ SquashTable' /\ GrowsTo(ids, ids')
           /\ DOMAIN ids' = DOMAIN ids \cup {key}
           /\ Handed(ids'[key], ids')
  <1> DEFINE v == Squash!ParseInode(key).val
             t == Interned([nodes |-> nodes, ids |-> ids], key, v)
  <1>1. nodes' = t.nodes /\ ids' = t.ids
    BY DEF Squash!Intern, Squash!Interned, Interned
  <1>2. Tabled(nodes, ids)
    BY DEF SquashTable
  <1> HIDE DEF v
  <1>3. /\ Tabled(t.nodes, t.ids)
        /\ Extends(ids, t.ids)
        /\ DOMAIN t.ids = DOMAIN ids \cup {key}
        /\ Len(nodes) <= Len(t.nodes) /\ \A i \in 1..Len(nodes) : t.nodes[i] = nodes[i]
        /\ key \notin DOMAIN ids => t.nodes[t.ids[key] + 1] = v
        /\ t.ids[key] \in 0..Len(t.nodes) - 1
    <2> HIDE DEF t
    <2> QED  BY <1>2, InternedTabled DEF t
  <1> HIDE DEF t
  <1>4. \A k : (Squash!ParseInode(k))' = Squash!ParseInode(k)
    BY ParseFixed
  <1>5. ASSUME NEW k \in DOMAIN ids'
        PROVE  k.off \in Nat /\ Squash!ParseInode(k).err = "none" /\ nodes'[ids'[k] + 1] = Squash!ParseInode(k).val
    <2>1. CASE k \in DOMAIN ids
      <3>1. ids[k] \in 0..Len(nodes) - 1 /\ Len(nodes) \in Nat
        BY <1>2, <2>1, SeqBasics DEF Tabled
      <3>2. ids[k] + 1 \in 1..Len(nodes) /\ ids'[k] = ids[k]
        BY <1>1, <1>3, <2>1, <3>1 DEF Extends
      <3> QED  BY <1>1, <1>3, <2>1, <3>2 DEF SquashTable
    <2>2. CASE k \notin DOMAIN ids
      <3>1. k = key
        BY <1>1, <1>3, <1>5, <2>2
      <3> QED  BY <1>1, <1>3, <2>2, <3>1 DEF v
    <2> QED  BY <2>1, <2>2
  <1>6. SquashTable'
    BY <1>1, <1>3, <1>4, <1>5 DEF SquashTable
  <1>7. GrowsTo(ids, ids')
    BY <1>1, <1>3 DEF GrowsTo, Tabled
  <1>8. Handed(ids'[key], ids')
    BY <1>1, <1>3 DEF Handed
  <1> QED  BY <1>1, <1>3, <1>6, <1>7, <1>8

LEMMA SquashRested ==
    ASSUME SquashTable', Rested("idle") \/ Rested("failed")
    PROVE  SquashInv'
  <1>1. pc' \in {"idle", "failed"} /\ todo' = <<>> /\ out' = <<>>
    BY DEF Rested
  <1>2. CallState({"open"}, {"dir", "file"})'
    BY <1>1 DEF CallState, Ops
  <1>3. SquashLoops'
    BY <1>1 DEF SquashLoops
  <1> QED  BY <1>2, <1>3 DEF SquashInv

LEMMA SquashShared ==
    /\ \A r : Squash!Return(r) <=> Return(r)
    /\ \A r : Squash!Failed(r) <=> r.err # "none"
    /\ \A es : Squash!Listed(es) = Listed(es)
    /\ Squash!Ids = 0..Len(nodes) - 1
    /\ Squash!Inode = nodes[arg.node + 1]
    /\ Squash!Bad("Io") = [err |-> "Io", val |-> <<>>] /\ Squash!Bad("NotFound") = [err |-> "NotFound", val |-> <<>>]
  <1>1. \A r : Squash!Return(r) <=> Return(r)
    BY DEF Squash!Return, Return, Squash!Opening, Opening, Squash!Busy, Busy, Squash!NoArg, NoArg, Squash!Failed, Failed
  <1>2. \A es : Squash!Listed(es) = Listed(es)
    BY DEF Squash!Listed, Listed, Squash!Found, Found, Squash!Min, Min
  <1> QED  BY <1>1, <1>2 DEF Squash!Failed, Squash!Ids, Squash!Inode, Squash!Bad

(* A call on the table ends, and leaves the table alone. *)
LEMMA SquashReplies ==
    ASSUME SquashInv, pc \in Ops \cup {"dir", "file"}, NEW r, Squash!Return(r), UNCHANGED <<img, arg, nodes, ids>>,
           ProperReply(r, ids)
    PROVE  SquashInv' /\ SafeStep /\ Advances
  <1>1. Busy /\ WellAsked(arg)
    BY DEF SquashInv, CallState, Busy, Ops
  <1>2. Return(r)
    BY SquashShared
  <1>3. GrowsTo(ids, ids') /\ ProperReply(r, ids')
    BY SameGrows, TabledHanded DEF SquashInv, SquashTable
  <1>4. SafeStep /\ Advances /\ Rested("idle")
    BY <1>1, <1>2, <1>3, ReplyStep
  <1>5. SquashTable'
    BY SquashSameTable DEF SquashInv
  <1> QED  BY <1>4, <1>5, SquashRested

LEMMA SquashOpens ==
    ASSUME fs = "squashfs", SquashInv, Squash!Open, UNCHANGED <<img, arg>>
    PROVE  SquashInv' /\ SafeStep /\ Advances
  <1> DEFINE r == Squash!SuperBlock
  <1>1. pc = "open" /\ Busy /\ arg = NoArg /\ ids = <<>> /\ nodes = <<>> /\ SquashTable /\ img \in Images.squashfs
    BY DEF Squash!Open, SquashInv, CallState, Busy, SquashTable
  <1>2. \/ r.err # "none" /\ Return(r) /\ UNCHANGED <<nodes, ids>>
        \/ r.err = "none" /\ Return(Squash!Good(<<>>)) /\ Squash!Intern(img.root, r.val)
    <2> HIDE DEF r
    <2> QED  BY SquashShared DEF Squash!Open, r
  <1>3. CASE r.err # "none" /\ Return(r) /\ UNCHANGED <<nodes, ids>>
    <2> HIDE DEF r
    <2>1. SafeStep /\ Advances /\ Rested("failed")
      BY <1>1, <1>3, RefuseStep DEF Failed
    <2> QED  BY <1>1, <1>3, <2>1, SquashSameTable, SquashRested
  <1>4. CASE r.err = "none" /\ Return(Squash!Good(<<>>)) /\ Squash!Intern(img.root, r.val)
    <2>1. r = Squash!ParseInode(img.root) /\ img.block_size # 0 /\ Squash!Probe
      BY <1>4 DEF Squash!SuperBlock, Squash!Bad, Squash!Probe
    <2>2. img.root.off \in Nat
      BY <1>1, SquashImagesAssumption
    <2> HIDE DEF r
    <2>3. SquashTable' /\ DOMAIN ids' = DOMAIN ids \cup {img.root}
      BY <1>1, <1>4, <2>1, <2>2, SquashInterns
    <2>4. DOMAIN ids' = {img.root}
      BY <1>1, <2>3
    <2>5. Probe /\ ~ Failed(Squash!Good(<<>>))
      BY <2>1 DEF Probe, Failed, Squash!Good
    <2>6. SafeStep /\ Advances /\ Rested("idle")
      BY <1>1, <1>4, <2>4, <2>5, MountStep
    <2> QED  BY <2>3, <2>6, SquashRested
  <1> QED  BY <1>2, <1>3, <1>4

LEMMA SquashReadsDir ==
    ASSUME fs = "squashfs", SquashInv, Squash!ReadDir, UNCHANGED <<img, arg>>
    PROVE  SquashInv' /\ SafeStep /\ Advances
  <1> DEFINE r == Squash!DirEntries(Squash!Inode.body)
  <1>1. pc \in {"read_dir", "lookup"} /\ pc \in Ops /\ arg.op = pc /\ UNCHANGED <<nodes, ids>> /\ WellAsked(arg) /\ Busy
    BY DEF Squash!ReadDir, SquashInv, CallState, Ops, Squash!Table, Busy
  <1>2. \/ arg.node \notin Squash!Ids /\ Squash!Return(Squash!Bad("NotFound"))
        \/ arg.node \in Squash!Ids /\ Squash!Return(Squash!Bad("NotDirectory"))
        \/ arg.node \in Squash!Ids /\ Squash!Inode.kind = "dir" /\ r.err # "none" /\ Squash!Return(r)
        \/ arg.node \in Squash!Ids /\ Squash!Inode.kind = "dir" /\ r.err = "none" /\ Squash!Loop("dir", r.val, 0)
    <2> HIDE DEF r
    <2> QED  BY SquashShared DEF Squash!ReadDir, r
  <1>3. \A n : Handed(n, ids) <=> n \in Squash!Ids
    BY TabledHanded, SquashShared DEF SquashInv, SquashTable
  <1>4. CASE arg.node \notin Squash!Ids /\ Squash!Return(Squash!Bad("NotFound"))
    <2>1. ProperReply(Squash!Bad("NotFound"), ids)
      BY <1>1, <1>3, <1>4, ErrorReply DEF Squash!Bad
    <2> QED  BY <1>1, <1>4, <2>1, SquashReplies
  <1>5. CASE arg.node \in Squash!Ids /\ Squash!Return(Squash!Bad("NotDirectory"))
    <2>1. ProperReply(Squash!Bad("NotDirectory"), ids)
      BY <1>1, <1>3, <1>5, ErrorReply DEF Squash!Bad
    <2> QED  BY <1>1, <1>5, <2>1, SquashReplies
  <1>6. arg.node \in Squash!Ids /\ Squash!Inode.kind = "dir" => Sound(r) /\ (r.err = "none" => SquashRefs(r.val))
    <2> SUFFICES ASSUME arg.node \in Squash!Ids, Squash!Inode.kind = "dir"
                 PROVE  Sound(r) /\ (r.err = "none" => SquashRefs(r.val))
      OBVIOUS
    <2>1. SquashInode(Squash!Inode)
      BY SquashNodes, SquashShared DEF SquashInv
    <2>2. Squash!Inode.body.offset \in Nat /\ Squash!Inode.body.size \in Nat /\ img \in Images.squashfs
      BY <2>1 DEF SquashInode, SquashInv, SquashTable
    <2> QED  BY <2>2, SquashDirEntries
  <1> HIDE DEF r
  <1>7. CASE arg.node \in Squash!Ids /\ Squash!Inode.kind = "dir" /\ r.err # "none" /\ Squash!Return(r)
    <2>1. ProperReply(r, ids)
      BY <1>1, <1>3, <1>6, <1>7, ErrorReply DEF Sound
    <2> QED  BY <1>1, <1>7, <2>1, SquashReplies
  <1>8. CASE arg.node \in Squash!Ids /\ Squash!Inode.kind = "dir" /\ r.err = "none" /\ Squash!Loop("dir", r.val, 0)
    <2>1. pc' = "dir" /\ todo' = r.val /\ out' = out /\ ret' = ret /\ out = <<>> /\ todo = <<>>
      BY <1>1, <1>8 DEF Squash!Loop, SquashInv, CallState, Ops
    <2>2. GrowsTo(ids, ids')
      BY <1>1, SameGrows, TabledHanded DEF SquashInv, SquashTable
    <2>3. SafeStep
      BY <1>1, <2>1, <2>2, GoesOnStep
    <2>4. Advances
      BY <1>1, <2>1, IntoLoop DEF Loops
    <2>5. SquashTable'
      BY <1>1, SquashSameTable DEF SquashInv
    <2>6. CallState({"open"}, {"dir", "file"})'
      BY <1>1, <2>1 DEF CallState, Ops
    <2>7. SquashLoops'
      <3>1. Handed(arg.node, ids) /\ SquashRefs(r.val) /\ IsSeq(<<>>) /\ Len(<<>>) = 0
        BY <1>3, <1>6, <1>8, EmptyIsSeq
      <3>2. (Handed(arg.node, ids))'
        BY <1>1, <3>1 DEF Handed
      <3>3. IsSeq(out') /\ Len(out') = 0 /\ SquashRefs(todo')
        BY <2>1, <3>1
      <3> QED  BY <1>1, <2>1, <3>2, <3>3 DEF SquashLoops
    <2> QED  BY <2>3, <2>4, <2>5, <2>6, <2>7 DEF SquashInv
  <1> QED  BY <1>2, <1>4, <1>5, <1>7, <1>8

LEMMA SquashReadsChild ==
    ASSUME fs = "squashfs", fs' = fs, SquashInv, Squash!DirChild, UNCHANGED <<img, arg>>
    PROVE  SquashInv' /\ SafeStep /\ Advances
  <1> DEFINE e == Head(todo)
             r == Squash!ParseInode(e.ref)
             x == [name |-> e.name, kind |-> r.val.kind, node |-> ids'[e.ref]]
  <1>1. pc = "dir" /\ todo # <<>> /\ WellAsked(arg) /\ Busy /\ arg.op \in {"read_dir", "lookup"}
        /\ Handed(arg.node, ids) /\ SquashRefs(todo) /\ SquashTable
        /\ IsSeq(out) /\ \A i \in 1..Len(out) : Handed(out[i].node, ids)
    BY DEF Squash!DirChild, SquashInv, SquashLoops, CallState, Ops, Busy
  <1>2. \/ r.err # "none" /\ Squash!Return(r) /\ UNCHANGED <<nodes, ids>>
        \/ /\ r.err = "none"
           /\ Squash!Intern(e.ref, r.val)
           /\ out' = Append(out, x) /\ todo' = Tail(todo) /\ UNCHANGED <<pc, pos, ret>>
    <2> HIDE DEF r, e
    <2> QED  BY SquashShared DEF Squash!DirChild, r, e
  <1>3. IsSeq(Tail(todo)) /\ Len(Tail(todo)) = Len(todo) - 1 /\ Len(todo) > 0 /\ e = todo[1]
        /\ \A i \in 1..Len(todo) - 1 : Tail(todo)[i] = todo[i + 1]
    BY <1>1, TailIsSeq DEF SquashRefs
  <1>4. Len(todo) \in Nat /\ e.ref.off \in Nat
    BY <1>1, <1>3, SeqBasics DEF SquashRefs
  <1>5. img.block_size # 0 /\ img \in Images.squashfs
    BY <1>1 DEF Handed, SquashTable
  <1>6. Sound(r)
    BY <1>4, <1>5, SquashParse
  <1> HIDE DEF e
  <1>7. CASE r.err # "none" /\ Squash!Return(r) /\ UNCHANGED <<nodes, ids>>
    <2> HIDE DEF r
    <2>1. ProperReply(r, ids)
      BY <1>1, <1>6, <1>7, ErrorReply DEF Sound
    <2> QED  BY <1>1, <1>7, <2>1, SquashReplies
  <1>8. CASE /\ r.err = "none"
             /\ Squash!Intern(e.ref, r.val)
             /\ out' = Append(out, x) /\ todo' = Tail(todo) /\ UNCHANGED <<pc, pos, ret>>
    <2>1. SquashTable' /\ GrowsTo(ids, ids') /\ Handed(ids'[e.ref], ids')
      BY <1>1, <1>4, <1>5, <1>8, SquashInterns
    <2> HIDE DEF r, x
    <2>2. SafeStep
      BY <1>1, <1>8, <2>1, GoesOnStep
    <2>3. Fuel = Len(todo) /\ Fuel' = Len(todo')
      BY <1>1, <1>8 DEF Fuel, Squash!Fuel
    <2>4. Advances
      BY <1>1, <1>3, <1>4, <1>8, <2>3, LoopTurn DEF Loops
    <2>5. CallState({"open"}, {"dir", "file"})'
      BY <1>1, <1>8 DEF CallState, Ops
    <2>6. \A n : Handed(n, ids) => Handed(n, ids')
      BY <2>1, HandedStill DEF GrowsTo
    <2>7. SquashRefs(todo')
      BY <1>1, <1>3, <1>4, <1>8 DEF SquashRefs
    <2>8. IsSeq(out') /\ \A i \in 1..Len(out') : Handed(out'[i].node, ids')
      <3>1. /\ IsSeq(Append(out, x))
            /\ Len(Append(out, x)) = Len(out) + 1
            /\ Append(out, x)[Len(out) + 1] = x
            /\ \A i \in 1..Len(out) : Append(out, x)[i] = out[i]
        BY <1>1, AppendIsSeq
      <3>2. Len(out) \in Nat
        BY <1>1, SeqBasics
      <3>3. Handed(x.node, ids')
        BY <2>1 DEF x
      <3> QED  BY <1>1, <1>8, <2>6, <3>1, <3>2, <3>3
    <2>9. (Handed(arg.node, ids))'
      BY <1>1, <2>6 DEF Handed
    <2>10. SquashLoops'
      <3>1. \A i \in 1..Len(out') : (Handed(out[i].node, ids))'
        BY <2>8 DEF Handed
      <3> QED  BY <1>1, <1>8, <2>7, <2>8, <2>9, <3>1 DEF SquashLoops
    <2> QED  BY <2>1, <2>2, <2>4, <2>5, <2>10 DEF SquashInv
  <1> QED  BY <1>2, <1>7, <1>8

LEMMA SquashReadsPiece ==
    ASSUME fs = "squashfs", fs' = fs, SquashInv, Squash!ReadPiece, UNCHANGED <<img, arg>>
    PROVE  SquashInv' /\ SafeStep /\ Advances
  <1> DEFINE r == Squash!Piece
             w == Squash!Want
  <1>1. pc = "file" /\ pos < Squash!End /\ UNCHANGED <<nodes, ids>> /\ WellAsked(arg) /\ Busy /\ arg.op = "read_at"
        /\ arg.node \in 0..Len(nodes) - 1 /\ nodes[arg.node + 1].kind = "file" /\ SquashTable
        /\ pos \in Nat /\ arg.off <= pos /\ IsSeq(out) /\ Len(out) = pos - arg.off
    BY DEF Squash!ReadPiece, SquashInv, SquashLoops, CallState, Ops, Busy, Squash!Table
  <1>2. \/ r.err # "none" /\ Squash!Return(r)
        \/ r.err = "none" /\ out' = out \o r.val /\ pos' = pos + w /\ UNCHANGED <<pc, todo, ret>>
    <2> HIDE DEF r
    <2> QED  BY SquashShared DEF Squash!ReadPiece, r
  <1>3. arg.off \in Nat /\ arg.len \in Nat
    BY <1>1 DEF WellAsked
  <1>4. img.block_size \in Nat \ {0} /\ SquashInode(Squash!Inode) /\ Squash!Inode.kind = "file"
    BY <1>1, SquashNodes, SquashShared
  <1>5. Pieces(r, w)
    BY <1>1, <1>3, <1>4, SquashPiece
  <1>6. w \in 1..Squash!End - pos /\ Squash!End \in Nat
    BY <1>1, <1>3, <1>4, SquashWant DEF SquashInode
  <1>7. Squash!End' = Squash!End
    BY <1>1 DEF Squash!End, Squash!Inode
  <1> HIDE DEF r, w
  <1>8. CASE r.err # "none" /\ Squash!Return(r)
    <2>1. ProperReply(r, ids)
      <3>1. Handed(arg.node, ids)
        BY <1>1, TabledHanded DEF SquashTable
      <3> QED  BY <1>1, <1>5, <1>8, <3>1, ErrorReply DEF Sound, Pieces
    <2> QED  BY <1>1, <1>8, <2>1, SquashReplies
  <1>9. CASE r.err = "none" /\ out' = out \o r.val /\ pos' = pos + w /\ UNCHANGED <<pc, todo, ret>>
    <2>1. GrowsTo(ids, ids')
      BY <1>1, SameGrows, TabledHanded DEF SquashTable
    <2>2. SafeStep
      BY <1>1, <1>9, <2>1, GoesOnStep
    <2>3. Fuel = Squash!End - pos /\ Fuel' = Squash!End - pos'
      BY <1>1, <1>7, <1>9 DEF Fuel, Squash!Fuel
    <2>4. Advances
      BY <1>1, <1>6, <1>9, <2>3, LoopTurn DEF Loops
    <2>5. CallState({"open"}, {"dir", "file"})'
      BY <1>1, <1>9 DEF CallState, Ops
    <2>6. IsSeq(r.val) /\ Len(r.val) = w
      BY <1>5, <1>9 DEF Pieces
    <2>7. IsSeq(out') /\ Len(out') = Len(out) + w
      BY <1>1, <1>9, <2>6, ConcatIsSeq
    <2>8. SquashLoops'
      <3>1. pos' \in Nat /\ arg.off <= pos' /\ pos' <= Squash!End' /\ Len(out') = pos' - arg.off
        <4> DEFINE e == Squash!End
                   off == arg.off
        <4>1. w \in Nat /\ w <= e - pos /\ e \in Nat /\ off \in Nat /\ pos \in Nat /\ off <= pos
          BY <1>1, <1>3, <1>6
        <4>2. pos' = pos + w /\ Len(out') = pos - off + w /\ Squash!End' = e
          BY <1>1, <1>7, <1>9, <2>7
        <4> HIDE DEF e, off
        <4>3. pos' \in Nat /\ off <= pos' /\ pos' <= Squash!End' /\ Len(out') = pos' - off
          BY <4>1, <4>2
        <4> QED  BY <4>3 DEF off
      <3> QED  BY <1>1, <1>9, <2>7, <3>1 DEF SquashLoops
    <2>9. SquashTable'
      BY <1>1, SquashSameTable
    <2> QED  BY <2>2, <2>4, <2>5, <2>8, <2>9 DEF SquashInv
  <1> QED  BY <1>2, <1>8, <1>9

(* The steps that only look at the table. *)
LEMMA SquashAnswers ==
    ASSUME fs = "squashfs", fs' = fs, SquashInv, UNCHANGED <<img, arg>>,
           Squash!DirDone \/ Squash!GetMetadata \/ Squash!ReadLink \/ Squash!ReadDone
    PROVE  SquashInv' /\ SafeStep /\ Advances
  <1>0. SquashTable /\ \A n : Handed(n, ids) <=> n \in Squash!Ids
    BY TabledHanded, SquashShared DEF SquashInv, SquashTable
  <1>1. CASE Squash!DirDone
    <2>1. pc = "dir" /\ UNCHANGED <<nodes, ids>> /\ Squash!Return(Squash!Good(Squash!Listed(out))) /\ IsSeq(out)
          /\ (\A i \in 1..Len(out) : Handed(out[i].node, ids)) /\ Handed(arg.node, ids) /\ arg.op \in {"read_dir", "lookup"}
      BY <1>1 DEF Squash!DirDone, SquashInv, SquashLoops, Squash!Table
    <2>2. Squash!Good(Squash!Listed(out)) = Good(Listed(out))
      BY SquashShared DEF Squash!Good, Good
    <2>3. ProperReply(Squash!Good(Squash!Listed(out)), ids)
      BY <2>1, <2>2, ListedIsSane
    <2> QED  BY <2>1, <2>3, SquashReplies
  <1>2. CASE Squash!GetMetadata \/ Squash!ReadLink
    <2>1. pc \in {"metadata", "read_link"} /\ arg.op = pc /\ UNCHANGED <<nodes, ids>> /\ WellAsked(arg)
      BY <1>2 DEF Squash!GetMetadata, Squash!ReadLink, Squash!Answer, SquashInv, CallState, Ops, Squash!Table
    <2>2. PICK v : Squash!Return(IF arg.node \in Squash!Ids THEN Squash!Good(v) ELSE Squash!Bad("NotFound"))
      BY <1>2 DEF Squash!GetMetadata, Squash!ReadLink, Squash!Answer
    <2>3. CASE arg.node \in Squash!Ids
      <3>1. ProperReply(Squash!Good(v), ids)
        BY <1>0, <2>1, <2>3 DEF ProperReply, SaneReply, Squash!Good
      <3> QED  BY <2>1, <2>2, <2>3, <3>1, SquashReplies DEF Ops
    <2>4. CASE arg.node \notin Squash!Ids
      <3>1. ProperReply(Squash!Bad("NotFound"), ids)
        BY <1>0, <2>1, <2>4, ErrorReply DEF Squash!Bad
      <3> QED  BY <2>1, <2>2, <2>4, <3>1, SquashReplies DEF Ops
    <2> QED  BY <2>3, <2>4
  <1>3. CASE Squash!ReadDone
    <2>1. pc = "file" /\ UNCHANGED <<nodes, ids>> /\ Squash!Return(Squash!Good(out)) /\ arg.op = "read_at" /\ WellAsked(arg)
          /\ arg.node \in 0..Len(nodes) - 1 /\ nodes[arg.node + 1].kind = "file"
          /\ Len(out) = pos - arg.off /\ pos <= Squash!End /\ pos \in Nat
      BY <1>3 DEF Squash!ReadDone, SquashInv, SquashLoops, CallState, Squash!Table, Ops
    <2>2. arg.off \in Nat /\ arg.len \in Nat /\ Squash!Inode.size \in Nat
      BY <1>0, <2>1, SquashNodes, SquashShared DEF WellAsked, SquashInode
    <2>3. Len(out) <= arg.len
      BY <2>1, <2>2 DEF Squash!End, Squash!LeastOf
    <2>4. ProperReply(Squash!Good(out), ids)
      BY <1>0, <2>1, <2>3, SquashShared DEF ProperReply, SaneReply, Squash!Good
    <2> QED  BY <2>1, <2>4, SquashReplies
  <1> QED  BY <1>1, <1>2, <1>3

LEMMA SquashReadsAt ==
    ASSUME fs = "squashfs", fs' = fs, SquashInv, UNCHANGED <<img, arg>>, Squash!ReadAt
    PROVE  SquashInv' /\ SafeStep /\ Advances
  <1>0. SquashTable /\ \A n : Handed(n, ids) <=> n \in Squash!Ids
    BY TabledHanded, SquashShared DEF SquashInv, SquashTable
  <1>1. pc = "read_at" /\ pc \in Ops /\ arg.op = pc /\ UNCHANGED <<nodes, ids>> /\ WellAsked(arg) /\ Busy
        /\ todo = <<>> /\ out = <<>>
    BY DEF Squash!ReadAt, SquashInv, CallState, Ops, Squash!Table, Busy
  <1>2. \/ arg.node \notin Squash!Ids /\ Squash!Return(Squash!Bad("NotFound"))
        \/ arg.node \in Squash!Ids /\ Squash!Return(Squash!Bad("IsDirectory"))
        \/ arg.node \in Squash!Ids /\ Squash!Return(Squash!Bad("Unsupported"))
        \/ arg.node \in Squash!Ids /\ Squash!Return(Squash!Good(<<>>))
        \/ /\ arg.node \in Squash!Ids /\ Squash!Inode.kind = "file"
           /\ ~ arg.off >= Squash!Inode.size
           /\ Squash!Loop("file", <<>>, arg.off)
    BY DEF Squash!ReadAt
  <1>3. arg.node \notin Squash!Ids => ProperReply(Squash!Bad("NotFound"), ids)
    BY <1>0, <1>1, ErrorReply DEF Squash!Bad
  <1>4. arg.node \in Squash!Ids => /\ ProperReply(Squash!Bad("IsDirectory"), ids)
                                   /\ ProperReply(Squash!Bad("Unsupported"), ids)
                                   /\ ProperReply(Squash!Good(<<>>), ids)
    BY <1>0, <1>1, ErrorReply DEF Squash!Bad, Squash!Good
  <1>5. ASSUME NEW r, Squash!Return(r), ProperReply(r, ids) PROVE SquashInv' /\ SafeStep /\ Advances
    BY <1>1, <1>5, SquashReplies
  <1>6. CASE arg.node \in Squash!Ids /\ Squash!Inode.kind = "file" /\ ~ arg.off >= Squash!Inode.size
             /\ Squash!Loop("file", <<>>, arg.off)
    <2>1. pc' = "file" /\ todo' = <<>> /\ pos' = arg.off /\ out' = <<>> /\ ret' = ret
      BY <1>1, <1>6 DEF Squash!Loop
    <2>2. GrowsTo(ids, ids')
      BY <1>1, SameGrows, TabledHanded DEF SquashInv, SquashTable
    <2>3. SafeStep
      BY <1>1, <2>1, <2>2, GoesOnStep
    <2>4. Advances
      BY <1>1, <2>1, IntoLoop DEF Loops
    <2>5. SquashTable'
      BY <1>0, <1>1, SquashSameTable
    <2>6. CallState({"open"}, {"dir", "file"})'
      BY <1>1, <2>1 DEF CallState, Ops
    <2>7. arg.off \in Nat /\ arg.len \in Nat /\ Squash!Inode.size \in Nat
      BY <1>0, <1>1, <1>6, SquashNodes, SquashShared DEF WellAsked, SquashInode
    <2>8. Squash!End' = Squash!End /\ arg.off <= Squash!End
      BY <1>1, <1>6, <2>7 DEF Squash!End, Squash!Inode, Squash!LeastOf
    <2>9. IsSeq(out') /\ Len(out') = 0
      BY <2>1, EmptyIsSeq
    <2>10. SquashLoops'
      BY <1>1, <1>6, <2>1, <2>7, <2>8, <2>9, SquashShared DEF SquashLoops
    <2> QED  BY <2>3, <2>4, <2>5, <2>6, <2>10 DEF SquashInv
  <1> QED  BY <1>2, <1>3, <1>4, <1>5, <1>6

LEMMA SquashFails ==
    ASSUME fs = "squashfs", fs' = fs, SquashInv, UNCHANGED <<img, arg>>, Squash!IoError
    PROVE  SquashInv' /\ SafeStep /\ Advances
  <1> DEFINE r == Squash!Bad("Io")
  <1>1. SquashTable /\ Squash!Return(r) /\ Return(r) /\ UNCHANGED <<nodes, ids>> /\ r.err = "Io" /\ r.val = <<>>
    BY SquashShared DEF Squash!IoError, Squash!Table, SquashInv
  <1>2. pc = "open" \/ pc \in Ops \cup {"dir", "file"}
    BY DEF Squash!IoError, Squash!ReadsDevice, Ops
  <1> HIDE DEF r
  <1>3. CASE pc = "open"
    <2>1. Busy /\ arg = NoArg
      BY <1>3 DEF SquashInv, CallState, Busy
    <2>2. SafeStep /\ Advances /\ Rested("failed")
      BY <1>1, <2>1, RefuseStep DEF Failed
    <2> QED  BY <1>1, <2>2, SquashSameTable, SquashRested
  <1>4. CASE pc \in Ops \cup {"dir", "file"}
    <2>1. ProperReply(r, ids)
      BY <1>1, <1>4, ErrorReply DEF SquashInv, CallState
    <2> QED  BY <1>1, <1>4, <2>1, SquashReplies
  <1> QED  BY <1>2, <1>3, <1>4

LEMMA SquashCalls ==
    ASSUME SquashInv, NEW n, NEW a \in Squash!Requests(n), Squash!Call(a)
    PROVE  SquashInv' /\ SafeStep /\ Advances
  <1>1. pc = "idle" /\ arg' = a /\ pc' = a.op /\ UNCHANGED <<img, sb, nodes, ids, todo, pos, out, ret>>
    BY DEF Squash!Call
  <1>2. WellAsked(a)
    BY WindowsAssumption DEF Squash!Requests, WellAsked, Ops
  <1>3. SafeStep /\ Advances
    BY <1>1, <1>2, CallStep
  <1>4. SquashTable'
    BY <1>1, SquashSameTable DEF SquashInv
  <1>5. CallState({"open"}, {"dir", "file"})'
    BY <1>1, <1>2 DEF CallState, WellAsked, Ops, SquashInv
  <1>6. SquashLoops'
    BY <1>1, <1>2 DEF SquashLoops, WellAsked, Ops
  <1> QED  BY <1>3, <1>4, <1>5, <1>6 DEF SquashInv

LEMMA SquashSteps ==
    ASSUME fs = "squashfs", fs' = fs, SquashInv, Squash!Next
    PROVE  SquashInv' /\ SafeStep /\ Advances
  <1>1. CASE Squash!Step
    <2>1. UNCHANGED <<img, arg>>
      BY <1>1 DEF Squash!Step, Squash!Fixed
    <2> QED  BY <1>1, <2>1, SquashOpens, SquashReadsDir, SquashReadsChild, SquashReadsPiece, SquashAnswers, SquashReadsAt,
                SquashFails DEF Squash!Step
  <1> QED  BY <1>1, SquashCalls DEF Squash!Next

LEMMA SquashStarts == Squash!Init => SquashInv
  <1> SUFFICES ASSUME Squash!Init PROVE SquashInv
    OBVIOUS
  <1>1. SquashTable
    <2>1. DOMAIN ids = {}
      BY DEF Squash!Init
    <2> QED  BY <2>1, EmptyTabled DEF SquashTable, Squash!Init
  <1> QED  BY <1>1 DEF SquashInv, Squash!Init, CallState, SquashLoops, Squash!NoArg, NoArg, Ops

(* The block list covers the file. *)
LEMMA SquashCovers == SquashTable => Squash!BlocksCoverFile
  <1> SUFFICES ASSUME SquashTable, NEW i \in DOMAIN nodes, nodes[i].kind = "file"
               PROVE  LET n == Len(nodes[i].body.block_sizes)
                      IN  nodes[i].size <= (IF nodes[i].body.frag_idx = NO_FRAGMENT THEN n ELSE n + 1) * img.block_size
    BY DEF Squash!BlocksCoverFile
  <1> DEFINE v == nodes[i]
             bs == img.block_size
             n == Len(v.body.block_sizes)
             size == v.size
             c == Squash!BlockCount(size, v.body.frag_idx)
  <1>1. DOMAIN nodes = 1..Len(nodes) /\ Len(nodes) \in Nat
    BY SeqBasics DEF SquashTable, Tabled
  <1>2. i - 1 \in 0..Len(nodes) - 1 /\ (i - 1) + 1 = i
    BY <1>1
  <1>3. bs \in Nat \ {0} /\ SquashInode(v)
    BY <1>2, SquashNodes
  <1>4. size \in Nat /\ n \in Nat /\ n >= c
    BY <1>3 DEF SquashInode
  <1> HIDE DEF bs, n, size
  <1>5. CASE v.body.frag_idx = NO_FRAGMENT
    <2>1. c = V!CeilDiv(size, bs)
      BY <1>5 DEF Squash!BlockCount, Squash!CeilDiv, V!CeilDiv, bs
    <2>2. V!CeilDiv(size, bs) \in Nat /\ size <= bs * V!CeilDiv(size, bs)
      BY <1>3, <1>4, V!CeilCounts
    <2> HIDE DEF c
    <2>3. c <= n /\ c \in Nat /\ bs * c <= bs * n /\ n * bs = bs * n /\ bs * n \in Nat /\ bs * c \in Nat
      BY <1>3, <1>4, <2>1, <2>2, V!Times
    <2>4. size <= n * bs
      BY <1>4, <2>1, <2>2, <2>3
    <2> QED  BY <1>5, <2>4 DEF n, size, bs
  <1>6. CASE v.body.frag_idx # NO_FRAGMENT
    <2>1. c = size \div bs
      BY <1>6 DEF Squash!BlockCount, bs
    <2>2. size \div bs \in Nat /\ size < bs * (size \div bs) + bs
      BY <1>3, <1>4, V!DivMod
    <2> HIDE DEF c
    <2>3. c <= n /\ c \in Nat /\ bs * c <= bs * n /\ (n + 1) * bs = bs * n + bs /\ bs * n \in Nat /\ bs * c \in Nat
      BY <1>3, <1>4, <2>1, <2>2, V!Times
    <2>4. size <= (n + 1) * bs
      BY <1>3, <1>4, <2>1, <2>2, <2>3
    <2> QED  BY <1>6, <2>4 DEF n, size, bs
  <1> QED  BY <1>5, <1>6

-----------------------------------------------------------------------------
(* romfs. *)
RomHeader(h) ==
    /\ Sound(h)
    /\ h.err = "none" => /\ h.val.off \in Nat /\ h.val.data_off \in Nat /\ h.val.size \in Nat
                         /\ h.val.next_off \in Nat /\ h.val.info \in Nat

LEMMA RomReads == ASSUME NEW off \in Nat PROVE RomHeader(Rom!ReadHeader(off))
  BY DEF Rom!ReadHeader, Rom!Bad, Rom!Good, Rom!Num, RomHeader, Sound

(* The walk along hard links reads headers only. *)
LEMMA RomResolves == ASSUME NEW off \in Nat PROVE RomHeader(Rom!ResolvedHeader(off))
  <1> DEFINE n == MAX_LINK_HOPS
             T == {Rom!ReadHeader(o) : o \in Nat}
             More(h) == IF h.err # "none" \/ h.val.ftype # Rom!FT_HARDLINK THEN h ELSE Rom!ReadHeader(h.val.info)
             G == [k \in 1..n |-> [h \in T |-> More(h)]]
             Is(g) == g = [k \in 0..n |-> IF k = 0 THEN Rom!ReadHeader(off) ELSE More(g[k - 1])]
             walk == CHOOSE g : Is(g)
  <1>0. n \in Nat
    BY RomfsAssumption
  <1>1. \A h \in T : RomHeader(h)
    BY RomReads
  <1>2. \A h \in T : More(h) \in T
    <2> SUFFICES ASSUME NEW h \in T, h.err = "none" PROVE Rom!ReadHeader(h.val.info) \in T
      OBVIOUS
    <2>1. h.val.info \in Nat
      BY <1>1 DEF RomHeader
    <2> QED  BY <2>1
  <1>3. Rom!ReadHeader(off) \in T
    OBVIOUS
  <1>4. G \in [1..n -> [T -> T]]
    <2> HIDE DEF T, More
    <2> QED  BY <1>2
  <1>5. PICK f : Climbs(T, Rom!ReadHeader(off), G, n, f)
    <2> HIDE DEF T, G, n
    <2> QED  BY <1>0, <1>3, <1>4, Recursion
  <1>6. f \in [0..n -> T] /\ f[0] = Rom!ReadHeader(off) /\ \A k \in 1..n : f[k] = More(f[k - 1])
    <2>1. f \in [0..n -> T] /\ f[0] = Rom!ReadHeader(off) /\ \A k \in 1..n : f[k] = G[k][f[k - 1]]
      <3> HIDE DEF T, G, n
      <3> QED  BY <1>5 DEF Climbs
    <2>2. \A k \in 1..n : f[k - 1] \in T
      <3> HIDE DEF T, n
      <3> QED  BY <1>0, <2>1
    <2> HIDE DEF T, More, n
    <2> QED  BY <2>1, <2>2
  <1>7. Is(f)
    <2> HIDE DEF T, More, n
    <2> QED  BY <1>0, <1>6
  <1>8. Is(walk)
    <2> HIDE DEF Is
    <2> QED  BY <1>7
  <1> HIDE DEF walk
  <1>9. walk[n] \in T
    <2>1. walk[0] = Rom!ReadHeader(off) /\ \A k \in 1..n : walk[k] = More(walk[k - 1])
      <3> HIDE DEF More, n
      <3> QED  BY <1>0, <1>8
    <2>2. \A k \in 0..n : walk[k] \in T
      <3> HIDE DEF More, n, T
      <3>1. walk[0] \in T /\ \A k \in 1..n : walk[k - 1] \in T => walk[k] \in T
        BY <1>2, <1>3, <2>1
      <3> QED  BY <1>0, <3>1, UpTo
    <2> HIDE DEF T
    <2> QED  BY <1>0, <2>2
  <1>10. Rom!ResolvedHeader(off) = IF walk[n].err = "none" /\ walk[n].val.ftype = Rom!FT_HARDLINK THEN Rom!Bad("Corrupt")
                                   ELSE walk[n]
    BY DEF Rom!ResolvedHeader, Rom!Failed, walk
  <1>11. RomHeader(walk[n]) /\ RomHeader(Rom!Bad("Corrupt"))
    <2>1. RomHeader(walk[n])
      <3> HIDE DEF T
      <3> QED  BY <1>1, <1>9
    <2> QED  BY <2>1 DEF RomHeader, Sound, Rom!Bad
  <1> QED  BY <1>10, <1>11

(* A read of a file's data is as long as it is asked to be. *)
LEMMA RomData ==
    ASSUME NEW h, h.data_off \in Nat, NEW off \in Nat, NEW n \in Nat
    PROVE  Pieces(Rom!Data(h, off, n), n)
  <1> DEFINE a == h.data_off + off
             s == SubSeq(img.disk, a + 1, a + n)
             r == Rom!ReadCells(img.disk, a, n)
             z == [i \in DOMAIN s |-> Rom!Plain(s[i])]
  <1>1. a \in Int
    OBVIOUS
  <1> HIDE DEF a
  <1>2. IsSeq(s) /\ Len(s) = n /\ \A i \in 1..n : s[i] = img.disk[a + i]
    BY <1>1, SubSeqIsSeq
  <1>3. DOMAIN s = 1..n
    BY <1>2, SeqBasics
  <1>4. z = [i \in 1..n |-> z[i]]
    BY <1>3
  <1>5. r = IF a + n > Len(img.disk) THEN Rom!Bad("OutOfRange") ELSE Rom!Good(s)
    BY DEF Rom!ReadCells
  <1>6. Rom!Data(h, off, n) = IF a + n > Len(img.disk) THEN Rom!Bad("OutOfRange") ELSE Rom!Good(z)
    <2>1. Rom!Data(h, off, n) = IF r.err # "none" THEN r ELSE Rom!Good([i \in DOMAIN r.val |-> Rom!Plain(r.val[i])])
      BY DEF Rom!Data, Rom!Failed, a
    <2> HIDE DEF r, s
    <2>2. CASE a + n > Len(img.disk)
      BY <1>5, <2>1, <2>2 DEF Rom!Bad
    <2>3. CASE ~ a + n > Len(img.disk)
      <3>1. r.err = "none" /\ r.val = s
        BY <1>5, <2>3 DEF Rom!Good
      <3> QED  BY <2>1, <2>3, <3>1
    <2> QED  BY <2>2, <2>3
  <1> HIDE DEF z
  <1>7. IsSeq(z) /\ Len(z) = n
    BY <1>4, FcnIsSeq
  <1> QED  BY <1>6, <1>7 DEF Rom!Good, Rom!Bad, Pieces, Sound

(* Ids are places on the device, and every call is about one that was given. *)
RomInv ==
    /\ CallState({"open"}, {"dir"})
    /\ img \in Images.romfs
    /\ IdTab(ids) /\ DOMAIN ids \subseteq Nat
    /\ pc \in Ops \cup {"dir"} => Handed(arg.node, ids)
    /\ pc = "dir" =>
         /\ arg.op \in {"read_dir", "lookup"}
         /\ todo \in Nat /\ pos \in Nat
         /\ IsSeq(out) /\ \A i \in 1..Len(out) : out[i].node \in Nat

LEMMA RomShared ==
    /\ \A r : Rom!Return(r) <=> Return(r)
    /\ \A r : Rom!Failed(r) <=> r.err # "none"
    /\ \A es : Rom!Listed(es) = Listed(es)
    /\ \A es : Rom!ListedNodes(es) = ListedNodes(es)
  <1>1. \A r : Rom!Return(r) <=> Return(r)
    BY DEF Rom!Return, Return, Rom!Opening, Opening, Rom!Busy, Busy, Rom!NoArg, NoArg, Rom!Failed, Failed
  <1>2. \A es, n : Rom!Found(es, n) = Found(es, n)
    BY DEF Rom!Found, Found, Rom!Min, Min
  <1>3. \A es : Rom!Listed(es) = Listed(es) /\ Rom!ListedNodes(es) = ListedNodes(es)
    BY <1>2 DEF Rom!Listed, Listed, Rom!ListedNodes, ListedNodes, Rom!Range, Range
  <1> QED  BY <1>1, <1>3 DEF Rom!Failed

LEMMA RomRested ==
    ASSUME RomInv, IdTab(ids'), DOMAIN ids' \subseteq Nat, img' = img, Rested("idle") \/ Rested("failed")
    PROVE  RomInv'
  <1>1. pc' \in {"idle", "failed"} /\ todo' = <<>> /\ out' = <<>>
    BY DEF Rested
  <1>2. CallState({"open"}, {"dir"})'
    BY <1>1 DEF CallState, Ops
  <1> QED  BY <1>1, <1>2 DEF RomInv, IdTab, Ops

LEMMA RomReplies ==
    ASSUME RomInv, pc \in Ops \cup {"dir"}, NEW r, Rom!Return(r), UNCHANGED <<img, arg, ids>>, ProperReply(r, ids)
    PROVE  RomInv' /\ SafeStep /\ Advances
  <1>1. Busy /\ WellAsked(arg)
    BY DEF RomInv, CallState, Busy, Ops
  <1>2. Return(r)
    BY RomShared
  <1>3. GrowsTo(ids, ids') /\ ProperReply(r, ids')
    BY SameGrows, IdTabHanded DEF RomInv
  <1>4. SafeStep /\ Advances /\ Rested("idle")
    BY <1>1, <1>2, <1>3, ReplyStep
  <1> QED  BY <1>4, RomRested DEF RomInv

LEMMA RomTarget ==
    ASSUME RomInv, pc \in Ops \cup {"dir"}
    PROVE  RomHeader(Rom!Target) /\ Handed(arg.node, ids) /\ WellAsked(arg)
  <1>1. Handed(arg.node, ids) /\ WellAsked(arg)
    BY DEF RomInv, CallState
  <1>2. arg.node \in Nat
    BY <1>1, IdTabHanded DEF RomInv
  <1> QED  BY <1>1, <1>2, RomResolves DEF Rom!Target

LEMMA RomOpens ==
    ASSUME fs = "romfs", RomInv, Rom!Open, UNCHANGED <<img, arg>>
    PROVE  RomInv' /\ SafeStep /\ Advances
  <1>1. pc = "open" /\ Busy /\ arg = NoArg /\ ids = <<>> /\ IdTab(ids) /\ DOMAIN ids = {}
    BY DEF Rom!Open, RomInv, CallState, Busy
  <1>2. \/ Return(Rom!Bad("Corrupt")) /\ UNCHANGED ids
        \/ Rom!Probe /\ Return(Rom!Good(<<>>)) /\ Rom!HandOut({2})
    BY RomShared DEF Rom!Open, Rom!Probe
  <1>3. CASE Return(Rom!Bad("Corrupt")) /\ UNCHANGED ids
    <2>1. Failed(Rom!Bad("Corrupt"))
      BY DEF Failed, Rom!Bad
    <2>2. SafeStep /\ Advances /\ Rested("failed")
      BY <1>1, <1>3, <2>1, RefuseStep
    <2> QED  BY <1>3, <2>2, RomRested DEF RomInv
  <1>4. CASE Rom!Probe /\ Return(Rom!Good(<<>>)) /\ Rom!HandOut({2})
    <2>1. ids' = [k \in DOMAIN ids \cup {2} |-> k]
      BY <1>4 DEF Rom!HandOut
    <2>2. IdTab(ids') /\ DOMAIN ids' = {2}
      BY <1>1, <2>1, HandsOut
    <2>3. Probe /\ ~ Failed(Rom!Good(<<>>))
      BY <1>4 DEF Probe, Failed, Rom!Good
    <2>4. SafeStep /\ Advances /\ Rested("idle")
      BY <1>1, <1>4, <2>2, <2>3, MountStep
    <2> QED  BY <2>2, <2>4, RomRested
  <1> QED  BY <1>2, <1>3, <1>4

LEMMA RomReadsDir ==
    ASSUME fs = "romfs", fs' = fs, RomInv, Rom!ReadDir, UNCHANGED <<img, arg>>
    PROVE  RomInv' /\ SafeStep /\ Advances
  <1> DEFINE h == Rom!Target
  <1>1. pc \in {"read_dir", "lookup"} /\ pc \in Ops /\ arg.op = pc /\ UNCHANGED <<nodes, ids>> /\ Busy /\ todo = <<>> /\ out = <<>>
    BY DEF Rom!ReadDir, RomInv, CallState, Ops, Rom!Table, Busy
  <1>2. RomHeader(h) /\ Handed(arg.node, ids) /\ WellAsked(arg)
    BY <1>1, RomTarget
  <1>3. \/ h.err # "none" /\ Rom!Return(h)
        \/ Rom!Return(Rom!Bad("NotDirectory"))
        \/ h.err = "none" /\ Rom!Loop("dir", MAX_ENTRIES, h.val.info)
    <2> HIDE DEF h
    <2> QED  BY RomShared DEF Rom!ReadDir, h
  <1> HIDE DEF h
  <1>4. CASE h.err # "none" /\ Rom!Return(h)
    <2>1. ProperReply(h, ids)
      BY <1>2, <1>4, ErrorReply DEF RomHeader, Sound
    <2> QED  BY <1>1, <1>4, <2>1, RomReplies
  <1>5. CASE Rom!Return(Rom!Bad("NotDirectory"))
    <2>1. ProperReply(Rom!Bad("NotDirectory"), ids)
      BY <1>2, ErrorReply DEF Rom!Bad
    <2> QED  BY <1>1, <1>5, <2>1, RomReplies
  <1>6. CASE h.err = "none" /\ Rom!Loop("dir", MAX_ENTRIES, h.val.info)
    <2>1. pc' = "dir" /\ todo' = MAX_ENTRIES /\ pos' = h.val.info /\ out' = <<>> /\ ret' = ret
      BY <1>1, <1>6 DEF Rom!Loop
    <2>2. GrowsTo(ids, ids')
      BY <1>1, SameGrows, IdTabHanded DEF RomInv
    <2>3. SafeStep
      BY <1>1, <1>2, <2>1, <2>2, GoesOnStep
    <2>4. Advances
      BY <1>1, <2>1, IntoLoop DEF Loops
    <2>5. CallState({"open"}, {"dir"})'
      BY <1>1, <1>2, <2>1 DEF CallState, Ops
    <2>6. IsSeq(out') /\ Len(out') = 0
      BY <2>1, EmptyIsSeq
    <2>7. todo' \in Nat /\ pos' \in Nat
      BY <1>2, <1>6, <2>1, RomfsAssumption DEF RomHeader
    <2> QED  BY <1>1, <1>2, <2>1, <2>3, <2>4, <2>5, <2>6, <2>7 DEF RomInv, IdTab, Handed
  <1> QED  BY <1>3, <1>4, <1>5, <1>6

LEMMA RomReadsEntry ==
    ASSUME fs = "romfs", fs' = fs, RomInv, Rom!DirEntry, UNCHANGED <<img, arg>>
    PROVE  RomInv' /\ SafeStep /\ Advances
  <1> DEFINE h == Rom!ReadHeader(pos)
             t == Rom!ResolvedHeader(pos)
             dots == h.val.name \in {".", ".."}
             x == [name |-> h.val.name, node |-> t.val.off, kind |-> Rom!Kind(t.val.ftype)]
  <1>1. pc = "dir" /\ todo > 0 /\ todo \in Nat /\ pos \in Nat /\ UNCHANGED <<nodes, ids>> /\ WellAsked(arg) /\ Busy
        /\ arg.op \in {"read_dir", "lookup"} /\ Handed(arg.node, ids)
        /\ IsSeq(out) /\ \A i \in 1..Len(out) : out[i].node \in Nat
    BY DEF Rom!DirEntry, RomInv, CallState, Ops, Busy, Rom!Table
  <1>2. \/ h.err # "none" /\ Rom!Return(h)
        \/ t.err # "none" /\ Rom!Return(t)
        \/ /\ h.err = "none" /\ (dots \/ t.err = "none")
           /\ out' = IF dots THEN out ELSE Append(out, x)
           /\ pos' = h.val.next_off /\ todo' = todo - 1 /\ UNCHANGED <<pc, ret>>
    <2> HIDE DEF h, t
    <2> QED  BY RomShared DEF Rom!DirEntry, h, t
  <1>3. RomHeader(h) /\ RomHeader(t)
    BY <1>1, RomReads, RomResolves
  <1> HIDE DEF h, t, x, dots
  <1>4. CASE h.err # "none" /\ Rom!Return(h)
    <2>1. ProperReply(h, ids)
      BY <1>1, <1>3, <1>4, ErrorReply DEF RomHeader, Sound
    <2> QED  BY <1>1, <1>4, <2>1, RomReplies
  <1>5. CASE t.err # "none" /\ Rom!Return(t)
    <2>1. ProperReply(t, ids)
      BY <1>1, <1>3, <1>5, ErrorReply DEF RomHeader, Sound
    <2> QED  BY <1>1, <1>5, <2>1, RomReplies
  <1>6. CASE /\ h.err = "none" /\ (dots \/ t.err = "none")
             /\ out' = IF dots THEN out ELSE Append(out, x)
             /\ pos' = h.val.next_off /\ todo' = todo - 1 /\ UNCHANGED <<pc, ret>>
    <2>1. GrowsTo(ids, ids')
      BY <1>1, SameGrows, IdTabHanded DEF RomInv
    <2>2. SafeStep
      BY <1>1, <1>6, <2>1, GoesOnStep
    <2>3. Fuel = todo /\ Fuel' = todo'
      BY <1>1, <1>6 DEF Fuel, Rom!Fuel
    <2>4. Advances
      BY <1>1, <1>6, <2>3, LoopTurn DEF Loops
    <2>5. CallState({"open"}, {"dir"})'
      BY <1>1, <1>6 DEF CallState, Ops
    <2>6. IsSeq(out') /\ \A i \in 1..Len(out') : out'[i].node \in Nat
      <3>1. CASE dots
        BY <1>1, <1>6, <3>1
      <3>2. CASE ~ dots
        <4>1. /\ IsSeq(Append(out, x))
              /\ Len(Append(out, x)) = Len(out) + 1
              /\ Append(out, x)[Len(out) + 1] = x
              /\ \A i \in 1..Len(out) : Append(out, x)[i] = out[i]
          BY <1>1, AppendIsSeq
        <4>2. Len(out) \in Nat /\ x.node \in Nat
          BY <1>1, <1>3, <1>6, <3>2, SeqBasics DEF x, RomHeader
        <4> QED  BY <1>1, <1>6, <3>2, <4>1, <4>2
      <3> QED  BY <3>1, <3>2
    <2>7. todo' \in Nat /\ pos' \in Nat
      BY <1>1, <1>3, <1>6 DEF RomHeader
    <2> QED  BY <1>1, <1>6, <2>2, <2>4, <2>5, <2>6, <2>7 DEF RomInv, IdTab, Handed
  <1> QED  BY <1>2, <1>4, <1>5, <1>6

LEMMA RomDone ==
    ASSUME fs = "romfs", fs' = fs, RomInv, Rom!DirDone, UNCHANGED <<img, arg>>
    PROVE  RomInv' /\ SafeStep /\ Advances
  <1>1. pc = "dir" /\ Busy /\ WellAsked(arg) /\ arg.op \in {"read_dir", "lookup"} /\ Handed(arg.node, ids) /\ IdTab(ids)
        /\ IsSeq(out) /\ \A i \in 1..Len(out) : out[i].node \in Nat
    BY DEF Rom!DirDone, RomInv, CallState, Busy, Ops
  <1>2. Return(Good(Listed(out))) /\ ids' = [k \in DOMAIN ids \cup ListedNodes(out) |-> k]
    BY RomShared DEF Rom!DirDone, Rom!HandOut, Rom!Good, Good
  <1>3. GrowsTo(ids, ids') /\ IdTab(ids') /\ DOMAIN ids' = DOMAIN ids \cup ListedNodes(out)
    BY <1>1, <1>2, HandsOut
  <1>4. ProperReply(Good(Listed(out)), ids')
    BY <1>1, <1>2, ListedIsHanded
  <1>5. SafeStep /\ Advances /\ Rested("idle")
    BY <1>1, <1>2, <1>3, <1>4, ReplyStep
  <1>6. DOMAIN ids' \subseteq Nat
    BY <1>1, <1>3, ListedPlaces DEF RomInv
  <1> QED  BY <1>3, <1>5, <1>6, RomRested

LEMMA RomAnswers ==
    ASSUME fs = "romfs", fs' = fs, RomInv, UNCHANGED <<img, arg>>, Rom!GetMetadata \/ Rom!ReadAt \/ Rom!ReadLink
    PROVE  RomInv' /\ SafeStep /\ Advances
  <1> DEFINE h == Rom!Target
  <1>1. pc \in {"metadata", "read_at", "read_link"} /\ pc \in Ops /\ arg.op = pc /\ UNCHANGED ids
    BY DEF Rom!GetMetadata, Rom!ReadAt, Rom!ReadLink, RomInv, CallState, Ops, Rom!Table
  <1>2. RomHeader(h) /\ Handed(arg.node, ids) /\ WellAsked(arg)
    BY <1>1, RomTarget
  <1>3. ASSUME NEW r, r.err # "NotFound", arg.op = "read_at" => Len(r.val) <= arg.len PROVE ProperReply(r, ids)
    BY <1>1, <1>2, <1>3 DEF ProperReply, SaneReply
  <1>4. h.err # "none" => h.err # "NotFound" /\ h.val = <<>>
    BY <1>2 DEF RomHeader, Sound
  <1>5. CASE Rom!GetMetadata
    <2> DEFINE r == IF Rom!Failed(h) THEN h ELSE Rom!Good(<<Rom!Kind(h.val.ftype), h.val.size>>)
    <2>1. Rom!Return(r) /\ pc = "metadata"
      BY <1>5 DEF Rom!GetMetadata
    <2> HIDE DEF h
    <2>2. r.err # "NotFound"
      BY <1>4, RomShared DEF Rom!Good
    <2> HIDE DEF r
    <2> QED  BY <1>1, <1>3, <2>1, <2>2, RomReplies
  <1>6. CASE Rom!ReadLink
    <2> DEFINE link == Rom!Data(h.val, 0, h.val.size)
               r == IF Rom!Failed(h) THEN h
                    ELSE IF Rom!Kind(h.val.ftype) # "symlink" THEN Rom!Good(<<>>)
                    ELSE IF h.val.size > MAX_BOOT_FILE_BYTES THEN Rom!Bad("FileTooLarge")
                    ELSE IF Rom!Failed(link) THEN link ELSE Rom!Good(<<link.val>>)
    <2>1. Rom!Return(r) /\ pc = "read_link"
      BY <1>6 DEF Rom!ReadLink
    <2> HIDE DEF h
    <2>2. h.err = "none" => Pieces(link, h.val.size)
      BY <1>2, RomData DEF RomHeader
    <2> HIDE DEF link
    <2>3. r.err # "NotFound"
      BY <1>4, <2>2, RomShared DEF Rom!Good, Rom!Bad, Pieces, Sound
    <2> HIDE DEF r
    <2> QED  BY <1>1, <1>3, <2>1, <2>3, RomReplies
  <1>7. CASE Rom!ReadAt
    <2> DEFINE n == Rom!LeastOf(arg.len, h.val.size - arg.off)
               d == Rom!Data(h.val, arg.off, n)
               r == IF Rom!Failed(h) THEN h
                    ELSE IF Rom!Kind(h.val.ftype) = "dir" THEN Rom!Bad("IsDirectory")
                    ELSE IF arg.off >= h.val.size THEN Rom!Good(<<>>) ELSE d
    <2>1. Rom!Return(r) /\ pc = "read_at"
      BY <1>7 DEF Rom!ReadAt
    <2> HIDE DEF h
    <2>2. arg.off \in Nat /\ arg.len \in Nat
      BY <1>1, <1>2, <2>1 DEF WellAsked
    <2>3. h.err = "none" /\ ~ arg.off >= h.val.size => Pieces(d, n) /\ n <= arg.len
      <3> SUFFICES ASSUME h.err = "none", ~ arg.off >= h.val.size PROVE Pieces(d, n) /\ n <= arg.len
        OBVIOUS
      <3>1. h.val.size \in Nat /\ h.val.data_off \in Nat
        BY <1>2 DEF RomHeader
      <3>2. n \in Nat /\ n <= arg.len
        BY <2>2, <3>1 DEF Rom!LeastOf
      <3> HIDE DEF n
      <3> QED  BY <2>2, <3>1, <3>2, RomData
    <2> HIDE DEF d, n
    <2>4. r.err # "NotFound" /\ (r.err # "none" => r.val = <<>>) /\ (r.err = "none" => Len(r.val) <= arg.len)
      BY <1>4, <2>2, <2>3, RomShared DEF Rom!Good, Rom!Bad, Pieces, Sound
    <2> HIDE DEF r
    <2>5. Len(r.val) <= arg.len
      BY <2>2, <2>4
    <2> QED  BY <1>1, <1>3, <2>1, <2>4, <2>5, RomReplies
  <1> QED  BY <1>5, <1>6, <1>7

LEMMA RomFails ==
    ASSUME fs = "romfs", fs' = fs, RomInv, UNCHANGED <<img, arg>>, Rom!IoError
    PROVE  RomInv' /\ SafeStep /\ Advances
  <1> DEFINE r == Rom!Bad("Io")
  <1>1. Rom!Return(r) /\ Return(r) /\ UNCHANGED ids /\ r.err = "Io" /\ r.val = <<>>
    BY RomShared DEF Rom!IoError, Rom!Table, Rom!Bad
  <1>2. pc = "open" \/ pc \in Ops \cup {"dir"}
    BY DEF Rom!IoError, Rom!Busy, RomInv, CallState
  <1> HIDE DEF r
  <1>3. CASE pc = "open"
    <2>1. Busy /\ arg = NoArg
      BY <1>3 DEF RomInv, CallState, Busy
    <2>2. SafeStep /\ Advances /\ Rested("failed")
      BY <1>1, <2>1, RefuseStep DEF Failed
    <2> QED  BY <1>1, <2>2, RomRested DEF RomInv
  <1>4. CASE pc \in Ops \cup {"dir"}
    <2>1. ProperReply(r, ids)
      BY <1>1, <1>4, ErrorReply DEF RomInv, CallState
    <2> QED  BY <1>1, <1>4, <2>1, RomReplies
  <1> QED  BY <1>2, <1>3, <1>4

LEMMA RomCalls ==
    ASSUME RomInv, NEW n \in DOMAIN ids, NEW a \in Rom!Requests(n), Rom!Call(a)
    PROVE  RomInv' /\ SafeStep /\ Advances
  <1>1. pc = "idle" /\ arg' = a /\ pc' = a.op /\ UNCHANGED <<img, sb, nodes, ids, todo, pos, out, ret>>
    BY DEF Rom!Call
  <1>2. WellAsked(a) /\ a.node = n /\ a.op # "dir"
    BY WindowsAssumption DEF Rom!Requests, WellAsked, Ops
  <1>3. SafeStep /\ Advances
    BY <1>1, <1>2, CallStep
  <1>4. CallState({"open"}, {"dir"})'
    BY <1>1, <1>2 DEF CallState, WellAsked, Ops, RomInv
  <1>5. Handed(n, ids)
    BY IdTabHanded DEF RomInv
  <1> QED  BY <1>1, <1>2, <1>3, <1>4, <1>5 DEF RomInv, IdTab, Handed, WellAsked, Ops

LEMMA RomSteps ==
    ASSUME fs = "romfs", fs' = fs, RomInv, Rom!Next
    PROVE  RomInv' /\ SafeStep /\ Advances
  <1>1. CASE Rom!Step
    <2>1. UNCHANGED <<img, arg>>
      BY <1>1 DEF Rom!Step, Rom!Fixed
    <2> QED  BY <1>1, <2>1, RomOpens, RomReadsDir, RomReadsEntry, RomDone, RomAnswers, RomFails DEF Rom!Step
  <1> QED  BY <1>1, RomCalls DEF Rom!Next

LEMMA RomStarts == Rom!Init => RomInv
  BY DEF RomInv, Rom!Init, CallState, Rom!NoArg, NoArg, Ops, IdTab

-----------------------------------------------------------------------------
(* cramfs. *)
CramInode(r) ==
    Sound(r) /\ (r.err = "none" => r.val.size \in Nat /\ r.val.namelen \in Nat /\ r.val.data_off \in Nat)

LEMMA CramParses == \A off : CramInode(Cramfs!ParseInode(off))
  BY DEF Cramfs!ParseInode, Cramfs!ReadCells, Cramfs!Failed, Cramfs!Bad, Cramfs!Good, Cramfs!Num, CramInode, Sound

LEMMA CramHere ==
    /\ CramInode(Cramfs!Here)
    /\ Cramfs!Here.err = "none" => Cramfs!NBlocks \in Nat
  <1>1. CramInode(Cramfs!Here)
    BY CramParses DEF Cramfs!Here
  <1> QED  BY <1>1, CramfsAssumption DEF CramInode, Cramfs!NBlocks, Cramfs!CeilDiv

LEMMA CramFixed ==
    ASSUME UNCHANGED <<img, arg>>
    PROVE  Cramfs!Here' = Cramfs!Here /\ Cramfs!NBlocks' = Cramfs!NBlocks /\ Cramfs!DirEnd' = Cramfs!DirEnd
  <1>1. Cramfs!Here' = Cramfs!Here
    BY DEF Cramfs!Here, Cramfs!ParseInode, Cramfs!ReadCells
  <1> QED  BY <1>1 DEF Cramfs!NBlocks, Cramfs!DirEnd

(* A window of a sequence is no longer than it is asked to be. *)
LEMMA WindowLen ==
    ASSUME NEW s, IsSeq(s), NEW off \in Nat, NEW len \in Nat, NEW end, end = IF Len(s) < off + len THEN Len(s) ELSE off + len
    PROVE  Len(SubSeq(s, off + 1, end)) <= len
  <1>1. Len(s) \in Nat
    BY SeqBasics
  <1>2. end \in Int /\ end <= off + len
    BY <1>1
  <1> QED  BY <1>2

(* What a decompressor gives is no longer than it is expected to be. *)
LEMMA CramDecodes ==
    ASSUME NEW raw, IsSeq(raw), NEW n \in Int, \A i \in 1..Len(raw) : Cramfs!IsByte(raw[i]) => IsDevice(raw[i].of)
    PROVE  /\ Sound(Cramfs!Decode(raw, n))
           /\ Cramfs!Decode(raw, n).err = "none" => IsSeq(Cramfs!Decode(raw, n).val) /\ Len(Cramfs!Decode(raw, n).val) <= n
  <1>1. raw # <<>> => 1 \in 1..Len(raw)
    <2>1. Len(raw) \in Nat /\ raw = [i \in 1..Len(raw) |-> raw[i]]
      BY SeqBasics
    <2>2. Len(raw) = 0 => raw = <<>>
      BY <2>1
    <2> QED  BY <2>1, <2>2
  <1>2. raw # <<>> /\ Cramfs!IsByte(raw[1]) => IsSeq(raw[1].of)
    BY <1>1, DeviceIsSeq
  <1> QED  BY <1>2 DEF Cramfs!Decode, Cramfs!Good, Cramfs!Bad, Sound

CramLoops == {"dir", "page"}

CramInv ==
    /\ CallState({"open"}, CramLoops)
    /\ img \in Images.cramfs
    /\ IdTab(ids)
    /\ pc \in Ops \cup CramLoops => Handed(arg.node, ids)
    /\ pc \in CramLoops => Cramfs!Here.err = "none" /\ IsSeq(out) /\ pos \in Nat
    /\ pc = "dir" => arg.op \in {"read_dir", "lookup"}
    /\ pc = "page" => arg.op \in {"read_at", "read_link"} /\ todo \in Nat /\ Len(out) <= Cramfs!Here.val.size
    /\ pc = "page" /\ arg.op = "read_at" => arg.off < Cramfs!Here.val.size

(* A page is at most what is left of the file. *)
LEMMA CramPage ==
    ASSUME CramInv, pc = "page"
    PROVE  /\ Sound(Cramfs!Page)
           /\ Cramfs!Page.err = "none" => IsSeq(Cramfs!Page.val) /\ Len(Cramfs!Page.val) <= Cramfs!Here.val.size - Len(out)
  <1> DEFINE p == Cramfs!Ptr(pos)
             n == p - todo
             w == Cramfs!Want
             s == SubSeq(img.disk, todo + 1, todo + n)
             z == [i \in 1..w |-> 0]
             d == Cramfs!Decode(s, w)
  <1>1. IsSeq(out) /\ todo \in Nat /\ Len(out) <= Cramfs!Here.val.size /\ Cramfs!Here.err = "none"
    BY DEF CramInv, CramLoops
  <1>2. Len(out) \in Nat /\ Cramfs!Here.val.size \in Nat
    BY <1>1, SeqBasics, CramHere DEF CramInode
  <1>3. w \in Nat /\ w <= Cramfs!Here.val.size - Len(out)
    BY <1>1, <1>2, CramfsAssumption DEF Cramfs!Want, Cramfs!LeastOf
  <1>4. p \in Nat
    BY DEF Cramfs!Ptr, Cramfs!Num
  <1>5. Cramfs!Page = IF p <= todo THEN Cramfs!Good(z)
                      ELSE IF todo + n > Len(img.disk) THEN Cramfs!Bad("OutOfRange") ELSE d
    BY DEF Cramfs!Page, Cramfs!ReadCells, Cramfs!Failed, Cramfs!Good, Cramfs!Bad
  <1> HIDE DEF p, w
  <1>6. IsSeq(z) /\ Len(z) = w
    <2>1. z = [i \in 1..w |-> z[i]]
      OBVIOUS
    <2> HIDE DEF z
    <2> QED  BY <1>3, <2>1, FcnIsSeq
  <1>7. ~ p <= todo /\ ~ todo + n > Len(img.disk) => Sound(d) /\ (d.err = "none" => IsSeq(d.val) /\ Len(d.val) <= w)
    <2> SUFFICES ASSUME ~ p <= todo, ~ todo + n > Len(img.disk) PROVE Sound(d) /\ (d.err = "none" => IsSeq(d.val) /\ Len(d.val) <= w)
      OBVIOUS
    <2>1. n \in Nat /\ todo \in Int
      BY <1>1, <1>4
    <2>2. IsDisk(img.disk)
      BY DisksAssumption DEF CramInv
    <2> HIDE DEF n
    <2>3. IsSeq(s) /\ Len(s) = n /\ \A i \in 1..n : s[i] = img.disk[todo + i]
      BY <1>1, <2>1, SubSeqIsSeq
    <2>4. \A i \in 1..n : todo + i \in DOMAIN img.disk
      BY <1>1, <2>1, <2>2 DEF IsDisk, IsDevice
    <2> HIDE DEF s
    <2>5. \A i \in 1..Len(s) : Cramfs!IsByte(s[i]) => IsDevice(s[i].of)
      BY <2>2, <2>3, <2>4 DEF IsDisk, Cramfs!IsByte
    <2> QED  BY <1>3, <2>3, <2>5, CramDecodes
  <1> HIDE DEF d, z, n
  <1> QED  BY <1>2, <1>3, <1>5, <1>6, <1>7 DEF Sound, Cramfs!Good, Cramfs!Bad

LEMMA CramShared ==
    /\ \A r : Cramfs!Return(r) <=> Return(r)
    /\ \A r : Cramfs!Failed(r) <=> r.err # "none"
    /\ \A es : Cramfs!Listed(es) = Listed(es)
    /\ \A es : Cramfs!ListedNodes(es) = ListedNodes(es)
    /\ Cramfs!Panic <=> Panic
  <1>1. \A r : Cramfs!Return(r) <=> Return(r)
    BY DEF Cramfs!Return, Return, Cramfs!Opening, Opening, Cramfs!Busy, Busy, Cramfs!NoArg, NoArg, Cramfs!Failed, Failed
  <1>2. \A es, n : Cramfs!Found(es, n) = Found(es, n)
    BY DEF Cramfs!Found, Found, Cramfs!Min, Min
  <1>3. \A es : Cramfs!Listed(es) = Listed(es) /\ Cramfs!ListedNodes(es) = ListedNodes(es)
    BY <1>2 DEF Cramfs!Listed, Listed, Cramfs!ListedNodes, ListedNodes, Cramfs!Range, Range
  <1> QED  BY <1>1, <1>3 DEF Cramfs!Failed, Cramfs!Panic, Panic

LEMMA CramRested ==
    ASSUME CramInv, IdTab(ids'), img' = img, Rested("idle") \/ Rested("failed") \/ Rested("panicked")
    PROVE  CramInv'
  <1>1. pc' \in {"idle", "failed", "panicked"} /\ todo' = <<>> /\ out' = <<>>
    BY DEF Rested
  <1>2. CallState({"open"}, CramLoops)'
    BY <1>1 DEF CallState, Ops, CramLoops
  <1> QED  BY <1>1, <1>2 DEF CramInv, IdTab, Ops, CramLoops

LEMMA CramReplies ==
    ASSUME CramInv, pc \in Ops \cup CramLoops, NEW r, Cramfs!Return(r), UNCHANGED <<img, arg, ids>>, ProperReply(r, ids)
    PROVE  CramInv' /\ SafeStep /\ Advances
  <1>1. Busy /\ WellAsked(arg)
    BY DEF CramInv, CallState, Busy, Ops, CramLoops
  <1>2. Return(r)
    BY CramShared
  <1>3. GrowsTo(ids, ids') /\ ProperReply(r, ids') /\ IdTab(ids')
    BY SameGrows, IdTabHanded DEF CramInv
  <1>4. SafeStep /\ Advances /\ Rested("idle")
    BY <1>1, <1>2, <1>3, ReplyStep
  <1> QED  BY <1>3, <1>4, CramRested

(* Where a call that is not open stands. *)
LEMMA CramAsked ==
    ASSUME CramInv, pc \in Ops \cup CramLoops
    PROVE  /\ Busy /\ WellAsked(arg) /\ Handed(arg.node, ids) /\ IdTab(ids) /\ CramInode(Cramfs!Here)
           /\ pc \in Ops => arg.op = pc /\ todo = <<>> /\ out = <<>>
           /\ \A r : r.err # "NotFound" /\ r.val = <<>> => ProperReply(r, ids)
  <1>1. WellAsked(arg) /\ Handed(arg.node, ids) /\ IdTab(ids)
    BY DEF CramInv, CallState
  <1>2. \A r : r.err # "NotFound" /\ r.val = <<>> => ProperReply(r, ids)
    BY <1>1, ErrorReply
  <1>3. CramInode(Cramfs!Here)
    BY CramHere
  <1>4. Busy /\ (pc \in Ops => arg.op = pc /\ todo = <<>> /\ out = <<>>)
    BY DEF CramInv, CallState, Busy, Ops, CramLoops
  <1> QED  BY <1>1, <1>2, <1>3, <1>4

LEMMA CramErrors ==
    ASSUME CramInv, pc \in Ops \cup CramLoops, NEW r, r.err # "NotFound", r.val = <<>>, Cramfs!Return(r), UNCHANGED <<img, arg, ids>>
    PROVE  CramInv' /\ SafeStep /\ Advances
  <1>1. ProperReply(r, ids)
    BY CramAsked
  <1> QED  BY <1>1, CramReplies

(* The call goes into a loop, or on in it. *)
LEMMA CramGoesOn ==
    ASSUME CramInv, pc \in Ops \cup CramLoops, UNCHANGED <<img, arg, ids, ret>>, pc' \in CramLoops,
           Cramfs!Here.err = "none", IsSeq(out'), pos' \in Nat,
           pc' = "dir" => arg.op \in {"read_dir", "lookup"},
           pc' = "page" => arg.op \in {"read_at", "read_link"} /\ todo' \in Nat /\ Len(out') <= Cramfs!Here.val.size,
           pc' = "page" /\ arg.op = "read_at" => arg.off < Cramfs!Here.val.size
    PROVE  CramInv' /\ SafeStep
  <1>1. Busy /\ WellAsked(arg) /\ Handed(arg.node, ids) /\ IdTab(ids)
    BY CramAsked
  <1>2. GrowsTo(ids, ids')
    BY <1>1, SameGrows, IdTabHanded
  <1>3. pc' \notin {"idle", "failed", "panicked"}
    BY DEF CramLoops
  <1>4. SafeStep
    BY <1>1, <1>2, <1>3, GoesOnStep
  <1>5. CallState({"open"}, CramLoops)'
    BY <1>1 DEF CallState, CramLoops, Ops
  <1>6. Cramfs!Here' = Cramfs!Here
    BY CramFixed
  <1>7. IdTab(ids') /\ Handed(arg.node, ids)' /\ img' \in Images.cramfs
    BY <1>1 DEF CramInv, IdTab, Handed
  <1> QED  BY <1>4, <1>5, <1>6, <1>7 DEF CramInv

LEMMA CramOpens ==
    ASSUME fs = "cramfs", CramInv, Cramfs!Open, UNCHANGED <<img, arg>>
    PROVE  CramInv' /\ SafeStep /\ Advances
  <1>1. pc = "open" /\ Busy /\ arg = NoArg /\ ids = <<>> /\ IdTab(ids) /\ DOMAIN ids = {}
    BY DEF Cramfs!Open, CramInv, CallState, Busy
  <1>2. \/ \E e : e # "none" /\ Return(Cramfs!Bad(e)) /\ UNCHANGED ids
        \/ Cramfs!Probe /\ Return(Cramfs!Good(<<>>)) /\ Cramfs!HandOut({ROOT_INODE_OFF})
    BY CramShared DEF Cramfs!Open, Cramfs!Probe
  <1>3. ASSUME NEW e, e # "none", Return(Cramfs!Bad(e)), UNCHANGED ids
        PROVE  CramInv' /\ SafeStep /\ Advances
    <2>1. Failed(Cramfs!Bad(e))
      BY <1>3 DEF Failed, Cramfs!Bad
    <2>2. SafeStep /\ Advances /\ Rested("failed")
      BY <1>1, <1>3, <2>1, RefuseStep
    <2> QED  BY <1>1, <1>3, <2>2, CramRested
  <1>4. CASE Cramfs!Probe /\ Return(Cramfs!Good(<<>>)) /\ Cramfs!HandOut({ROOT_INODE_OFF})
    <2>1. ids' = [k \in DOMAIN ids \cup {ROOT_INODE_OFF} |-> k]
      BY <1>4 DEF Cramfs!HandOut
    <2>2. IdTab(ids') /\ DOMAIN ids' = {ROOT_INODE_OFF}
      BY <1>1, <2>1, HandsOut
    <2>3. Probe /\ ~ Failed(Cramfs!Good(<<>>))
      BY <1>4 DEF Probe, Failed, Cramfs!Good
    <2>4. SafeStep /\ Advances /\ Rested("idle")
      BY <1>1, <1>4, <2>2, <2>3, MountStep
    <2> QED  BY <2>2, <2>4, CramRested
  <1> QED  BY <1>2, <1>3, <1>4

LEMMA CramReadsDir ==
    ASSUME CramInv, Cramfs!ReadDir, UNCHANGED <<img, arg>>
    PROVE  CramInv' /\ SafeStep /\ Advances
  <1> DEFINE h == Cramfs!Here
  <1>1. pc \in {"read_dir", "lookup"} /\ pc \in Ops /\ UNCHANGED ids
    BY DEF Cramfs!ReadDir, Ops, Cramfs!Table
  <1>2. CramInode(h) /\ arg.op = pc /\ todo = <<>> /\ out = <<>>
    BY <1>1, CramAsked
  <1>3. \/ h.err # "none" /\ Cramfs!Return(h)
        \/ Cramfs!Return(Cramfs!Bad("NotDirectory"))
        \/ h.err = "none" /\ Cramfs!Loop("dir", <<>>, h.val.data_off)
    <2> HIDE DEF h
    <2> QED  BY CramShared DEF Cramfs!ReadDir, h
  <1>4. CASE h.err # "none" /\ Cramfs!Return(h)
    BY <1>1, <1>2, <1>4, CramErrors DEF CramInode, Sound
  <1>5. CASE Cramfs!Return(Cramfs!Bad("NotDirectory"))
    BY <1>1, <1>5, CramErrors DEF Cramfs!Bad
  <1>6. CASE h.err = "none" /\ Cramfs!Loop("dir", <<>>, h.val.data_off)
    <2>1. pc' = "dir" /\ pos' = h.val.data_off /\ out' = <<>> /\ ret' = ret
      BY <1>2, <1>6 DEF Cramfs!Loop
    <2>2. pos' \in Nat /\ IsSeq(out') /\ pc' \in CramLoops /\ pc' # "page" /\ pc' \in Loops
      BY <1>2, <1>6, <2>1, EmptyIsSeq DEF CramInode, CramLoops, Loops
    <2>3. CramInv' /\ SafeStep
      BY <1>1, <1>2, <1>6, <2>1, <2>2, CramGoesOn
    <2> QED  BY <1>1, <1>2, <2>2, <2>3, IntoLoop
  <1> QED  BY <1>3, <1>4, <1>5, <1>6

LEMMA CramReadsEntry ==
    ASSUME fs = "cramfs", fs' = fs, CramInv, Cramfs!DirEntry, UNCHANGED <<img, arg>>
    PROVE  CramInv' /\ SafeStep /\ Advances
  <1> DEFINE c == Cramfs!ParseInode(pos)
             name == Cramfs!ReadCells(img.disk, pos + 1, c.val.namelen)
             x == [name |-> Cramfs!NameOf(name.val), node |-> pos, kind |-> c.val.mode]
  <1>1. pc = "dir" /\ pc \in CramLoops /\ pos < Cramfs!DirEnd /\ UNCHANGED ids
    BY DEF Cramfs!DirEntry, CramLoops, Cramfs!Table
  <1>2. pos \in Nat /\ IsSeq(out) /\ arg.op \in {"read_dir", "lookup"} /\ Cramfs!Here.err = "none"
    BY <1>1 DEF CramInv
  <1>3. \/ c.err # "none" /\ Cramfs!Return(c)
        \/ name.err # "none" /\ Cramfs!Return(name)
        \/ c.err = "none" /\ out' = Append(out, x) /\ pos' = pos + 1 + c.val.namelen /\ UNCHANGED <<pc, todo, ret>>
    <2> HIDE DEF c, name
    <2> QED  BY CramShared DEF Cramfs!DirEntry, c, name
  <1>4. CramInode(c) /\ Sound(name)
    BY CramParses DEF Cramfs!ReadCells, Cramfs!Bad, Cramfs!Good, Sound
  <1> HIDE DEF c, name, x
  <1>5. CASE c.err # "none" /\ Cramfs!Return(c)
    BY <1>1, <1>4, <1>5, CramErrors DEF CramInode, Sound
  <1>6. CASE name.err # "none" /\ Cramfs!Return(name)
    BY <1>1, <1>4, <1>6, CramErrors DEF Sound
  <1>7. CASE c.err = "none" /\ out' = Append(out, x) /\ pos' = pos + 1 + c.val.namelen /\ UNCHANGED <<pc, todo, ret>>
    <2>1. c.val.namelen \in Nat /\ pos' \in Nat /\ pos' > pos
      BY <1>2, <1>4, <1>7 DEF CramInode
    <2>2. IsSeq(out')
      BY <1>2, <1>7, AppendIsSeq
    <2>3. CramInv' /\ SafeStep
      BY <1>1, <1>2, <1>7, <2>1, <2>2, CramGoesOn
    <2>4. Cramfs!DirEnd' = Cramfs!DirEnd /\ Cramfs!DirEnd \in Nat
      BY <1>2, CramFixed, CramHere DEF Cramfs!DirEnd, CramInode
    <2>5. Fuel = Cramfs!DirEnd - pos /\ Fuel' = Cramfs!DirEnd' - pos'
      BY <1>1, <1>7 DEF Fuel, Cramfs!Fuel
    <2>6. Fuel > 0 /\ Fuel' < Fuel
      <3> DEFINE e == Cramfs!DirEnd
      <3>1. e \in Int /\ pos \in Int /\ pos' \in Int /\ pos < e /\ pos' > pos
        BY <1>1, <1>2, <2>1, <2>4
      <3>2. Fuel = e - pos /\ Fuel' = e - pos'
        BY <2>4, <2>5
      <3> HIDE DEF e
      <3>3. e - pos > 0 /\ e - pos' < e - pos
        BY <3>1, Burns
      <3> QED  BY <3>2, <3>3
    <2>7. pc \in Loops /\ pc' \in Loops
      BY <1>1, <1>7 DEF Loops
    <2>8. Advances
      BY <2>6, <2>7, LoopTurn
    <2> QED  BY <2>3, <2>8
  <1> QED  BY <1>3, <1>5, <1>6, <1>7

LEMMA CramDone ==
    ASSUME CramInv, Cramfs!DirDone, UNCHANGED <<img, arg>>
    PROVE  CramInv' /\ SafeStep /\ Advances
  <1>1. pc = "dir" /\ pc \in CramLoops
    BY DEF Cramfs!DirDone, CramLoops
  <1>2. Busy /\ WellAsked(arg) /\ Handed(arg.node, ids) /\ IdTab(ids) /\ arg.op \in {"read_dir", "lookup"} /\ IsSeq(out)
    BY <1>1, CramAsked DEF CramInv
  <1>3. Return(Good(Listed(out))) /\ ids' = [k \in DOMAIN ids \cup ListedNodes(out) |-> k]
    BY CramShared DEF Cramfs!DirDone, Cramfs!HandOut, Cramfs!Good, Good
  <1>4. GrowsTo(ids, ids') /\ IdTab(ids')
    BY <1>2, <1>3, HandsOut
  <1>5. ProperReply(Good(Listed(out)), ids')
    BY <1>2, <1>3, ListedIsHanded
  <1>6. SafeStep /\ Advances /\ Rested("idle")
    BY <1>2, <1>3, <1>4, <1>5, ReplyStep
  <1> QED  BY <1>4, <1>6, CramRested

(* What the caller gets of the inflated file: a panic if the file came short  *)
(* of the window's start.                                                     *)
LEMMA CramWhole ==
    ASSUME fs = "cramfs", CramInv, pc \in Ops \cup CramLoops, IsSeq(out), arg.op \in {"read_at", "read_link"},
           arg.op = "read_at" => arg.off < Cramfs!Here.val.size,
           Cramfs!Whole(out), UNCHANGED <<img, arg, ids>>
    PROVE  CramInv' /\ SafeStep /\ Advances
  <1> DEFINE end == IF Len(out) < arg.off + arg.len THEN Len(out) ELSE arg.off + arg.len
             w == SubSeq(out, arg.off + 1, end)
             r == Cramfs!Good(IF arg.op = "read_link" THEN <<out>> ELSE w)
  <1>1. \/ Cramfs!Return(r)
        \/ arg.op = "read_at" /\ arg.off > Len(out) /\ Cramfs!Panic
    BY DEF Cramfs!Whole, Cramfs!LeastOf
  <1>2. Busy /\ WellAsked(arg) /\ Handed(arg.node, ids) /\ IdTab(ids)
    BY CramAsked
  <1>3. CASE Cramfs!Return(r)
    <2>1. arg.op = "read_at" => Len(w) <= arg.len
      <3>1. arg.op = "read_at" => arg.off \in Nat /\ arg.len \in Nat
        BY <1>2 DEF WellAsked
      <3> HIDE DEF end
      <3>2. end = IF Len(out) < arg.off + arg.len THEN Len(out) ELSE arg.off + arg.len
        BY DEF end
      <3> QED  BY <3>1, <3>2, WindowLen
    <2>2. r.err = "none" /\ (arg.op = "read_at" => r.val = w)
      BY DEF Cramfs!Good
    <2> HIDE DEF r, w
    <2>3. ProperReply(r, ids)
      BY <1>2, <2>1, <2>2 DEF ProperReply, SaneReply
    <2> QED  BY <1>3, <2>3, CramReplies
  <1>4. CASE arg.op = "read_at" /\ arg.off > Len(out) /\ Cramfs!Panic
    <2>1. Len(out) < arg.off /\ arg.off < Cramfs!Here.val.size /\ Panic
      BY <1>4, CramShared
    <2>2. SafeStep /\ Advances /\ Rested("panicked")
      BY <1>2, <1>4, <2>1, PanicStep
    <2>3. IdTab(ids')
      BY <1>2 DEF IdTab
    <2> QED  BY <2>2, <2>3, CramRested
  <1> HIDE DEF r
  <1> QED  BY <1>1, <1>3, <1>4

LEMMA CramReadsWhole ==
    ASSUME fs = "cramfs", CramInv, pc \in Ops, arg.op \in {"read_at", "read_link"}, Cramfs!Here.err = "none",
           arg.op = "read_at" => arg.off < Cramfs!Here.val.size, Cramfs!ReadWhole, UNCHANGED <<img, arg, ids>>
    PROVE  CramInv' /\ SafeStep /\ Advances
  <1> DEFINE h == Cramfs!Here.val
             n == Cramfs!NBlocks
  <1>1. CramInode(Cramfs!Here) /\ todo = <<>> /\ out = <<>> /\ n \in Nat
    BY CramAsked, CramHere
  <1>2. \/ Cramfs!Return(Cramfs!Bad("FileTooLarge"))
        \/ Cramfs!Whole(<<>>)
        \/ Cramfs!Return(Cramfs!Bad("OutOfRange"))
        \/ Cramfs!Loop("page", h.data_off + n, 0)
    BY DEF Cramfs!ReadWhole
  <1>3. ASSUME NEW e \in {"FileTooLarge", "OutOfRange"}, Cramfs!Return(Cramfs!Bad(e)) PROVE CramInv' /\ SafeStep /\ Advances
    BY <1>3, CramErrors DEF Cramfs!Bad
  <1>4. CASE Cramfs!Whole(<<>>)
    BY <1>1, <1>4, CramWhole, EmptyIsSeq
  <1>5. CASE Cramfs!Loop("page", h.data_off + n, 0)
    <2>1. pc' = "page" /\ todo' = h.data_off + n /\ pos' = 0 /\ out' = <<>> /\ ret' = ret
      BY <1>1, <1>5 DEF Cramfs!Loop
    <2>2. todo' \in Nat /\ pos' \in Nat /\ IsSeq(out') /\ Len(out') <= h.size /\ pc' \in CramLoops /\ pc' # "dir" /\ pc' \in Loops
      <3> HIDE DEF n
      <3> QED  BY <1>1, <2>1, EmptyIsSeq DEF CramInode, CramLoops, Loops
    <2> HIDE DEF n
    <2>3. CramInv' /\ SafeStep
      BY <2>1, <2>2, CramGoesOn
    <2> QED  BY <1>1, <2>2, <2>3, IntoLoop
  <1> QED  BY <1>2, <1>3, <1>4, <1>5

LEMMA CramAnswers ==
    ASSUME fs = "cramfs", CramInv, UNCHANGED <<img, arg>>, Cramfs!GetMetadata \/ Cramfs!ReadAt \/ Cramfs!ReadLink
    PROVE  CramInv' /\ SafeStep /\ Advances
  <1> DEFINE h == Cramfs!Here
  <1>1. pc \in {"metadata", "read_at", "read_link"} /\ pc \in Ops /\ UNCHANGED ids
    BY DEF Cramfs!GetMetadata, Cramfs!ReadAt, Cramfs!ReadLink, Ops, Cramfs!Table
  <1>2. CramInode(h) /\ Handed(arg.node, ids) /\ WellAsked(arg) /\ arg.op = pc
    BY <1>1, CramAsked
  <1>3. ASSUME NEW r, r.err # "NotFound", r.val = <<>> \/ arg.op # "read_at", Cramfs!Return(r) PROVE CramInv' /\ SafeStep /\ Advances
    <2>1. CASE r.val = <<>>
      BY <1>1, <1>3, <2>1, CramErrors
    <2>2. CASE arg.op # "read_at"
      <3>1. ProperReply(r, ids)
        BY <1>1, <1>2, <1>3, <2>2 DEF ProperReply, SaneReply
      <3> QED  BY <1>1, <1>3, <3>1, CramReplies
    <2> QED  BY <1>3, <2>1, <2>2
  <1>4. h.err # "none" => h.err # "NotFound" /\ h.val = <<>>
    BY <1>2 DEF CramInode, Sound
  <1>5. CASE Cramfs!GetMetadata
    <2> DEFINE r == IF Cramfs!Failed(h) THEN h ELSE Cramfs!Good(<<h.val.mode, h.val.size>>)
    <2>1. Cramfs!Return(r) /\ pc = "metadata"
      BY <1>5 DEF Cramfs!GetMetadata
    <2> HIDE DEF h
    <2>2. r.err # "NotFound"
      BY <1>4, CramShared DEF Cramfs!Good
    <2> HIDE DEF r
    <2> QED  BY <1>2, <1>3, <2>1, <2>2
  <1>6. CASE Cramfs!ReadLink \/ Cramfs!ReadAt
    <2>1. pc \in {"read_link", "read_at"}
      BY <1>6 DEF Cramfs!ReadAt, Cramfs!ReadLink
    <2>2. \/ h.err # "none" /\ Cramfs!Return(h)
          \/ Cramfs!Return(Cramfs!Good(<<>>)) \/ Cramfs!Return(Cramfs!Bad("IsDirectory"))
          \/ h.err = "none" /\ Cramfs!ReadWhole /\ (pc = "read_at" => ~ arg.off >= h.val.size)
      <3> HIDE DEF h
      <3> QED  BY <1>6, CramShared DEF Cramfs!ReadLink, Cramfs!ReadAt, h
    <2>3. CASE h.err # "none" /\ Cramfs!Return(h)
      BY <1>3, <1>4, <2>3
    <2>4. CASE Cramfs!Return(Cramfs!Good(<<>>)) \/ Cramfs!Return(Cramfs!Bad("IsDirectory"))
      BY <1>3, <2>4 DEF Cramfs!Good, Cramfs!Bad
    <2>5. CASE h.err = "none" /\ Cramfs!ReadWhole /\ (pc = "read_at" => ~ arg.off >= h.val.size)
      <3>1. arg.op = "read_at" => arg.off < h.val.size
        BY <1>2, <2>5 DEF CramInode, WellAsked
      <3> QED  BY <1>1, <1>2, <2>1, <2>5, <3>1, CramReadsWhole
    <2> QED  BY <2>2, <2>3, <2>4, <2>5
  <1> QED  BY <1>5, <1>6

LEMMA CramInflates ==
    ASSUME fs = "cramfs", fs' = fs, CramInv, UNCHANGED <<img, arg>>, Cramfs!InflatePage \/ Cramfs!PagesDone
    PROVE  CramInv' /\ SafeStep /\ Advances
  <1> DEFINE p == Cramfs!Page
             n == Cramfs!NBlocks
  <1>1. pc = "page" /\ pc \in CramLoops /\ UNCHANGED ids
    BY DEF Cramfs!InflatePage, Cramfs!PagesDone, CramLoops, Cramfs!Table
  <1>2. /\ pos \in Nat /\ IsSeq(out) /\ arg.op \in {"read_at", "read_link"} /\ Cramfs!Here.err = "none" /\ Len(out) <= Cramfs!Here.val.size
        /\ arg.op = "read_at" => arg.off < Cramfs!Here.val.size
    BY <1>1 DEF CramInv
  <1>3. CASE Cramfs!PagesDone
    <2>1. Cramfs!Whole(out)
      BY <1>3 DEF Cramfs!PagesDone
    <2> QED  BY <1>1, <1>2, <2>1, CramWhole
  <1>4. CASE Cramfs!InflatePage
    <2>1. pos < n
      BY <1>4 DEF Cramfs!InflatePage
    <2>2. \/ p.err # "none" /\ Cramfs!Return(p)
          \/ p.err = "none" /\ out' = out \o p.val /\ pos' = pos + 1 /\ todo' = Cramfs!Ptr(pos) /\ UNCHANGED <<pc, ret>>
      <3> HIDE DEF p
      <3> QED  BY <1>4, CramShared DEF Cramfs!InflatePage, p
    <2>3. /\ Sound(p)
          /\ p.err = "none" => IsSeq(p.val) /\ Len(p.val) <= Cramfs!Here.val.size - Len(out)
      BY <1>1, CramPage
    <2> HIDE DEF p
    <2>4. CASE p.err # "none" /\ Cramfs!Return(p)
      BY <1>1, <2>3, <2>4, CramErrors DEF Sound
    <2>5. CASE p.err = "none" /\ out' = out \o p.val /\ pos' = pos + 1 /\ todo' = Cramfs!Ptr(pos) /\ UNCHANGED <<pc, ret>>
      <3>1. /\ IsSeq(out \o p.val)
            /\ Len(out \o p.val) = Len(out) + Len(p.val)
        BY <1>2, <2>3, <2>5, ConcatIsSeq
      <3>2. Len(out) \in Nat /\ Len(p.val) \in Nat /\ Cramfs!Here.val.size \in Nat
        BY <1>2, <2>3, <2>5, SeqBasics, CramHere DEF CramInode
      <3>3. Len(out') <= Cramfs!Here.val.size /\ IsSeq(out') /\ pos' \in Nat /\ pos' > pos
        BY <1>2, <2>3, <2>5, <3>1, <3>2
      <3>4. todo' \in Nat
        BY <2>5 DEF Cramfs!Ptr, Cramfs!Num
      <3>5. CramInv' /\ SafeStep
        BY <1>1, <1>2, <2>5, <3>3, <3>4, CramGoesOn
      <3>6. n \in Int /\ n' = n /\ pos \in Int /\ pos' \in Int
        BY <1>2, <3>3, CramHere, CramFixed
      <3>7. Fuel = n - pos /\ Fuel' = n' - pos'
        BY <1>1, <2>5 DEF Fuel, Cramfs!Fuel
      <3>8. Fuel > 0 /\ Fuel' < Fuel
        <4>1. Fuel' = n - pos'
          BY <3>6, <3>7
        <4> HIDE DEF n
        <4>2. n - pos > 0 /\ n - pos' < n - pos
          BY <2>1, <3>3, <3>6, Burns
        <4> QED  BY <3>7, <4>1, <4>2
      <3>9. pc \in Loops /\ pc' \in Loops
        BY <1>1, <2>5 DEF Loops
      <3>10. Advances
        BY <3>8, <3>9, LoopTurn
      <3> QED  BY <3>5, <3>10
    <2> QED  BY <2>2, <2>4, <2>5
  <1> QED  BY <1>3, <1>4

LEMMA CramFails ==
    ASSUME CramInv, UNCHANGED <<img, arg>>, Cramfs!IoError
    PROVE  CramInv' /\ SafeStep /\ Advances
  <1> DEFINE r == Cramfs!Bad("Io")
  <1>1. Cramfs!Return(r) /\ Return(r) /\ UNCHANGED ids /\ r.err = "Io" /\ r.val = <<>>
    BY CramShared DEF Cramfs!IoError, Cramfs!Table, Cramfs!Bad
  <1>2. pc = "open" \/ pc \in Ops \cup CramLoops
    BY DEF Cramfs!IoError, Cramfs!Busy, CramInv, CallState
  <1> HIDE DEF r
  <1>3. CASE pc = "open"
    <2>1. Busy /\ arg = NoArg
      BY <1>3 DEF CramInv, CallState, Busy
    <2>2. SafeStep /\ Advances /\ Rested("failed")
      BY <1>1, <2>1, RefuseStep DEF Failed
    <2> QED  BY <1>1, <2>2, CramRested DEF CramInv
  <1>4. CASE pc \in Ops \cup CramLoops
    BY <1>1, <1>4, CramErrors
  <1> QED  BY <1>2, <1>3, <1>4

LEMMA CramCalls ==
    ASSUME CramInv, NEW n \in DOMAIN ids, NEW a \in Cramfs!Requests(n), Cramfs!Call(a)
    PROVE  CramInv' /\ SafeStep /\ Advances
  <1>1. pc = "idle" /\ arg' = a /\ pc' = a.op /\ UNCHANGED <<img, sb, nodes, ids, todo, pos, out, ret>>
    BY DEF Cramfs!Call
  <1>2. WellAsked(a) /\ a.node = n /\ a.op \notin CramLoops /\ a.op # "open"
    BY WindowsAssumption DEF Cramfs!Requests, WellAsked, Ops, CramLoops
  <1>3. SafeStep /\ Advances
    BY <1>1, <1>2, CallStep
  <1>4. CallState({"open"}, CramLoops)'
    BY <1>1, <1>2 DEF CallState, WellAsked, Ops, CramInv, CramLoops
  <1>5. Handed(n, ids)
    BY IdTabHanded DEF CramInv
  <1> QED  BY <1>1, <1>2, <1>3, <1>4, <1>5 DEF CramInv, IdTab, Handed, CramLoops

LEMMA CramSteps ==
    ASSUME fs = "cramfs", fs' = fs, CramInv, Cramfs!Next
    PROVE  CramInv' /\ SafeStep /\ Advances
  <1>1. CASE Cramfs!Step
    <2>1. UNCHANGED <<img, arg>>
      BY <1>1 DEF Cramfs!Step, Cramfs!Fixed
    <2> QED  BY <1>1, <2>1, CramOpens, CramReadsDir, CramReadsEntry, CramDone, CramAnswers, CramInflates, CramFails DEF Cramfs!Step
  <1> QED  BY <1>1, CramCalls DEF Cramfs!Next

LEMMA CramStarts == Cramfs!Init => CramInv
  BY DEF CramInv, Cramfs!Init, CallState, Cramfs!NoArg, NoArg, Ops, IdTab, CramLoops

-----------------------------------------------------------------------------
(* UDF. *)
IsExtents(es) == IsSeq(es) /\ \A i \in 1..Len(es) : es[i].lba \in Nat \cup {-1} /\ es[i].len \in Nat

LEMMA UdfNums == ASSUME NEW x \in Nat PROVE Udf!Wrap(x) \in Nat
  BY UdfAssumption DEF Udf!Wrap

LEMMA UdfParsesExtents ==
    ASSUME NEW b, NEW ad_off \in Nat, NEW l_ad \in Nat, NEW stride \in {1, 2}, NEW part \in Nat,
           NEW r, r = Udf!ParseExtents(b, ad_off, l_ad, stride, part)
    PROVE  Sound(r) /\ (r.err = "none" => IsExtents(r.val))
  <1> DEFINE n == l_ad \div stride
             field(i, f) == Udf!Num(b[ad_off + 1 + (i - 1) * stride], f)
             x(i) == [lba |-> IF field(i, "etype") = 0 THEN Udf!Wrap(part + field(i, "block")) ELSE -1, len |-> field(i, "len")]
             E == [lba : Nat \cup {-1}, len : Nat]
             T == Seq(E)
             More(i, t) == IF field(i, "len") = 0 THEN t ELSE Append(t, x(i))
             G == [i \in 1..n |-> [t \in T |-> More(i, t)]]
             Is(g) == g = [i \in 0..n |-> IF i = 0 THEN <<>> ELSE IF field(i, "len") = 0 THEN g[i - 1] ELSE Append(g[i - 1], x(i))]
             ex == CHOOSE g : Is(g)
  <1>0. n \in Nat
    OBVIOUS
  <1>1. \A i : x(i) \in E
    <2> SUFFICES ASSUME NEW i PROVE x(i) \in E
      OBVIOUS
    <2>1. \A f : field(i, f) \in Nat
      BY DEF Udf!Num
    <2> HIDE DEF field
    <2>2. Udf!Wrap(part + field(i, "block")) \in Nat
      BY <2>1, UdfNums
    <2> QED  BY <2>1, <2>2
  <1>2. <<>> \in T /\ \A i : \A t \in T : More(i, t) \in T
    <2> HIDE DEF E, field, x
    <2> QED  BY <1>1
  <1>4. G \in [1..n -> [T -> T]]
    <2> HIDE DEF T, More
    <2> QED  BY <1>2
  <1>5. PICK f : Climbs(T, <<>>, G, n, f)
    <2> HIDE DEF T, G, n
    <2> QED  BY <1>0, <1>2, <1>4, Recursion
  <1>6. f \in [0..n -> T] /\ f[0] = <<>> /\ \A k \in 1..n : f[k] = More(k, f[k - 1])
    <2>1. f \in [0..n -> T] /\ f[0] = <<>> /\ \A k \in 1..n : f[k] = G[k][f[k - 1]]
      <3> HIDE DEF T, G, n
      <3> QED  BY <1>5 DEF Climbs
    <2>2. \A k \in 1..n : f[k - 1] \in T
      <3> HIDE DEF T, n
      <3> QED  BY <1>0, <2>1
    <2> HIDE DEF T, More, n
    <2> QED  BY <2>1, <2>2
  <1>7. Is(f)
    <2>1. ASSUME NEW k \in 0..n PROVE f[k] = IF k = 0 THEN <<>> ELSE More(k, f[k - 1])
      <3> HIDE DEF More, T, n
      <3> QED  BY <1>0, <1>6
    <2>2. f = [k \in 0..n |-> IF k = 0 THEN <<>> ELSE More(k, f[k - 1])]
      <3> HIDE DEF More, T, n
      <3> QED  BY <1>6, <2>1
    <2> HIDE DEF n, field, x
    <2> QED  BY <2>2
  <1>8. Is(ex)
    <2> HIDE DEF Is
    <2> QED  BY <1>7
  <1> HIDE DEF ex
  <1>9. ex[0] \in T /\ \A k \in 1..n : ex[k - 1] \in T => ex[k] \in T
    <2>1. ex = [k \in 0..n |-> IF k = 0 THEN <<>> ELSE More(k, ex[k - 1])]
      <3> HIDE DEF n, field, x
      <3> QED  BY <1>8
    <2>2. ex[0] = <<>> /\ \A k \in 1..n : ex[k] = More(k, ex[k - 1])
      <3> HIDE DEF More, n
      <3> QED  BY <1>0, <2>1
    <2> HIDE DEF More, T, n
    <2> QED  BY <1>2, <2>2
  <1>10. ex[n] \in T
    <2>1. \A k \in 0..n : ex[k] \in T
      <3> HIDE DEF T, n
      <3> QED  BY <1>0, <1>9, UpTo
    <2> HIDE DEF T, n
    <2> QED  BY <1>0, <2>1
  <1>11. r = IF ad_off + l_ad > Len(b) THEN Udf!Bad("Corrupt")
             ELSE IF \E i \in 1..n : field(i, "len") > 0 /\ field(i, "etype") = 3 THEN Udf!Bad("Unsupported")
             ELSE Udf!Good(ex[n])
    BY DEF Udf!ParseExtents, ex
  <1>12. IsExtents(ex[n])
    <2> DEFINE s == ex[n]
    <2>1. s \in Seq(E)
      BY <1>10
    <2> HIDE DEF s
    <2>2. IsSeq(s) /\ \A i \in 1..Len(s) : s[i] \in E
      <3> HIDE DEF E
      <3> QED  BY <2>1 DEF IsSeq
    <2>3. IsExtents(s)
      BY <2>2 DEF IsExtents
    <2> QED  BY <2>3 DEF s
  <1> HIDE DEF n, field
  <1> QED  BY <1>11, <1>12 DEF Udf!Good, Udf!Bad, Sound

UdfInode(v) == v.size \in Nat /\ IsSeq(v.data) /\ (v.inline = TRUE \/ (v.inline = FALSE /\ IsExtents(v.data)))
UdfSuper(s) == s.bs \in Nat /\ s.part \in Nat

LEMMA UdfReadsFe ==
    ASSUME NEW lba, NEW s, UdfSuper(s), NEW r, r = Udf!ReadFe(lba, s)
    PROVE  Sound(r) /\ (r.err = "none" => UdfInode(r.val))
  <1> DEFINE q == Udf!ReadBlock(lba, s.bs)
             fe == Udf!FileEntry(q.val[1])
             ad_off == (IF fe.tag = Udf!TAG_FILE_ENTRY THEN 1 ELSE 2) + fe.l_ea
             stride == IF fe.ad = 0 THEN 1 ELSE 2
             ex == Udf!ParseExtents(q.val, ad_off, fe.l_ad, stride, s.part)
             sub == SubSeq(q.val, ad_off + 1, ad_off + fe.info)
  <1>1. Sound(q)
    BY DEF Udf!ReadBlock, Udf!ReadCells, Udf!Bad, Udf!Good, Sound
  <1>2. fe.info \in Nat /\ fe.l_ea \in Nat /\ fe.l_ad \in Nat
    BY DEF Udf!FileEntry, Udf!Num
  <1> HIDE DEF fe, q
  <1>3. ad_off \in Nat /\ ad_off \in Int /\ stride \in {1, 2}
    BY <1>2
  <1>4. \/ r = q /\ r.err # "none"
        \/ \E e \in {"Corrupt", "FileTooLarge", "Unsupported"} : r = Udf!Bad(e)
        \/ r = ex /\ r.err # "none"
        \/ r = Udf!Good([kind |-> Udf!Kind(fe.ft), size |-> fe.info, inline |-> TRUE, data |-> sub])
        \/ r = Udf!Good([kind |-> Udf!Kind(fe.ft), size |-> fe.info, inline |-> FALSE, data |-> ex.val]) /\ ex.err = "none"
    BY DEF Udf!ReadFe, Udf!ParseFe, fe, q, Udf!Failed
  <1> HIDE DEF ad_off, stride
  <1>5. Sound(ex) /\ (ex.err = "none" => IsExtents(ex.val))
    BY <1>2, <1>3, UdfParsesExtents DEF UdfSuper
  <1>6. IsSeq(sub)
    BY <1>2, <1>3, SubSeqIsSeq
  <1> HIDE DEF ex, sub
  <1>7. CASE r = Udf!Good([kind |-> Udf!Kind(fe.ft), size |-> fe.info, inline |-> TRUE, data |-> sub])
    BY <1>2, <1>6, <1>7 DEF Udf!Good, UdfInode, Sound
  <1>8. CASE r = Udf!Good([kind |-> Udf!Kind(fe.ft), size |-> fe.info, inline |-> FALSE, data |-> ex.val]) /\ ex.err = "none"
    BY <1>2, <1>5, <1>8 DEF Udf!Good, UdfInode, Sound, IsExtents
  <1> QED  BY <1>1, <1>4, <1>5, <1>7, <1>8 DEF Udf!Bad, Sound

(* The chain of descriptors: what open learns, and that probe had accepted it. *)
LEMMA UdfVolume ==
    /\ Sound(Udf!Volume)
    /\ Udf!Volume.err = "none" => UdfSuper(Udf!Volume.val) /\ Udf!Probe
  <1> DEFINE a == Udf!ReadBlock(AVDP_SECTOR, SECTOR)
             ds == Udf!Mvds(a.val[1])
             lvd == Udf!LastWith(ds.val, Udf!TAG_LOGICAL_VOLUME)
             part == Udf!Num(Udf!LastWith(ds.val, Udf!TAG_PARTITION), "start")
             bs == IF Udf!Num(lvd, "lbs") = 0 THEN SECTOR ELSE Udf!Num(lvd, "lbs")
             f == Udf!ReadBlock(Udf!Wrap(part + Udf!Num(lvd, "fsd")), bs)
             r == Udf!Volume
             root == Udf!Wrap(part + Udf!Num(f.val[1], "icb"))
  <1>1. \A lba, n : Sound(Udf!ReadBlock(lba, n))
    BY DEF Udf!ReadBlock, Udf!ReadCells, Udf!Bad, Udf!Good, Sound
  <1>2. \A d : Sound(Udf!Mvds(d))
    BY <1>1 DEF Udf!Mvds, Sound, Udf!Good
  <1>3. part \in Nat /\ bs \in Nat
    BY UdfAssumption DEF Udf!Num
  <1>4. \/ r = a /\ r.err # "none"
        \/ r = ds /\ r.err # "none"
        \/ r = f /\ r.err # "none"
        \/ r = Udf!Bad("Corrupt")
        \/ r = Udf!Good([bs |-> bs, part |-> part, root |-> root])
           /\ a.err = "none" /\ Udf!Tag(a.val[1]) = Udf!TAG_AVDP
    <2> HIDE DEF a, ds, f, bs, part, lvd, root
    <2> QED  BY DEF Udf!Volume, a, ds, f, bs, part, lvd, root, Udf!Failed
  <1>5. a.err = "none" /\ Udf!Tag(a.val[1]) = Udf!TAG_AVDP => Udf!Probe
    <2> SUFFICES ASSUME a.err = "none", Udf!Tag(a.val[1]) = Udf!TAG_AVDP PROVE Udf!Probe
      OBVIOUS
    <2> DEFINE p == AVDP_SECTOR * SECTOR
    <2>1. p \in Nat /\ p \in Int /\ SECTOR \in Nat \ {0}
      BY UdfAssumption
    <2>2. ~ p + SECTOR > Len(img.disk) /\ a.val = SubSeq(img.disk, p + 1, p + SECTOR)
      BY DEF Udf!ReadBlock, Udf!ReadCells, Udf!Bad, Udf!Good
    <2>3. Len(img.disk) \in Int => Len(img.disk) > p
      <3> HIDE DEF p
      <3> QED  BY <2>1, <2>2
    <2>4. a.val[1] = img.disk[p + 1]
      <3> HIDE DEF p, a
      <3>1. \A i \in 1..SECTOR : SubSeq(img.disk, p + 1, p + SECTOR)[i] = img.disk[p + i]
        BY <2>1, SubSeqIsSeq
      <3> QED  BY <2>1, <2>2, <3>1
    <2> QED  BY <2>3, <2>4 DEF Udf!Probe
  <1> QED  BY <1>1, <1>2, <1>3, <1>4, <1>5 DEF Udf!Bad, Udf!Good, Sound, UdfSuper

LEMMA UdfFixed ==
    ASSUME img' = img, NEW k
    PROVE  /\ sb' = sb => (Udf!ReadFe(k, sb))' = Udf!ReadFe(k, sb)
           /\ \A s : sb' = s => (Udf!ReadFe(k, sb))' = Udf!ReadFe(k, s)
  <1>1. ASSUME NEW s, sb' = s PROVE (Udf!ReadFe(k, sb))' = Udf!ReadFe(k, s)
    BY <1>1 DEF Udf!ReadFe, Udf!ReadBlock, Udf!ReadCells, Udf!Failed, Udf!Bad, Udf!Good
  <1> QED  BY <1>1

(* What is read of an extent is as much as is asked for. *)
LEMMA UdfPiece ==
    ASSUME NEW e, e.lba \in Nat \cup {-1}, NEW within \in Nat, NEW n \in Nat, UdfSuper(sb), NEW r, r = Udf!Piece(e, within, n)
    PROVE  /\ Pieces(r, n)
           /\ r.err = "none" => r.val \in Seq({img.disk[i] : i \in Int} \cup {[of |-> <<0>>, i |-> 1, n |-> 1]})
  <1> DEFINE D == {img.disk[i] : i \in Int} \cup {[of |-> <<0>>, i |-> 1, n |-> 1]}
  <1>1. CASE e.lba = -1
    <2> DEFINE z == Udf!Zeros(n)
    <2>1. r = Udf!Good(z)
      BY <1>1 DEF Udf!Piece
    <2>2. z = [i \in 1..n |-> z[i]] /\ z \in [1..n -> D]
      BY DEF Udf!Zeros
    <2> HIDE DEF z, D
    <2>3. IsSeq(z) /\ Len(z) = n /\ z \in Seq(D)
      BY <2>2, FcnIsSeq
    <2> QED  BY <2>1, <2>3 DEF Udf!Good, Pieces, Sound, D
  <1>2. CASE e.lba # -1
    <2> DEFINE a == e.lba * sb.bs + within
               z == SubSeq(img.disk, a + 1, a + n)
    <2>1. a \in Int
      BY <1>2 DEF UdfSuper
    <2>2. r = IF a + n > Len(img.disk) THEN Udf!Bad("OutOfRange") ELSE Udf!Good(z)
      BY <1>2 DEF Udf!Piece, Udf!ReadCells
    <2> HIDE DEF a
    <2>3. /\ IsSeq(z) /\ Len(z) = n
          /\ \A i \in 1..n : z[i] = img.disk[a + i]
      BY <2>1, SubSeqIsSeq
    <2>4. z \in Seq(D)
      <3>1. \A i \in 1..n : z[i] \in D
        BY <2>1, <2>3
      <3> HIDE DEF z, D
      <3>2. z = [i \in 1..n |-> z[i]]
        BY <2>3, SeqBasics
      <3>3. z \in [1..n -> D]
        BY <3>1, <3>2
      <3> QED  BY <3>3
    <2> HIDE DEF z, D
    <2> QED  BY <2>2, <2>3, <2>4 DEF Udf!Good, Udf!Bad, Pieces, Sound, D
  <1> QED  BY <1>1, <1>2

LEMMA UdfReadsAll ==
    ASSUME NEW v, UdfInode(v), UdfSuper(sb), NEW r, r = Udf!ReadAll(v)
    PROVE  Sound(r) /\ (r.err = "none" => IsSeq(r.val))
  <1>1. CASE v.inline = TRUE
    <2>1. r = Udf!Good(v.data)
      BY <1>1 DEF Udf!ReadAll
    <2> QED  BY <2>1 DEF Udf!Good, Sound, UdfInode
  <1>2. CASE v.inline = FALSE
    <2> DEFINE x == v.data
               n == Len(x)
               D == {img.disk[i] : i \in Int} \cup {[of |-> <<0>>, i |-> 1, n |-> 1]}
               S == {s \in Seq(D) : Len(s) <= v.size}
               T == {Udf!Bad("OutOfRange")} \cup {Udf!Good(s) : s \in S}
               need(t) == v.size - Len(t.val)
               here(i, t) == Udf!Piece(x[i], 0, Udf!LeastOf(x[i].len, need(t)))
               More(i, t) == IF Udf!Failed(t) THEN t
                             ELSE IF need(t) = 0 THEN t
                             ELSE IF Udf!Failed(here(i, t)) THEN here(i, t) ELSE Udf!Good(t.val \o here(i, t).val)
               first == Udf!Good(<<>>)
               G == [i \in 1..n |-> [t \in T |-> More(i, t)]]
               Is(g) == g = [i \in 0..n |-> IF i = 0 THEN first
                                            ELSE IF Udf!Failed(g[i - 1]) THEN g[i - 1]
                                            ELSE IF v.size - Len(g[i - 1].val) = 0 THEN g[i - 1]
                                            ELSE IF Udf!Failed(here(i, g[i - 1])) THEN here(i, g[i - 1])
                                            ELSE Udf!Good(g[i - 1].val \o here(i, g[i - 1]).val)]
               got == CHOOSE g : Is(g)
    <2>0. n \in Nat /\ v.size \in Nat /\ \A i \in 1..n : x[i].lba \in Nat \cup {-1} /\ x[i].len \in Nat
      BY <1>2, SeqBasics DEF UdfInode, IsExtents
    <2>1. ASSUME NEW i \in 1..n, NEW t \in T PROVE More(i, t) \in T
      <3>1. CASE t = Udf!Bad("OutOfRange")
        BY <3>1 DEF Udf!Failed, Udf!Bad
      <3>2. ASSUME NEW s \in S, t = Udf!Good(s) PROVE More(i, t) \in T
        <4>1. ~ Udf!Failed(t) /\ t.val = s /\ s \in Seq(D) /\ Len(s) \in Nat /\ Len(s) <= v.size
          <5> HIDE DEF D
          <5> QED  BY <3>2 DEF Udf!Failed, Udf!Good
        <4> DEFINE w == Udf!LeastOf(x[i].len, need(t))
                   h == here(i, t)
        <4>2. w \in Nat /\ w <= v.size - Len(s)
          BY <2>0, <4>1 DEF Udf!LeastOf
        <4>3. h = Udf!Piece(x[i], 0, w) /\ x[i].lba \in Nat \cup {-1} /\ 0 \in Nat
          BY <2>0
        <4> HIDE DEF w, h
        <4>4. /\ Pieces(h, w)
              /\ h.err = "none" => h.val \in Seq(D)
          BY <4>2, <4>3, UdfPiece
        <4>5. h.err = "none" => s \o h.val \in S
          <5> HIDE DEF D
          <5>1. h.err = "none" => s \o h.val \in Seq(D) /\ Len(s \o h.val) = Len(s) + Len(h.val) /\ Len(h.val) = w
            BY <4>1, <4>4 DEF Pieces
          <5> QED  BY <2>0, <4>1, <4>2, <5>1
        <4>6. h.err # "none" => h = Udf!Bad("OutOfRange")
          BY <4>3 DEF Udf!Piece, Udf!ReadCells, Udf!Good, Udf!Bad
        <4>7. More(i, t) = IF need(t) = 0 THEN t ELSE IF h.err # "none" THEN h ELSE Udf!Good(s \o h.val)
          BY <4>1 DEF h, Udf!Failed
        <4> HIDE DEF S, need
        <4> QED  BY <4>5, <4>6, <4>7
      <3> HIDE DEF More, S
      <3> QED  BY <3>1, <3>2
    <2>2. first \in T
      <3>1. <<>> \in Seq(D) /\ Len(<<>>) <= v.size
        <4> HIDE DEF D
        <4> QED  BY <2>0
      <3> QED  BY <3>1
    <2>4. G \in [1..n -> [T -> T]]
      <3> HIDE DEF T, More, n
      <3> QED  BY <2>1
    <2>5. PICK f : Climbs(T, first, G, n, f)
      <3> HIDE DEF T, G, n, first
      <3> QED  BY <2>0, <2>2, <2>4, Recursion
    <2>6. f \in [0..n -> T] /\ f[0] = first /\ \A k \in 1..n : f[k] = More(k, f[k - 1])
      <3>1. f \in [0..n -> T] /\ f[0] = first /\ \A k \in 1..n : f[k] = G[k][f[k - 1]]
        <4> HIDE DEF T, G, n, first
        <4> QED  BY <2>5 DEF Climbs
      <3>2. \A k \in 1..n : f[k - 1] \in T
        <4> HIDE DEF T, n
        <4> QED  BY <2>0, <3>1
      <3> HIDE DEF T, More, n, first
      <3> QED  BY <3>1, <3>2
    <2>7. Is(f)
      <3>1. ASSUME NEW k \in 0..n PROVE f[k] = IF k = 0 THEN first ELSE More(k, f[k - 1])
        <4> HIDE DEF More, T, n, first
        <4> QED  BY <2>0, <2>6
      <3>2. f = [k \in 0..n |-> IF k = 0 THEN first ELSE More(k, f[k - 1])]
        <4> HIDE DEF More, T, n, first
        <4> QED  BY <2>6, <3>1
      <3> HIDE DEF n, here, first
      <3> QED  BY <3>2
    <2>8. Is(got)
      <3> HIDE DEF Is
      <3> QED  BY <2>7
    <2> HIDE DEF got
    <2>9. got[0] \in T /\ \A k \in 1..n : got[k - 1] \in T => got[k] \in T
      <3>1. got = [k \in 0..n |-> IF k = 0 THEN first ELSE More(k, got[k - 1])]
        <4> HIDE DEF n, here, first
        <4> QED  BY <2>8
      <3>2. got[0] = first /\ \A k \in 1..n : got[k] = More(k, got[k - 1])
        <4> HIDE DEF More, n, first
        <4> QED  BY <2>0, <3>1
      <3> HIDE DEF More, T, n, first
      <3> QED  BY <2>1, <2>2, <3>2
    <2>10. got[n] \in T
      <3>1. \A k \in 0..n : got[k] \in T
        <4> HIDE DEF T, n
        <4> QED  BY <2>0, <2>9, UpTo
      <3> HIDE DEF T, n
      <3> QED  BY <2>0, <3>1
    <2>11. r = IF v.size > MAX_BOOT_FILE_BYTES THEN Udf!Bad("FileTooLarge") ELSE got[n]
      BY <1>2 DEF Udf!ReadAll, got
    <2>12. \A t \in T : Sound(t) /\ (t.err = "none" => IsSeq(t.val))
      <3>1. \A s \in S : IsSeq(s)
        <4> HIDE DEF D
        <4> QED  BY DEF IsSeq
      <3> HIDE DEF S
      <3> QED  BY <3>1 DEF Udf!Good, Udf!Bad, Sound
    <2> HIDE DEF T, n
    <2> QED  BY <2>10, <2>11, <2>12 DEF Udf!Bad, Sound
  <1> QED  BY <1>1, <1>2 DEF UdfInode

LEMMA UdfFids ==
    ASSUME NEW data, IsSeq(data), NEW part, NEW r, r = Udf!ParseFids(data, part)
    PROVE  Sound(r) /\ (r.err = "none" => IsSeq(r.val))
  <1> DEFINE n == Len(data)
             Named(a, b) == Udf!DecodeName(SubSeq(data, a + 1, a + b)).val
             N == {Named(a, b) : a \in Int, b \in Nat}
             L == {Udf!Wrap(part + i) : i \in Nat}
             E == [name : N, lba : L]
             R == {Udf!Bad(e) : e \in {"Corrupt", "InvalidPath"}} \cup {Udf!Good(s) : s \in Seq(E)}
             T == [p : Int, r : R]
             More(t) == IF Udf!Ended(data, t) THEN t ELSE Udf!FidTurn(data, part, t)
             first == [p |-> 1, r |-> Udf!Good(<<>>)]
             G == [k \in 1..n |-> [t \in T |-> More(t)]]
             Is(g) == g = [k \in 0..n |-> IF k = 0 THEN first
                                          ELSE IF Udf!Ended(data, g[k - 1]) THEN g[k - 1] ELSE Udf!FidTurn(data, part, g[k - 1])]
             turn == CHOOSE g : Is(g)
  <1>0. n \in Nat
    BY SeqBasics
  <1>1. ASSUME NEW t \in T PROVE More(t) \in T
    <2> SUFFICES ASSUME ~ Udf!Ended(data, t) PROVE Udf!FidTurn(data, part, t) \in T
      <3> HIDE DEF T
      <3> QED  OBVIOUS
    <2> DEFINE fid == data[t.p]
               fi_off == t.p + Udf!Num(fid, "l_iu")
               l_fi == Udf!Num(fid, "l_fi")
               name == Udf!DecodeName(SubSeq(data, fi_off + 1, fi_off + l_fi))
               p2 == t.p + Udf!FidLength(fid)
               x == [name |-> name.val, lba |-> Udf!Wrap(part + Udf!Num(fid, "icb"))]
    <2>1. t.p \in Int /\ t.r \in R
      <3> HIDE DEF R
      <3> QED  OBVIOUS
    <2>2. Udf!Num(fid, "l_iu") \in Nat /\ l_fi \in Nat /\ Udf!Num(fid, "icb") \in Nat
      BY DEF Udf!Num
    <2>3. fi_off \in Int /\ p2 \in Int
      <3>1. 1 + Udf!Num(fid, "l_iu") + l_fi \in Nat
        BY <2>2
      <3>2. Udf!FidLength(fid) \in Int
        BY <3>1, UdfAssumption DEF Udf!FidLength, Udf!CeilDiv
      <3> HIDE DEF R
      <3> QED  BY <2>1, <2>2, <3>2
    <2>4. PICK s \in Seq(E) : t.r = Udf!Good(s)
      <3>1. t.r.err = "none"
        BY DEF Udf!Ended, Udf!Failed
      <3>2. t.r # Udf!Bad("Corrupt") /\ t.r # Udf!Bad("InvalidPath")
        BY <3>1 DEF Udf!Bad
      <3> HIDE DEF E
      <3> QED  BY <2>1, <3>2
    <2>5. x \in E
      <3>1. name.val \in N
        <4>1. name.val = Named(fi_off, l_fi)
          OBVIOUS
        <4> HIDE DEF fi_off, l_fi, Named, name
        <4> QED  BY <2>2, <2>3, <4>1
      <3>2. Udf!Wrap(part + Udf!Num(fid, "icb")) \in L
        BY <2>2
      <3> HIDE DEF name, N, L
      <3> QED  BY <3>1, <3>2
    <2>6. name.err # "none" => name = Udf!Bad("InvalidPath")
      <3>1. \A fi : Udf!DecodeName(fi).err # "none" => Udf!DecodeName(fi) = Udf!Bad("InvalidPath")
        BY DEF Udf!DecodeName, Udf!Good, Udf!Bad
      <3> QED  BY <3>1
    <2>7. \/ Udf!FidTurn(data, part, t) = [p |-> n + 1, r |-> t.r]
          \/ Udf!FidTurn(data, part, t) = [p |-> p2, r |-> Udf!Bad("Corrupt")]
          \/ Udf!FidTurn(data, part, t) = [p |-> p2, r |-> t.r]
          \/ Udf!FidTurn(data, part, t) = [p |-> p2, r |-> name] /\ name.err # "none"
          \/ Udf!FidTurn(data, part, t) = [p |-> p2, r |-> Udf!Good(Append(t.r.val, x))]
      <3>1. t = [p |-> t.p, r |-> t.r]
        <4> HIDE DEF R
        <4> QED  OBVIOUS
      <3>2. [t EXCEPT !.p = n + 1] = [p |-> n + 1, r |-> t.r]
        BY <3>1
      <3> HIDE DEF name, p2, x
      <3> QED  BY <3>2 DEF Udf!FidTurn, Udf!Failed, name, p2, x
    <2>8. Append(t.r.val, x) \in Seq(E)
      <3>1. t.r.val = s
        BY <2>4 DEF Udf!Good
      <3> HIDE DEF E, x
      <3> QED  BY <2>4, <2>5, <3>1
    <2>9. \A q \in Int, o \in R : [p |-> q, r |-> o] \in T
      <3> HIDE DEF R
      <3> QED  OBVIOUS
    <2>10. Udf!Bad("Corrupt") \in R /\ Udf!Bad("InvalidPath") \in R /\ \A u \in Seq(E) : Udf!Good(u) \in R
      <3> HIDE DEF E
      <3> QED  OBVIOUS
    <2> DEFINE u == Udf!FidTurn(data, part, t)
    <2>11. \E q \in Int, o \in R : u = [p |-> q, r |-> o]
      <3> HIDE DEF R, T, E, name, p2, x, n, u
      <3>1. n + 1 \in Int
        BY <1>0
      <3> QED  BY <2>1, <2>3, <2>6, <2>7, <2>8, <2>10, <3>1 DEF u
    <2> HIDE DEF R, T
    <2> QED  BY <2>9, <2>11
  <1>2. first \in T
    <2> HIDE DEF E
    <2>1. <<>> \in Seq(E)
      OBVIOUS
    <2>2. Udf!Good(<<>>) \in R
      BY <2>1
    <2> HIDE DEF R
    <2> QED  BY <2>2
  <1>4. G \in [1..n -> [T -> T]]
    <2> HIDE DEF T, More, n
    <2> QED  BY <1>1
  <1>5. PICK f : Climbs(T, first, G, n, f)
    <2> HIDE DEF T, G, n, first
    <2> QED  BY <1>0, <1>2, <1>4, Recursion
  <1>6. f \in [0..n -> T] /\ f[0] = first /\ \A k \in 1..n : f[k] = More(f[k - 1])
    <2>1. f \in [0..n -> T] /\ f[0] = first /\ \A k \in 1..n : f[k] = G[k][f[k - 1]]
      <3> HIDE DEF T, G, n, first
      <3> QED  BY <1>5 DEF Climbs
    <2>2. \A k \in 1..n : f[k - 1] \in T
      <3> HIDE DEF T, n
      <3> QED  BY <1>0, <2>1
    <2> HIDE DEF T, More, n, first
    <2> QED  BY <2>1, <2>2
  <1>7. Is(f)
    <2>1. ASSUME NEW k \in 0..n PROVE f[k] = IF k = 0 THEN first ELSE More(f[k - 1])
      <3> HIDE DEF More, T, n, first
      <3> QED  BY <1>0, <1>6
    <2>2. f = [k \in 0..n |-> IF k = 0 THEN first ELSE More(f[k - 1])]
      <3> HIDE DEF More, T, n, first
      <3> QED  BY <1>6, <2>1
    <2> HIDE DEF n, first
    <2> QED  BY <2>2
  <1>8. Is(turn)
    <2> HIDE DEF Is
    <2> QED  BY <1>7
  <1> HIDE DEF turn
  <1>9. turn[0] \in T /\ \A k \in 1..n : turn[k - 1] \in T => turn[k] \in T
    <2>1. turn = [k \in 0..n |-> IF k = 0 THEN first ELSE More(turn[k - 1])]
      <3> HIDE DEF n, first
      <3> QED  BY <1>8
    <2>2. turn[0] = first /\ \A k \in 1..n : turn[k] = More(turn[k - 1])
      <3> HIDE DEF More, n, first
      <3> QED  BY <1>0, <2>1
    <2> HIDE DEF More, T, n, first
    <2> QED  BY <1>1, <1>2, <2>2
  <1>10. turn[n] \in T
    <2>1. \A k \in 0..n : turn[k] \in T
      <3> HIDE DEF T, n
      <3> QED  BY <1>0, <1>9, UpTo
    <2> HIDE DEF T, n
    <2> QED  BY <1>0, <2>1
  <1>11. r = turn[n].r
    BY DEF Udf!ParseFids, turn
  <1>12. turn[n].r \in R
    <2> HIDE DEF R, n
    <2> QED  BY <1>10
  <1>13. \A o \in R : Sound(o) /\ (o.err = "none" => IsSeq(o.val))
    <2>1. \A s \in Seq(E) : IsSeq(s)
      <3> HIDE DEF E
      <3> QED  BY DEF IsSeq
    <2> HIDE DEF E
    <2> QED  BY <2>1 DEF Udf!Good, Udf!Bad, Sound
  <1> HIDE DEF R, n
  <1> QED  BY <1>11, <1>12, <1>13

UdfTable ==
    /\ img \in Images.udf
    /\ Tabled(nodes, ids)
    /\ DOMAIN ids # {} => UdfSuper(sb)
    /\ \A k \in DOMAIN ids : Udf!ReadFe(k, sb).err = "none" /\ nodes[ids[k] + 1] = Udf!ReadFe(k, sb).val

(* While an extent is still to be read from, what was gathered ends in it or  *)
(* after its start.                                                           *)
UdfLoops ==
    /\ pc \in {"dir", "file"} => Handed(arg.node, ids) /\ IsSeq(todo) /\ IsSeq(out)
    /\ pc = "dir" => arg.op \in {"read_dir", "lookup"} /\ \A i \in 1..Len(out) : Handed(out[i].node, ids)
    /\ pc = "file" =>
         /\ arg.op = "read_at" /\ arg.off < nodes[arg.node + 1].size
         /\ IsExtents(todo)
         /\ pos \in Nat /\ (Len(out) < Udf!Want => pos <= Udf!Cur)
         /\ Len(out) <= Udf!Want

UdfInv == CallState({"open"}, {"dir", "file"}) /\ UdfTable /\ UdfLoops

LEMMA UdfNodes ==
    ASSUME UdfTable, NEW n, Handed(n, ids)
    PROVE  UdfSuper(sb) /\ UdfInode(nodes[n + 1]) /\ n \in 0..Len(nodes) - 1
  <1>1. PICK k \in DOMAIN ids : ids[k] = n
    BY DEF Handed
  <1>2. UdfSuper(sb) /\ Udf!ReadFe(k, sb).err = "none" /\ nodes[n + 1] = Udf!ReadFe(k, sb).val /\ Tabled(nodes, ids)
    BY <1>1 DEF UdfTable
  <1> QED  BY <1>2, UdfReadsFe, TabledHanded

LEMMA UdfSameTable == UdfTable /\ UNCHANGED <<img, sb, nodes, ids>> => UdfTable'
  <1> SUFFICES ASSUME UdfTable, img' = img, sb' = sb, nodes' = nodes, ids' = ids PROVE UdfTable'
    OBVIOUS
  <1>1. \A k : (Udf!ReadFe(k, sb))' = Udf!ReadFe(k, sb)
    BY UdfFixed
  <1> QED  BY <1>1 DEF UdfTable, UdfSuper

(* A key gets an id; s is what sb is from now on. *)
LEMMA UdfInterns ==
    ASSUME UdfTable, img' = img, NEW s, UdfSuper(s), sb' = s, DOMAIN ids # {} => sb' = sb,
           NEW key, Udf!ReadFe(key, s).err = "none", Udf!Intern(key, Udf!ReadFe(key, s).val)
    PROVE  /\ UdfTable' /\ GrowsTo(ids, ids')
           /\ DOMAIN ids' = DOMAIN ids \cup {key}
           /\ Handed(ids'[key], ids')
  <1> DEFINE v == Udf!ReadFe(key, s).val
             t == Interned([nodes |-> nodes, ids |-> ids], key, v)
  <1>1. nodes' = t.nodes /\ ids' = t.ids
    BY DEF Udf!Intern, Udf!Interned, Interned
  <1>2. Tabled(nodes, ids)
    BY DEF UdfTable
  <1> HIDE DEF v
  <1>3. /\ Tabled(t.nodes, t.ids)
        /\ Extends(ids, t.ids)
        /\ DOMAIN t.ids = DOMAIN ids \cup {key}
        /\ key \notin DOMAIN ids => t.nodes[t.ids[key] + 1] = v
        /\ t.ids[key] \in 0..Len(t.nodes) - 1
        /\ \A k \in DOMAIN ids : t.nodes[t.ids[k] + 1] = nodes[ids[k] + 1]
    <2> HIDE DEF t
    <2> QED  BY <1>2, InternedTabled DEF t
  <1> HIDE DEF t
  <1>4. \A k : (Udf!ReadFe(k, sb))' = Udf!ReadFe(k, s)
    BY UdfFixed
  <1>5. ASSUME NEW k \in DOMAIN ids'
        PROVE  Udf!ReadFe(k, s).err = "none" /\ nodes'[ids'[k] + 1] = Udf!ReadFe(k, s).val
    <2>1. CASE k \in DOMAIN ids
      <3>1. s = sb /\ Udf!ReadFe(k, sb).err = "none" /\ nodes[ids[k] + 1] = Udf!ReadFe(k, sb).val
        BY <2>1 DEF UdfTable
      <3> QED  BY <1>1, <1>3, <2>1, <3>1
    <2>2. CASE k \notin DOMAIN ids
      <3>1. k = key
        BY <1>1, <1>3, <1>5, <2>2
      <3> QED  BY <1>1, <1>3, <2>2, <3>1 DEF v
    <2> QED  BY <2>1, <2>2
  <1>6. UdfTable'
    BY <1>1, <1>3, <1>4, <1>5 DEF UdfTable, UdfSuper
  <1>7. GrowsTo(ids, ids')
    BY <1>1, <1>3 DEF GrowsTo, Tabled
  <1>8. Handed(ids'[key], ids')
    BY <1>1, <1>3 DEF Handed
  <1> QED  BY <1>1, <1>3, <1>6, <1>7, <1>8

LEMMA UdfRested ==
    ASSUME UdfTable', Rested("idle") \/ Rested("failed")
    PROVE  UdfInv'
  <1>1. pc' \in {"idle", "failed"} /\ todo' = <<>> /\ out' = <<>>
    BY DEF Rested
  <1>2. CallState({"open"}, {"dir", "file"})'
    BY <1>1 DEF CallState, Ops
  <1>3. UdfLoops'
    BY <1>1 DEF UdfLoops
  <1> QED  BY <1>2, <1>3 DEF UdfInv

LEMMA UdfShared ==
    /\ \A r : Udf!Return(r) <=> Return(r)
    /\ \A r : Udf!Failed(r) <=> r.err # "none"
    /\ \A es : Udf!Listed(es) = Listed(es)
    /\ Udf!Ids = 0..Len(nodes) - 1
    /\ Udf!Inode = nodes[arg.node + 1]
  <1>1. \A r : Udf!Return(r) <=> Return(r)
    BY DEF Udf!Return, Return, Udf!Opening, Opening, Udf!Busy, Busy, Udf!NoArg, NoArg, Udf!Failed, Failed
  <1>2. \A es : Udf!Listed(es) = Listed(es)
    BY DEF Udf!Listed, Listed, Udf!Found, Found, Udf!Min, Min
  <1> QED  BY <1>1, <1>2 DEF Udf!Failed, Udf!Ids, Udf!Inode

LEMMA UdfReplies ==
    ASSUME UdfInv, pc \in Ops \cup {"dir", "file"}, NEW r, Udf!Return(r), UNCHANGED <<img, arg, sb, nodes, ids>>,
           ProperReply(r, ids)
    PROVE  UdfInv' /\ SafeStep /\ Advances
  <1>1. Busy /\ WellAsked(arg)
    BY DEF UdfInv, CallState, Busy, Ops
  <1>2. Return(r)
    BY UdfShared
  <1>3. GrowsTo(ids, ids') /\ ProperReply(r, ids')
    BY SameGrows, TabledHanded DEF UdfInv, UdfTable
  <1>4. SafeStep /\ Advances /\ Rested("idle")
    BY <1>1, <1>2, <1>3, ReplyStep
  <1>5. UdfTable'
    BY UdfSameTable DEF UdfInv
  <1> QED  BY <1>4, <1>5, UdfRested

(* Where a call that is not open stands. *)
LEMMA UdfAsked ==
    ASSUME UdfInv, pc \in Ops \cup {"dir", "file"}
    PROVE  /\ Busy /\ WellAsked(arg) /\ UdfTable
           /\ pc \in Ops => arg.op = pc /\ todo = <<>> /\ out = <<>>
           /\ \A n : Handed(n, ids) <=> n \in Udf!Ids
           /\ \A r : r.err # "NotFound" /\ r.val = <<>> /\ Handed(arg.node, ids) => ProperReply(r, ids)
           /\ \A r : r.err \in {"NotFound", "Io"} /\ r.val = <<>> /\ ~ Handed(arg.node, ids) => ProperReply(r, ids)
  <1>1. WellAsked(arg) /\ UdfTable /\ Busy /\ (pc \in Ops => arg.op = pc /\ todo = <<>> /\ out = <<>>)
    BY DEF UdfInv, CallState, Busy, Ops
  <1>2. \A n : Handed(n, ids) <=> n \in Udf!Ids
    BY <1>1, TabledHanded, UdfShared DEF UdfTable
  <1> QED  BY <1>1, <1>2, ErrorReply

LEMMA UdfErrors ==
    ASSUME UdfInv, pc \in Ops \cup {"dir", "file"}, NEW r, Udf!Return(r), UNCHANGED <<img, arg, sb, nodes, ids>>,
           r.val = <<>>, IF Handed(arg.node, ids) THEN r.err # "NotFound" ELSE r.err \in {"NotFound", "Io"}
    PROVE  UdfInv' /\ SafeStep /\ Advances
  <1>1. ProperReply(r, ids)
    BY UdfAsked
  <1> QED  BY <1>1, UdfReplies

(* The call goes into a loop, or on in it, and leaves the table alone. *)
LEMMA UdfGoesOn ==
    ASSUME UdfInv, pc \in Ops \cup {"dir", "file"}, UNCHANGED <<img, arg, sb, nodes, ids, ret>>, pc' \in {"dir", "file"}, UdfLoops'
    PROVE  UdfInv' /\ SafeStep
  <1>1. Busy /\ WellAsked(arg) /\ UdfTable
    BY UdfAsked
  <1>2. GrowsTo(ids, ids')
    BY <1>1, SameGrows, TabledHanded DEF UdfTable
  <1>3. SafeStep
    BY <1>1, <1>2, GoesOnStep
  <1>4. CallState({"open"}, {"dir", "file"})'
    BY <1>1 DEF CallState, Ops
  <1> QED  BY <1>1, <1>3, <1>4, UdfSameTable DEF UdfInv

LEMMA UdfOpens ==
    ASSUME fs = "udf", UdfInv, Udf!Open, UNCHANGED <<img, arg>>
    PROVE  UdfInv' /\ SafeStep /\ Advances
  <1> DEFINE v == Udf!Volume
             r == Udf!ReadFe(v.val.root, v.val)
  <1>1. pc = "open" /\ Busy /\ arg = NoArg /\ ids = <<>> /\ nodes = <<>> /\ UdfTable /\ DOMAIN ids = {}
    BY DEF Udf!Open, UdfInv, CallState, Busy
  <1>2. \/ v.err # "none" /\ Return(v) /\ UNCHANGED <<sb, nodes, ids>>
        \/ r.err # "none" /\ Return(r) /\ UNCHANGED <<sb, nodes, ids>>
        \/ v.err = "none" /\ r.err = "none" /\ Return(Udf!Good(<<>>)) /\ sb' = v.val /\ Udf!Intern(v.val.root, r.val)
    <2> HIDE DEF r, v
    <2> QED  BY UdfShared DEF Udf!Open, r, v, Udf!Table
  <1>3. v.err = "none" => UdfSuper(v.val) /\ Udf!Probe
    BY UdfVolume
  <1> HIDE DEF v
  <1>4. ASSUME NEW q, q.err # "none", Return(q), UNCHANGED <<sb, nodes, ids>> PROVE UdfInv' /\ SafeStep /\ Advances
    <2>1. SafeStep /\ Advances /\ Rested("failed")
      BY <1>1, <1>4, RefuseStep DEF Failed
    <2> QED  BY <1>1, <1>4, <2>1, UdfSameTable, UdfRested
  <1>5. CASE v.err = "none" /\ r.err = "none" /\ Return(Udf!Good(<<>>)) /\ sb' = v.val /\ Udf!Intern(v.val.root, r.val)
    <2>1. UdfTable' /\ DOMAIN ids' = DOMAIN ids \cup {v.val.root}
      BY <1>1, <1>3, <1>5, UdfInterns
    <2>2. DOMAIN ids' = {v.val.root}
      BY <1>1, <2>1
    <2>3. Probe /\ ~ Failed(Udf!Good(<<>>))
      BY <1>3, <1>5 DEF Probe, Failed, Udf!Good
    <2>4. SafeStep /\ Advances /\ Rested("idle")
      BY <1>1, <1>5, <2>2, <2>3, MountStep
    <2> QED  BY <2>1, <2>4, UdfRested
  <1> HIDE DEF r
  <1> QED  BY <1>2, <1>4, <1>5

LEMMA UdfReadsDir ==
    ASSUME fs = "udf", UdfInv, Udf!ReadDir, UNCHANGED <<img, arg>>
    PROVE  UdfInv' /\ SafeStep /\ Advances
  <1> DEFINE d == Udf!ReadAll(Udf!Inode)
             f == Udf!ParseFids(d.val, sb.part)
  <1>1. pc \in {"read_dir", "lookup"} /\ pc \in Ops /\ UNCHANGED <<sb, nodes, ids>>
    BY DEF Udf!ReadDir, Ops, Udf!Table
  <1>2. \/ arg.node \notin Udf!Ids /\ Udf!Return(Udf!Bad("NotFound"))
        \/ arg.node \in Udf!Ids /\ Udf!Return(Udf!Bad("NotDirectory"))
        \/ arg.node \in Udf!Ids /\ d.err # "none" /\ Udf!Return(d)
        \/ arg.node \in Udf!Ids /\ d.err = "none" /\ f.err # "none" /\ Udf!Return(f)
        \/ arg.node \in Udf!Ids /\ d.err = "none" /\ f.err = "none" /\ Udf!Loop("dir", f.val, 0)
    <2> HIDE DEF d, f
    <2> QED  BY UdfShared DEF Udf!ReadDir, d, f
  <1>3. /\ WellAsked(arg) /\ UdfTable /\ arg.op = pc /\ todo = <<>> /\ out = <<>>
        /\ Handed(arg.node, ids) <=> arg.node \in Udf!Ids
    BY <1>1, UdfAsked
  <1>4. arg.node \in Udf!Ids => Sound(d) /\ (d.err = "none" => IsSeq(d.val))
    <2> SUFFICES ASSUME arg.node \in Udf!Ids PROVE Sound(d) /\ (d.err = "none" => IsSeq(d.val))
      OBVIOUS
    <2>1. UdfSuper(sb) /\ UdfInode(Udf!Inode)
      BY <1>3, UdfNodes, UdfShared
    <2> QED  BY <2>1, UdfReadsAll
  <1> HIDE DEF d
  <1>5. arg.node \in Udf!Ids /\ d.err = "none" => Sound(f) /\ (f.err = "none" => IsSeq(f.val))
    BY <1>4, UdfFids
  <1> HIDE DEF f
  <1>6. ASSUME NEW r, Udf!Return(r), r.val = <<>>, IF Handed(arg.node, ids) THEN r.err # "NotFound" ELSE r.err = "NotFound"
        PROVE  UdfInv' /\ SafeStep /\ Advances
    BY <1>1, <1>6, UdfErrors
  <1>7. CASE arg.node \in Udf!Ids /\ d.err = "none" /\ f.err = "none" /\ Udf!Loop("dir", f.val, 0)
    <2>1. pc' = "dir" /\ todo' = f.val /\ out' = <<>> /\ ret' = ret /\ IsSeq(f.val)
      BY <1>3, <1>5, <1>7 DEF Udf!Loop
    <2>2. (Handed(arg.node, ids))'
      BY <1>1, <1>3, <1>7 DEF Handed
    <2>3. IsSeq(out') /\ Len(out') = 0
      BY <2>1, EmptyIsSeq
    <2>4. UdfLoops'
      BY <1>1, <1>3, <2>1, <2>2, <2>3 DEF UdfLoops
    <2>5. UdfInv' /\ SafeStep
      BY <1>1, <2>1, <2>4, UdfGoesOn
    <2>6. Advances
      BY <1>1, <1>3, <2>1, IntoLoop DEF Loops
    <2> QED  BY <2>5, <2>6
  <1>8. Udf!Bad("NotFound").err = "NotFound" /\ Udf!Bad("NotFound").val = <<>>
        /\ Udf!Bad("NotDirectory").err # "NotFound" /\ Udf!Bad("NotDirectory").val = <<>>
    BY DEF Udf!Bad
  <1>9. CASE arg.node \notin Udf!Ids /\ Udf!Return(Udf!Bad("NotFound"))
    BY <1>3, <1>6, <1>8, <1>9
  <1>10. CASE arg.node \in Udf!Ids /\ Udf!Return(Udf!Bad("NotDirectory"))
    BY <1>3, <1>6, <1>8, <1>10
  <1>11. CASE arg.node \in Udf!Ids /\ d.err # "none" /\ Udf!Return(d)
    BY <1>3, <1>4, <1>6, <1>11 DEF Sound
  <1>12. CASE arg.node \in Udf!Ids /\ d.err = "none" /\ f.err # "none" /\ Udf!Return(f)
    BY <1>3, <1>5, <1>6, <1>12 DEF Sound
  <1> QED  BY <1>2, <1>7, <1>9, <1>10, <1>11, <1>12

LEMMA UdfReadsChild ==
    ASSUME fs = "udf", fs' = fs, UdfInv, Udf!DirChild, UNCHANGED <<img, arg>>
    PROVE  UdfInv' /\ SafeStep /\ Advances
  <1> DEFINE e == Head(todo)
             r == Udf!ReadFe(e.lba, sb)
             x == [name |-> e.name, kind |-> r.val.kind, node |-> ids'[e.lba]]
  <1>1. pc = "dir" /\ pc \in Ops \cup {"dir", "file"} /\ todo # <<>> /\ arg.op \in {"read_dir", "lookup"}
        /\ Handed(arg.node, ids) /\ IsSeq(todo) /\ IsSeq(out) /\ \A i \in 1..Len(out) : Handed(out[i].node, ids)
    BY DEF Udf!DirChild, UdfInv, UdfLoops
  <1>2. sb' = sb /\ \/ r.err # "none" /\ Udf!Return(r) /\ UNCHANGED <<nodes, ids>>
                    \/ /\ r.err = "none"
                       /\ Udf!Intern(e.lba, r.val)
                       /\ out' = Append(out, x) /\ todo' = Tail(todo) /\ UNCHANGED <<pc, pos, ret>>
    <2> HIDE DEF r, e
    <2> QED  BY UdfShared DEF Udf!DirChild, r, e
  <1>3. IsSeq(Tail(todo)) /\ Len(Tail(todo)) = Len(todo) - 1 /\ Len(todo) > 0 /\ Len(todo) \in Nat
    BY <1>1, TailIsSeq, SeqBasics
  <1>4. WellAsked(arg) /\ UdfTable /\ Busy /\ UdfSuper(sb)
    BY <1>1, UdfAsked, UdfNodes
  <1>5. Sound(r)
    BY <1>4, UdfReadsFe
  <1> HIDE DEF e
  <1>6. CASE r.err # "none" /\ Udf!Return(r) /\ UNCHANGED <<nodes, ids>>
    BY <1>1, <1>2, <1>5, <1>6, UdfErrors DEF Sound
  <1>7. CASE /\ r.err = "none"
             /\ Udf!Intern(e.lba, r.val)
             /\ out' = Append(out, x) /\ todo' = Tail(todo) /\ UNCHANGED <<pc, pos, ret>>
    <2>1. UdfTable' /\ GrowsTo(ids, ids') /\ Handed(ids'[e.lba], ids')
      BY <1>2, <1>4, <1>7, UdfInterns
    <2> HIDE DEF r, x
    <2>2. SafeStep
      BY <1>1, <1>4, <1>7, <2>1, GoesOnStep
    <2>3. Fuel = Len(todo) /\ Fuel' = Len(todo')
      BY <1>1, <1>7 DEF Fuel, Udf!Fuel
    <2>4. Advances
      BY <1>1, <1>3, <1>7, <2>3, LoopTurn DEF Loops
    <2>5. CallState({"open"}, {"dir", "file"})'
      BY <1>1, <1>4, <1>7 DEF CallState, Ops
    <2>6. \A n : Handed(n, ids) => Handed(n, ids')
      BY <2>1, HandedStill DEF GrowsTo
    <2>7. IsSeq(out') /\ \A i \in 1..Len(out') : Handed(out'[i].node, ids')
      <3>1. /\ IsSeq(Append(out, x))
            /\ Len(Append(out, x)) = Len(out) + 1
            /\ Append(out, x)[Len(out) + 1] = x
            /\ \A i \in 1..Len(out) : Append(out, x)[i] = out[i]
        BY <1>1, AppendIsSeq
      <3>2. Len(out) \in Nat
        BY <1>1, SeqBasics
      <3>3. Handed(x.node, ids')
        BY <2>1 DEF x
      <3> QED  BY <1>1, <1>7, <2>6, <3>1, <3>2, <3>3
    <2>8. (Handed(arg.node, ids))'
      BY <1>1, <2>6 DEF Handed
    <2>9. UdfLoops'
      <3>1. \A i \in 1..Len(out') : (Handed(out[i].node, ids))'
        BY <2>7 DEF Handed
      <3> QED  BY <1>1, <1>3, <1>7, <2>7, <2>8, <3>1 DEF UdfLoops
    <2> QED  BY <2>1, <2>2, <2>4, <2>5, <2>9 DEF UdfInv
  <1> QED  BY <1>2, <1>6, <1>7

LEMMA UdfBytes == ASSUME NEW c, IsSeq(c) PROVE IsSeq(Udf!Bytes(c)) /\ Len(Udf!Bytes(c)) = Len(c)
  <1> DEFINE b == Udf!Bytes(c)
  <1>1. Len(c) \in Nat /\ DOMAIN c = 1..Len(c)
    BY SeqBasics
  <1>2. b = [i \in 1..Len(c) |-> b[i]]
    BY <1>1 DEF Udf!Bytes
  <1> HIDE DEF b
  <1>3. IsSeq(b) /\ Len(b) = Len(c)
    BY <1>1, <1>2, FcnIsSeq
  <1> QED  BY <1>3 DEF b

(* What is wanted of a file: some of it, and no more than was asked for. *)
LEMMA UdfWants ==
    ASSUME arg.off \in Nat, arg.len \in Nat, Udf!Inode.size \in Nat, arg.off < Udf!Inode.size
    PROVE  Udf!Want \in Nat /\ Udf!Want <= arg.len
  BY DEF Udf!Want, Udf!LeastOf

LEMMA UdfReadsAt ==
    ASSUME fs = "udf", UdfInv, Udf!ReadAt, UNCHANGED <<img, arg>>
    PROVE  UdfInv' /\ SafeStep /\ Advances
  <1> DEFINE b == Udf!Bytes(SubSeq(Udf!Inode.data, arg.off + 1, arg.off + Udf!Want))
             v == Udf!Inode
  <1>1. pc = "read_at" /\ pc \in Ops /\ UNCHANGED <<sb, nodes, ids>>
    BY DEF Udf!ReadAt, Ops, Udf!Table
  <1>2. \/ arg.node \notin Udf!Ids /\ Udf!Return(Udf!Bad("NotFound"))
        \/ arg.node \in Udf!Ids /\ Udf!Return(Udf!Bad("IsDirectory"))
        \/ arg.node \in Udf!Ids /\ Udf!Return(Udf!Good(<<>>))
        \/ arg.node \in Udf!Ids /\ ~ arg.off >= v.size /\ Udf!Return(Udf!Good(b))
        \/ arg.node \in Udf!Ids /\ ~ arg.off >= v.size /\ ~ v.inline /\ Udf!Loop("file", v.data, 0)
    BY DEF Udf!ReadAt
  <1>3. /\ WellAsked(arg) /\ UdfTable /\ arg.op = pc /\ todo = <<>> /\ out = <<>>
        /\ Handed(arg.node, ids) <=> arg.node \in Udf!Ids
    BY <1>1, UdfAsked
  <1>4. arg.off \in Nat /\ arg.len \in Nat
    BY <1>1, <1>3 DEF WellAsked
  <1>5. arg.node \in Udf!Ids => UdfInode(v) /\ v = nodes[arg.node + 1]
    BY <1>3, UdfNodes, UdfShared
  <1>6. arg.node \in Udf!Ids /\ ~ arg.off >= v.size => Udf!Want \in Nat /\ Udf!Want <= arg.len /\ arg.off < v.size
    BY <1>4, <1>5, UdfWants DEF UdfInode
  <1>7. arg.node \in Udf!Ids /\ ~ arg.off >= v.size => ProperReply(Udf!Good(b), ids)
    <2> SUFFICES ASSUME arg.node \in Udf!Ids, ~ arg.off >= v.size PROVE ProperReply(Udf!Good(b), ids)
      OBVIOUS
    <2> DEFINE q == SubSeq(Udf!Inode.data, arg.off + 1, arg.off + Udf!Want)
    <2>0. arg.off \in Int /\ Udf!Want \in Nat
      BY <1>4, <1>6
    <2>1. /\ IsSeq(q)
          /\ Len(q) = Udf!Want
      BY <2>0, SubSeqIsSeq
    <2> HIDE DEF q
    <2>2. Len(Udf!Bytes(q)) = Udf!Want
      BY <2>1, UdfBytes
    <2> QED  BY <1>1, <1>3, <1>6, <2>2 DEF q, ProperReply, SaneReply, Udf!Good
  <1> HIDE DEF b
  <1>8. ASSUME NEW r, Udf!Return(r), ProperReply(r, ids) PROVE UdfInv' /\ SafeStep /\ Advances
    BY <1>1, <1>8, UdfReplies
  <1>9. ASSUME NEW r, Udf!Return(r), r.val = <<>>, IF Handed(arg.node, ids) THEN r.err # "NotFound" ELSE r.err = "NotFound"
        PROVE  UdfInv' /\ SafeStep /\ Advances
    BY <1>1, <1>9, UdfErrors
  <1>10. CASE arg.node \in Udf!Ids /\ ~ arg.off >= v.size /\ ~ v.inline /\ Udf!Loop("file", v.data, 0)
    <2>1. pc' = "file" /\ todo' = v.data /\ pos' = 0 /\ out' = <<>> /\ ret' = ret
      BY <1>3, <1>10 DEF Udf!Loop
    <2>2. IsExtents(v.data) /\ IsSeq(v.data)
      BY <1>5, <1>10 DEF UdfInode
    <2>3. (Handed(arg.node, ids))'
      BY <1>1, <1>3, <1>10 DEF Handed
    <2>4. IsSeq(out') /\ Len(out') = 0
      BY <2>1, EmptyIsSeq
    <2>5. Udf!Want' = Udf!Want /\ Udf!Cur' = arg.off + Len(out')
      BY <1>1 DEF Udf!Want, Udf!Inode, Udf!LeastOf, Udf!Cur
    <2>6. Len(out') <= Udf!Want' /\ pos' <= Udf!Cur' /\ pos' \in Nat
      BY <1>4, <1>6, <1>10, <2>1, <2>4, <2>5
    <2>7. arg'.off < nodes'[arg'.node + 1].size
      BY <1>1, <1>5, <1>6, <1>10
    <2>8. IsExtents(todo')
      BY <2>1, <2>2
    <2>9. UdfLoops'
      BY <1>1, <1>3, <2>1, <2>2, <2>3, <2>4, <2>6, <2>7, <2>8 DEF UdfLoops, IsExtents
    <2>10. UdfInv' /\ SafeStep
      BY <1>1, <2>1, <2>9, UdfGoesOn
    <2>11. Advances
      BY <1>1, <1>3, <2>1, IntoLoop DEF Loops
    <2> QED  BY <2>10, <2>11
  <1>11. CASE arg.node \notin Udf!Ids /\ Udf!Return(Udf!Bad("NotFound"))
    BY <1>3, <1>9, <1>11 DEF Udf!Bad
  <1>12. CASE arg.node \in Udf!Ids /\ (Udf!Return(Udf!Bad("IsDirectory")) \/ Udf!Return(Udf!Good(<<>>)))
    BY <1>3, <1>9, <1>12 DEF Udf!Bad, Udf!Good
  <1> QED  BY <1>2, <1>7, <1>8, <1>10, <1>11, <1>12

LEMMA UdfTakes ==
    \A len, c, p, w, o, n \in Int :
        p <= c /\ c < p + len /\ o < w /\ n = (IF len - (c - p) < w - o THEN len - (c - p) ELSE w - o)
        => n >= 0 /\ n <= w - o /\ (o + n < w => p + len <= c + n)
  OBVIOUS

LEMMA UdfReadsExtent ==
    ASSUME fs = "udf", fs' = fs, UdfInv, Udf!ReadExtent, UNCHANGED <<img, arg>>
    PROVE  UdfInv' /\ SafeStep /\ Advances
  <1> DEFINE e == Head(todo)
             w == Udf!Want
             c == Udf!Cur
             n == Udf!Take
             r == Udf!Piece(e, c - pos, n)
  <1>1. pc = "file" /\ pc \in Ops \cup {"dir", "file"} /\ UNCHANGED <<sb, nodes, ids>> /\ todo # <<>> /\ Len(out) < w
        /\ Handed(arg.node, ids) /\ IsSeq(todo) /\ IsSeq(out) /\ IsExtents(todo) /\ arg.op = "read_at"
        /\ arg.off < nodes[arg.node + 1].size /\ pos \in Nat /\ pos <= c
    BY DEF Udf!ReadExtent, UdfInv, UdfLoops, Udf!Table
  <1>2. \/ Udf!InExtent /\ r.err # "none" /\ Udf!Return(r)
        \/ /\ Udf!InExtent /\ r.err = "none" /\ out' = out \o Udf!Bytes(r.val)
           /\ pos' = pos + e.len /\ todo' = Tail(todo) /\ UNCHANGED <<pc, ret>>
        \/ ~ Udf!InExtent /\ out' = out /\ pos' = pos + e.len /\ todo' = Tail(todo) /\ UNCHANGED <<pc, ret>>
    <2> HIDE DEF r, e, n, c, w
    <2> QED  BY UdfShared DEF Udf!ReadExtent, r, e, n, c, w
  <1>3. WellAsked(arg) /\ UdfSuper(sb) /\ UdfInode(Udf!Inode) /\ Udf!Inode = nodes[arg.node + 1]
    BY <1>1, UdfAsked, UdfNodes, UdfShared
  <1>4. arg.off \in Nat /\ arg.len \in Nat /\ w \in Nat
    BY <1>1, <1>3, UdfWants DEF WellAsked, UdfInode
  <1>5. IsSeq(Tail(todo)) /\ Len(Tail(todo)) = Len(todo) - 1 /\ Len(todo) > 0 /\ Len(todo) \in Nat /\ e = todo[1]
        /\ \A i \in 1..Len(todo) - 1 : Tail(todo)[i] = todo[i + 1]
    BY <1>1, TailIsSeq, SeqBasics
  <1>6. e.lba \in Nat \cup {-1} /\ e.len \in Nat
    BY <1>1, <1>5 DEF IsExtents
  <1>7. Len(out) \in Nat /\ c = arg.off + Len(out) /\ c \in Nat
    BY <1>1, <1>4, SeqBasics DEF Udf!Cur
  <1>8. Udf!InExtent <=> c < pos + e.len
    BY DEF Udf!InExtent
  <1>9. n = IF e.len - (c - pos) < w - Len(out) THEN e.len - (c - pos) ELSE w - Len(out)
    BY DEF Udf!Take, Udf!LeastOf
  <1> HIDE DEF e, w, c, n
  <1>10. c - pos \in Nat
    BY <1>1, <1>7
  <1>11. Udf!InExtent => n \in Nat /\ n <= w - Len(out) /\ (Len(out) + n < w => pos + e.len <= c + n)
    <2>1. e.len \in Int /\ c \in Int /\ pos \in Int /\ w \in Int /\ Len(out) \in Int
      BY <1>1, <1>4, <1>6, <1>7
    <2>2. n \in Int
      BY <1>9, <2>1
    <2>3. Udf!InExtent => n >= 0 /\ n <= w - Len(out) /\ (Len(out) + n < w => pos + e.len <= c + n)
      BY <1>1, <1>8, <1>9, <2>1, <2>2, UdfTakes
    <2> QED  BY <2>2, <2>3
  <1>12. Udf!InExtent => Pieces(r, n)
    BY <1>3, <1>6, <1>10, <1>11, UdfPiece
  <1> HIDE DEF r
  <1>13. CASE Udf!InExtent /\ r.err # "none" /\ Udf!Return(r)
    BY <1>1, <1>12, <1>13, UdfErrors DEF Pieces, Sound
  <1>14. ASSUME NEW m \in Nat, IsSeq(out'), Len(out') = Len(out) + m, m <= w - Len(out),
                Len(out) + m < w => pos + e.len <= c + m,
                pos' = pos + e.len, todo' = Tail(todo), UNCHANGED <<pc, ret>>
         PROVE  UdfInv' /\ SafeStep /\ Advances
    <2>1. IsExtents(todo')
      BY <1>1, <1>5, <1>14 DEF IsExtents
    <2>2. Udf!Want' = w /\ Udf!Cur' = arg.off + Len(out')
      BY <1>1 DEF Udf!Want, Udf!Inode, Udf!LeastOf, Udf!Cur, w
    <2>3. Len(out') <= Udf!Want'
      BY <1>4, <1>7, <1>14, <2>2
    <2>4. pos' \in Nat
      BY <1>1, <1>6, <1>14
    <2>5. Len(out') < Udf!Want' => pos' <= Udf!Cur'
      BY <1>4, <1>6, <1>7, <1>14, <2>2
    <2>6. (Handed(arg.node, ids))'
      BY <1>1 DEF Handed
    <2>7. UdfLoops'
      <3>1. pc' = "file" /\ arg' = arg /\ nodes' = nodes /\ IsSeq(todo')
        BY <1>1, <1>5, <1>14
      <3> QED  BY <1>1, <1>14, <2>1, <2>3, <2>4, <2>5, <2>6, <3>1 DEF UdfLoops, IsExtents
    <2>8. UdfInv' /\ SafeStep
      BY <1>1, <1>14, <2>7, UdfGoesOn
    <2>9. Fuel = Len(todo) /\ Fuel' = Len(todo')
      BY <1>1, <1>14 DEF Fuel, Udf!Fuel
    <2>10. Advances
      BY <1>1, <1>5, <1>14, <2>9, LoopTurn DEF Loops
    <2> QED  BY <2>8, <2>10
  <1>15. CASE Udf!InExtent /\ r.err = "none" /\ out' = out \o Udf!Bytes(r.val)
              /\ pos' = pos + e.len /\ todo' = Tail(todo) /\ UNCHANGED <<pc, ret>>
    <2> DEFINE b == Udf!Bytes(r.val)
    <2>1. IsSeq(b) /\ Len(b) = n
      BY <1>12, <1>15, UdfBytes DEF Pieces
    <2> HIDE DEF b
    <2>2. /\ IsSeq(out \o b)
          /\ Len(out \o b) = Len(out) + Len(b)
      BY <1>1, <2>1, ConcatIsSeq
    <2>3. IsSeq(out') /\ Len(out') = Len(out) + n
      BY <1>15, <2>1, <2>2 DEF b
    <2>4. n \in Nat /\ n <= w - Len(out) /\ (Len(out) + n < w => pos + e.len <= c + n)
      BY <1>11, <1>15
    <2> QED  BY <1>14, <1>15, <2>3, <2>4
  <1>16. CASE ~ Udf!InExtent /\ out' = out /\ pos' = pos + e.len /\ todo' = Tail(todo) /\ UNCHANGED <<pc, ret>>
    <2>1. pos + e.len <= c + 0 /\ 0 <= w - Len(out) /\ Len(out') = Len(out) + 0 /\ IsSeq(out')
      BY <1>1, <1>4, <1>6, <1>7, <1>8, <1>16
    <2> QED  BY <1>14, <1>16, <2>1
  <1> QED  BY <1>2, <1>13, <1>15, <1>16

LEMMA UdfAnswers ==
    ASSUME fs = "udf", UdfInv, UNCHANGED <<img, arg>>, Udf!DirDone \/ Udf!GetMetadata \/ Udf!ReadLink \/ Udf!ReadDone
    PROVE  UdfInv' /\ SafeStep /\ Advances
  <1>1. pc \in {"dir", "metadata", "read_link", "file"} /\ pc \in Ops \cup {"dir", "file"} /\ UNCHANGED <<sb, nodes, ids>>
    BY DEF Udf!DirDone, Udf!GetMetadata, Udf!ReadLink, Udf!ReadDone, Udf!Table, Ops
  <1>2. /\ WellAsked(arg) /\ UdfTable /\ (pc \in Ops => arg.op = pc)
        /\ Handed(arg.node, ids) <=> arg.node \in Udf!Ids
    BY <1>1, UdfAsked
  <1>3. ASSUME NEW r, Udf!Return(r), ProperReply(r, ids) PROVE UdfInv' /\ SafeStep /\ Advances
    BY <1>1, <1>3, UdfReplies
  <1>4. CASE Udf!DirDone
    <2>1. pc = "dir" /\ Udf!Return(Udf!Good(Udf!Listed(out))) /\ IsSeq(out)
          /\ (\A i \in 1..Len(out) : Handed(out[i].node, ids)) /\ Handed(arg.node, ids) /\ arg.op \in {"read_dir", "lookup"}
      BY <1>4 DEF Udf!DirDone, UdfInv, UdfLoops
    <2>2. Udf!Good(Udf!Listed(out)) = Good(Listed(out))
      BY UdfShared DEF Udf!Good, Good
    <2>3. ProperReply(Udf!Good(Udf!Listed(out)), ids)
      BY <2>1, <2>2, ListedIsSane
    <2> QED  BY <1>3, <2>1, <2>3
  <1>5. CASE Udf!GetMetadata
    <2> DEFINE v == <<Udf!Inode.kind, Udf!Inode.size>>
    <2>1. arg.op = "metadata" /\ Udf!Return(IF arg.node \in Udf!Ids THEN Udf!Good(v) ELSE Udf!Bad("NotFound"))
      BY <1>2, <1>5 DEF Udf!GetMetadata, Ops
    <2> HIDE DEF v
    <2>2. arg.node \in Udf!Ids => ProperReply(Udf!Good(v), ids)
      BY <1>2, <2>1 DEF ProperReply, SaneReply, Udf!Good
    <2>3. arg.node \notin Udf!Ids => ProperReply(Udf!Bad("NotFound"), ids)
      BY <1>2, ErrorReply DEF Udf!Bad
    <2> QED  BY <1>3, <2>1, <2>2, <2>3
  <1>6. CASE Udf!ReadLink
    <2>1. arg.op = "read_link" /\ Udf!Return(Udf!Good(<<>>))
      BY <1>2, <1>6 DEF Udf!ReadLink, Ops
    <2>2. ProperReply(Udf!Good(<<>>), ids)
      BY <2>1 DEF ProperReply, SaneReply, Udf!Good
    <2> QED  BY <1>3, <2>1, <2>2
  <1>7. CASE Udf!ReadDone
    <2>1. pc = "file" /\ Udf!Return(Udf!Good(out)) /\ IsSeq(out) /\ Handed(arg.node, ids) /\ arg.op = "read_at"
          /\ arg.off < nodes[arg.node + 1].size /\ Len(out) <= Udf!Want
      BY <1>7 DEF Udf!ReadDone, UdfInv, UdfLoops
    <2>2. UdfInode(Udf!Inode) /\ Udf!Inode = nodes[arg.node + 1]
      BY <1>2, <2>1, UdfNodes, UdfShared
    <2>3. Udf!Want \in Nat /\ Udf!Want <= arg.len /\ arg.len \in Nat /\ Len(out) \in Nat
      BY <1>2, <2>1, <2>2, UdfWants, SeqBasics DEF WellAsked, UdfInode
    <2>4. Len(out) <= arg.len
      BY <2>1, <2>3
    <2>5. ProperReply(Udf!Good(out), ids)
      BY <2>1, <2>4 DEF ProperReply, SaneReply, Udf!Good
    <2> QED  BY <1>3, <2>1, <2>5
  <1> QED  BY <1>4, <1>5, <1>6, <1>7

LEMMA UdfFails ==
    ASSUME fs = "udf", UdfInv, UNCHANGED <<img, arg>>, Udf!IoError
    PROVE  UdfInv' /\ SafeStep /\ Advances
  <1> DEFINE r == Udf!Bad("Io")
  <1>1. Udf!Return(r) /\ Return(r) /\ UNCHANGED <<sb, nodes, ids>> /\ r.err = "Io" /\ r.val = <<>>
    BY UdfShared DEF Udf!IoError, Udf!Table, Udf!Bad
  <1>2. pc = "open" \/ pc \in Ops \cup {"dir", "file"}
    BY DEF Udf!IoError, Udf!ReadsDevice, Ops
  <1> HIDE DEF r
  <1>3. CASE pc = "open"
    <2>1. Busy /\ arg = NoArg /\ UdfTable
      BY <1>3 DEF UdfInv, CallState, Busy
    <2>2. SafeStep /\ Advances /\ Rested("failed")
      BY <1>1, <2>1, RefuseStep DEF Failed
    <2> QED  BY <1>1, <2>1, <2>2, UdfSameTable, UdfRested
  <1>4. CASE pc \in Ops \cup {"dir", "file"}
    BY <1>1, <1>4, UdfErrors
  <1> QED  BY <1>2, <1>3, <1>4

LEMMA UdfCalls ==
    ASSUME UdfInv, NEW n, NEW a \in Udf!Requests(n), Udf!Call(a)
    PROVE  UdfInv' /\ SafeStep /\ Advances
  <1>1. pc = "idle" /\ arg' = a /\ pc' = a.op /\ UNCHANGED <<img, sb, nodes, ids, todo, pos, out, ret>>
    BY DEF Udf!Call
  <1>2. WellAsked(a) /\ a.op \notin {"dir", "file", "open"}
    BY WindowsAssumption DEF Udf!Requests, WellAsked, Ops
  <1>3. SafeStep /\ Advances
    BY <1>1, <1>2, CallStep
  <1>4. UdfTable'
    BY <1>1, UdfSameTable DEF UdfInv
  <1>5. CallState({"open"}, {"dir", "file"})'
    BY <1>1, <1>2 DEF CallState, WellAsked, Ops, UdfInv
  <1>6. UdfLoops'
    BY <1>1, <1>2 DEF UdfLoops
  <1> QED  BY <1>3, <1>4, <1>5, <1>6 DEF UdfInv

LEMMA UdfSteps ==
    ASSUME fs = "udf", fs' = fs, UdfInv, Udf!Next
    PROVE  UdfInv' /\ SafeStep /\ Advances
  <1>1. CASE Udf!Step
    <2>1. UNCHANGED <<img, arg>>
      BY <1>1 DEF Udf!Step, Udf!Fixed
    <2> QED  BY <1>1, <2>1, UdfOpens, UdfReadsDir, UdfReadsChild, UdfAnswers, UdfReadsAt, UdfReadsExtent, UdfFails DEF Udf!Step
  <1> QED  BY <1>1, UdfCalls DEF Udf!Next

LEMMA UdfStarts == Udf!Init => UdfInv
  <1> SUFFICES ASSUME Udf!Init PROVE UdfInv
    OBVIOUS
  <1>1. UdfTable
    <2>1. DOMAIN ids = {}
      BY DEF Udf!Init
    <2> QED  BY <2>1, EmptyTabled DEF UdfTable, Udf!Init
  <1> QED  BY <1>1 DEF UdfInv, Udf!Init, CallState, UdfLoops, Udf!NoArg, NoArg, Ops

-----------------------------------------------------------------------------
(* EROFS. *)
ErofsSuper(s) == DOMAIN s = {"bs", "meta_off", "lzma_dict_size"} /\ s.bs \in Nat \ {0} /\ s.meta_off \in Nat
ErofsInode(v) == v.size \in Nat /\ v.raw_blkaddr \in Nat /\ v.inline_off \in Nat
ErofsOps == {"read_dir", "lookup", "metadata", "read_link"}
ErofsOpens == {"open", "config", "root"}

ErofsInv ==
    /\ img \in Images.erofs
    /\ pc \in {"idle", "failed", "dir"} \cup ErofsOpens \cup ErofsOps
    /\ pc \in ErofsOpens => arg = NoArg /\ ids = <<>>
    /\ pc \in {"config", "root"} => Erofs!Probe
    /\ pc \notin {"open", "failed"} => ErofsSuper(sb)
    /\ pc \in ErofsOps \cup {"dir"} => WellAsked(arg) /\ Handed(arg.node, ids)
    /\ pc \in ErofsOps => arg.op = pc /\ todo \in {<<>>, Erofs!Parsed} /\ (todo # <<>> => arg.node \in DOMAIN nodes)
    /\ pc = "dir" => /\ arg.op \in {"read_dir", "lookup"}
                     /\ IsSeq(todo) /\ IsSeq(out) /\ pos \in 0..Len(todo)
                     /\ \A i \in 1..Len(out) : out[i].node \in Nat
    /\ pc # "dir" => out = <<>>
    /\ pc \notin ErofsOps \cup {"dir"} => todo = <<>>
    /\ IdTab(ids) /\ DOMAIN ids \subseteq Nat
    /\ \A n \in DOMAIN nodes : ErofsInode(nodes[n])

LEMMA ErofsParses ==
    ASSUME ErofsSuper(sb), NEW nid \in Nat, NEW r, r = Erofs!ParseInode(nid)
    PROVE  Sound(r) /\ (r.err = "none" => ErofsInode(r.val))
  <1> DEFINE c == Erofs!ReadCells(img.disk, sb.meta_off + nid, 1)
             x == c.val[1]
             o == sb.meta_off + nid + (IF x.ext THEN 2 ELSE 1) + Erofs!Num(x, "xattr")
  <1>1. Sound(c)
    BY DEF Erofs!ReadCells, Erofs!Bad, Erofs!Good, Sound
  <1>2. Erofs!Num(x, "size") \in Nat /\ Erofs!Num(x, "raw") \in Nat /\ Erofs!Num(x, "xattr") \in Nat
    BY DEF Erofs!Num
  <1>3. o \in Nat
    <2>1. (IF x.ext THEN 2 ELSE 1) \in Nat
      OBVIOUS
    <2> QED  BY <1>2, <2>1 DEF ErofsSuper
  <1>4. \/ r = c /\ r.err # "none"
        \/ r = Erofs!Bad("Corrupt") \/ r = Erofs!Bad("OutOfRange")
        \/ r = Erofs!Good([kind |-> x.kind, size |-> Erofs!Num(x, "size"), layout |-> x.layout,
                           raw_blkaddr |-> Erofs!Num(x, "raw"), inline_off |-> o])
    <2> HIDE DEF c
    <2> QED  BY DEF Erofs!ParseInode, c, Erofs!Failed
  <1> HIDE DEF c, x, o
  <1> QED  BY <1>1, <1>2, <1>3, <1>4 DEF Erofs!Bad, Erofs!Good, Sound, ErofsInode

LEMMA ErofsReads ==
    ASSUME ErofsSuper(sb), NEW v, ErofsInode(v), NEW r, r = Erofs!ReadInodeData(v)
    PROVE  Sound(r) /\ (r.err = "none" => IsSeq(r.val))
  <1> DEFINE base == v.raw_blkaddr * sb.bs
             full == (v.size \div sb.bs) * sb.bs
             b == Erofs!ReadCells(img.disk, base, full)
             t == Erofs!ReadCells(img.disk, v.inline_off, v.size - full)
             p == Erofs!ReadCells(img.disk, base, v.size)
             q == (IF full > 0 THEN b.val ELSE <<>>) \o (IF v.size > full THEN t.val ELSE <<>>)
  <1>1. base \in Int /\ full \in Int /\ v.size \in Nat /\ v.inline_off \in Int
    <2>1. v.size \div sb.bs \in Int
      BY DEF ErofsSuper, ErofsInode
    <2> QED  BY <2>1 DEF ErofsSuper, ErofsInode
  <1>2. \/ r = p
        \/ r = b /\ r.err # "none"
        \/ r = t /\ r.err # "none"
        \/ /\ full > 0 => b.err = "none"
           /\ v.size > full => t.err = "none"
           /\ r = Erofs!Good(q)
        \/ r = Erofs!Bad("Unsupported")
    <2> HIDE DEF b, t, p, full
    <2> QED  BY DEF Erofs!ReadInodeData, b, t, p, Erofs!Failed, full
  <1> HIDE DEF base, full
  <1>3. ASSUME NEW at \in Int, NEW n \in Int
        PROVE  Sound(Erofs!ReadCells(img.disk, at, n))
               /\ (n \in Nat /\ Erofs!ReadCells(img.disk, at, n).err = "none" => IsSeq(Erofs!ReadCells(img.disk, at, n).val))
    <2> DEFINE s == SubSeq(img.disk, at + 1, at + n)
    <2>1. n \in Nat => IsSeq(s)
      BY SubSeqIsSeq
    <2>2. Erofs!ReadCells(img.disk, at, n) = Erofs!Bad("OutOfRange") \/ Erofs!ReadCells(img.disk, at, n) = Erofs!Good(s)
      BY DEF Erofs!ReadCells
    <2> HIDE DEF s
    <2> QED  BY <2>1, <2>2 DEF Erofs!Bad, Erofs!Good, Sound
  <1>4. Sound(p) /\ (p.err = "none" => IsSeq(p.val))
    BY <1>1, <1>3
  <1>5. Sound(b) /\ (full > 0 /\ b.err = "none" => IsSeq(b.val))
    BY <1>1, <1>3
  <1>6. Sound(t) /\ (v.size > full /\ t.err = "none" => IsSeq(t.val))
    BY <1>1, <1>3
  <1> HIDE DEF b, t, p
  <1>7. (full > 0 => b.err = "none") /\ (v.size > full => t.err = "none") => IsSeq(q)
    <2> SUFFICES ASSUME full > 0 => b.err = "none", v.size > full => t.err = "none" PROVE IsSeq(q)
      OBVIOUS
    <2>1. IsSeq(IF full > 0 THEN b.val ELSE <<>>) /\ IsSeq(IF v.size > full THEN t.val ELSE <<>>)
      BY <1>5, <1>6, EmptyIsSeq
    <2> QED  BY <2>1, ConcatIsSeq
  <1> HIDE DEF q
  <1> QED  BY <1>2, <1>4, <1>5, <1>6, <1>7 DEF Erofs!Good, Erofs!Bad, Sound

(* Of a block of a directory comes a sequence of entries, nids among them. *)
ErofsEntries(es) == IsSeq(es) /\ \A i \in 1..Len(es) : es[i].node \in Nat

LEMMA ErofsBlock ==
    ASSUME NEW block, NEW r, r = Erofs!ParseDirBlock(block)
    PROVE  Sound(r) /\ (r.err = "none" => ErofsEntries(r.val))
  <1> DEFINE off(i) == Erofs!Num(block[i], "nameoff")
             n == off(1)
             end(i) == IF i < n THEN off(i + 1) ELSE Len(block)
             entry(i) == [name |-> Erofs!DirentName(block, off(i), end(i)), node |-> Erofs!Num(block[i], "nid"),
                          kind |-> Erofs!FtKind(block[i].ft)]
             E == {entry(i) : i \in 1..n}
             T == Seq(E)
             Skips(i) == entry(i).name \in {<<>>, <<".">>, <<"..">>}
             More(i, s) == IF Skips(i) THEN s ELSE Append(s, entry(i))
             G == [i \in 1..n |-> [s \in T |-> More(i, s)]]
             Is(g) == g = [i \in 0..n |-> IF i = 0 THEN <<>> ELSE IF Skips(i) THEN g[i - 1] ELSE Append(g[i - 1], entry(i))]
             es == CHOOSE g : Is(g)
  <1>0. n \in Nat /\ \A i : Erofs!Num(block[i], "nid") \in Nat
    BY DEF Erofs!Num
  <1>1. \A i \in 1..n : entry(i) \in E
    <2> HIDE DEF entry
    <2> QED  OBVIOUS
  <1>2. \A x \in E : x.node \in Nat
    <2> HIDE DEF end, off, n
    <2> QED  BY <1>0
  <1>r. r = Erofs!Bad("Corrupt") \/ r = Erofs!Good(es[n])
    BY DEF Erofs!ParseDirBlock
  <1> HIDE DEF n, entry, E, Skips
  <1>3. \A i \in 1..n : \A s \in T : More(i, s) \in T
    BY <1>1
  <1>4. <<>> \in T
    OBVIOUS
  <1>5. G \in [1..n -> [T -> T]]
    <2> HIDE DEF T, More
    <2> QED  BY <1>3
  <1>6. PICK f : Climbs(T, <<>>, G, n, f)
    <2> HIDE DEF T, G
    <2> QED  BY <1>0, <1>4, <1>5, Recursion
  <1>7. f \in [0..n -> T] /\ f[0] = <<>> /\ \A i \in 1..n : f[i] = More(i, f[i - 1])
    <2>1. f \in [0..n -> T] /\ f[0] = <<>> /\ \A i \in 1..n : f[i] = G[i][f[i - 1]]
      <3> HIDE DEF T, G
      <3> QED  BY <1>6 DEF Climbs
    <2>2. \A i \in 1..n : f[i - 1] \in T
      <3> HIDE DEF T
      <3> QED  BY <1>0, <2>1
    <2> HIDE DEF T, More
    <2> QED  BY <2>1, <2>2
  <1>8. Is(f)
    <2>1. ASSUME NEW i \in 0..n PROVE f[i] = IF i = 0 THEN <<>> ELSE More(i, f[i - 1])
      <3> HIDE DEF More, T
      <3> QED  BY <1>0, <1>7
    <2>2. f = [i \in 0..n |-> IF i = 0 THEN <<>> ELSE More(i, f[i - 1])]
      <3> HIDE DEF More, T
      <3> QED  BY <1>7, <2>1
    <2> QED  BY <2>2
  <1>9. Is(es)
    <2> HIDE DEF Is
    <2> QED  BY <1>8
  <1> HIDE DEF es
  <1>10. es[0] = <<>> /\ \A i \in 1..n : es[i] = More(i, es[i - 1])
    <2>1. es = [i \in 0..n |-> IF i = 0 THEN <<>> ELSE More(i, es[i - 1])]
      BY <1>9
    <2> HIDE DEF More, Is
    <2>2. \A i \in 0..n : es[i] = IF i = 0 THEN <<>> ELSE More(i, es[i - 1])
      BY <2>1
    <2> QED  BY <1>0, <2>2
  <1>11. es[0] \in T /\ \A i \in 1..n : es[i - 1] \in T => es[i] \in T
    <2> HIDE DEF More, T, Is
    <2> QED  BY <1>3, <1>4, <1>10
  <1>12. es[n] \in T
    <2>1. \A i \in 0..n : es[i] \in T
      <3> HIDE DEF T, Is
      <3> QED  BY <1>0, <1>11, UpTo
    <2> HIDE DEF T, Is
    <2> QED  BY <1>0, <2>1
  <1> DEFINE z == es[n]
  <1>13. z \in Seq(E)
    BY <1>12
  <1> HIDE DEF z, Is
  <1>14. ErofsEntries(z)
    <2>1. IsSeq(z)
      BY <1>13 DEF IsSeq
    <2>2. \A i \in 1..Len(z) : z[i] \in E
      BY <1>13
    <2> QED  BY <1>2, <2>1, <2>2 DEF ErofsEntries
  <1> QED  BY <1>r, <1>14 DEF z, Erofs!Good, Erofs!Bad, Sound

LEMMA ErofsShared ==
    /\ \A r : Erofs!Return(r) <=> Return(r)
    /\ \A r : Erofs!Failed(r) <=> r.err # "none"
    /\ \A es : Erofs!Listed(es) = Listed(es)
    /\ \A es : Erofs!ListedNodes(es) = ListedNodes(es)
    /\ Erofs!Ops = ErofsOps
  <1>1. \A r : Erofs!Return(r) <=> Return(r)
    BY DEF Erofs!Return, Return, Erofs!Opening, Opening, Erofs!Busy, Busy, Erofs!NoArg, NoArg, Erofs!Failed, Failed
  <1>2. \A es, n : Erofs!Found(es, n) = Found(es, n)
    BY DEF Erofs!Found, Found, Erofs!Min, Min
  <1>3. \A es : Erofs!Listed(es) = Listed(es) /\ Erofs!ListedNodes(es) = ListedNodes(es)
    BY <1>2 DEF Erofs!Listed, Listed, Erofs!ListedNodes, ListedNodes, Erofs!Range, Range
  <1> QED  BY <1>1, <1>3 DEF Erofs!Failed, Erofs!Ops, ErofsOps

LEMMA ErofsRested ==
    ASSUME ErofsInv, IdTab(ids'), DOMAIN ids' \subseteq Nat, img' = img, \A n \in DOMAIN nodes' : ErofsInode(nodes'[n]),
           Rested("failed") \/ (Rested("idle") /\ ErofsSuper(sb'))
    PROVE  ErofsInv'
  <1>1. pc' \in {"idle", "failed"} /\ todo' = <<>> /\ out' = <<>> /\ img' \in Images.erofs /\ (pc' # "failed" => ErofsSuper(sb'))
    BY DEF Rested, ErofsInv
  <1> QED  BY <1>1 DEF ErofsInv, IdTab, ErofsOps, ErofsOpens, ErofsInode, ErofsSuper

(* Where a call that is not open stands. *)
LEMMA ErofsAsked ==
    ASSUME ErofsInv, pc \in ErofsOps \cup {"dir"}
    PROVE  /\ Busy /\ WellAsked(arg) /\ Handed(arg.node, ids) /\ arg.node \in Nat /\ IdTab(ids) /\ ErofsSuper(sb)
           /\ GrowsTo(ids, ids) /\ (ids' = ids => GrowsTo(ids, ids'))
           /\ \A r : r.err # "NotFound" /\ r.val = <<>> => ProperReply(r, ids)
  <1>1. WellAsked(arg) /\ Handed(arg.node, ids) /\ IdTab(ids) /\ Busy /\ DOMAIN ids \subseteq Nat /\ ErofsSuper(sb)
    BY DEF ErofsInv, Busy, ErofsOps
  <1>2. arg.node \in Nat /\ Injective(ids)
    BY <1>1, IdTabHanded
  <1> QED  BY <1>1, <1>2, ErrorReply DEF GrowsTo, Injective, Extends

LEMMA ErofsReplies ==
    ASSUME ErofsInv, pc \in ErofsOps \cup {"dir"}, NEW r, Erofs!Return(r), UNCHANGED <<img, arg, sb, nodes, ids>>, ProperReply(r, ids)
    PROVE  ErofsInv' /\ SafeStep /\ Advances
  <1>1. Busy /\ WellAsked(arg) /\ GrowsTo(ids, ids') /\ ErofsSuper(sb)
    BY ErofsAsked
  <1>2. Return(r) /\ ProperReply(r, ids')
    BY ErofsShared
  <1>3. SafeStep /\ Advances /\ Rested("idle")
    BY <1>1, <1>2, ReplyStep
  <1>4. IdTab(ids') /\ DOMAIN ids' \subseteq Nat /\ \A n \in DOMAIN nodes' : ErofsInode(nodes'[n])
    BY DEF ErofsInv
  <1> QED  BY <1>1, <1>3, <1>4, ErofsRested

LEMMA ErofsErrors ==
    ASSUME ErofsInv, pc \in ErofsOps \cup {"dir"}, NEW r, r.err # "NotFound", r.val = <<>>,
           Erofs!Return(r), UNCHANGED <<img, arg, sb, nodes, ids>>
    PROVE  ErofsInv' /\ SafeStep /\ Advances
  <1>1. ProperReply(r, ids)
    BY ErofsAsked
  <1> QED  BY <1>1, ErofsReplies

(* open's three steps. *)
LEMMA ErofsRefuses ==
    ASSUME ErofsInv, pc \in ErofsOpens, NEW r, r.err # "none", Return(r), UNCHANGED <<img, arg, sb, nodes, ids>>
    PROVE  ErofsInv' /\ SafeStep /\ Advances
  <1>1. Busy /\ arg = NoArg
    BY DEF ErofsInv, Busy, ErofsOpens
  <1>2. SafeStep /\ Advances /\ Rested("failed")
    BY <1>1, RefuseStep DEF Failed
  <1>3. IdTab(ids') /\ DOMAIN ids' \subseteq Nat /\ \A n \in DOMAIN nodes' : ErofsInode(nodes'[n])
    BY DEF ErofsInv
  <1> QED  BY <1>2, <1>3, ErofsRested

LEMMA ErofsStillOpens ==
    ASSUME ErofsInv, UNCHANGED <<img, arg, nodes, ids, ret>>, todo' = <<>>, out' = out, Erofs!Probe, Erofs!Probe' = Erofs!Probe,
           ErofsSuper(sb'), (pc = "open" /\ pc' = "config") \/ (pc = "config" /\ pc' = "root")
    PROVE  ErofsInv' /\ SafeStep /\ Advances
  <1>1. Opening /\ Opening' /\ arg = NoArg /\ ids = <<>> /\ out = <<>> /\ pc' \in {"config", "root"}
    BY DEF ErofsInv, ErofsOpens, Opening, Busy
  <1>2. StillOpens
    BY <1>1 DEF StillOpens
  <1>3. Stage' < Stage
    BY DEF Stage, Loops
  <1>4. IdTab(ids') /\ DOMAIN ids' \subseteq Nat /\ (\A n \in DOMAIN nodes' : ErofsInode(nodes'[n])) /\ img' \in Images.erofs
    BY DEF ErofsInv
  <1>5. ErofsInv'
    BY <1>1, <1>4 DEF ErofsInv, IdTab, ErofsOps, ErofsOpens, ErofsInode, ErofsSuper
  <1> QED  BY <1>2, <1>3, <1>5 DEF SafeStep, Advances

LEMMA ErofsOpening ==
    ASSUME fs = "erofs", ErofsInv, Erofs!Open \/ Erofs!ReadConfig, UNCHANGED <<img, arg>>
    PROVE  ErofsInv' /\ SafeStep /\ Advances
  <1>0. Erofs!Probe' = Erofs!Probe
    BY DEF Erofs!Probe, Erofs!LongEnough, Erofs!Super
  <1>1. CASE Erofs!Open
    <2> DEFINE refuse == IF ~ Erofs!LongEnough THEN "Corrupt"
                         ELSE IF ~ Erofs!Super.magic \/ Erofs!Super.blkszbits \notin 9..16 THEN "Corrupt"
                         ELSE IF Erofs!Unsupported THEN "Unsupported" ELSE "none"
    <2>1. pc = "open" /\ UNCHANGED <<nodes, ids>>
      BY <1>1 DEF Erofs!Open
    <2>2. \/ refuse # "none" /\ Erofs!Return(Erofs!Bad(refuse)) /\ UNCHANGED sb
          \/ /\ refuse = "none"
             /\ Erofs!Loop("config", <<>>, 0)
             /\ sb' = [bs |-> Erofs!Super.bs, meta_off |-> Erofs!Num(Erofs!Super, "meta_blkaddr") * Erofs!Super.bs, lzma_dict_size |-> <<>>]
      <3> HIDE DEF refuse
      <3> QED  BY <1>1 DEF Erofs!Open, refuse
    <2>3. refuse = "none" => Erofs!LongEnough /\ Erofs!Super.magic
      OBVIOUS
    <2> HIDE DEF refuse
    <2>4. CASE refuse # "none" /\ Erofs!Return(Erofs!Bad(refuse)) /\ UNCHANGED sb
      <3>1. Erofs!Bad(refuse).err # "none" /\ Return(Erofs!Bad(refuse)) /\ pc \in ErofsOpens
        BY <2>1, <2>4, ErofsShared DEF Erofs!Bad, ErofsOpens
      <3> QED  BY <2>1, <2>4, <3>1, ErofsRefuses
    <2>5. CASE refuse = "none" /\ Erofs!Loop("config", <<>>, 0)
               /\ sb' = [bs |-> Erofs!Super.bs, meta_off |-> Erofs!Num(Erofs!Super, "meta_blkaddr") * Erofs!Super.bs, lzma_dict_size |-> <<>>]
      <3>1. Erofs!Probe
        BY <2>3, <2>5 DEF Erofs!Probe
      <3>2. Erofs!Super.bs \in Nat \ {0}
        <4> DEFINE c == img.disk[SUPER_OFFSET + 1]
        <4>1. "magic" \in DOMAIN c /\ Erofs!Super = c
          BY <2>3, <2>5 DEF Erofs!Super
        <4>2. IsDisk(img.disk) /\ img \in Images.erofs
          BY DisksAssumption DEF ErofsInv
        <4>3. Len(img.disk) > SUPER_OFFSET /\ Len(img.disk) \in Nat /\ DOMAIN img.disk = 1..Len(img.disk)
          BY <2>3, <2>5, <4>2, DeviceIsSeq, SeqBasics DEF Erofs!LongEnough, IsDisk
        <4>4. SUPER_OFFSET + 1 \in DOMAIN img.disk
          BY <4>3, ErofsAssumption
        <4> HIDE DEF c
        <4> QED  BY <4>1, <4>2, <4>4, ErofsAssumption DEF c
      <3>3. Erofs!Num(Erofs!Super, "meta_blkaddr") \in Nat
        BY DEF Erofs!Num
      <3>4. Erofs!Num(Erofs!Super, "meta_blkaddr") * Erofs!Super.bs \in Nat
        BY <3>2, <3>3
      <3>5. ErofsSuper(sb')
        BY <2>5, <3>2, <3>4 DEF ErofsSuper
      <3>6. pc' = "config" /\ todo' = <<>> /\ out' = out /\ ret' = ret
        BY <2>5 DEF Erofs!Loop
      <3> QED  BY <1>0, <2>1, <3>1, <3>5, <3>6, ErofsStillOpens
    <2> QED  BY <2>2, <2>4, <2>5
  <1>2. CASE Erofs!ReadConfig
    <2>1. pc = "config" /\ UNCHANGED <<nodes, ids>> /\ Erofs!Loop("root", <<>>, 0)
      BY <1>2 DEF Erofs!ReadConfig
    <2>2. PICK dict : sb' = [sb EXCEPT !.lzma_dict_size = dict]
      BY <1>2 DEF Erofs!ReadConfig
    <2>3. ErofsSuper(sb) /\ Erofs!Probe
      BY <2>1 DEF ErofsInv
    <2>4. ErofsSuper(sb')
      BY <2>2, <2>3 DEF ErofsSuper
    <2>5. pc' = "root" /\ todo' = <<>> /\ out' = out /\ ret' = ret
      BY <2>1 DEF Erofs!Loop
    <2> QED  BY <1>0, <2>1, <2>3, <2>4, <2>5, ErofsStillOpens
  <1> QED  BY <1>1, <1>2

LEMMA ErofsKeeps ==
    ASSUME ErofsInv, NEW nid, NEW v, ErofsInode(v), Erofs!Keep(nid, v)
    PROVE  (\A n \in DOMAIN nodes' : ErofsInode(nodes'[n])) /\ nid \in DOMAIN nodes'
  BY DEF ErofsInv, Erofs!Keep

LEMMA ErofsOpensRoot ==
    ASSUME fs = "erofs", ErofsInv, Erofs!OpenRoot, UNCHANGED <<img, arg>>
    PROVE  ErofsInv' /\ SafeStep /\ Advances
  <1> DEFINE nid == Erofs!Num(Erofs!Super, "root_nid")
             r == Erofs!ParseInode(nid)
  <1>1. pc = "root" /\ sb' = sb /\ pc \in ErofsOpens /\ Busy /\ arg = NoArg /\ ids = <<>> /\ Erofs!Probe /\ ErofsSuper(sb)
    BY DEF Erofs!OpenRoot, ErofsInv, ErofsOpens, Busy
  <1>2. \/ r.err # "none" /\ Return(r) /\ UNCHANGED <<nodes, ids>>
        \/ r.err = "none" /\ Return(Erofs!Good(<<>>)) /\ Erofs!Keep(nid, r.val) /\ Erofs!HandOut({nid})
    <2> HIDE DEF r, nid
    <2> QED  BY ErofsShared DEF Erofs!OpenRoot, r, nid
  <1>3. nid \in Nat
    BY DEF Erofs!Num
  <1> HIDE DEF nid
  <1>4. Sound(r) /\ (r.err = "none" => ErofsInode(r.val))
    BY <1>1, <1>3, ErofsParses
  <1> HIDE DEF r
  <1>5. CASE r.err # "none" /\ Return(r) /\ UNCHANGED <<nodes, ids>>
    BY <1>1, <1>5, ErofsRefuses
  <1>6. CASE r.err = "none" /\ Return(Erofs!Good(<<>>)) /\ Erofs!Keep(nid, r.val) /\ Erofs!HandOut({nid})
    <2>1. ids' = [k \in DOMAIN ids \cup {nid} |-> k] /\ IdTab(ids)
      BY <1>6 DEF Erofs!HandOut, ErofsInv
    <2>2. IdTab(ids') /\ DOMAIN ids' = DOMAIN ids \cup {nid}
      BY <2>1, HandsOut
    <2>3. DOMAIN ids' = {nid} /\ DOMAIN ids' \subseteq Nat
      BY <1>1, <1>3, <2>2
    <2>4. Probe /\ ~ Failed(Erofs!Good(<<>>))
      BY <1>1 DEF Probe, Failed, Erofs!Good
    <2>5. SafeStep /\ Advances /\ Rested("idle")
      BY <1>1, <1>6, <2>3, <2>4, MountStep
    <2>6. \A n \in DOMAIN nodes' : ErofsInode(nodes'[n])
      BY <1>4, <1>6, ErofsKeeps
    <2> QED  BY <1>1, <2>2, <2>3, <2>5, <2>6, ErofsRested
  <1> QED  BY <1>2, <1>5, <1>6

LEMMA ErofsNeedsInode ==
    ASSUME fs = "erofs", ErofsInv, Erofs!NeedInode, UNCHANGED <<img, arg>>
    PROVE  ErofsInv' /\ SafeStep /\ Advances
  <1> DEFINE r == Erofs!ParseInode(arg.node)
  <1>1. pc \in ErofsOps /\ todo = <<>> /\ UNCHANGED <<sb, ids>>
    BY ErofsShared DEF Erofs!NeedInode
  <1>2. \/ arg.node \in DOMAIN nodes /\ Erofs!Loop(pc, Erofs!Parsed, 0) /\ UNCHANGED nodes
        \/ r.err # "none" /\ Erofs!Return(r) /\ UNCHANGED nodes
        \/ r.err = "none" /\ Erofs!Loop(pc, Erofs!Parsed, 0) /\ Erofs!Keep(arg.node, r.val)
    <2> HIDE DEF r
    <2> QED  BY ErofsShared DEF Erofs!NeedInode, r
  <1>3. Busy /\ WellAsked(arg) /\ Handed(arg.node, ids) /\ arg.node \in Nat /\ ErofsSuper(sb) /\ GrowsTo(ids, ids')
        /\ arg.op = pc /\ out = <<>>
    BY <1>1, ErofsAsked DEF ErofsInv, ErofsOps
  <1>4. Sound(r) /\ (r.err = "none" => ErofsInode(r.val))
    BY <1>3, ErofsParses
  <1> HIDE DEF r
  <1>5. CASE r.err # "none" /\ Erofs!Return(r) /\ UNCHANGED nodes
    BY <1>1, <1>4, <1>5, ErofsErrors DEF Sound
  <1>6. ASSUME Erofs!Loop(pc, Erofs!Parsed, 0), arg.node \in DOMAIN nodes', \A n \in DOMAIN nodes' : ErofsInode(nodes'[n])
        PROVE  ErofsInv' /\ SafeStep /\ Advances
    <2>1. pc' = pc /\ todo' = Erofs!Parsed /\ out' = <<>> /\ ret' = ret
      BY <1>3, <1>6 DEF Erofs!Loop
    <2>2. SafeStep
      BY <1>1, <1>3, <2>1, GoesOnStep DEF ErofsOps
    <2>3. Stage = 2
      BY <1>1 DEF Stage, Loops, ErofsOps
    <2>4. Stage' = 1
      <3>1. todo' # <<>>
        BY <2>1 DEF Erofs!Parsed
      <3> QED  BY <1>1, <2>1, <3>1 DEF Stage, Loops, ErofsOps
    <2>5. Advances
      BY <2>3, <2>4 DEF Advances
    <2>6. IdTab(ids') /\ DOMAIN ids' \subseteq Nat /\ img' \in Images.erofs /\ Handed(arg.node, ids)' /\ ErofsSuper(sb')
      BY <1>1, <1>3 DEF ErofsInv, Handed
    <2>7. ErofsInv'
      BY <1>1, <1>3, <1>6, <2>1, <2>6 DEF ErofsInv, IdTab, ErofsOps, ErofsOpens, ErofsInode, ErofsSuper, WellAsked
    <2> QED  BY <2>2, <2>5, <2>7
  <1>7. CASE arg.node \in DOMAIN nodes /\ Erofs!Loop(pc, Erofs!Parsed, 0) /\ UNCHANGED nodes
    <2>1. arg.node \in DOMAIN nodes' /\ \A n \in DOMAIN nodes' : ErofsInode(nodes'[n])
      BY <1>7 DEF ErofsInv
    <2> QED  BY <1>6, <1>7, <2>1
  <1>8. CASE r.err = "none" /\ Erofs!Loop(pc, Erofs!Parsed, 0) /\ Erofs!Keep(arg.node, r.val)
    <2>1. arg.node \in DOMAIN nodes' /\ \A n \in DOMAIN nodes' : ErofsInode(nodes'[n])
      BY <1>4, <1>8, ErofsKeeps
    <2> QED  BY <1>6, <1>8, <2>1
  <1> QED  BY <1>2, <1>5, <1>7, <1>8

(* Whose inode is there. *)
LEMMA ErofsStarted ==
    ASSUME ErofsInv, NEW op \in ErofsOps, Erofs!Started(op)
    PROVE  /\ pc = op /\ arg.op = op /\ pc \in ErofsOps /\ ErofsInode(Erofs!Cached) /\ out = <<>> /\ Stage = 1
           /\ Sound(Erofs!ReadInodeData(Erofs!Cached))
           /\ Erofs!ReadInodeData(Erofs!Cached).err = "none" => IsSeq(Erofs!ReadInodeData(Erofs!Cached).val)
  <1>1. pc = op /\ todo = Erofs!Parsed /\ todo # <<>>
    BY DEF Erofs!Started, Erofs!Parsed
  <1>2. arg.op = op /\ ErofsInode(Erofs!Cached) /\ out = <<>> /\ ErofsSuper(sb)
    BY <1>1 DEF ErofsInv, Erofs!Cached, ErofsOps
  <1>3. Stage = 1
    BY <1>1 DEF Stage, Loops, ErofsOps
  <1> QED  BY <1>1, <1>2, <1>3, ErofsReads

LEMMA ErofsGoesOn ==
    ASSUME ErofsInv, pc \in ErofsOps \cup {"dir"}, UNCHANGED <<img, arg, sb, nodes, ids, ret>>, pc' = "dir",
           arg.op \in {"read_dir", "lookup"}, IsSeq(todo'), ErofsEntries(out'), pos' \in 0..Len(todo')
    PROVE  ErofsInv' /\ SafeStep
  <1>1. Busy /\ WellAsked(arg) /\ Handed(arg.node, ids) /\ IdTab(ids) /\ ErofsSuper(sb) /\ GrowsTo(ids, ids')
    BY ErofsAsked
  <1>2. SafeStep
    BY <1>1, GoesOnStep
  <1>3. IdTab(ids') /\ DOMAIN ids' \subseteq Nat /\ img' \in Images.erofs /\ Handed(arg.node, ids)' /\ ErofsSuper(sb')
        /\ \A n \in DOMAIN nodes' : ErofsInode(nodes'[n])
    BY <1>1 DEF ErofsInv, Handed
  <1>4. ErofsInv'
    BY <1>1, <1>3 DEF ErofsInv, IdTab, ErofsOps, ErofsOpens, ErofsInode, ErofsSuper, WellAsked, ErofsEntries
  <1> QED  BY <1>2, <1>4

LEMMA ErofsReadsDir ==
    ASSUME fs = "erofs", ErofsInv, Erofs!ReadDir, UNCHANGED <<img, arg>>
    PROVE  ErofsInv' /\ SafeStep /\ Advances
  <1> DEFINE d == Erofs!ReadInodeData(Erofs!Cached)
  <1>1. \E op \in {"read_dir", "lookup"} : Erofs!Started(op)
    BY DEF Erofs!ReadDir
  <1>2. arg.op \in {"read_dir", "lookup"} /\ pc \in ErofsOps /\ UNCHANGED <<sb, nodes, ids>> /\ out = <<>> /\ Stage = 1
        /\ Sound(d) /\ (d.err = "none" => IsSeq(d.val))
    BY <1>1, ErofsStarted DEF ErofsOps, Erofs!ReadDir, Erofs!Table
  <1>3. \/ Erofs!Return(Erofs!Bad("NotDirectory")) \/ Erofs!Return(Erofs!Bad("FileTooLarge"))
        \/ d.err # "none" /\ Erofs!Return(d)
        \/ Erofs!Loop("dir", <<>>, 0)
        \/ d.err = "none" /\ Erofs!Loop("dir", d.val, 0)
    <2> HIDE DEF d
    <2> QED  BY ErofsShared DEF Erofs!ReadDir, d
  <1> HIDE DEF d
  <1>4. CASE Erofs!Return(Erofs!Bad("NotDirectory")) \/ Erofs!Return(Erofs!Bad("FileTooLarge"))
    BY <1>2, <1>4, ErofsErrors DEF Erofs!Bad
  <1>5. CASE d.err # "none" /\ Erofs!Return(d)
    BY <1>2, <1>5, ErofsErrors DEF Sound
  <1>6. ASSUME NEW t, IsSeq(t), Erofs!Loop("dir", t, 0) PROVE ErofsInv' /\ SafeStep /\ Advances
    <2>1. pc' = "dir" /\ todo' = t /\ pos' = 0 /\ out' = <<>> /\ ret' = ret
      BY <1>2, <1>6 DEF Erofs!Loop
    <2>2. Len(t) \in Nat /\ ErofsEntries(<<>>)
      BY <1>6, SeqBasics, EmptyIsSeq DEF ErofsEntries
    <2>3. IsSeq(todo') /\ ErofsEntries(out') /\ pos' \in 0..Len(todo')
      BY <1>6, <2>1, <2>2
    <2>4. ErofsInv' /\ SafeStep
      BY <1>2, <2>1, <2>3, ErofsGoesOn
    <2>5. Stage' = 0
      BY <2>1 DEF Stage, Loops
    <2> QED  BY <1>2, <2>4, <2>5 DEF Advances
  <1> QED  BY <1>2, <1>3, <1>4, <1>5, <1>6, EmptyIsSeq

LEMMA ErofsReadsBlock ==
    ASSUME fs = "erofs", fs' = fs, ErofsInv, Erofs!DirBlock, UNCHANGED <<img, arg>>
    PROVE  ErofsInv' /\ SafeStep /\ Advances
  <1> DEFINE e == Erofs!LeastOf(pos + sb.bs, Len(todo))
             r == Erofs!ParseDirBlock(SubSeq(todo, pos + 1, e))
  <1>1. pc = "dir" /\ pc \in ErofsOps \cup {"dir"} /\ pos < Len(todo) /\ UNCHANGED <<sb, nodes, ids>>
        /\ arg.op \in {"read_dir", "lookup"} /\ IsSeq(todo) /\ ErofsEntries(out) /\ pos \in 0..Len(todo) /\ ErofsSuper(sb)
    BY DEF Erofs!DirBlock, ErofsInv, Erofs!Table, ErofsEntries
  <1>2. \/ r.err # "none" /\ Erofs!Return(r)
        \/ r.err = "none" /\ out' = out \o r.val /\ pos' = e /\ UNCHANGED <<pc, todo, ret>>
    <2> HIDE DEF r, e
    <2> QED  BY ErofsShared DEF Erofs!DirBlock, r, e
  <1>3. Sound(r) /\ (r.err = "none" => ErofsEntries(r.val))
    BY ErofsBlock
  <1>4. Len(todo) \in Nat /\ pos \in Nat /\ e \in 0..Len(todo) /\ e > pos
    BY <1>1, SeqBasics DEF Erofs!LeastOf, ErofsSuper
  <1> HIDE DEF r, e
  <1>5. CASE r.err # "none" /\ Erofs!Return(r)
    BY <1>1, <1>3, <1>5, ErofsErrors DEF Sound
  <1>6. CASE r.err = "none" /\ out' = out \o r.val /\ pos' = e /\ UNCHANGED <<pc, todo, ret>>
    <2>1. ErofsEntries(out')
      <3> DEFINE v == r.val
      <3>1. IsSeq(out) /\ IsSeq(v)
        BY <1>1, <1>3, <1>6 DEF ErofsEntries
      <3>2. Len(out) \in Nat /\ Len(v) \in Nat
        BY <3>1, SeqBasics
      <3>3. /\ IsSeq(out \o v) /\ Len(out \o v) = Len(out) + Len(v)
            /\ \A i \in 1..Len(out \o v) : (out \o v)[i] = IF i <= Len(out) THEN out[i] ELSE v[i - Len(out)]
        BY <3>1, ConcatIsSeq
      <3>4. ASSUME NEW i \in 1..Len(out \o v) PROVE (out \o v)[i].node \in Nat
        <4>1. i \in 1..Len(out) \/ i - Len(out) \in 1..Len(v)
          BY <3>2, <3>3
        <4> QED  BY <1>1, <1>3, <1>6, <3>2, <3>3, <4>1 DEF ErofsEntries
      <3> QED  BY <1>6, <3>3, <3>4 DEF ErofsEntries
    <2>2. IsSeq(todo') /\ pos' \in 0..Len(todo')
      BY <1>1, <1>4, <1>6
    <2>3. ErofsInv' /\ SafeStep
      BY <1>1, <1>6, <2>1, <2>2, ErofsGoesOn
    <2>4. Fuel = Len(todo) - pos /\ Fuel' = Len(todo) - e
      BY <1>1, <1>6 DEF Fuel, Erofs!Fuel
    <2>5. Fuel > 0 /\ Fuel' < Fuel
      BY <1>1, <1>4, <2>4, Burns
    <2>6. Advances
      BY <1>1, <1>6, <2>5, LoopTurn DEF Loops
    <2> QED  BY <2>3, <2>6
  <1> QED  BY <1>2, <1>5, <1>6

LEMMA ErofsDone ==
    ASSUME fs = "erofs", ErofsInv, Erofs!DirDone, UNCHANGED <<img, arg>>
    PROVE  ErofsInv' /\ SafeStep /\ Advances
  <1>1. pc = "dir" /\ arg.op \in {"read_dir", "lookup"} /\ UNCHANGED <<sb, nodes>>
        /\ IsSeq(out) /\ (\A i \in 1..Len(out) : out[i].node \in Nat) /\ DOMAIN ids \subseteq Nat
        /\ \A n \in DOMAIN nodes : ErofsInode(nodes[n])
    BY DEF Erofs!DirDone, ErofsInv
  <1>2. Busy /\ WellAsked(arg) /\ Handed(arg.node, ids) /\ IdTab(ids) /\ ErofsSuper(sb)
    BY <1>1, ErofsAsked
  <1>3. Return(Good(Listed(out))) /\ ids' = [k \in DOMAIN ids \cup ListedNodes(out) |-> k]
    BY ErofsShared DEF Erofs!DirDone, Erofs!HandOut, Erofs!Good, Good
  <1>4. GrowsTo(ids, ids') /\ IdTab(ids') /\ DOMAIN ids' = DOMAIN ids \cup ListedNodes(out)
    BY <1>2, <1>3, HandsOut
  <1>5. ProperReply(Good(Listed(out)), ids')
    BY <1>1, <1>2, <1>3, ListedIsHanded
  <1>6. SafeStep /\ Advances /\ Rested("idle")
    BY <1>2, <1>3, <1>4, <1>5, ReplyStep
  <1>7. DOMAIN ids' \subseteq Nat
    BY <1>1, <1>4, ListedPlaces
  <1>8. \A n \in DOMAIN nodes' : ErofsInode(nodes'[n])
    BY <1>1
  <1> QED  BY <1>1, <1>2, <1>4, <1>6, <1>7, <1>8, ErofsRested

LEMMA ErofsAnswers ==
    ASSUME fs = "erofs", ErofsInv, Erofs!GetMetadata \/ Erofs!ReadLink, UNCHANGED <<img, arg>>
    PROVE  ErofsInv' /\ SafeStep /\ Advances
  <1> DEFINE d == Erofs!ReadInodeData(Erofs!Cached)
  <1>1. \E op \in {"metadata", "read_link"} : Erofs!Started(op)
    BY DEF Erofs!GetMetadata, Erofs!ReadLink
  <1>2. arg.op \in {"metadata", "read_link"} /\ pc \in ErofsOps /\ UNCHANGED <<sb, nodes, ids>> /\ Sound(d)
    BY <1>1, ErofsStarted DEF ErofsOps, Erofs!GetMetadata, Erofs!ReadLink, Erofs!Table
  <1>3. \/ \E v : Erofs!Return(Erofs!Good(v))
        \/ Erofs!Return(Erofs!Bad("FileTooLarge"))
        \/ d.err # "none" /\ Erofs!Return(d)
    <2> HIDE DEF d
    <2>1. CASE Erofs!GetMetadata
      BY <2>1 DEF Erofs!GetMetadata
    <2>2. CASE Erofs!ReadLink
      <3> DEFINE v == <<[i \in DOMAIN d.val |-> Erofs!Plain(d.val[i])]>>
                 r == IF Erofs!Cached.kind # "symlink" THEN Erofs!Good(<<>>)
                      ELSE IF Erofs!Cached.size > MAX_BOOT_FILE_BYTES THEN Erofs!Bad("FileTooLarge")
                      ELSE IF Erofs!Cached.size = 0 THEN Erofs!Good(<<<<>>>>)
                      ELSE IF Erofs!Failed(d) THEN d ELSE Erofs!Good(v)
      <3>1. Erofs!Return(r)
        BY <2>2 DEF Erofs!ReadLink, d
      <3> HIDE DEF v
      <3>2. r = Erofs!Good(<<>>) \/ r = Erofs!Bad("FileTooLarge") \/ r = Erofs!Good(<<<<>>>>) \/ (d.err # "none" /\ r = d) \/ r = Erofs!Good(v)
        BY ErofsShared
      <3> HIDE DEF r
      <3> QED  BY <3>1, <3>2
    <2> QED  BY <2>1, <2>2
  <1> HIDE DEF d
  <1>4. Handed(arg.node, ids)
    BY <1>2, ErofsAsked
  <1>5. \A v : ProperReply(Erofs!Good(v), ids)
    BY <1>2, <1>4 DEF ProperReply, SaneReply, Erofs!Good
  <1>6. CASE \E v : Erofs!Return(Erofs!Good(v))
    BY <1>2, <1>5, <1>6, ErofsReplies
  <1>7. CASE Erofs!Return(Erofs!Bad("FileTooLarge"))
    BY <1>2, <1>7, ErofsErrors DEF Erofs!Bad
  <1>8. CASE d.err # "none" /\ Erofs!Return(d)
    BY <1>2, <1>8, ErofsErrors DEF Sound
  <1> QED  BY <1>3, <1>6, <1>7, <1>8

LEMMA ErofsFails ==
    ASSUME fs = "erofs", ErofsInv, Erofs!IoError, UNCHANGED <<img, arg>>
    PROVE  ErofsInv' /\ SafeStep /\ Advances
  <1> DEFINE r == Erofs!Bad("Io")
  <1>1. Erofs!Return(r) /\ Return(r) /\ UNCHANGED <<sb, nodes, ids>> /\ r.err = "Io" /\ r.val = <<>>
    BY ErofsShared DEF Erofs!IoError, Erofs!Table, Erofs!Bad
  <1>2. pc \in ErofsOpens \/ pc \in ErofsOps \cup {"dir"}
    BY DEF Erofs!IoError, Erofs!ReadsDevice, ErofsOpens, ErofsOps, Erofs!Ops, Erofs!Started
  <1> HIDE DEF r
  <1>3. CASE pc \in ErofsOpens
    BY <1>1, <1>3, ErofsRefuses
  <1>4. CASE pc \in ErofsOps \cup {"dir"}
    BY <1>1, <1>4, ErofsErrors
  <1> QED  BY <1>2, <1>3, <1>4

LEMMA ErofsCalls ==
    ASSUME ErofsInv, NEW n \in DOMAIN ids, NEW a \in Erofs!Requests(n), a.op \in Erofs!Ops, Erofs!Call(a)
    PROVE  ErofsInv' /\ SafeStep /\ Advances
  <1>1. pc = "idle" /\ arg' = a /\ pc' = a.op /\ UNCHANGED <<img, sb, nodes, ids, todo, pos, out, ret>>
    BY DEF Erofs!Call
  <1>2. WellAsked(a) /\ a.node = n /\ a.op \in ErofsOps
    BY WindowsAssumption, ErofsShared DEF Erofs!Requests, WellAsked, Ops
  <1>3. SafeStep /\ Advances
    BY <1>1, <1>2, CallStep
  <1>4. Handed(n, ids) /\ todo = <<>> /\ out = <<>> /\ ErofsSuper(sb)
    BY <1>1, IdTabHanded DEF ErofsInv, ErofsOps
  <1>5. IdTab(ids') /\ DOMAIN ids' \subseteq Nat /\ img' \in Images.erofs /\ Handed(arg.node, ids)' /\ ErofsSuper(sb')
        /\ \A m \in DOMAIN nodes' : ErofsInode(nodes'[m])
    BY <1>1, <1>2, <1>4 DEF ErofsInv, Handed
  <1>6. ErofsInv'
    BY <1>1, <1>2, <1>4, <1>5 DEF ErofsInv, IdTab, ErofsOps, ErofsOpens, ErofsInode, ErofsSuper
  <1> QED  BY <1>3, <1>6

LEMMA ErofsSteps ==
    ASSUME fs = "erofs", fs' = fs, ErofsInv, Erofs!Next
    PROVE  ErofsInv' /\ SafeStep /\ Advances
  <1>1. CASE Erofs!Step
    <2>1. UNCHANGED <<img, arg>>
      BY <1>1 DEF Erofs!Step, Erofs!Fixed
    <2> QED  BY <1>1, <2>1, ErofsOpening, ErofsOpensRoot, ErofsNeedsInode, ErofsReadsDir, ErofsReadsBlock, ErofsDone, ErofsAnswers,
                ErofsFails DEF Erofs!Step
  <1> QED  BY <1>1, ErofsCalls DEF Erofs!Next

LEMMA ErofsStarts == Erofs!Init => ErofsInv
  BY DEF ErofsInv, Erofs!Init, Erofs!NoArg, NoArg, ErofsOps, ErofsOpens, IdTab

-----------------------------------------------------------------------------
(* ISO 9660. *)
LEMMA MaxIsIn ==
    ASSUME NEW n \in Nat, NEW S, S \subseteq 1..n, S # {}
    PROVE  Max(S) \in S
  <1> DEFINE R == {n - i : i \in S}
  <1>1. R \subseteq Nat /\ R # {}
    <2>1. PICK i : i \in S
      OBVIOUS
    <2>2. n - i \in R
      BY <2>1
    <2>3. \A j \in S : n - j \in Nat
      OBVIOUS
    <2> QED  BY <2>2, <2>3
  <1>2. \E x \in R : \A y \in R : x <= y
    <2> HIDE DEF R
    <2> QED  BY <1>1, V!NatLeast
  <1>3. PICK x \in S : \A y \in S : n - x <= n - y
    BY <1>2
  <1>4. \A y \in S : x >= y
    BY <1>3
  <1> QED  BY <1>4 DEF Max

LEMMA AnySubSeqIsSeq ==
    ASSUME NEW s, NEW m \in Int, NEW n \in Int
    PROVE  IsSeq(SubSeq(s, m, n))
  <1>1. CASE n >= m - 1
    <2> DEFINE a == m - 1
               l == n - a
    <2>1. a \in Int /\ l \in Nat /\ m = a + 1 /\ n = a + l
      BY <1>1
    <2> HIDE DEF a, l
    <2>2. IsSeq(SubSeq(s, a + 1, a + l))
      BY <2>1, SubSeqIsSeq
    <2> QED  BY <2>1, <2>2
  <1>2. CASE n < m - 1
    <2>1. SubSeq(s, m, n) = <<>>
      BY <1>2
    <2> QED  BY <2>1, EmptyIsSeq
  <1> QED  BY <1>1, <1>2

(* The cells before a first one: a prefix. *)
IsPrefix(p, s) == IsSeq(p) /\ Len(p) <= Len(s) /\ \A i \in 1..Len(p) : p[i] = s[i]

LEMMA CutIsPrefix ==
    ASSUME NEW s, IsSeq(s), NEW hits, hits \subseteq DOMAIN s, NEW p, p = IF hits = {} THEN s ELSE SubSeq(s, 1, Min(hits) - 1)
    PROVE  IsPrefix(p, s)
  <1>1. Len(s) \in Nat /\ DOMAIN s = 1..Len(s)
    BY SeqBasics
  <1>2. CASE hits = {}
    BY <1>1, <1>2 DEF IsPrefix
  <1>3. CASE hits # {}
    <2>1. hits \subseteq Nat
      BY <1>1
    <2>2. \E i \in hits : \A j \in hits : i <= j
      BY <1>3, <2>1, V!NatLeast
    <2>3. Min(hits) \in hits
      BY <2>2 DEF Min
    <2> DEFINE m == Min(hits) - 1
    <2>4. m \in Nat /\ m <= Len(s) /\ m \in 0..Len(s) /\ p = SubSeq(s, 1, m)
      BY <1>1, <1>3, <2>3
    <2> HIDE DEF m
    <2>5. /\ IsSeq(SubSeq(s, 1, m))
          /\ Len(SubSeq(s, 1, m)) = m
          /\ \A i \in 1..m : SubSeq(s, 1, m)[i] = s[i]
      BY <2>4, PrefixIsSeq
    <2> QED  BY <2>4, <2>5 DEF IsPrefix
  <1> QED  BY <1>2, <1>3

(* The volume descriptors: one after the other from the start of their region. *)
LEMMA IsoScanned ==
    ASSUME img \in Images.iso9660, NEW vds, vds = Iso!Scanned
    PROVE  /\ IsSeq(vds) /\ Len(img.disk) \in Nat
           /\ Len(vds) > 0 => Len(img.disk) > VD_REGION_OFFSET /\ vds[1] = img.disk[VD_REGION_OFFSET + 1]
  <1> DEFINE room == Iso!MostOf(0, Len(img.disk) - VD_REGION_OFFSET)
             n == Iso!LeastOf(MAX_VD_SCAN, room \div VD_SIZE)
             s == [i \in 1..n |-> img.disk[VD_REGION_OFFSET + (i - 1) * VD_SIZE + 1]]
             hits == {i \in DOMAIN s : Iso!IsVd(s[i]) /\ s[i].vd = 255}
  <1>1. Len(img.disk) \in Nat
    BY DisksAssumption DEF IsDisk, IsDevice
  <1>2. room \in Nat /\ (room > 0 => Len(img.disk) > VD_REGION_OFFSET)
    BY <1>1, IsoAssumption DEF Iso!MostOf
  <1>3. room \div VD_SIZE \in Nat /\ (room = 0 => room \div VD_SIZE = 0)
    <2> HIDE DEF room
    <2> QED  BY <1>2, IsoAssumption
  <1>4. n \in Nat /\ (n > 0 => room > 0)
    <2> HIDE DEF room
    <2> QED  BY <1>2, <1>3, IsoAssumption DEF Iso!LeastOf
  <1>5. vds = IF hits = {} THEN s ELSE SubSeq(s, 1, Min(hits) - 1)
    BY DEF Iso!Scanned, Iso!UpTo, Iso!Min, Min
  <1> HIDE DEF n
  <1>6. IsSeq(s) /\ Len(s) = n /\ (n > 0 => s[1] = img.disk[VD_REGION_OFFSET + 1])
    <2>1. s = [i \in 1..n |-> s[i]]
      OBVIOUS
    <2>2. n > 0 => s[1] = img.disk[VD_REGION_OFFSET + 1]
      BY <1>4, IsoAssumption
    <2> HIDE DEF s
    <2>3. IsSeq(s) /\ Len(s) = n
      BY <1>4, <2>1, FcnIsSeq
    <2> QED  BY <2>2, <2>3
  <1>7. hits \subseteq DOMAIN s
    OBVIOUS
  <1> HIDE DEF s, hits
  <1>8. IsPrefix(vds, s)
    BY <1>5, <1>6, <1>7, CutIsPrefix
  <1> HIDE DEF room
  <1> QED  BY <1>1, <1>2, <1>4, <1>6, <1>8, SeqBasics DEF IsPrefix

LEMMA IsoSusp ==
    ASSUME NEW root, NEW bs, NEW r, r = Iso!DetectSusp(root, bs)
    PROVE  Sound(r) /\ (r.err = "none" /\ r.val # <<>> => r.val[1] \in Nat)
  <1> DEFINE buf == Iso!ReadDirExtent(root, bs)
             sp == SelectSeq(Iso!UpTo(SubSeq(buf.val, 2, Iso!RecordOf(buf.val[1]).len), LAMBDA c : ~ Iso!Has(c, "sig")),
                             LAMBDA c : c.sig = "SP" /\ c.beef)
             v == Iso!Num(sp[1], "skip")
  <1>1. Sound(buf)
    BY DEF Iso!ReadDirExtent, Iso!ReadCells, Iso!Bad, Iso!Good, Sound
  <1>2. v \in Nat
    BY DEF Iso!Num
  <1>3. \/ r = buf /\ r.err # "none"
        \/ r = Iso!Good(<<>>) \/ r = Iso!Bad("Corrupt")
        \/ r = Iso!Good(<<v>>)
    <2> HIDE DEF buf
    <2> QED  BY DEF Iso!DetectSusp, buf, Iso!Failed
  <1> HIDE DEF buf, v
  <1> QED  BY <1>1, <1>2, <1>3 DEF Iso!Bad, Iso!Good, Sound

(* What Rock Ridge has said of a record so far. *)
IsoZf(z) == z = <<>> \/ (z[1].log2 \in Nat /\ z[1].usize \in Nat)
IsoParser(p) ==
    DOMAIN p = {"nm", "have_nm", "sl", "have_sl", "sl_continues", "zf", "next"} /\ IsoZf(p.zf)

LEMMA IsoFeedsEntry == ASSUME NEW p, IsoParser(p), NEW c PROVE IsoParser(Iso!FeedEntry(p, c))
  <1> DEFINE sl == CHOOSE g : g = [i \in 0..Len(c.comps) |-> IF i = 0 THEN p ELSE Iso!SlComponent(g[i - 1], c.comps[i])]
             q == sl[Len(c.comps)]
             e == Iso!FeedEntry(p, c)
  <1>1. \/ e = [p EXCEPT !.nm = @ \o c.text, !.have_nm = TRUE]
        \/ e = [p EXCEPT !.have_sl = TRUE, !.sl = q.sl, !.sl_continues = q.sl_continues]
        \/ e = [p EXCEPT !.zf = <<[log2 |-> Iso!Num(c, "log2"), usize |-> Iso!Num(c, "usize")]>>]
        \/ e = [p EXCEPT !.next = <<c>>]
        \/ e = p
    BY DEF Iso!FeedEntry
  <1>2. Iso!Num(c, "log2") \in Nat /\ Iso!Num(c, "usize") \in Nat
    BY DEF Iso!Num
  <1> HIDE DEF e, q
  <1>3. ASSUME e = p \/ e = [p EXCEPT !.next = <<c>>] \/ e = [p EXCEPT !.nm = @ \o c.text, !.have_nm = TRUE] PROVE IsoParser(e)
    <2>1. DOMAIN e = DOMAIN p /\ e.zf = p.zf
      BY <1>3 DEF IsoParser
    <2> QED  BY <2>1 DEF IsoParser
  <1>4. ASSUME e = [p EXCEPT !.have_sl = TRUE, !.sl = q.sl, !.sl_continues = q.sl_continues] PROVE IsoParser(e)
    <2>1. DOMAIN e = DOMAIN p /\ e.zf = p.zf
      BY <1>4 DEF IsoParser
    <2> QED  BY <2>1 DEF IsoParser
  <1>5. ASSUME e = [p EXCEPT !.zf = <<[log2 |-> Iso!Num(c, "log2"), usize |-> Iso!Num(c, "usize")]>>] PROVE IsoParser(e)
    <2>1. DOMAIN e = DOMAIN p /\ e.zf = <<[log2 |-> Iso!Num(c, "log2"), usize |-> Iso!Num(c, "usize")]>>
      BY <1>5 DEF IsoParser
    <2>2. IsoZf(e.zf)
      BY <1>2, <2>1 DEF IsoZf
    <2> QED  BY <2>1, <2>2 DEF IsoParser
  <1>6. IsoParser(e)
    BY <1>1, <1>3, <1>4, <1>5
  <1> QED  BY <1>6 DEF e

LEMMA IsoFeeds == ASSUME NEW p, IsoParser(p), NEW su, IsSeq(su), NEW q, q = Iso!Feed(p, su) PROVE IsoParser(q)
  <1> DEFINE hits == {i \in DOMAIN su : IF Iso!Has(su[i], "sig") THEN su[i].sig = "ST" ELSE TRUE}
             area == IF hits = {} THEN su ELSE SubSeq(su, 1, Min(hits) - 1)
             a == [p EXCEPT !.next = <<>>]
             Is(g, m) == g = [i \in 0..m |-> IF i = 0 THEN a ELSE Iso!FeedEntry(g[i - 1], area[i])]
             n == Len(area)
             fed == CHOOSE g : Is(g, n)
             D == {m \in Nat : \E g : Is(g, m)}
  <1>1. q = fed[n]
    BY DEF Iso!Feed, Iso!UpTo, Iso!Min, Min
  <1>2. n \in Nat
    <2>1. hits \subseteq DOMAIN su
      OBVIOUS
    <2> HIDE DEF hits
    <2>2. IsPrefix(area, su)
      BY <2>1, CutIsPrefix
    <2> HIDE DEF area
    <2> QED  BY <2>2, SeqBasics DEF IsPrefix
  <1>3. IsoParser(a)
    BY DEF IsoParser
  <1> HIDE DEF area, a
  <1>4. 0 \in D
    <2> DEFINE g == [i \in 0..0 |-> a]
    <2>1. Is(g, 0)
      OBVIOUS
    <2> QED  BY <2>1
  <1>5. ASSUME NEW m \in Nat, m \in D PROVE m + 1 \in D
    <2>1. PICK g : Is(g, m)
      BY <1>5
    <2> DEFINE h == [i \in 0..m + 1 |-> IF i = m + 1 THEN Iso!FeedEntry(g[m], area[m + 1]) ELSE g[i]]
    <2>2. ASSUME NEW i \in 0..m + 1 PROVE h[i] = IF i = 0 THEN a ELSE Iso!FeedEntry(h[i - 1], area[i])
      <3>1. CASE i = m + 1
        <4>1. h[i - 1] = g[m] /\ h[i] = Iso!FeedEntry(g[m], area[m + 1])
          BY <3>1
        <4> QED  BY <3>1, <4>1
      <3>2. CASE i # m + 1
        <4>1. i \in 0..m /\ h[i] = g[i] /\ (i # 0 => h[i - 1] = g[i - 1])
          BY <3>2
        <4>2. g[i] = IF i = 0 THEN a ELSE Iso!FeedEntry(g[i - 1], area[i])
          BY <2>1, <4>1
        <4> QED  BY <4>1, <4>2
      <3> QED  BY <3>1, <3>2
    <2>3. h = [i \in 0..m + 1 |-> h[i]]
      OBVIOUS
    <2> HIDE DEF h
    <2>4. Is(h, m + 1)
      BY <2>2, <2>3
    <2> QED  BY <2>4
  <1>6. Is(fed, n)
    <2>1. n \in D
      <3> HIDE DEF D
      <3> QED  BY <1>2, <1>4, <1>5, V!NatInd
    <2>2. \E g : Is(g, n)
      BY <2>1
    <2> HIDE DEF Is
    <2> QED  BY <2>2
  <1> HIDE DEF fed
  <1> DEFINE I == {i \in 0..n : IsoParser(fed[i])}
  <1>7. \A i \in 0..n : fed[i] = IF i = 0 THEN a ELSE Iso!FeedEntry(fed[i - 1], area[i])
    <2> HIDE DEF n
    <2> QED  BY <1>2, <1>6
  <1>8. \A i \in 0..n : i \in I
    <2> HIDE DEF n
    <2>1. 0 \in I
      BY <1>2, <1>3, <1>7
    <2>2. \A i \in 1..n : i - 1 \in I => i \in I
      BY <1>2, <1>7, IsoFeedsEntry
    <2> DEFINE J == {i \in Nat : i <= n => i \in I}
    <2> HIDE DEF I
    <2>3. 0 \in J /\ \A i \in Nat : i \in J => i + 1 \in J
      BY <1>2, <2>1, <2>2
    <2> HIDE DEF J
    <2>4. \A i \in Nat : i \in J
      BY <2>3, V!NatInd
    <2> QED  BY <1>2, <2>4 DEF J
  <1> HIDE DEF n
  <1> QED  BY <1>1, <1>2, <1>8

(* A node, and that it is the one of the record at its key. *)
IsoInode(v) == v.lba \in Nat /\ v.size \in Nat /\ IsExtents(v.extents) /\ Len(v.extents) > 0 /\ IsoZf(v.zf)
IsoIs(k, v, bs) ==
    v.key = k /\ (k # Iso!ROOT_KEY => v.extents[1].lba = Iso!RecordOf(img.disk[k[1] * bs + k[2] + 1]).lba)
IsoTabled(t, bs) ==
    /\ t = [nodes |-> t.nodes, ids |-> t.ids]
    /\ Tabled(t.nodes, t.ids)
    /\ \A k \in DOMAIN t.ids : IsoInode(t.nodes[t.ids[k] + 1]) /\ IsoIs(k, t.nodes[t.ids[k] + 1], bs)
IsoTable ==
    /\ img \in Images.iso9660
    /\ IsoTabled([nodes |-> nodes, ids |-> ids], sb.bs)
    /\ DOMAIN ids # {} => sb.bs \in Nat \ {0} /\ sb.susp_skip \in Nat

(* An entry of the walk of a directory, and where the walk stands. *)
IsoEntry(e, bs) ==
    /\ "inode" \in DOMAIN e /\ {"extents", "size"} \subseteq DOMAIN e.inode
    /\ IsoInode(e.inode) /\ IsoIs(e.inode.key, e.inode, bs)
IsoBuf(b, lba, bs) == IsSeq(b) /\ \A i \in 1..Len(b) : b[i] = img.disk[lba * bs + i]
IsoWalk ==
    /\ arg.op \in {"read_dir", "lookup"}
    /\ DOMAIN todo = {"buf", "pending", "rr", "hops"}
    /\ IsoBuf(todo.buf, nodes[arg.node + 1].lba, sb.bs)
    /\ todo.pending = <<>> \/ IsoEntry(todo.pending[1], sb.bs)
    /\ IsoParser(todo.rr) /\ todo.hops \in Nat
    /\ pos \in Nat
    /\ IsSeq(out) /\ \A i \in 1..Len(out) : IsoEntry(out[i], sb.bs)
    /\ pc = "scan" => todo.hops = 0
    /\ pc = "ce" => pos < Len(todo.buf) /\ Iso!Record.len > 0
IsoWindow ==
    /\ arg.op = "read_at" /\ arg.off < Iso!Size
    /\ pos \in Nat /\ IsSeq(out) /\ Len(out) <= Iso!Want
    /\ pc = "file" => IsExtents(todo) /\ (Len(out) < Iso!Want => pos <= Iso!Cur)
    /\ pc = "zblock" => Iso!Inode.zf # <<>> /\ Iso!Inode.zf[1].log2 \in 0..30

IsoLoops == {"scan", "ce", "file", "zblock"}
IsoInv ==
    /\ CallState({"open"}, IsoLoops)
    /\ IsoTable
    /\ pc \notin {"open", "failed"} => Len(nodes) > 0
    /\ pc = "uefi" => arg.node = 0
    /\ pc \in IsoLoops => Handed(arg.node, ids)
    /\ pc \in {"scan", "ce"} => IsoWalk
    /\ pc \in {"file", "zblock"} => IsoWindow

LEMMA IsoInterned ==
    ASSUME NEW t, NEW bs, IsoTabled(t, bs), NEW key, NEW v, IsoInode(v), IsoIs(key, v, bs), NEW u, u = Iso!Interned(t, key, v)
    PROVE  IsoTabled(u, bs) /\ Extends(t.ids, u.ids) /\ DOMAIN u.ids = DOMAIN t.ids \cup {key} /\ Len(u.nodes) > 0
  <1> DEFINE ns == t.nodes
             tab == t.ids
  <1>1. u = Interned([nodes |-> ns, ids |-> tab], key, v) /\ Tabled(ns, tab)
    BY DEF Iso!Interned, Interned, IsoTabled
  <1>2. u = [nodes |-> u.nodes, ids |-> u.ids]
    <2>1. CASE key \in DOMAIN tab
      <3>1. u = [nodes |-> ns, ids |-> tab]
        BY <1>1, <2>1 DEF Interned
      <3> QED  BY <3>1
    <2>2. CASE key \notin DOMAIN tab
      <3> DEFINE x == Append(ns, v)
                 y == [k \in DOMAIN tab \cup {key} |-> IF k = key THEN Len(ns) ELSE tab[k]]
      <3>1. u = [nodes |-> x, ids |-> y]
        BY <1>1, <2>2 DEF Interned
      <3> HIDE DEF x, y
      <3> QED  BY <3>1
    <2> QED  BY <2>1, <2>2
  <1>3. \A k \in DOMAIN tab : IsoInode(ns[tab[k] + 1]) /\ IsoIs(k, ns[tab[k] + 1], bs)
    BY DEF IsoTabled
  <1> HIDE DEF ns, tab
  <1>4. /\ Tabled(u.nodes, u.ids)
        /\ Extends(tab, u.ids)
        /\ DOMAIN u.ids = DOMAIN tab \cup {key}
        /\ key \notin DOMAIN tab => u.nodes[u.ids[key] + 1] = v
        /\ Len(u.nodes) > 0
        /\ \A k \in DOMAIN tab : u.nodes[u.ids[k] + 1] = ns[tab[k] + 1]
    BY <1>1, InternedTabled
  <1>5. ASSUME NEW k \in DOMAIN u.ids PROVE IsoInode(u.nodes[u.ids[k] + 1]) /\ IsoIs(k, u.nodes[u.ids[k] + 1], bs)
    <2>1. CASE k \in DOMAIN tab
      BY <1>3, <1>4, <2>1
    <2>2. CASE k \notin DOMAIN tab
      <3>1. k = key
        BY <1>4, <1>5, <2>2
      <3> QED  BY <1>4, <2>2, <3>1
    <2> QED  BY <2>1, <2>2
  <1> QED  BY <1>2, <1>4, <1>5 DEF IsoTabled, tab

LEMMA IsoSameTable == IsoTable /\ UNCHANGED <<img, sb, nodes, ids>> => IsoTable'
  BY DEF IsoTable, IsoTabled, IsoIs, Iso!ROOT_KEY, Iso!RecordOf, Iso!Has, Iso!Num

LEMMA IsoNodes ==
    ASSUME IsoTable, NEW n, Handed(n, ids)
    PROVE  sb.bs \in Nat \ {0} /\ sb.susp_skip \in Nat /\ IsoInode(nodes[n + 1]) /\ n \in 0..Len(nodes) - 1
  <1>1. PICK k \in DOMAIN ids : ids[k] = n
    BY DEF Handed
  <1>2. IsoInode(nodes[n + 1]) /\ Tabled(nodes, ids) /\ sb.bs \in Nat \ {0} /\ sb.susp_skip \in Nat
    BY <1>1 DEF IsoTable, IsoTabled
  <1> QED  BY <1>2, TabledHanded

(* The table as a step leaves it, when it gives ids or not. *)
LEMMA IsoNewTable ==
    ASSUME img \in Images.iso9660, img' = img, NEW t, IsoTabled(t, sb'.bs), nodes' = t.nodes, ids' = t.ids,
           sb'.bs \in Nat \ {0}, sb'.susp_skip \in Nat
    PROVE  IsoTable'
  <1>1. Tabled(nodes', ids')
    BY DEF IsoTabled
  <1>2. \A k \in DOMAIN ids' : IsoInode(nodes'[ids'[k] + 1]) /\ IsoIs(k, nodes'[ids'[k] + 1], sb'.bs)
    BY DEF IsoTabled
  <1> QED  BY <1>1, <1>2 DEF IsoTable, IsoTabled, IsoIs, IsoInode, Iso!ROOT_KEY, Iso!RecordOf, Iso!Has, Iso!Num

LEMMA IsoRested ==
    ASSUME IsoTable', Rested("idle") \/ Rested("failed"), pc' = "idle" => Len(nodes') > 0
    PROVE  IsoInv'
  <1>1. pc' \in {"idle", "failed"} /\ todo' = <<>> /\ out' = <<>>
    BY DEF Rested
  <1>2. CallState({"open"}, IsoLoops)'
    BY <1>1 DEF CallState, Ops, IsoLoops
  <1> QED  BY <1>1, <1>2 DEF IsoInv, IsoLoops

LEMMA IsoShared ==
    /\ \A r : Iso!Return(r) <=> Return(r)
    /\ \A r : Iso!Failed(r) <=> r.err # "none"
    /\ Iso!Ids = 0..Len(nodes) - 1
    /\ Iso!Inode = nodes[arg.node + 1]
  <1>1. \A r : Iso!Return(r) <=> Return(r)
    BY DEF Iso!Return, Return, Iso!Opening, Opening, Iso!Busy, Busy, Iso!NoArg, NoArg, Iso!Failed, Failed
  <1> QED  BY <1>1 DEF Iso!Failed, Iso!Ids, Iso!Inode

LEMMA IsoReplies ==
    ASSUME IsoInv, pc \in Ops \cup IsoLoops, NEW r, Iso!Return(r), UNCHANGED <<img, arg, sb, nodes, ids>>,
           ProperReply(r, ids)
    PROVE  IsoInv' /\ SafeStep /\ Advances
  <1>1. Busy /\ WellAsked(arg) /\ Len(nodes) > 0
    BY DEF IsoInv, CallState, Busy, Ops, IsoLoops
  <1>2. Return(r)
    BY IsoShared
  <1>3. GrowsTo(ids, ids') /\ ProperReply(r, ids')
    BY SameGrows, TabledHanded DEF IsoInv, IsoTable, IsoTabled
  <1>4. SafeStep /\ Advances /\ Rested("idle")
    BY <1>1, <1>2, <1>3, ReplyStep
  <1>5. IsoTable'
    BY IsoSameTable DEF IsoInv
  <1> QED  BY <1>1, <1>4, <1>5, IsoRested

(* Where a call that is not open stands. *)
LEMMA IsoAsked ==
    ASSUME IsoInv, pc \in Ops \cup IsoLoops
    PROVE  /\ Busy /\ WellAsked(arg) /\ IsoTable /\ Len(nodes) > 0
           /\ pc \in Ops => arg.op = pc /\ todo = <<>> /\ out = <<>>
           /\ \A n : Handed(n, ids) <=> n \in Iso!Ids
           /\ \A r : r.err # "NotFound" /\ r.val = <<>> /\ Handed(arg.node, ids) => ProperReply(r, ids)
           /\ \A r : r.err \in {"NotFound", "Io"} /\ r.val = <<>> /\ ~ Handed(arg.node, ids) => ProperReply(r, ids)
  <1>1. WellAsked(arg) /\ IsoTable /\ Busy /\ (pc \in Ops => arg.op = pc /\ todo = <<>> /\ out = <<>>) /\ Len(nodes) > 0
    BY DEF IsoInv, CallState, Busy, Ops, IsoLoops
  <1>2. \A n : Handed(n, ids) <=> n \in Iso!Ids
    BY <1>1, TabledHanded, IsoShared DEF IsoTable, IsoTabled
  <1> QED  BY <1>1, <1>2, ErrorReply

LEMMA IsoErrors ==
    ASSUME IsoInv, pc \in Ops \cup IsoLoops, NEW r, Iso!Return(r), UNCHANGED <<img, arg, sb, nodes, ids>>,
           r.val = <<>>, IF Handed(arg.node, ids) THEN r.err # "NotFound" ELSE r.err \in {"NotFound", "Io"}
    PROVE  IsoInv' /\ SafeStep /\ Advances
  <1>1. ProperReply(r, ids)
    BY IsoAsked
  <1> QED  BY <1>1, IsoReplies

(* The call goes into a loop, or on in it, and leaves the table alone. *)
LEMMA IsoGoesOn ==
    ASSUME IsoInv, pc \in Ops \cup IsoLoops, UNCHANGED <<img, arg, sb, nodes, ids, ret>>, pc' \in IsoLoops,
           Handed(arg.node, ids), pc' \in {"scan", "ce"} => IsoWalk', pc' \in {"file", "zblock"} => IsoWindow'
    PROVE  IsoInv' /\ SafeStep
  <1>1. Busy /\ WellAsked(arg) /\ IsoTable /\ Len(nodes) > 0
    BY IsoAsked
  <1>2. GrowsTo(ids, ids')
    BY <1>1, SameGrows, TabledHanded DEF IsoTable, IsoTabled
  <1>3. SafeStep
    BY <1>1, <1>2, GoesOnStep DEF IsoLoops
  <1>4. CallState({"open"}, IsoLoops)'
    BY <1>1 DEF CallState, Ops, IsoLoops
  <1>5. (Handed(arg.node, ids))'
    BY DEF Handed
  <1> QED  BY <1>1, <1>3, <1>4, <1>5, IsoSameTable DEF IsoInv, IsoLoops

LEMMA IsoRoot == ASSUME NEW x, NEW bs PROVE IsoInode(Iso!RootRecord(x)) /\ IsoIs(Iso!ROOT_KEY, Iso!RootRecord(x), bs)
  <1> DEFINE l == Iso!Num(x, "lba")
             z == Iso!Num(x, "size")
             es == <<[lba |-> l, len |-> z]>>
             v == Iso!RootRecord(x)
  <1>1. l \in Nat /\ z \in Nat
    BY DEF Iso!Num
  <1>2. v.key = Iso!ROOT_KEY /\ v.lba = l /\ v.size = z /\ v.extents = es /\ v.zf = <<>>
    BY DEF Iso!RootRecord
  <1> HIDE DEF l, z, v
  <1>3. IsSeq(es) /\ Len(es) = 1
    <2>1. es \in Seq({[lba |-> l, len |-> z]}) /\ Len(es) = 1
      OBVIOUS
    <2> QED  BY <2>1 DEF IsSeq
  <1>4. IsExtents(es)
    BY <1>1, <1>3 DEF IsExtents
  <1> HIDE DEF es
  <1>5. IsoInode(v) /\ IsoIs(Iso!ROOT_KEY, v, bs)
    BY <1>1, <1>2, <1>3, <1>4 DEF IsoInode, IsoIs, IsoZf
  <1> QED  BY <1>5 DEF v

LEMMA IsoOpens ==
    ASSUME fs = "iso9660", IsoInv, Iso!Open, UNCHANGED <<img, arg>>
    PROVE  IsoInv' /\ SafeStep /\ Advances
  <1> DEFINE vds == Iso!Scanned
             P == {i \in DOMAIN vds : Iso!Primary(vds[i])}
             pvd == vds[Max(P)]
             bs == Iso!Num(pvd, "bs")
             sp == Iso!DetectSusp(Iso!RootRecord(pvd), bs)
  <1>1. pc = "open" /\ Busy /\ arg = NoArg /\ ids = <<>> /\ nodes = <<>> /\ IsoTable /\ DOMAIN ids = {}
    BY DEF Iso!Open, IsoInv, CallState, Busy
  <1>2. IsSeq(vds) /\ Len(img.disk) \in Nat
        /\ (Len(vds) > 0 => Len(img.disk) > VD_REGION_OFFSET /\ vds[1] = img.disk[VD_REGION_OFFSET + 1])
    BY <1>1, IsoScanned DEF IsoTable
  <1>3. \/ Return(Iso!Bad("Corrupt")) /\ UNCHANGED <<sb, nodes, ids>>
        \/ sp.err # "none" /\ Return(sp) /\ UNCHANGED <<sb, nodes, ids>>
        \/ /\ \A c \in Iso!Range(vds) : Iso!IsVd(c) /\ ~ (Iso!Primary(c) /\ Iso!Num(c, "bs") = 0)
           /\ \E c \in Iso!Range(vds) : Iso!Primary(c)
           /\ sp.err = "none"
           /\ Return(Iso!Good(<<>>))
           /\ sb'.bs = bs /\ sb'.susp_skip = IF sp.val = <<>> THEN 0 ELSE sp.val[1]
           /\ \E x : Iso!Intern(Iso!ROOT_KEY, Iso!RootRecord(x))
    <2>1. pvd = Iso!LastVd(vds, Iso!Primary)
      BY DEF Iso!LastVd, Iso!Max, Max
    <2> DEFINE skip == IF sp.val = <<>> THEN 0 ELSE sp.val[1]
               joliet == sp.val = <<>> /\ Iso!Some(vds, Iso!Joliet)
               x == IF joliet THEN Iso!LastVd(vds, Iso!Joliet) ELSE Iso!LastVd(vds, Iso!Primary)
               cat == IF Iso!Some(vds, Iso!BootRecord) THEN <<Iso!LastVd(vds, Iso!BootRecord).cat>> ELSE <<>>
               rr == sp.val # <<>>
    <2>2. IF \/ \E c \in Iso!Range(vds) : ~ Iso!IsVd(c)
             \/ \E c \in Iso!Range(vds) : Iso!Primary(c) /\ Iso!Num(c, "bs") = 0
             \/ ~ \E c \in Iso!Range(vds) : Iso!Primary(c)
            THEN Iso!Return(Iso!Bad("Corrupt")) /\ UNCHANGED <<sb, nodes, ids>>
          ELSE IF Iso!Failed(sp) THEN Iso!Return(sp) /\ UNCHANGED <<sb, nodes, ids>>
          ELSE /\ Iso!Return(Iso!Good(<<>>))
               /\ sb' = [bs |-> bs, rock_ridge |-> rr, susp_skip |-> skip, joliet |-> joliet, cat |-> cat]
               /\ Iso!Intern(Iso!ROOT_KEY, Iso!RootRecord(x))
      BY <2>1, Zenon DEF Iso!Open, Iso!Table, Iso!Some
    <2> HIDE DEF vds, sp, bs, skip, joliet, cat, x, rr
    <2>3. sb' = [bs |-> bs, rock_ridge |-> rr, susp_skip |-> skip, joliet |-> joliet, cat |-> cat]
          => sb'.bs = bs /\ sb'.susp_skip = skip
      OBVIOUS
    <2> QED  BY <2>2, <2>3, IsoShared DEF skip
  <1>4. ASSUME NEW q, q.err # "none", Return(q), UNCHANGED <<sb, nodes, ids>> PROVE IsoInv' /\ SafeStep /\ Advances
    <2>1. SafeStep /\ Advances /\ Rested("failed")
      BY <1>1, <1>4, RefuseStep DEF Failed
    <2> QED  BY <1>1, <1>4, <2>1, IsoSameTable, IsoRested DEF Rested
  <1>5. CASE Return(Iso!Bad("Corrupt")) /\ UNCHANGED <<sb, nodes, ids>>
    BY <1>4, <1>5 DEF Iso!Bad
  <1>6. CASE /\ \A c \in Iso!Range(vds) : Iso!IsVd(c) /\ ~ (Iso!Primary(c) /\ Iso!Num(c, "bs") = 0)
             /\ \E c \in Iso!Range(vds) : Iso!Primary(c)
             /\ sp.err = "none"
             /\ Return(Iso!Good(<<>>))
             /\ sb'.bs = bs /\ sb'.susp_skip = IF sp.val = <<>> THEN 0 ELSE sp.val[1]
             /\ \E x : Iso!Intern(Iso!ROOT_KEY, Iso!RootRecord(x))
    <2>1. Sound(sp) /\ (sp.err = "none" /\ sp.val # <<>> => sp.val[1] \in Nat)
      BY IsoSusp
    <2> HIDE DEF sp
    <2>2. Iso!Range(vds) = {vds[i] : i \in DOMAIN vds} /\ DOMAIN vds = 1..Len(vds) /\ Len(vds) \in Nat
      <3>1. Iso!Range(vds) = {vds[i] : i \in DOMAIN vds}
        BY DEF Iso!Range
      <3> HIDE DEF vds
      <3> QED  BY <1>2, <3>1, SeqBasics
    <2>3. bs \in Nat \ {0} /\ Len(vds) > 0 /\ Iso!IsVd(vds[1])
      <3> HIDE DEF vds
      <3>1. P # {} /\ P \subseteq 1..Len(vds)
        BY <1>6, <2>2
      <3>2. Max(P) \in P
        <4> HIDE DEF P
        <4> QED  BY <2>2, <3>1, MaxIsIn
      <3>3. pvd \in Iso!Range(vds) /\ Iso!Primary(pvd)
        <4> HIDE DEF pvd
        <4> QED  BY <2>2, <3>2 DEF pvd
      <3>4. Len(vds) > 0 /\ vds[1] \in Iso!Range(vds)
        BY <2>2, <3>1
      <3>5. bs \in Nat
        BY DEF Iso!Num
      <3> HIDE DEF pvd, bs
      <3> QED  BY <1>6, <3>3, <3>4, <3>5 DEF bs
    <2> HIDE DEF bs, vds
    <2>4. PICK x : Iso!Intern(Iso!ROOT_KEY, Iso!RootRecord(x))
      BY <1>6
    <2> DEFINE t == [nodes |-> nodes, ids |-> ids]
               u == Iso!Interned(t, Iso!ROOT_KEY, Iso!RootRecord(x))
    <2>5. nodes' = u.nodes /\ ids' = u.ids /\ t.ids = ids
      BY <2>4 DEF Iso!Intern
    <2>6. IsoTabled(t, bs)
      BY <1>1 DEF IsoTable, IsoTabled
    <2> HIDE DEF t
    <2>7. IsoTabled(u, bs) /\ Extends(t.ids, u.ids) /\ DOMAIN u.ids = DOMAIN t.ids \cup {Iso!ROOT_KEY} /\ Len(u.nodes) > 0
      <3> HIDE DEF u
      <3> QED  BY <2>6, IsoRoot, IsoInterned DEF u
    <2> HIDE DEF u
    <2>8. IsoTable' /\ Len(nodes') > 0 /\ DOMAIN ids' = {Iso!ROOT_KEY}
      <3>1. sb'.bs = bs /\ sb'.susp_skip \in Nat
        BY <1>6, <2>1
      <3> QED  BY <1>1, <2>3, <2>5, <2>7, <3>1, IsoNewTable DEF IsoTable
    <2>9. Probe /\ ~ Failed(Iso!Good(<<>>))
      <3>1. Iso!Probe
        BY <1>2, <2>3 DEF Iso!Probe
      <3> QED  BY <3>1 DEF Probe, Failed, Iso!Good
    <2>10. SafeStep /\ Advances /\ Rested("idle")
      BY <1>1, <1>6, <2>8, <2>9, MountStep
    <2> QED  BY <2>8, <2>10, IsoRested
  <1> HIDE DEF vds, sp, bs, pvd
  <1> QED  BY <1>3, <1>4, <1>5, <1>6

LEMMA IsoReadsExtent ==
    ASSUME img \in Images.iso9660, NEW bs \in Nat \ {0}, NEW v, IsoInode(v), NEW r, r = Iso!ReadDirExtent(v, bs)
    PROVE  Sound(r) /\ (r.err = "none" => IsoBuf(r.val, v.lba, bs))
  <1> DEFINE at == v.lba * bs
             q == SubSeq(img.disk, at + 1, at + v.size)
  <1>1. at \in Nat /\ at \in Int /\ v.size \in Nat
    BY DEF IsoInode
  <1>2. \/ r = Iso!Bad("FileTooLarge") \/ r = Iso!Bad("OutOfRange") \/ r = Iso!Good(q)
    BY DEF Iso!ReadDirExtent, Iso!ReadCells
  <1> HIDE DEF at
  <1>3. /\ IsSeq(q)
        /\ Len(q) = v.size
        /\ \A i \in 1..v.size : q[i] = img.disk[at + i]
    BY <1>1, SubSeqIsSeq
  <1>4. IsoBuf(q, v.lba, bs)
    <2> HIDE DEF q
    <2> QED  BY <1>3 DEF IsoBuf, at
  <1> HIDE DEF q
  <1> QED  BY <1>2, <1>4 DEF Iso!Bad, Iso!Good, Sound

LEMMA IsoNewParser == IsoParser(Iso!NewParser) /\ Iso!NewParser' = Iso!NewParser
  BY DEF IsoParser, Iso!NewParser, IsoZf

LEMMA IsoReadsDir ==
    ASSUME fs = "iso9660", IsoInv, Iso!ReadDir, UNCHANGED <<img, arg>>
    PROVE  IsoInv' /\ SafeStep /\ Advances
  <1> DEFINE r == Iso!ReadDirExtent(Iso!Inode, sb.bs)
             t == [buf |-> r.val, pending |-> <<>>, rr |-> Iso!NewParser, hops |-> 0]
  <1>1. pc \in {"read_dir", "lookup"} /\ pc \in Ops /\ UNCHANGED <<sb, nodes, ids>>
    BY DEF Iso!ReadDir, Ops, Iso!Table
  <1>2. \/ arg.node \notin Iso!Ids /\ Iso!Return(Iso!Bad("NotFound"))
        \/ arg.node \in Iso!Ids /\ Iso!Return(Iso!Bad("NotDirectory"))
        \/ arg.node \in Iso!Ids /\ r.err # "none" /\ Iso!Return(r)
        \/ arg.node \in Iso!Ids /\ r.err = "none" /\ Iso!Loop("scan", t, 0)
    <2> HIDE DEF r
    <2> QED  BY IsoShared DEF Iso!ReadDir, r
  <1>3. /\ WellAsked(arg) /\ IsoTable /\ arg.op = pc /\ todo = <<>> /\ out = <<>>
        /\ Handed(arg.node, ids) <=> arg.node \in Iso!Ids
    BY <1>1, IsoAsked
  <1>4. arg.node \in Iso!Ids => Sound(r) /\ (r.err = "none" => IsoBuf(r.val, nodes[arg.node + 1].lba, sb.bs))
    <2> SUFFICES ASSUME arg.node \in Iso!Ids PROVE Sound(r) /\ (r.err = "none" => IsoBuf(r.val, Iso!Inode.lba, sb.bs))
      BY IsoShared
    <2>1. sb.bs \in Nat \ {0} /\ IsoInode(Iso!Inode)
      BY <1>3, IsoNodes, IsoShared
    <2> QED  BY <1>3, <2>1, IsoReadsExtent DEF IsoTable
  <1> HIDE DEF r
  <1>5. ASSUME NEW q, Iso!Return(q), q.val = <<>>, IF Handed(arg.node, ids) THEN q.err # "NotFound" ELSE q.err = "NotFound"
        PROVE  IsoInv' /\ SafeStep /\ Advances
    BY <1>1, <1>5, IsoErrors
  <1>6. CASE arg.node \in Iso!Ids /\ r.err = "none" /\ Iso!Loop("scan", t, 0)
    <2>1. pc' = "scan" /\ todo' = t /\ pos' = 0 /\ out' = <<>> /\ ret' = ret
      BY <1>3, <1>6 DEF Iso!Loop
    <2>2. DOMAIN todo' = {"buf", "pending", "rr", "hops"} /\ todo'.buf = r.val /\ todo'.pending = <<>>
          /\ todo'.rr = Iso!NewParser /\ todo'.hops = 0
      <3> HIDE DEF t
      <3>1. DOMAIN t = {"buf", "pending", "rr", "hops"} /\ t.buf = r.val /\ t.pending = <<>> /\ t.rr = Iso!NewParser /\ t.hops = 0
        BY DEF t
      <3> QED  BY <2>1, <3>1
    <2>3. IsSeq(out') /\ Len(out') = 0
      BY <2>1, EmptyIsSeq
    <2>4. IsoBuf(todo.buf, nodes[arg.node + 1].lba, sb.bs)'
      BY <1>1, <1>4, <1>6, <2>2 DEF IsoBuf
    <2>5. IsoParser(todo.rr)'
      BY <2>2, IsoNewParser DEF IsoParser, IsoZf
    <2>6. IsoWalk'
      BY <1>1, <1>3, <2>1, <2>2, <2>3, <2>4, <2>5 DEF IsoWalk
    <2>7. IsoInv' /\ SafeStep
      BY <1>1, <1>3, <1>6, <2>1, <2>6, IsoGoesOn DEF IsoLoops
    <2>8. Advances
      BY <1>1, <1>3, <2>1, IntoLoop DEF Loops
    <2> QED  BY <2>7, <2>8
  <1>8. CASE arg.node \notin Iso!Ids /\ Iso!Return(Iso!Bad("NotFound"))
    BY <1>3, <1>5, <1>8 DEF Iso!Bad
  <1>9. CASE arg.node \in Iso!Ids /\ Iso!Return(Iso!Bad("NotDirectory"))
    BY <1>3, <1>5, <1>9 DEF Iso!Bad
  <1>10. CASE arg.node \in Iso!Ids /\ r.err # "none" /\ Iso!Return(r)
    BY <1>3, <1>4, <1>5, <1>10 DEF Sound
  <1> QED  BY <1>2, <1>6, <1>8, <1>9, <1>10

(* The records to come count for more than the hops within one. *)
LEMMA IsoBurns ==
    ASSUME NEW l \in Int, NEW p \in Int, NEW q \in Int, NEW m \in Nat, NEW h \in Nat, p < l, h <= m
    PROVE  /\ (l - p) * (m + 2) - h > 0
           /\ q > p => (l - q) * (m + 2) - 0 < (l - p) * (m + 2) - h
           /\ (l - p) * (m + 2) - (h + 1) < (l - p) * (m + 2) - h
  <1> DEFINE k == m + 2
             y == l - p - 1
  <1>1. k \in Nat /\ h < k /\ y \in Nat /\ l - p = y + 1
    OBVIOUS
  <1>2. \A a \in Nat : a * k \in Nat
    BY <1>1
  <1>3. (l - p) * k = y * k + k
    BY <1>1
  <1>4. ASSUME q > p PROVE (l - q) * k <= y * k
    <2> DEFINE x == q - p - 1
    <2>1. x \in Nat /\ y = (l - q) + x /\ l - q \in Int
      BY <1>1, <1>4
    <2>2. y * k = (l - q) * k + x * k
      <3> HIDE DEF k, x, y
      <3> QED  BY <1>1, <2>1
    <2>3. x * k \in Nat /\ (l - q) * k \in Int
      <3> HIDE DEF k, x, y
      <3> QED  BY <1>1, <1>2, <2>1
    <2> HIDE DEF k, x, y
    <2> QED  BY <2>2, <2>3
  <1>5. y * k \in Nat /\ (l - q) * k \in Int
    <2> HIDE DEF k, y
    <2> QED  BY <1>1, <1>2
  <1> DEFINE a == (l - p) * k
             b == (l - q) * k
             c == y * k
  <1>6. a = c + k /\ c \in Nat /\ b \in Int /\ (q > p => b <= c)
    BY <1>3, <1>4, <1>5
  <1> HIDE DEF a, b, c, k
  <1>7. a - h > 0 /\ (q > p => b - 0 < a - h) /\ a - (h + 1) < a - h
    BY <1>1, <1>6
  <1> QED  BY <1>7 DEF a, b, c, k

(* A turn of the walk: past the record, or one more hop within it. *)
LEMMA IsoTurn ==
    ASSUME fs = "iso9660", fs' = fs, IsoInv, pc \in {"scan", "ce"}, pos < Len(todo.buf), todo.hops <= MAX_CONTINUATIONS,
           UNCHANGED <<img, arg, sb, nodes, ids, ret>>,
           DOMAIN todo' = DOMAIN todo, todo'.buf = todo.buf, todo'.pending = <<>> \/ IsoEntry(todo'.pending[1], sb.bs),
           IsoParser(todo'.rr), IsSeq(out'), \A i \in 1..Len(out') : IsoEntry(out'[i], sb.bs),
           \/ pc' = "scan" /\ pos' \in Nat /\ pos' > pos /\ todo'.hops = 0
           \/ pc' = "ce" /\ pos' = pos /\ todo'.hops = todo.hops + 1 /\ Iso!Record.len > 0
    PROVE  IsoInv' /\ SafeStep /\ Advances
  <1>1. IsoWalk /\ Handed(arg.node, ids) /\ pc \in IsoLoops
    BY DEF IsoInv, IsoLoops
  <1>2. pos \in Nat /\ Len(todo.buf) \in Nat /\ todo.hops \in Nat
    BY <1>1, SeqBasics DEF IsoWalk, IsoBuf
  <1>3. todo'.hops \in Nat /\ pos' \in Nat /\ pc' \in {"scan", "ce"} /\ pc' \in IsoLoops
    BY <1>2 DEF IsoLoops
  <1>4. IsoBuf(todo.buf, nodes[arg.node + 1].lba, sb.bs)'
    BY <1>1 DEF IsoWalk, IsoBuf
  <1>5. (todo.pending = <<>> \/ IsoEntry(todo.pending[1], sb.bs))'
    BY DEF IsoEntry, IsoIs, IsoInode, IsExtents, IsSeq, Iso!ROOT_KEY, Iso!RecordOf, Iso!Has, Iso!Num, IsoZf
  <1>6. IsoParser(todo.rr)' /\ IsSeq(out)'
    BY DEF IsoParser, IsoZf, IsSeq
  <1>7. (\A i \in 1..Len(out) : IsoEntry(out[i], sb.bs))'
    BY DEF IsoEntry, IsoIs, IsoInode, IsExtents, IsSeq, Iso!ROOT_KEY, Iso!RecordOf, Iso!Has, Iso!Num, IsoZf
  <1>8. pc' = "ce" => pos' < Len(todo'.buf) /\ Iso!Record'.len > 0
    BY DEF Iso!Record, Iso!RecordOf, Iso!Has, Iso!Num
  <1>9. IsoWalk'
    BY <1>1, <1>3, <1>4, <1>5, <1>6, <1>7, <1>8 DEF IsoWalk
  <1>10. IsoInv' /\ SafeStep
    BY <1>1, <1>3, <1>9, IsoGoesOn
  <1>11. /\ Fuel = (Len(todo.buf) - pos) * (MAX_CONTINUATIONS + 2) - todo.hops
         /\ Fuel' = (Len(todo'.buf) - pos') * (MAX_CONTINUATIONS + 2) - todo'.hops
    BY <1>3 DEF Fuel, Iso!Fuel
  <1>12. Fuel > 0 /\ Fuel' < Fuel
    <2> DEFINE l == Len(todo.buf)
               q == pos'
               h == todo.hops
    <2>1. l \in Int /\ pos \in Int /\ q \in Int /\ MAX_CONTINUATIONS \in Nat /\ h \in Nat /\ pos < l /\ h <= MAX_CONTINUATIONS
      BY <1>2, <1>3, IsoAssumption
    <2>2. \/ q > pos /\ todo'.hops = 0
          \/ q = pos /\ todo'.hops = h + 1
      OBVIOUS
    <2>3. Len(todo'.buf) = l
      OBVIOUS
    <2> HIDE DEF l, q, h
    <2>4. /\ (l - pos) * (MAX_CONTINUATIONS + 2) - h > 0
          /\ q > pos => (l - q) * (MAX_CONTINUATIONS + 2) - 0 < (l - pos) * (MAX_CONTINUATIONS + 2) - h
          /\ (l - pos) * (MAX_CONTINUATIONS + 2) - (h + 1) < (l - pos) * (MAX_CONTINUATIONS + 2) - h
      BY <2>1, IsoBurns
    <2>5. Fuel = (l - pos) * (MAX_CONTINUATIONS + 2) - h /\ Fuel' = (l - q) * (MAX_CONTINUATIONS + 2) - todo'.hops
      BY <1>11, <2>3 DEF l, q, h
    <2> HIDE <1>11
    <2> QED  BY <2>2, <2>4, <2>5
  <1>13. Advances
    BY <1>1, <1>3, <1>12, LoopTurn DEF IsoLoops, Loops
  <1> QED  BY <1>10, <1>13

LEMMA IsoRecords ==
    ASSUME NEW c, NEW r, r = Iso!RecordOf(c)
    PROVE  r.len \in Nat /\ r.lba \in Nat /\ r.size \in Nat
  <1>1. Iso!Num(c, "len") \in Nat /\ Iso!Num(c, "lba") \in Nat /\ Iso!Num(c, "size") \in Nat
    BY DEF Iso!Num
  <1> QED  BY <1>1 DEF Iso!RecordOf

(* Where the walk stands. *)
LEMMA IsoStands ==
    ASSUME IsoInv, pc \in {"scan", "ce"}, pos < Len(todo.buf)
    PROVE  /\ Iso!Record.len \in Nat /\ Iso!Record.lba \in Nat /\ Iso!Record.size \in Nat
           /\ Iso!Record = Iso!RecordOf(img.disk[Iso!Inode.lba * sb.bs + pos + 1])
           /\ IsoWalk /\ Handed(arg.node, ids) /\ pos \in Nat /\ Len(todo.buf) \in Nat /\ IsSeq(todo.buf) /\ todo.hops \in Nat
           /\ sb.bs \in Nat \ {0} /\ sb.susp_skip \in Nat /\ IsoInode(Iso!Inode) /\ img \in Images.iso9660
           /\ IsSeq(out) /\ (\A i \in 1..Len(out) : IsoEntry(out[i], sb.bs)) /\ IsoParser(todo.rr)
           /\ DOMAIN todo = {"buf", "pending", "rr", "hops"}
           /\ pc = "scan" => todo.hops = 0
  <1>1. IsoWalk /\ Handed(arg.node, ids) /\ IsoTable
    BY DEF IsoInv, IsoLoops
  <1>2. pos \in Nat /\ Len(todo.buf) \in Nat /\ todo.hops \in Nat /\ IsSeq(todo.buf) /\ IsSeq(out) /\ IsoParser(todo.rr)
        /\ (\A i \in 1..Len(out) : IsoEntry(out[i], sb.bs)) /\ DOMAIN todo = {"buf", "pending", "rr", "hops"}
        /\ (pc = "scan" => todo.hops = 0) /\ IsoBuf(todo.buf, nodes[arg.node + 1].lba, sb.bs)
    BY <1>1, SeqBasics DEF IsoWalk, IsoBuf
  <1>3. sb.bs \in Nat \ {0} /\ sb.susp_skip \in Nat /\ IsoInode(Iso!Inode) /\ Iso!Inode = nodes[arg.node + 1]
    BY <1>1, IsoNodes, IsoShared
  <1>4. Iso!Record.len \in Nat /\ Iso!Record.lba \in Nat /\ Iso!Record.size \in Nat
    BY IsoRecords DEF Iso!Record
  <1>5. Iso!Record = Iso!RecordOf(img.disk[Iso!Inode.lba * sb.bs + pos + 1])
    <2> DEFINE a == Iso!Inode.lba * sb.bs
    <2>1. a \in Nat
      BY <1>3 DEF IsoInode
    <2>2. pos + 1 \in 1..Len(todo.buf)
      BY <1>2
    <2>3. todo.buf[pos + 1] = img.disk[a + (pos + 1)]
      BY <1>2, <1>3, <2>2 DEF IsoBuf
    <2> HIDE DEF a
    <2>4. a + (pos + 1) = a + pos + 1
      BY <1>2, <2>1
    <2> QED  BY <2>3, <2>4 DEF Iso!Record, a
  <1> QED  BY <1>1, <1>2, <1>3, <1>4, <1>5 DEF IsoTable

LEMMA IsoEmits ==
    ASSUME fs = "iso9660", fs' = fs, IsoInv, pc \in {"scan", "ce"}, pos < Len(todo.buf), todo.hops <= MAX_CONTINUATIONS,
           Iso!Record.len > 0, UNCHANGED <<img, arg, sb, nodes, ids>>,
           NEW e, IsoEntry(e, sb.bs), NEW more, Iso!Emit(e, more)
    PROVE  IsoInv' /\ SafeStep /\ Advances
  <1> DEFINE p == IF more THEN <<e>> ELSE <<>>
  <1>1. /\ pc' = "scan" /\ pos' = pos + Iso!Record.len /\ ret' = ret
        /\ out' = IF more THEN out ELSE Append(out, e)
        /\ todo' = [todo EXCEPT !.pending = p, !.rr = Iso!NewParser, !.hops = 0]
    BY DEF Iso!Emit
  <1>2. /\ Iso!Record.len \in Nat /\ pos \in Nat /\ DOMAIN todo = {"buf", "pending", "rr", "hops"}
        /\ IsSeq(out) /\ (\A i \in 1..Len(out) : IsoEntry(out[i], sb.bs))
    BY IsoStands
  <1>3. p = <<>> \/ IsoEntry(p[1], sb.bs)
    OBVIOUS
  <1> HIDE DEF p
  <1>4. /\ DOMAIN todo' = DOMAIN todo /\ todo'.buf = todo.buf /\ todo'.pending = p
        /\ todo'.rr = Iso!NewParser /\ todo'.hops = 0
    BY <1>1, <1>2
  <1>5. IsSeq(out') /\ \A i \in 1..Len(out') : IsoEntry(out'[i], sb.bs)
    <2>1. /\ IsSeq(Append(out, e))
          /\ Len(Append(out, e)) = Len(out) + 1
          /\ Append(out, e)[Len(out) + 1] = e
          /\ \A i \in 1..Len(out) : Append(out, e)[i] = out[i]
      BY <1>2, AppendIsSeq
    <2>2. Len(out) \in Nat
      BY <1>2, SeqBasics
    <2>3. IsSeq(Append(out, e)) /\ \A i \in 1..Len(Append(out, e)) : IsoEntry(Append(out, e)[i], sb.bs)
      BY <1>2, <2>1, <2>2
    <2> QED  BY <1>1, <1>2, <2>3
  <1>6. pos' \in Nat /\ pos' > pos
    BY <1>1, <1>2
  <1>7. IsoParser(todo'.rr)
    BY <1>4, IsoNewParser
  <1>8. todo'.pending = <<>> \/ IsoEntry(todo'.pending[1], sb.bs)
    BY <1>3, <1>4
  <1> QED  BY <1>1, <1>4, <1>5, <1>6, <1>7, <1>8, IsoTurn

LEMMA IsoFinishes ==
    ASSUME fs = "iso9660", fs' = fs, IsoInv, pc \in {"scan", "ce"}, pos < Len(todo.buf), todo.hops <= MAX_CONTINUATIONS,
           Iso!Record.len > 0, UNCHANGED <<img, arg, sb, nodes, ids>>, NEW p, IsoParser(p), Iso!Finish(p)
    PROVE  IsoInv' /\ SafeStep /\ Advances
  <1> DEFINE nm == IF p.have_nm /\ p.nm # <<>> /\ Iso!IsText(p.nm) THEN p.nm ELSE Iso!DecodeName(Iso!Record.fi, Iso!Record.dir)
             k == IF p.have_sl THEN "symlink" ELSE IF Iso!Record.dir THEN "dir" ELSE "file"
             ln == IF p.have_sl THEN <<p.sl>> ELSE <<>>
             lba == Iso!Record.lba
             size == Iso!Record.size
             x == [lba |-> lba, len |-> size]
             key == <<Iso!Inode.lba, pos>>
             v == [key |-> key, lba |-> lba, size |-> size, extents |-> <<x>>, kind |-> k, link |-> ln, zf |-> p.zf]
             e == [name |-> nm, inode |-> v]
  <1>1. Iso!Emit(e, Iso!Record.more /\ ~ Iso!Record.dir)
    BY DEF Iso!Finish, Iso!Extent
  <1>2. lba \in Nat /\ size \in Nat /\ lba = Iso!RecordOf(img.disk[Iso!Inode.lba * sb.bs + pos + 1]).lba
    BY IsoStands
  <1> HIDE DEF nm, k, ln, lba, size
  <1>3. IsExtents(<<x>>) /\ Len(<<x>>) = 1
    <2>1. <<x>> \in Seq({x}) /\ Len(<<x>>) = 1 /\ <<x>>[1] = x
      OBVIOUS
    <2>2. x.lba \in Nat /\ x.len \in Nat
      BY <1>2
    <2> HIDE DEF x
    <2>3. IsSeq(<<x>>)
      BY <2>1 DEF IsSeq
    <2> QED  BY <2>1, <2>2, <2>3 DEF IsExtents
  <1>4. key[1] = Iso!Inode.lba /\ key[2] = pos
    OBVIOUS
  <1>5. /\ v.key = key /\ v.lba = lba /\ v.size = size /\ v.extents = <<x>> /\ v.extents[1].lba = lba /\ v.zf = p.zf
        /\ {"extents", "size"} \subseteq DOMAIN v
    OBVIOUS
  <1> HIDE DEF key, x, v
  <1>6. IsoInode(v)
    BY <1>2, <1>3, <1>5 DEF IsoInode, IsoParser
  <1>7. IsoIs(v.key, v, sb.bs)
    BY <1>2, <1>4, <1>5 DEF IsoIs
  <1>8. "inode" \in DOMAIN e /\ e.inode = v
    OBVIOUS
  <1> HIDE DEF e
  <1>9. IsoEntry(e, sb.bs)
    BY <1>5, <1>6, <1>7, <1>8 DEF IsoEntry
  <1> QED  BY <1>1, <1>9, IsoEmits

LEMMA IsoFeds ==
    ASSUME fs = "iso9660", fs' = fs, IsoInv, pc \in {"scan", "ce"}, pos < Len(todo.buf), todo.hops <= MAX_CONTINUATIONS,
           Iso!Record.len > 0, UNCHANGED <<img, arg, sb, nodes, ids>>, NEW p, IsoParser(p), Iso!Fed(p)
    PROVE  IsoInv' /\ SafeStep /\ Advances
  <1>1. CASE Iso!Finish(p)
    BY <1>1, IsoFinishes
  <1>2. CASE pc' = "ce" /\ todo' = [todo EXCEPT !.rr = p, !.hops = @ + 1] /\ UNCHANGED <<pos, out, ret>>
    <2>1. DOMAIN todo = {"buf", "pending", "rr", "hops"} /\ IsSeq(out) /\ (\A i \in 1..Len(out) : IsoEntry(out[i], sb.bs))
          /\ IsoWalk
      BY IsoStands
    <2>2. /\ DOMAIN todo' = DOMAIN todo /\ todo'.buf = todo.buf /\ todo'.pending = todo.pending
          /\ todo'.rr = p /\ todo'.hops = todo.hops + 1
      BY <1>2, <2>1
    <2>3. todo'.pending = <<>> \/ IsoEntry(todo'.pending[1], sb.bs)
      BY <2>1, <2>2 DEF IsoWalk
    <2>4. IsoParser(todo'.rr) /\ IsSeq(out') /\ \A i \in 1..Len(out') : IsoEntry(out'[i], sb.bs)
      BY <1>2, <2>1, <2>2
    <2> QED  BY <1>2, <2>2, <2>3, <2>4, IsoTurn
  <1> QED  BY <1>1, <1>2 DEF Iso!Fed

LEMMA IsoAddsExtent ==
    ASSUME fs = "iso9660", fs' = fs, IsoInv, pc = "scan", pos < Len(todo.buf), Iso!Record.len > 0, todo.pending # <<>>,
           UNCHANGED <<img, arg, sb, nodes, ids>>, Iso!AddExtent
    PROVE  IsoInv' /\ SafeStep /\ Advances
  <1> DEFINE e == todo.pending[1]
             lba == Iso!Record.lba
             size == Iso!Record.size
             x == [lba |-> lba, len |-> size]
             es == e.inode.extents
             f == [e EXCEPT !.inode.extents = Append(@, x), !.inode.size = @ + size]
  <1>1. Iso!Return(Iso!Bad("Corrupt")) \/ Iso!Emit(f, Iso!Record.more)
    BY DEF Iso!AddExtent, Iso!Extent
  <1>2. lba \in Nat /\ size \in Nat /\ IsoWalk /\ Handed(arg.node, ids) /\ todo.hops = 0
    BY IsoStands
  <1>3. IsoEntry(e, sb.bs) /\ todo.hops <= MAX_CONTINUATIONS
    BY <1>2, IsoAssumption DEF IsoWalk
  <1> HIDE DEF lba, size, e
  <1>4. x.lba = lba /\ x.len = size
    OBVIOUS
  <1> HIDE DEF x
  <1>5. IsExtents(es) /\ Len(es) > 0 /\ IsSeq(es) /\ Len(es) \in Nat
    BY <1>3, SeqBasics DEF IsoEntry, IsoInode, IsExtents
  <1>6. /\ IsSeq(Append(es, x))
        /\ Len(Append(es, x)) = Len(es) + 1
        /\ Append(es, x)[Len(es) + 1] = x
        /\ \A i \in 1..Len(es) : Append(es, x)[i] = es[i]
    BY <1>5, AppendIsSeq
  <1>7. IsExtents(Append(es, x)) /\ Len(Append(es, x)) > 0 /\ Append(es, x)[1] = es[1]
    BY <1>2, <1>4, <1>5, <1>6 DEF IsExtents
  <1>8. /\ "inode" \in DOMAIN e /\ {"extents", "size"} \subseteq DOMAIN e.inode
        /\ IsoInode(e.inode) /\ IsoIs(e.inode.key, e.inode, sb.bs)
    BY <1>3 DEF IsoEntry
  <1>9. DOMAIN f = DOMAIN e /\ f.inode = [e.inode EXCEPT !.extents = Append(es, x), !.size = e.inode.size + size]
    BY <1>8
  <1> HIDE DEF f, es
  <1>10. /\ DOMAIN f.inode = DOMAIN e.inode /\ f.inode.extents = Append(es, x) /\ f.inode.size = e.inode.size + size
         /\ f.inode.key = e.inode.key /\ f.inode.lba = e.inode.lba /\ f.inode.zf = e.inode.zf
    BY <1>8, <1>9
  <1>11. IsoInode(f.inode)
    BY <1>2, <1>7, <1>8, <1>10 DEF IsoInode
  <1>12. IsoIs(f.inode.key, f.inode, sb.bs)
    BY <1>7, <1>8, <1>10 DEF IsoIs, es
  <1>13. IsoEntry(f, sb.bs)
    BY <1>8, <1>9, <1>10, <1>11, <1>12 DEF IsoEntry
  <1>14. CASE Iso!Emit(f, Iso!Record.more)
    BY <1>3, <1>13, <1>14, IsoEmits
  <1>15. CASE Iso!Return(Iso!Bad("Corrupt"))
    BY <1>2, <1>15, IsoErrors DEF Iso!Bad, IsoLoops
  <1> QED  BY <1>1, <1>14, <1>15

LEMMA NextSector == ASSUME NEW p \in Nat, NEW b \in Nat \ {0} PROVE (p \div b + 1) * b \in Nat /\ (p \div b + 1) * b > p
  <1> DEFINE d == p \div b
  <1>1. d \in Nat /\ p < b * d + b
    BY V!DivMod
  <1>2. (d + 1) * b = b * d + b /\ b * d \in Nat
    <2> HIDE DEF d
    <2> QED  BY <1>1
  <1> HIDE DEF d
  <1>3. (d + 1) * b \in Nat /\ (d + 1) * b > p
    <2> DEFINE y == b * d
    <2>1. (d + 1) * b = y + b /\ y \in Nat /\ p < y + b
      BY <1>1, <1>2
    <2> HIDE DEF y
    <2> QED  BY <1>1, <2>1
  <1> QED  BY <1>3 DEF d

LEMMA IsoNextRecord ==
    ASSUME fs = "iso9660", fs' = fs, IsoInv, Iso!NextRecord, UNCHANGED <<img, arg>>
    PROVE  IsoInv' /\ SafeStep /\ Advances
  <1> DEFINE su == SubSeq(todo.buf, pos + 2 + sb.susp_skip, pos + Iso!Record.len)
             p == Iso!Feed(Iso!NewParser, su)
             z == (pos \div sb.bs + 1) * sb.bs
  <1>1. pc = "scan" /\ pos < Len(todo.buf) /\ UNCHANGED <<sb, nodes, ids>>
    BY DEF Iso!NextRecord, Iso!Table
  <1>2. /\ Iso!Record.len \in Nat /\ IsoWalk /\ Handed(arg.node, ids) /\ pos \in Nat /\ todo.hops = 0
        /\ sb.bs \in Nat \ {0} /\ sb.susp_skip \in Nat
        /\ IsSeq(out) /\ (\A i \in 1..Len(out) : IsoEntry(out[i], sb.bs)) /\ IsoParser(todo.rr)
    BY <1>1, IsoStands
  <1>3. todo.hops <= MAX_CONTINUATIONS
    BY <1>2, IsoAssumption
  <1>4. \/ Iso!Record.len = 0 /\ pos' = z /\ UNCHANGED <<pc, todo, out, ret>>
        \/ Iso!Return(Iso!Bad("Corrupt"))
        \/ Iso!Record.len # 0 /\ pos' = pos + Iso!Record.len /\ UNCHANGED <<pc, todo, out, ret>>
        \/ Iso!Record.len # 0 /\ todo.pending # <<>> /\ Iso!AddExtent
        \/ Iso!Return(Iso!Bad("InvalidPath"))
        \/ Iso!Record.len # 0 /\ Iso!Finish(Iso!NewParser)
        \/ Iso!Record.len # 0 /\ Iso!Fed(p)
    <2> HIDE DEF p, z
    <2> QED  BY DEF Iso!NextRecord, p, z
  <1>5. Iso!Record.len # 0 => Iso!Record.len > 0
    BY <1>2
  <1>6. IsoParser(p)
    <2>1. pos + 2 + sb.susp_skip \in Int /\ pos + Iso!Record.len \in Int
      BY <1>2
    <2>2. IsSeq(su)
      BY <2>1, AnySubSeqIsSeq
    <2> HIDE DEF su
    <2> QED  BY <2>2, IsoNewParser, IsoFeeds
  <1> HIDE DEF p
  <1>7. z \in Nat /\ z > pos
    BY <1>2, NextSector
  <1> HIDE DEF z
  <1>8. ASSUME NEW q \in Nat, q > pos, pos' = q, UNCHANGED <<pc, todo, out, ret>> PROVE IsoInv' /\ SafeStep /\ Advances
    <2>1. todo'.pending = <<>> \/ IsoEntry(todo'.pending[1], sb.bs)
      BY <1>2, <1>8 DEF IsoWalk
    <2>2. IsoParser(todo'.rr) /\ IsSeq(out') /\ \A i \in 1..Len(out') : IsoEntry(out'[i], sb.bs)
      BY <1>2, <1>8
    <2>3. pc' = "scan" /\ pos' \in Nat /\ pos' > pos /\ todo'.hops = 0 /\ DOMAIN todo' = DOMAIN todo /\ todo'.buf = todo.buf
      BY <1>1, <1>2, <1>8
    <2> QED  BY <1>1, <1>3, <1>8, <2>1, <2>2, <2>3, IsoTurn
  <1>9. CASE Iso!Record.len # 0 /\ pos' = pos + Iso!Record.len /\ UNCHANGED <<pc, todo, out, ret>>
    <2>1. pos + Iso!Record.len \in Nat /\ pos + Iso!Record.len > pos
      BY <1>2, <1>9
    <2> QED  BY <1>8, <1>9, <2>1
  <1>10. CASE Iso!Return(Iso!Bad("Corrupt")) \/ Iso!Return(Iso!Bad("InvalidPath"))
    BY <1>1, <1>2, <1>10, IsoErrors DEF Iso!Bad, IsoLoops
  <1>11. CASE Iso!Record.len # 0 /\ todo.pending # <<>> /\ Iso!AddExtent
    BY <1>1, <1>5, <1>11, IsoAddsExtent
  <1>12. CASE Iso!Record.len # 0 /\ Iso!Finish(Iso!NewParser)
    BY <1>1, <1>3, <1>5, <1>12, IsoNewParser, IsoFinishes
  <1>13. CASE Iso!Record.len # 0 /\ Iso!Fed(p)
    BY <1>1, <1>3, <1>5, <1>6, <1>13, IsoFeds
  <1> QED  BY <1>4, <1>7, <1>8, <1>9, <1>10, <1>11, <1>12, <1>13

LEMMA IsoContinues ==
    ASSUME fs = "iso9660", fs' = fs, IsoInv, Iso!Continue, UNCHANGED <<img, arg>>
    PROVE  IsoInv' /\ SafeStep /\ Advances
  <1> DEFINE su == Iso!ReadCells(img.disk, Iso!CeAt, Iso!Ce.len).val
             p == Iso!Feed(todo.rr, su)
  <1>1. pc = "ce" /\ UNCHANGED <<sb, nodes, ids>>
    BY DEF Iso!Continue, Iso!Table
  <1>2. pos < Len(todo.buf) /\ Iso!Record.len > 0
    BY <1>1 DEF IsoInv, IsoWalk
  <1>3. /\ IsoWalk /\ Handed(arg.node, ids) /\ todo.hops \in Nat /\ sb.bs \in Nat \ {0} /\ IsoParser(todo.rr)
    BY <1>1, <1>2, IsoStands
  <1>4. \/ Iso!Return(Iso!Bad("Corrupt"))
        \/ ~ todo.hops > MAX_CONTINUATIONS /\ Iso!Fed(p)
    <2> HIDE DEF p
    <2> QED  BY DEF Iso!Continue, Iso!CeRefused, p
  <1>5. IsSeq(su)
    <2> DEFINE a == Iso!CeAt
               l == Iso!Ce.len
               s == SubSeq(img.disk, a + 1, a + l)
               c == todo.rr.next[1]
    <2>1. Iso!Num(c, "block") \in Nat /\ Iso!Num(c, "offset") \in Nat /\ Iso!Num(c, "len") \in Nat
      BY DEF Iso!Num
    <2> HIDE DEF c
    <2>2. Iso!Ce.block \in Nat /\ Iso!Ce.offset \in Nat /\ l \in Nat
      BY <2>1 DEF Iso!Ce, c
    <2>3. a \in Int
      <3>1. Iso!Ce.block * sb.bs \in Nat
        <4> DEFINE b == Iso!Ce.block
        <4> HIDE DEF b
        <4>1. b \in Nat
          BY <2>2 DEF b
        <4>2. b * sb.bs \in Nat
          BY <1>3, <4>1
        <4> QED  BY <4>2 DEF b
      <3> QED  BY <2>2, <3>1 DEF Iso!CeAt
    <2> HIDE DEF a, l
    <2>4. su = s \/ su = <<>>
      BY DEF Iso!ReadCells, Iso!Good, Iso!Bad, a, l
    <2>5. IsSeq(s)
      BY <2>2, <2>3, SubSeqIsSeq
    <2> HIDE DEF s, su
    <2> QED  BY <2>4, <2>5, EmptyIsSeq
  <1> HIDE DEF su
  <1>6. IsoParser(p)
    BY <1>3, <1>5, IsoFeeds
  <1> HIDE DEF p
  <1>7. CASE Iso!Return(Iso!Bad("Corrupt"))
    BY <1>1, <1>3, <1>7, IsoErrors DEF Iso!Bad, IsoLoops
  <1>8. CASE ~ todo.hops > MAX_CONTINUATIONS /\ Iso!Fed(p)
    <2>1. todo.hops <= MAX_CONTINUATIONS
      BY <1>3, <1>8, IsoAssumption
    <2> QED  BY <1>1, <1>2, <1>6, <1>8, <2>1, IsoFeds
  <1> QED  BY <1>4, <1>7, <1>8

LEMMA IsoKept ==
    ASSUME IsSeq(out), NEW bs, \A i \in 1..Len(out) : IsoEntry(out[i], bs), arg.op \in {"read_dir", "lookup"}
    PROVE  /\ IsSeq(Iso!Kept)
           /\ \A i \in 1..Len(Iso!Kept) : IsoEntry(Iso!Kept[i], bs)
           /\ arg.op = "read_dir" => Iso!Kept = out
  <1> DEFINE hits == {i \in 1..Len(out) : out[i].name = arg.name}
  <1>1. Iso!Kept = IF arg.op # "lookup" THEN out ELSE IF hits = {} THEN <<>> ELSE <<out[Min(hits)]>>
    BY DEF Iso!Kept, Iso!Min, Min
  <1>2. CASE hits # {}
    <2>1. Len(out) \in Nat
      BY SeqBasics
    <2>2. hits \subseteq Nat
      BY <2>1
    <2>3. hits \subseteq 1..Len(out)
      OBVIOUS
    <2> HIDE DEF hits
    <2>4. \E i \in hits : \A j \in hits : i <= j
      BY <1>2, <2>2, V!NatLeast
    <2>5. Min(hits) \in hits
      BY <2>4 DEF Min
    <2> DEFINE e == out[Min(hits)]
    <2>6. IsoEntry(e, bs)
      BY <2>3, <2>5
    <2>7. Iso!Kept = IF arg.op # "lookup" THEN out ELSE <<e>>
      BY <1>1, <1>2
    <2> HIDE DEF e
    <2>8. <<e>> \in Seq({e}) /\ Len(<<e>>) = 1 /\ <<e>>[1] = e
      OBVIOUS
    <2>9. IsSeq(<<e>>)
      BY <2>8 DEF IsSeq
    <2>10. \A i \in 1..Len(<<e>>) : IsoEntry(<<e>>[i], bs)
      <3>1. \A i \in 1..Len(<<e>>) : <<e>>[i] = e
        OBVIOUS
      <3> QED  BY <2>6, <3>1
    <2> QED  BY <2>7, <2>9, <2>10
  <1>3. CASE hits = {}
    <2>1. Iso!Kept = IF arg.op # "lookup" THEN out ELSE <<>>
      BY <1>1, <1>3
    <2> QED  BY <2>1, EmptyIsSeq
  <1> QED  BY <1>2, <1>3

(* The table once every entry of es has an id. *)
IsoTabs(es) ==
    LET tab[i \in 0..Len(es)] == IF i = 0 THEN [nodes |-> nodes, ids |-> ids]
                                  ELSE Iso!Interned(tab[i - 1], es[i].inode.key, es[i].inode)
    IN  tab[Len(es)]

LEMMA IsoGivesIds ==
    ASSUME IsoTable, NEW es, IsSeq(es), \A i \in 1..Len(es) : IsoEntry(es[i], sb.bs), NEW t, t = IsoTabs(es)
    PROVE  /\ IsoTabled(t, sb.bs) /\ Extends(ids, t.ids)
           /\ \A i \in 1..Len(es) : es[i].inode.key \in DOMAIN t.ids
  <1> DEFINE a == [nodes |-> nodes, ids |-> ids]
             Is(g, m) == g = [i \in 0..m |-> IF i = 0 THEN a ELSE Iso!Interned(g[i - 1], es[i].inode.key, es[i].inode)]
             n == Len(es)
             tab == CHOOSE g : Is(g, n)
             D == {m \in Nat : \E g : Is(g, m)}
             Fits(u, m) == /\ IsoTabled(u, sb.bs) /\ Extends(ids, u.ids)
                           /\ \A j \in 1..m : es[j].inode.key \in DOMAIN u.ids
  <1>1. t = tab[n]
    BY DEF IsoTabs
  <1>2. n \in Nat
    BY SeqBasics
  <1>3. Fits(a, 0)
    <2>1. a.ids = ids /\ IsoTabled(a, sb.bs)
      BY DEF IsoTable
    <2> HIDE DEF a
    <2> QED  BY <2>1 DEF Extends
  <1> HIDE DEF a
  <1>4. 0 \in D
    <2> DEFINE g == [i \in 0..0 |-> a]
    <2>1. Is(g, 0)
      OBVIOUS
    <2> QED  BY <2>1
  <1>5. ASSUME NEW m \in Nat, m \in D PROVE m + 1 \in D
    <2>1. PICK g : Is(g, m)
      BY <1>5
    <2> DEFINE h == [i \in 0..m + 1 |-> IF i = m + 1 THEN Iso!Interned(g[m], es[m + 1].inode.key, es[m + 1].inode) ELSE g[i]]
    <2>2. ASSUME NEW i \in 0..m + 1 PROVE h[i] = IF i = 0 THEN a ELSE Iso!Interned(h[i - 1], es[i].inode.key, es[i].inode)
      <3>1. CASE i = m + 1
        <4>1. h[i - 1] = g[m] /\ h[i] = Iso!Interned(g[m], es[m + 1].inode.key, es[m + 1].inode)
          BY <3>1
        <4> QED  BY <3>1, <4>1
      <3>2. CASE i # m + 1
        <4>1. i \in 0..m /\ h[i] = g[i] /\ (i # 0 => h[i - 1] = g[i - 1])
          BY <3>2
        <4>2. g[i] = IF i = 0 THEN a ELSE Iso!Interned(g[i - 1], es[i].inode.key, es[i].inode)
          BY <2>1, <4>1
        <4> QED  BY <4>1, <4>2
      <3> QED  BY <3>1, <3>2
    <2>3. h = [i \in 0..m + 1 |-> h[i]]
      OBVIOUS
    <2> HIDE DEF h
    <2>4. Is(h, m + 1)
      BY <2>2, <2>3
    <2> QED  BY <2>4
  <1>6. Is(tab, n)
    <2>1. n \in D
      <3> HIDE DEF D
      <3> QED  BY <1>2, <1>4, <1>5, V!NatInd
    <2>2. \E g : Is(g, n)
      BY <2>1
    <2> HIDE DEF Is
    <2> QED  BY <2>2
  <1> HIDE DEF tab
  <1> DEFINE I == {i \in 0..n : Fits(tab[i], i)}
  <1>7. \A i \in 0..n : tab[i] = IF i = 0 THEN a ELSE Iso!Interned(tab[i - 1], es[i].inode.key, es[i].inode)
    <2> HIDE DEF n
    <2> QED  BY <1>2, <1>6
  <1>8. ASSUME NEW u, NEW m \in 1..n, Fits(u, m - 1), NEW w, w = Iso!Interned(u, es[m].inode.key, es[m].inode) PROVE Fits(w, m)
    <2>1. IsoEntry(es[m], sb.bs) /\ IsoTabled(u, sb.bs)
      BY <1>8
    <2>2. IsoInode(es[m].inode) /\ IsoIs(es[m].inode.key, es[m].inode, sb.bs)
      BY <2>1 DEF IsoEntry
    <2>3. IsoTabled(w, sb.bs) /\ Extends(u.ids, w.ids) /\ DOMAIN w.ids = DOMAIN u.ids \cup {es[m].inode.key} /\ Len(w.nodes) > 0
      BY <1>8, <2>1, <2>2, IsoInterned
    <2>4. Extends(ids, w.ids)
      BY <1>8, <2>3 DEF Extends
    <2>5. \A j \in 1..m : es[j].inode.key \in DOMAIN w.ids
      <3>1. \A j \in 1..m : j = m \/ j \in 1..m - 1
        BY <1>2, <1>8
      <3> QED  BY <1>8, <2>3, <3>1
    <2> QED  BY <2>3, <2>4, <2>5
  <1> HIDE DEF Fits
  <1>9. \A i \in 0..n : i \in I
    <2> HIDE DEF n
    <2>1. 0 \in I
      BY <1>2, <1>3, <1>7
    <2>2. \A i \in 1..n : i - 1 \in I => i \in I
      BY <1>2, <1>7, <1>8
    <2> DEFINE J == {i \in Nat : i <= n => i \in I}
    <2> HIDE DEF I
    <2>3. 0 \in J /\ \A i \in Nat : i \in J => i + 1 \in J
      BY <1>2, <2>1, <2>2
    <2> HIDE DEF J
    <2>4. \A i \in Nat : i \in J
      BY <2>3, V!NatInd
    <2> QED  BY <1>2, <2>4 DEF J
  <1>10. Fits(t, n)
    <2> HIDE DEF n
    <2> QED  BY <1>1, <1>2, <1>9
  <1> QED  BY <1>10 DEF Fits

LEMMA IsoScanDone ==
    ASSUME fs = "iso9660", IsoInv, Iso!ScanDone, UNCHANGED <<img, arg>>
    PROVE  IsoInv' /\ SafeStep /\ Advances
  <1> DEFINE kept == Iso!Kept
             t == IsoTabs(kept)
             found == [i \in DOMAIN kept |-> t.ids[kept[i].inode.key]]
             listing == [i \in DOMAIN out |-> [name |-> out[i].name, kind |-> out[i].inode.kind, node |-> t.ids[out[i].inode.key]]]
             r == Iso!Good(IF arg.op = "lookup" THEN found ELSE listing)
  <1>1. pc = "scan"
    BY DEF Iso!ScanDone
  <1>2. \/ Iso!Return(Iso!Bad("Corrupt")) /\ UNCHANGED <<sb, nodes, ids>>
        \/ nodes' = t.nodes /\ ids' = t.ids /\ Iso!Return(r) /\ UNCHANGED sb
    BY DEF Iso!ScanDone, Iso!Table, IsoTabs
  <1>3. IsoWalk /\ IsoTable /\ Handed(arg.node, ids) /\ pc \in IsoLoops
    BY <1>1 DEF IsoInv, IsoLoops
  <1>4. Busy /\ WellAsked(arg)
    BY <1>3, IsoAsked
  <1>5. arg.op \in {"read_dir", "lookup"} /\ IsSeq(out) /\ \A i \in 1..Len(out) : IsoEntry(out[i], sb.bs)
    BY <1>3 DEF IsoWalk
  <1>6. /\ IsSeq(kept)
        /\ \A i \in 1..Len(kept) : IsoEntry(kept[i], sb.bs)
        /\ arg.op = "read_dir" => kept = out
    BY <1>5, IsoKept
  <1> HIDE DEF kept
  <1>7. /\ IsoTabled(t, sb.bs) /\ Extends(ids, t.ids)
        /\ \A i \in 1..Len(kept) : kept[i].inode.key \in DOMAIN t.ids
    BY <1>3, <1>6, IsoGivesIds
  <1> HIDE DEF t
  <1>8. CASE Iso!Return(Iso!Bad("Corrupt")) /\ UNCHANGED <<sb, nodes, ids>>
    BY <1>3, <1>8, IsoErrors DEF Iso!Bad
  <1>9. CASE nodes' = t.nodes /\ ids' = t.ids /\ Iso!Return(r) /\ UNCHANGED sb
    <2>1. sb.bs \in Nat \ {0} /\ sb.susp_skip \in Nat
      BY <1>3, IsoNodes
    <2>2. IsoTable'
      BY <1>3, <1>7, <1>9, <2>1, IsoNewTable DEF IsoTable
    <2>3. Tabled(nodes', ids')
      BY <1>7, <1>9 DEF IsoTabled
    <2>4. GrowsTo(ids, ids') /\ Handed(arg.node, ids')
      BY <1>3, <1>7, <1>9, <2>3, HandedStill DEF GrowsTo, Tabled
    <2>5. Len(nodes') > 0
      <3>1. arg.node \in 0..Len(nodes') - 1
        BY <2>3, <2>4, TabledHanded
      <3> QED  BY <3>1
    <2>6. \A i \in DOMAIN kept : Handed(t.ids[kept[i].inode.key], ids')
      BY <1>6, <1>7, <1>9, SeqBasics DEF Handed
    <2>7. r.err # "NotFound" /\ r.val = IF arg.op = "lookup" THEN found ELSE listing
      <3> HIDE DEF found, listing
      <3> QED  BY DEF Iso!Good
    <2>8. arg.op = "lookup" => \A i \in DOMAIN r.val : Handed(r.val[i], ids')
      BY <2>6, <2>7
    <2>9. arg.op = "read_dir" => \A i \in DOMAIN r.val : Handed(r.val[i].node, ids')
      <3> SUFFICES ASSUME arg.op = "read_dir" PROVE \A i \in DOMAIN r.val : Handed(r.val[i].node, ids')
        OBVIOUS
      <3>1. \A i \in DOMAIN out : Handed(t.ids[out[i].inode.key], ids')
        BY <1>6, <2>6
      <3> HIDE DEF r
      <3> QED  BY <2>7, <3>1
    <2> HIDE DEF r
    <2>10. ProperReply(r, ids')
      BY <1>5, <2>4, <2>7, <2>8, <2>9 DEF ProperReply, SaneReply
    <2>11. SafeStep /\ Advances /\ Rested("idle")
      BY <1>4, <1>9, <2>4, <2>10, IsoShared, ReplyStep
    <2> QED  BY <2>2, <2>5, <2>11, IsoRested
  <1> QED  BY <1>2, <1>8, <1>9

(* What is wanted of a file: some of it, and no more than was asked for. *)
LEMMA IsoWants ==
    ASSUME IsoInode(Iso!Inode), arg.off \in Nat, arg.len \in Nat
    PROVE  /\ Iso!Size \in Nat
           /\ arg.off < Iso!Size => Iso!Want \in Nat /\ Iso!Want <= arg.len
  <1>1. Iso!Size \in Nat
    BY DEF Iso!Size, IsoInode, IsoZf
  <1> QED  BY <1>1 DEF Iso!Want, Iso!LeastOf

LEMMA IsoSameWindow ==
    ASSUME UNCHANGED <<arg, nodes>>
    PROVE  Iso!Size' = Iso!Size /\ Iso!Want' = Iso!Want /\ Iso!Cur' = arg.off + Len(out') /\ Iso!Inode' = Iso!Inode
  BY DEF Iso!Size, Iso!Want, Iso!Inode, Iso!LeastOf, Iso!Cur

LEMMA IsoReadsAt ==
    ASSUME fs = "iso9660", IsoInv, Iso!ReadAt, UNCHANGED <<img, arg>>
    PROVE  IsoInv' /\ SafeStep /\ Advances
  <1> DEFINE v == Iso!Inode
             n == Iso!CeilDiv(Iso!Size, Iso!ZBlockSize)
             head == Iso!ReadCells(img.disk, Iso!Inode.lba * sb.bs, n + 2)
  <1>1. pc = "read_at" /\ pc \in Ops /\ UNCHANGED <<sb, nodes, ids>>
    BY DEF Iso!ReadAt, Ops, Iso!Table
  <1>2. \/ arg.node \notin Iso!Ids /\ Iso!Return(Iso!Bad("NotFound"))
        \/ arg.node \in Iso!Ids /\ Iso!Return(Iso!Bad("IsDirectory"))
        \/ arg.node \in Iso!Ids /\ Iso!Return(Iso!Good(<<>>))
        \/ arg.node \in Iso!Ids /\ ~ arg.off >= Iso!Size /\ v.zf # <<>> /\ Iso!ReadZisofs
        \/ arg.node \in Iso!Ids /\ ~ arg.off >= Iso!Size /\ Iso!Loop("file", v.extents, 0)
    BY DEF Iso!ReadAt
  <1>3. /\ WellAsked(arg) /\ IsoTable /\ arg.op = pc /\ todo = <<>> /\ out = <<>>
        /\ Handed(arg.node, ids) <=> arg.node \in Iso!Ids
    BY <1>1, IsoAsked
  <1>4. arg.off \in Nat /\ arg.len \in Nat
    BY <1>1, <1>3 DEF WellAsked
  <1>5. arg.node \in Iso!Ids => IsoInode(v)
    BY <1>3, IsoNodes, IsoShared
  <1>6. arg.node \in Iso!Ids => Iso!Size \in Nat /\ (arg.off < Iso!Size => Iso!Want \in Nat /\ Iso!Want <= arg.len)
    BY <1>4, <1>5, IsoWants
  <1>7. ASSUME NEW r, Iso!Return(r), r.val = <<>>, IF Handed(arg.node, ids) THEN r.err # "NotFound" ELSE r.err = "NotFound"
        PROVE  IsoInv' /\ SafeStep /\ Advances
    BY <1>1, <1>7, IsoErrors
  <1>8. ASSUME arg.node \in Iso!Ids, ~ arg.off >= Iso!Size, pc' \in {"file", "zblock"}, pos' \in Nat, UNCHANGED <<out, ret>>,
               pc' = "file" => IsExtents(todo') /\ pos' = 0, pc' = "zblock" => v.zf # <<>> /\ v.zf[1].log2 \in 0..30
        PROVE  IsoInv' /\ SafeStep /\ Advances
    <2>1. Iso!Size' = Iso!Size /\ Iso!Want' = Iso!Want /\ Iso!Cur' = arg.off + Len(out') /\ Iso!Inode' = v
      BY <1>1, IsoSameWindow
    <2>2. IsSeq(out') /\ Len(out') = 0
      BY <1>3, <1>8, EmptyIsSeq
    <2>3. arg.off < Iso!Size /\ Iso!Want \in Nat
      BY <1>4, <1>6, <1>8
    <2> HIDE DEF v
    <2>4. IsoWindow'
      BY <1>1, <1>3, <1>4, <1>8, <2>1, <2>2, <2>3 DEF IsoWindow, IsExtents, IsSeq
    <2>5. IsoInv' /\ SafeStep
      BY <1>1, <1>3, <1>8, <2>4, IsoGoesOn DEF IsoLoops
    <2>6. Advances
      BY <1>1, <1>3, <1>8, IntoLoop DEF Loops
    <2> QED  BY <2>5, <2>6
  <1>9. CASE arg.node \in Iso!Ids /\ ~ arg.off >= Iso!Size /\ Iso!Loop("file", v.extents, 0)
    <2>1. IsExtents(v.extents)
      BY <1>5, <1>9 DEF IsoInode
    <2> HIDE DEF v
    <2> QED  BY <1>8, <1>9, <2>1 DEF Iso!Loop
  <1>10. CASE arg.node \in Iso!Ids /\ ~ arg.off >= Iso!Size /\ v.zf # <<>> /\ Iso!ReadZisofs
    <2>1. \/ Iso!Return(Iso!Bad("Corrupt")) \/ Iso!Return(Iso!Bad("FileTooLarge"))
          \/ head.err # "none" /\ Iso!Return(head)
          \/ ~ v.zf[1].log2 >= 31 /\ Iso!Loop("zblock", Tail(head.val), arg.off)
      <3> HIDE DEF head
      <3> QED  BY <1>10, IsoShared DEF Iso!ReadZisofs, head
    <2>2. Sound(head)
      BY DEF Iso!ReadCells, Iso!Good, Iso!Bad, Sound
    <2> HIDE DEF head
    <2>3. v.zf[1].log2 \in Nat
      BY <1>5, <1>10 DEF IsoInode, IsoZf
    <2>4. CASE ~ v.zf[1].log2 >= 31 /\ Iso!Loop("zblock", Tail(head.val), arg.off)
      <3>1. v.zf[1].log2 \in 0..30
        BY <2>3, <2>4
      <3> HIDE DEF v
      <3> QED  BY <1>4, <1>8, <1>10, <2>4, <3>1 DEF Iso!Loop
    <2>5. CASE head.err # "none" /\ Iso!Return(head)
      BY <1>3, <1>7, <1>10, <2>2, <2>5 DEF Sound
    <2>6. CASE Iso!Return(Iso!Bad("Corrupt")) \/ Iso!Return(Iso!Bad("FileTooLarge"))
      BY <1>3, <1>7, <1>10, <2>6 DEF Iso!Bad
    <2> QED  BY <2>1, <2>4, <2>5, <2>6
  <1>11. CASE arg.node \notin Iso!Ids /\ Iso!Return(Iso!Bad("NotFound"))
    BY <1>3, <1>7, <1>11 DEF Iso!Bad
  <1>12. CASE arg.node \in Iso!Ids /\ (Iso!Return(Iso!Bad("IsDirectory")) \/ Iso!Return(Iso!Good(<<>>)))
    BY <1>3, <1>7, <1>12 DEF Iso!Bad, Iso!Good
  <1> QED  BY <1>2, <1>9, <1>10, <1>11, <1>12

LEMMA IsoBytes == ASSUME NEW c, IsSeq(c) PROVE IsSeq(Iso!Bytes(c)) /\ Len(Iso!Bytes(c)) = Len(c)
  <1> DEFINE b == Iso!Bytes(c)
  <1>1. Len(c) \in Nat /\ DOMAIN c = 1..Len(c)
    BY SeqBasics
  <1>2. b = [i \in 1..Len(c) |-> b[i]]
    BY <1>1 DEF Iso!Bytes
  <1> HIDE DEF b
  <1>3. IsSeq(b) /\ Len(b) = Len(c)
    BY <1>1, <1>2, FcnIsSeq
  <1> QED  BY <1>3 DEF b

LEMMA IsoReadsCells ==
    ASSUME NEW at \in Int, NEW n \in Nat
    PROVE  Pieces(Iso!ReadCells(img.disk, at, n), n)
  <1> DEFINE q == SubSeq(img.disk, at + 1, at + n)
  <1>1. /\ IsSeq(q)
        /\ Len(q) = n
    BY SubSeqIsSeq
  <1>2. \/ Iso!ReadCells(img.disk, at, n) = Iso!Bad("OutOfRange")
        \/ Iso!ReadCells(img.disk, at, n) = Iso!Good(q)
    BY DEF Iso!ReadCells
  <1> HIDE DEF q
  <1> QED  BY <1>1, <1>2 DEF Pieces, Sound, Iso!Bad, Iso!Good

(* A turn of the loops that gather a window of a file. *)
LEMMA IsoGathers ==
    ASSUME fs = "iso9660", fs' = fs, IsoInv, pc \in {"file", "zblock"}, UNCHANGED <<img, arg, sb, nodes, ids, pc, ret>>,
           pos' \in Nat, IsSeq(out'), Len(out') <= Iso!Want,
           pc = "file" => IsExtents(todo') /\ (Len(out') < Iso!Want => pos' <= arg.off + Len(out')),
           Fuel > 0, Fuel' < Fuel
    PROVE  IsoInv' /\ SafeStep /\ Advances
  <1>1. IsoWindow /\ Handed(arg.node, ids) /\ pc \in IsoLoops
    BY DEF IsoInv, IsoLoops
  <1>2. Iso!Size' = Iso!Size /\ Iso!Want' = Iso!Want /\ Iso!Cur' = arg.off + Len(out') /\ Iso!Inode' = Iso!Inode
    BY IsoSameWindow
  <1>3. IsoWindow'
    BY <1>1, <1>2 DEF IsoWindow, IsExtents, IsSeq
  <1>4. IsoInv' /\ SafeStep
    BY <1>1, <1>3, IsoGoesOn
  <1>5. Advances
    BY <1>1, LoopTurn DEF Loops, IsoLoops
  <1> QED  BY <1>4, <1>5

LEMMA IsoReadExtent ==
    ASSUME fs = "iso9660", fs' = fs, IsoInv, Iso!ReadExtent, UNCHANGED <<img, arg>>
    PROVE  IsoInv' /\ SafeStep /\ Advances
  <1> DEFINE e == Head(todo)
             w == Iso!Want
             c == Iso!Cur
             n == Iso!Take
             at == e.lba * sb.bs + c - pos
             r == Iso!ReadCells(img.disk, at, n)
  <1>1. pc = "file" /\ pc \in IsoLoops /\ UNCHANGED <<sb, nodes, ids>> /\ todo # <<>> /\ Len(out) # w
        /\ Handed(arg.node, ids) /\ IsoTable /\ IsSeq(out) /\ Len(out) <= w /\ IsExtents(todo) /\ arg.op = "read_at"
        /\ arg.off < Iso!Size /\ pos \in Nat /\ (Len(out) < w => pos <= c)
    BY DEF Iso!ReadExtent, IsoInv, IsoWindow, Iso!Table, IsoLoops
  <1>2. \/ Iso!InExtent /\ r.err # "none" /\ Iso!Return(r)
        \/ /\ Iso!InExtent /\ r.err = "none" /\ out' = out \o Iso!Bytes(r.val)
           /\ pos' = pos + e.len /\ todo' = Tail(todo) /\ UNCHANGED <<pc, ret>>
        \/ ~ Iso!InExtent /\ out' = out /\ pos' = pos + e.len /\ todo' = Tail(todo) /\ UNCHANGED <<pc, ret>>
    <2> HIDE DEF r, e, n, c, w
    <2> QED  BY IsoShared DEF Iso!ReadExtent, r, e, n, c, w
  <1>3. WellAsked(arg) /\ sb.bs \in Nat \ {0} /\ IsoInode(Iso!Inode)
    BY <1>1, IsoAsked, IsoNodes, IsoShared
  <1>4. arg.off \in Nat /\ arg.len \in Nat /\ w \in Nat
    BY <1>1, <1>3, IsoWants DEF WellAsked
  <1>5. IsSeq(Tail(todo)) /\ Len(Tail(todo)) = Len(todo) - 1 /\ Len(todo) > 0 /\ Len(todo) \in Nat /\ e = todo[1]
        /\ \A i \in 1..Len(todo) - 1 : Tail(todo)[i] = todo[i + 1]
    BY <1>1, TailIsSeq, SeqBasics DEF IsExtents
  <1>6. e.lba \in Nat \cup {-1} /\ e.len \in Nat /\ e.lba \in Int
    BY <1>1, <1>5 DEF IsExtents
  <1>7. Len(out) \in Nat /\ c = arg.off + Len(out) /\ c \in Nat
    BY <1>1, <1>4, SeqBasics DEF Iso!Cur
  <1>8. Iso!InExtent <=> c < pos + e.len
    BY DEF Iso!InExtent
  <1>9. n = IF w - Len(out) < e.len - (c - pos) THEN w - Len(out) ELSE e.len - (c - pos)
    BY DEF Iso!Take, Iso!LeastOf
  <1> HIDE DEF e, w, c, n
  <1>10. Len(out) < w /\ pos <= c /\ at \in Int
    <2>1. e.lba * sb.bs \in Int
      BY <1>3, <1>6
    <2> QED  BY <1>1, <1>4, <1>7, <2>1
  <1>11. Iso!InExtent => n \in Nat /\ n <= w - Len(out) /\ (Len(out) + n < w => pos + e.len <= c + n)
    <2>1. e.len \in Int /\ c \in Int /\ pos \in Int /\ w \in Int /\ Len(out) \in Int
      BY <1>1, <1>4, <1>6, <1>7
    <2>2. n \in Int /\ n = IF e.len - (c - pos) < w - Len(out) THEN e.len - (c - pos) ELSE w - Len(out)
      BY <1>9, <2>1
    <2>3. Iso!InExtent => n >= 0 /\ n <= w - Len(out) /\ (Len(out) + n < w => pos + e.len <= c + n)
      BY <1>8, <1>10, <2>1, <2>2, UdfTakes
    <2> QED  BY <2>2, <2>3
  <1>12. Iso!InExtent => Pieces(r, n)
    <2> HIDE DEF at
    <2> QED  BY <1>10, <1>11, IsoReadsCells
  <1> HIDE DEF r
  <1>13. CASE Iso!InExtent /\ r.err # "none" /\ Iso!Return(r)
    BY <1>1, <1>12, <1>13, IsoErrors DEF Pieces, Sound
  <1>14. ASSUME NEW m \in Nat, IsSeq(out'), Len(out') = Len(out) + m, m <= w - Len(out),
                Len(out) + m < w => pos + e.len <= c + m,
                pos' = pos + e.len, todo' = Tail(todo), UNCHANGED <<pc, ret>>
         PROVE  IsoInv' /\ SafeStep /\ Advances
    <2>1. IsExtents(todo')
      BY <1>1, <1>5, <1>14 DEF IsExtents
    <2>2. Len(out') <= w /\ pos' \in Nat
      BY <1>1, <1>4, <1>6, <1>7, <1>14
    <2>3. Len(out') < w => pos' <= arg.off + Len(out')
      BY <1>4, <1>6, <1>7, <1>14
    <2>4. Fuel = Len(todo) /\ Fuel' = Len(todo')
      BY <1>1, <1>14 DEF Fuel, Iso!Fuel
    <2>5. Fuel > 0 /\ Fuel' < Fuel
      BY <1>5, <1>14, <2>4
    <2> QED  BY <1>1, <1>14, <2>1, <2>2, <2>3, <2>5, IsoGathers DEF w
  <1>15. CASE Iso!InExtent /\ r.err = "none" /\ out' = out \o Iso!Bytes(r.val)
              /\ pos' = pos + e.len /\ todo' = Tail(todo) /\ UNCHANGED <<pc, ret>>
    <2> DEFINE b == Iso!Bytes(r.val)
    <2>1. IsSeq(b) /\ Len(b) = n
      BY <1>12, <1>15, IsoBytes DEF Pieces
    <2> HIDE DEF b
    <2>2. /\ IsSeq(out \o b)
          /\ Len(out \o b) = Len(out) + Len(b)
      BY <1>1, <2>1, ConcatIsSeq
    <2>3. IsSeq(out') /\ Len(out') = Len(out) + n
      BY <1>15, <2>1, <2>2 DEF b
    <2>4. n \in Nat /\ n <= w - Len(out) /\ (Len(out) + n < w => pos + e.len <= c + n)
      BY <1>11, <1>15
    <2> QED  BY <1>14, <1>15, <2>3, <2>4
  <1>16. CASE ~ Iso!InExtent /\ out' = out /\ pos' = pos + e.len /\ todo' = Tail(todo) /\ UNCHANGED <<pc, ret>>
    <2>1. pos + e.len <= c + 0 /\ 0 <= w - Len(out) /\ Len(out') = Len(out) + 0 /\ IsSeq(out')
      BY <1>1, <1>4, <1>6, <1>7, <1>8, <1>16
    <2> QED  BY <1>14, <1>16, <2>1
  <1> QED  BY <1>2, <1>13, <1>15, <1>16

LEMMA PowersOfTwo == \A k \in 0..30 : 2 ^ k \in Nat \ {0}
  <1> DEFINE Z == Nat \ {0}
  <1> SUFFICES ASSUME NEW k \in 0..30 PROVE 2 ^ k \in Z
    OBVIOUS
  <1>1. /\ 2 ^ 0 \in Z /\ 2 ^ 1 \in Z /\ 2 ^ 2 \in Z /\ 2 ^ 3 \in Z /\ 2 ^ 4 \in Z /\ 2 ^ 5 \in Z /\ 2 ^ 6 \in Z /\ 2 ^ 7 \in Z
        /\ 2 ^ 8 \in Z /\ 2 ^ 9 \in Z /\ 2 ^ 10 \in Z /\ 2 ^ 11 \in Z /\ 2 ^ 12 \in Z /\ 2 ^ 13 \in Z /\ 2 ^ 14 \in Z
        /\ 2 ^ 15 \in Z /\ 2 ^ 16 \in Z /\ 2 ^ 17 \in Z /\ 2 ^ 18 \in Z /\ 2 ^ 19 \in Z /\ 2 ^ 20 \in Z /\ 2 ^ 21 \in Z
        /\ 2 ^ 22 \in Z /\ 2 ^ 23 \in Z /\ 2 ^ 24 \in Z /\ 2 ^ 25 \in Z /\ 2 ^ 26 \in Z /\ 2 ^ 27 \in Z /\ 2 ^ 28 \in Z
        /\ 2 ^ 29 \in Z /\ 2 ^ 30 \in Z
    OBVIOUS
  <1>2. k \in {0, 1, 2, 3, 4, 5, 6, 7, 8, 9, 10, 11, 12, 13, 14, 15, 16, 17, 18, 19, 20, 21, 22, 23, 24, 25, 26, 27, 28, 29, 30}
    OBVIOUS
  <1> HIDE DEF Z
  <1> QED  BY <1>1, <1>2, Zenon

LEMMA ZerosAreSeq == ASSUME NEW n \in Int PROVE IsSeq([i \in 1..n |-> 0])
  <1> DEFINE z == [i \in 1..n |-> 0]
  <1>1. CASE n \in Nat
    <2>1. z \in Seq({0})
      BY <1>1
    <2> QED  BY <2>1 DEF IsSeq
  <1>2. CASE n \notin Nat
    <2>1. z = <<>>
      BY <1>2
    <2> HIDE DEF z
    <2>2. IsSeq(z)
      BY <2>1, EmptyIsSeq
    <2> QED  BY <2>2 DEF z
  <1> QED  BY <1>1, <1>2

LEMMA IsoDecodes ==
    ASSUME NEW raw, NEW n, Iso!IsByte(raw[1]) => IsSeq(raw[1].of)
    PROVE  /\ Sound(Iso!Decode(raw, n))
           /\ Iso!Decode(raw, n).err = "none" => IsSeq(Iso!Decode(raw, n).val)
  BY DEF Iso!Decode, Iso!Good, Iso!Bad, Sound

(* What a block of a zisofs file inflates to. *)
LEMMA IsoInflated ==
    ASSUME img \in Images.iso9660, Iso!ZBlockSize \in Nat \ {0}, Iso!Size \in Nat, Iso!ZBase \in Nat,
           sb.bs \in Nat \ {0}, IsoInode(Iso!Inode)
    PROVE  Sound(Iso!Inflated) /\ (Iso!Inflated.err = "none" => IsSeq(Iso!Inflated.val))
  <1> DEFINE want == Iso!LeastOf(Iso!ZBlockSize, Iso!Size - Iso!ZBase)
             zeros == [i \in 1..want |-> 0]
             lba == Iso!Inode.lba
             at == lba * sb.bs + Iso!ZStart
             n == Iso!ZEnd - Iso!ZStart
             r == Iso!ReadCells(img.disk, at, n)
             q == SubSeq(img.disk, at + 1, at + n)
             d == Iso!Decode(r.val, want)
  <1>1. want \in Int
    BY DEF Iso!LeastOf
  <1>2. Iso!ZStart \in Nat /\ Iso!ZEnd \in Nat
    BY DEF Iso!ZStart, Iso!ZEnd, Iso!Num
  <1>3. at \in Nat
    <2>1. lba \in Nat
      BY DEF IsoInode
    <2> HIDE DEF lba
    <2>2. lba * sb.bs \in Nat
      BY <2>1
    <2> QED  BY <1>2, <2>2
  <1>4. \/ Iso!Inflated = Iso!Good(zeros)
        \/ Iso!Inflated = Iso!Bad("FileTooLarge")
        \/ r.err # "none" /\ Iso!Inflated = r
        \/ ~ Iso!ZEnd <= Iso!ZStart /\ r.err = "none" /\ Iso!Inflated = d
    <2> HIDE DEF r
    <2> QED  BY IsoShared DEF Iso!Inflated, Iso!ZIsHole, r
  <1>5. IsSeq(zeros)
    <2> HIDE DEF want
    <2> QED  BY <1>1, ZerosAreSeq
  <1>6. n \in Int
    BY <1>2
  <1> HIDE DEF at, n, want, zeros
  <1>7. Sound(r)
    BY DEF Iso!ReadCells, Sound, Iso!Good, Iso!Bad
  <1>8. ASSUME n > 0, r.err = "none" PROVE Sound(d) /\ (d.err = "none" => IsSeq(d.val))
    <2>1. at + n <= Len(img.disk) /\ Len(img.disk) \in Nat /\ IsDisk(img.disk) /\ r.val = q
      <3>1. IsDisk(img.disk) /\ Len(img.disk) \in Nat
        BY DisksAssumption DEF IsDisk, IsDevice
      <3>2. at + n \in Int
        BY <1>3, <1>6
      <3>3. \/ at + n > Len(img.disk) /\ r = Iso!Bad("OutOfRange")
            \/ ~ at + n > Len(img.disk) /\ r = Iso!Good(q)
        BY DEF Iso!ReadCells
      <3> HIDE DEF r, q
      <3>4. ~ at + n > Len(img.disk) /\ r.val = q
        BY <1>8, <3>3 DEF Iso!Bad, Iso!Good
      <3> QED  BY <3>1, <3>2, <3>4
    <2>2. n \in Nat /\ 1 \in 1..n /\ at + 1 \in 1..Len(img.disk) /\ at \in Int
      BY <1>3, <1>6, <1>8, <2>1
    <2>3. /\ IsSeq(q)
          /\ Len(q) = n
          /\ \A i \in 1..n : q[i] = img.disk[at + i]
      BY <2>2, SubSeqIsSeq
    <2>4. q[1] = img.disk[at + 1] /\ at + 1 \in DOMAIN img.disk
      BY <2>1, <2>2, <2>3 DEF IsDisk, IsDevice
    <2> HIDE DEF q, r
    <2>5. Iso!IsByte(r.val[1]) => IsSeq(r.val[1].of)
      BY <2>1, <2>4, DeviceIsSeq DEF IsDisk, Iso!IsByte
    <2> QED  BY <2>5, IsoDecodes
  <1>9. ~ Iso!ZEnd <= Iso!ZStart => n > 0
    BY <1>2 DEF n
  <1> HIDE DEF r, d
  <1> QED  BY <1>4, <1>5, <1>7, <1>8, <1>9 DEF Sound, Iso!Good, Iso!Bad

LEMMA IsoInflatesBlock ==
    ASSUME fs = "iso9660", fs' = fs, IsoInv, Iso!InflateBlock, UNCHANGED <<img, arg>>
    PROVE  IsoInv' /\ SafeStep /\ Advances
  <1> DEFINE w == Iso!Want
             b == Iso!ZBase
             f == Iso!Inflated
             piece == SubSeq(f.val, pos - b + 1, Iso!LeastOf(Len(f.val), pos - b + w - Len(out)))
  <1>1. pc = "zblock" /\ pc \in IsoLoops /\ UNCHANGED <<sb, nodes, ids>> /\ Len(out) < w
        /\ Handed(arg.node, ids) /\ IsoTable /\ IsSeq(out) /\ Len(out) <= w /\ arg.op = "read_at"
        /\ arg.off < Iso!Size /\ pos \in Nat /\ Iso!Inode.zf # <<>> /\ Iso!Inode.zf[1].log2 \in 0..30
    BY DEF Iso!InflateBlock, IsoInv, IsoWindow, Iso!Table, IsoLoops
  <1>2. \/ f.err # "none" /\ Iso!Return(f)
        \/ f.err = "none" /\ piece = <<>> /\ Iso!Return(Iso!Good(out))
        \/ f.err = "none" /\ piece # <<>> /\ out' = out \o piece /\ pos' = pos + Len(piece) /\ UNCHANGED <<pc, todo, ret>>
    <2> HIDE DEF f, w, b
    <2> QED  BY IsoShared DEF Iso!InflateBlock, f, w, b
  <1>3. WellAsked(arg) /\ sb.bs \in Nat \ {0} /\ IsoInode(Iso!Inode)
    BY <1>1, IsoAsked, IsoNodes, IsoShared
  <1>4. arg.off \in Nat /\ arg.len \in Nat /\ w \in Nat /\ Iso!Size \in Nat /\ w <= arg.len
    BY <1>1, <1>3, IsoWants DEF WellAsked
  <1>5. Iso!ZBlockSize \in Nat \ {0}
    <2> DEFINE k == Iso!Inode.zf[1].log2
    <2>1. k \in 0..30
      BY <1>1
    <2> HIDE DEF k
    <2>2. 2 ^ k \in Nat \ {0}
      BY <2>1, PowersOfTwo
    <2> QED  BY <2>2 DEF k, Iso!ZBlockSize
  <1>6. b \in Nat /\ b <= pos
    <2> DEFINE z == Iso!ZBlockSize
    <2>1. z \in Nat \ {0} /\ b = (pos \div z) * z
      BY <1>5 DEF Iso!ZBase
    <2> HIDE DEF z, b
    <2>2. pos \div z \in Nat /\ z * (pos \div z) <= pos
      BY <1>1, <2>1, V!DivMod
    <2>3. (pos \div z) * z = z * (pos \div z) /\ z * (pos \div z) \in Nat
      BY <2>1, <2>2
    <2> QED  BY <2>1, <2>2, <2>3
  <1>7. Sound(f) /\ (f.err = "none" => IsSeq(f.val))
    BY <1>1, <1>3, <1>4, <1>5, <1>6, IsoInflated DEF IsoTable
  <1>8. Len(out) \in Nat
    BY <1>1, SeqBasics
  <1> HIDE DEF w, b, f
  <1>9. f.err = "none" => IsSeq(piece) /\ Len(piece) <= w - Len(out)
    <2> SUFFICES ASSUME f.err = "none" PROVE IsSeq(piece) /\ Len(piece) <= w - Len(out)
      OBVIOUS
    <2> DEFINE off == pos - b
               len == w - Len(out)
               end == IF Len(f.val) < off + len THEN Len(f.val) ELSE off + len
    <2>1. off \in Nat /\ len \in Nat /\ Len(f.val) \in Nat
      BY <1>1, <1>4, <1>6, <1>7, <1>8, SeqBasics
    <2>2. end \in Int /\ off + 1 \in Int
      BY <2>1
    <2>3. piece = SubSeq(f.val, off + 1, end)
      <3>1. pos - b + w - Len(out) = off + len
        BY <1>1, <1>4, <1>6, <1>8
      <3> QED  BY <3>1 DEF Iso!LeastOf
    <2> HIDE DEF off, len, piece
    <2>4. Len(SubSeq(f.val, off + 1, end)) <= len
      BY <1>7, <2>1, WindowLen
    <2>5. IsSeq(SubSeq(f.val, off + 1, end))
      <3> HIDE DEF end
      <3> QED  BY <2>2, AnySubSeqIsSeq
    <2> QED  BY <2>3, <2>4, <2>5 DEF len
  <1> HIDE DEF piece
  <1>10. CASE f.err # "none" /\ Iso!Return(f)
    BY <1>1, <1>7, <1>10, IsoErrors DEF Sound
  <1>11. CASE f.err = "none" /\ piece = <<>> /\ Iso!Return(Iso!Good(out))
    <2>1. Len(out) <= arg.len
      BY <1>1, <1>4, <1>8
    <2>2. ProperReply(Iso!Good(out), ids)
      BY <1>1, <2>1 DEF ProperReply, SaneReply, Iso!Good
    <2> QED  BY <1>1, <1>11, <2>2, IsoReplies
  <1>12. CASE f.err = "none" /\ piece # <<>> /\ out' = out \o piece /\ pos' = pos + Len(piece) /\ UNCHANGED <<pc, todo, ret>>
    <2>1. IsSeq(piece) /\ Len(piece) <= w - Len(out) /\ Len(piece) \in Nat /\ Len(piece) > 0
      BY <1>9, <1>12, SeqBasics, TailIsSeq
    <2>2. /\ IsSeq(out \o piece)
          /\ Len(out \o piece) = Len(out) + Len(piece)
      BY <1>1, <2>1, ConcatIsSeq
    <2>3. IsSeq(out') /\ Len(out') <= w /\ pos' \in Nat /\ Len(out') = Len(out) + Len(piece)
      BY <1>1, <1>4, <1>8, <1>12, <2>1, <2>2
    <2>4. Iso!Want' = w
      BY <1>1, IsoSameWindow DEF w
    <2>5. Fuel = w - Len(out) /\ Fuel' = w - Len(out')
      BY <1>1, <1>12, <2>4 DEF Fuel, Iso!Fuel, w
    <2>6. Fuel > 0 /\ Fuel' < Fuel
      BY <1>1, <1>4, <1>8, <2>1, <2>3, <2>5
    <2> QED  BY <1>1, <1>12, <2>3, <2>6, IsoGathers DEF w
  <1> QED  BY <1>2, <1>10, <1>11, <1>12

LEMMA IsoAnswers ==
    ASSUME fs = "iso9660", IsoInv, UNCHANGED <<img, arg>>,
           Iso!GetMetadata \/ Iso!ReadLink \/ Iso!ExtentsDone \/ Iso!BlocksDone \/ Iso!Uefi
    PROVE  IsoInv' /\ SafeStep /\ Advances
  <1>1. pc \in {"metadata", "read_link", "file", "zblock", "uefi"} /\ pc \in Ops \cup IsoLoops /\ UNCHANGED <<sb, nodes, ids>>
    BY DEF Iso!GetMetadata, Iso!ReadLink, Iso!ExtentsDone, Iso!BlocksDone, Iso!Uefi, Iso!Table, Ops, IsoLoops
  <1>2. /\ WellAsked(arg) /\ IsoTable /\ (pc \in Ops => arg.op = pc)
        /\ Handed(arg.node, ids) <=> arg.node \in Iso!Ids
    BY <1>1, IsoAsked
  <1>3. ASSUME NEW r, Iso!Return(r), ProperReply(r, ids) PROVE IsoInv' /\ SafeStep /\ Advances
    BY <1>1, <1>3, IsoReplies
  <1>4. ~ Handed(arg.node, ids) => ProperReply(Iso!Bad("NotFound"), ids)
    BY <1>2, ErrorReply DEF Iso!Bad
  <1>5. CASE Iso!GetMetadata
    <2> DEFINE v == <<Iso!Inode.kind, IF Iso!Inode.zf = <<>> THEN Iso!Inode.size ELSE Iso!Inode.zf[1].usize>>
    <2>1. arg.op = "metadata" /\ Iso!Return(IF arg.node \notin Iso!Ids THEN Iso!Bad("NotFound") ELSE Iso!Good(v))
      BY <1>2, <1>5 DEF Iso!GetMetadata, Ops
    <2> HIDE DEF v
    <2>2. arg.node \in Iso!Ids => ProperReply(Iso!Good(v), ids)
      BY <1>2, <2>1 DEF ProperReply, SaneReply, Iso!Good
    <2> QED  BY <1>2, <1>3, <1>4, <2>1, <2>2
  <1>6. CASE Iso!ReadLink
    <2> DEFINE v == Iso!Inode.link
    <2>1. arg.op = "read_link" /\ Iso!Return(IF arg.node \in Iso!Ids THEN Iso!Good(v) ELSE Iso!Bad("NotFound"))
      BY <1>2, <1>6 DEF Iso!ReadLink, Ops
    <2> HIDE DEF v
    <2>2. arg.node \in Iso!Ids => ProperReply(Iso!Good(v), ids)
      BY <1>2, <2>1 DEF ProperReply, SaneReply, Iso!Good
    <2> QED  BY <1>2, <1>3, <1>4, <2>1, <2>2
  <1>7. CASE Iso!ExtentsDone \/ Iso!BlocksDone
    <2>1. Iso!Return(Iso!Good(out)) /\ IsSeq(out) /\ Handed(arg.node, ids) /\ arg.op = "read_at"
          /\ arg.off < Iso!Size /\ Len(out) <= Iso!Want
      BY <1>7 DEF Iso!ExtentsDone, Iso!BlocksDone, IsoInv, IsoWindow, IsoLoops
    <2>2. IsoInode(Iso!Inode) /\ arg.off \in Nat /\ arg.len \in Nat
      BY <1>2, <2>1, IsoNodes, IsoShared DEF WellAsked
    <2>3. Iso!Want \in Nat /\ Iso!Want <= arg.len /\ Len(out) \in Nat
      BY <2>1, <2>2, IsoWants, SeqBasics
    <2>4. Len(out) <= arg.len
      BY <2>1, <2>2, <2>3
    <2>5. ProperReply(Iso!Good(out), ids)
      BY <2>1, <2>4 DEF ProperReply, SaneReply, Iso!Good
    <2> QED  BY <1>3, <2>1, <2>5
  <1>8. CASE Iso!Uefi
    <2> DEFINE v == Iso!UefiImage
    <2>1. pc = "uefi" /\ arg.op = "uefi" /\ Iso!Return(Iso!Good(v))
      BY <1>2, <1>8 DEF Iso!Uefi, Ops
    <2> HIDE DEF v
    <2>2. Handed(arg.node, ids)
      <3>1. Len(nodes) > 0 /\ Len(nodes) \in Nat /\ arg.node = 0
        BY <1>1, <1>2, <2>1, IsoAsked, SeqBasics DEF IsoInv, IsoTable, IsoTabled, Tabled
      <3>2. arg.node \in Iso!Ids
        BY <3>1, IsoShared
      <3> QED  BY <1>2, <3>2
    <2>3. ProperReply(Iso!Good(v), ids)
      BY <2>1, <2>2 DEF ProperReply, SaneReply, Iso!Good
    <2> QED  BY <1>3, <2>1, <2>3
  <1> QED  BY <1>5, <1>6, <1>7, <1>8

LEMMA IsoFails ==
    ASSUME fs = "iso9660", IsoInv, UNCHANGED <<img, arg>>, Iso!IoError
    PROVE  IsoInv' /\ SafeStep /\ Advances
  <1> DEFINE r == Iso!Bad("Io")
  <1>1. Iso!Return(r) /\ Return(r) /\ UNCHANGED <<sb, nodes, ids>> /\ r.err = "Io" /\ r.val = <<>>
    BY IsoShared DEF Iso!IoError, Iso!Table, Iso!Bad
  <1>2. pc = "open" \/ pc \in Ops \cup IsoLoops
    BY DEF Iso!IoError, Iso!ReadsDevice, Ops, IsoLoops
  <1> HIDE DEF r
  <1>3. CASE pc = "open"
    <2>1. Busy /\ arg = NoArg /\ IsoTable
      BY <1>3 DEF IsoInv, CallState, Busy
    <2>2. SafeStep /\ Advances /\ Rested("failed")
      BY <1>1, <2>1, RefuseStep DEF Failed
    <2> QED  BY <1>1, <2>1, <2>2, IsoSameTable, IsoRested DEF Rested
  <1>4. CASE pc \in Ops \cup IsoLoops
    BY <1>1, <1>4, IsoErrors
  <1> QED  BY <1>2, <1>3, <1>4

LEMMA IsoCalls ==
    ASSUME IsoInv, NEW a, Iso!Call(a), (\E n : a \in Iso!Requests(n)) \/ a = [op |-> "uefi", node |-> 0]
    PROVE  IsoInv' /\ SafeStep /\ Advances
  <1>1. pc = "idle" /\ arg' = a /\ pc' = a.op /\ UNCHANGED <<img, sb, nodes, ids, todo, pos, out, ret>>
    BY DEF Iso!Call
  <1>2. WellAsked(a) /\ a.op \notin IsoLoops \cup {"open"} /\ (a.op = "uefi" => a.node = 0)
    BY WindowsAssumption DEF Iso!Requests, WellAsked, Ops, IsoLoops
  <1>3. SafeStep /\ Advances
    BY <1>1, <1>2, CallStep
  <1>4. IsoTable' /\ Len(nodes') > 0
    BY <1>1, IsoSameTable DEF IsoInv
  <1>5. CallState({"open"}, IsoLoops)'
    BY <1>1, <1>2 DEF CallState, WellAsked, Ops, IsoInv, IsoLoops
  <1> QED  BY <1>1, <1>2, <1>3, <1>4, <1>5 DEF IsoInv, IsoLoops

LEMMA IsoSteps ==
    ASSUME fs = "iso9660", fs' = fs, IsoInv, Iso!Next
    PROVE  IsoInv' /\ SafeStep /\ Advances
  <1>1. CASE Iso!Step
    <2>1. UNCHANGED <<img, arg>>
      BY <1>1 DEF Iso!Step, Iso!Fixed
    <2> QED  BY <1>1, <2>1, IsoOpens, IsoReadsDir, IsoNextRecord, IsoContinues, IsoScanDone, IsoAnswers, IsoReadsAt, IsoReadExtent,
                IsoInflatesBlock, IsoFails DEF Iso!Step
  <1> QED  BY <1>1, IsoCalls DEF Iso!Next

LEMMA IsoStarts == Iso!Init => IsoInv
  <1> SUFFICES ASSUME Iso!Init PROVE IsoInv
    OBVIOUS
  <1>1. DOMAIN ids = {} /\ nodes = <<>> /\ ids = <<>> /\ img \in Images.iso9660
    BY DEF Iso!Init
  <1>2. IsoTable
    BY <1>1, EmptyTabled DEF IsoTable, IsoTabled
  <1> QED  BY <1>2 DEF IsoInv, Iso!Init, CallState, IsoLoops, Iso!NoArg, NoArg, Ops

-----------------------------------------------------------------------------
(* The frontends side by side: nothing changes while the host rests. *)
LEMMA CallStateStill == ASSUME UNCHANGED vars, NEW opens, NEW loops PROVE CallState(opens, loops) => CallState(opens, loops)'
  BY DEF CallState, WellAsked, Ops, NoArg, vars

LEMMA SquashStill == SquashInv /\ UNCHANGED vars => SquashInv'
  <1> SUFFICES ASSUME SquashInv, UNCHANGED vars PROVE SquashInv'
    OBVIOUS
  <1>1. CallState({"open"}, {"dir", "file"})'
    BY CallStateStill DEF SquashInv
  <1>2. SquashTable'
    BY SquashSameTable DEF SquashInv, vars
  <1>3. SquashLoops'
    BY DEF SquashInv, SquashLoops, SquashRefs, IsSeq, Handed, Squash!End, Squash!LeastOf, Squash!Inode, vars
  <1> QED  BY <1>1, <1>2, <1>3 DEF SquashInv

LEMMA RomStill == RomInv /\ UNCHANGED vars => RomInv'
  <1> SUFFICES ASSUME RomInv, UNCHANGED vars PROVE RomInv'
    OBVIOUS
  <1>1. CallState({"open"}, {"dir"})'
    BY CallStateStill DEF RomInv
  <1> QED  BY <1>1 DEF RomInv, IdTab, Handed, IsSeq, vars

LEMMA CramStill == CramInv /\ UNCHANGED vars => CramInv'
  <1> SUFFICES ASSUME CramInv, UNCHANGED vars PROVE CramInv'
    OBVIOUS
  <1>1. CallState({"open"}, CramLoops)'
    BY CallStateStill DEF CramInv, CramLoops
  <1>2. Cramfs!Here' = Cramfs!Here
    BY CramFixed DEF vars
  <1> QED  BY <1>1, <1>2 DEF CramInv, CramLoops, IdTab, Handed, IsSeq, vars

LEMMA UdfStill == UdfInv /\ UNCHANGED vars => UdfInv'
  <1> SUFFICES ASSUME UdfInv, UNCHANGED vars PROVE UdfInv'
    OBVIOUS
  <1>1. CallState({"open"}, {"dir", "file"})'
    BY CallStateStill DEF UdfInv
  <1>2. UdfTable'
    BY UdfSameTable DEF UdfInv, vars
  <1>3. Udf!Want' = Udf!Want /\ Udf!Cur' = Udf!Cur
    BY DEF Udf!Want, Udf!Cur, Udf!LeastOf, Udf!Inode, vars
  <1>4. UdfLoops'
    BY <1>3 DEF UdfInv, UdfLoops, IsExtents, IsSeq, Handed, vars
  <1> QED  BY <1>1, <1>2, <1>4 DEF UdfInv

LEMMA ErofsStill == ErofsInv /\ UNCHANGED vars => ErofsInv'
  <1> SUFFICES ASSUME ErofsInv, UNCHANGED vars PROVE ErofsInv'
    OBVIOUS
  <1>1. Erofs!Probe' = Erofs!Probe
    BY DEF Erofs!Probe, Erofs!LongEnough, Erofs!Super, vars
  <1>2. Erofs!Parsed' = Erofs!Parsed
    BY DEF Erofs!Parsed
  <1> QED  BY <1>1, <1>2 DEF ErofsInv, ErofsOpens, ErofsOps, ErofsSuper, ErofsInode, WellAsked, Ops, IdTab, Handed, IsSeq, NoArg, vars

LEMMA IsoStill == IsoInv /\ UNCHANGED vars => IsoInv'
  <1> SUFFICES ASSUME IsoInv, UNCHANGED vars PROVE IsoInv'
    OBVIOUS
  <1>1. CallState({"open"}, IsoLoops)'
    BY CallStateStill DEF IsoInv, IsoLoops
  <1>2. IsoTable'
    BY IsoSameTable DEF IsoInv, vars
  <1>3. IsoWindow => IsoWindow'
    <2>1. Iso!Size' = Iso!Size /\ Iso!Want' = Iso!Want /\ Iso!Cur' = Iso!Cur /\ Iso!Inode' = Iso!Inode
      BY DEF Iso!Size, Iso!Want, Iso!Inode, Iso!LeastOf, Iso!Cur, vars
    <2> QED  BY <2>1 DEF IsoWindow, IsExtents, IsSeq, vars
  <1>4. IsoWalk => IsoWalk'
    <2>1. UNCHANGED <<img, sb, nodes, pc, arg, todo, pos, out>>
      BY DEF vars
    <2>2. (todo.pending = <<>> \/ IsoEntry(todo.pending[1], sb.bs)) => (todo.pending = <<>> \/ IsoEntry(todo.pending[1], sb.bs))'
      BY <2>1 DEF IsoEntry, IsoIs, IsoInode, IsExtents, IsSeq, Iso!ROOT_KEY, Iso!RecordOf, Iso!Has, Iso!Num, IsoZf
    <2>3. (\A i \in 1..Len(out) : IsoEntry(out[i], sb.bs)) => (\A i \in 1..Len(out) : IsoEntry(out[i], sb.bs))'
      BY <2>1 DEF IsoEntry, IsoIs, IsoInode, IsExtents, IsSeq, Iso!ROOT_KEY, Iso!RecordOf, Iso!Has, Iso!Num, IsoZf
    <2>4. Iso!Record' = Iso!Record
      BY <2>1 DEF Iso!Record, Iso!RecordOf, Iso!Has, Iso!Num
    <2>5. IsoBuf(todo.buf, nodes[arg.node + 1].lba, sb.bs) => IsoBuf(todo.buf, nodes[arg.node + 1].lba, sb.bs)'
      BY <2>1 DEF IsoBuf, IsSeq
    <2>6. (IsoParser(todo.rr) => IsoParser(todo.rr)') /\ (IsSeq(out) => IsSeq(out)')
      BY <2>1 DEF IsoParser, IsoZf, IsSeq
    <2> QED  BY <2>1, <2>2, <2>3, <2>4, <2>5, <2>6 DEF IsoWalk
  <1> QED  BY <1>1, <1>2, <1>3, <1>4 DEF IsoInv, IsoLoops, Handed, vars

-----------------------------------------------------------------------------
(* The inductive invariant of the composition, and what follows from it. *)
AllInv ==
    /\ fs \in {"squashfs", "romfs", "cramfs", "udf", "iso9660", "erofs"}
    /\ fs = "squashfs" => SquashInv
    /\ fs = "romfs"    => RomInv
    /\ fs = "cramfs"   => CramInv
    /\ fs = "udf"      => UdfInv
    /\ fs = "iso9660"  => IsoInv
    /\ fs = "erofs"    => ErofsInv

LEMMA AllStarts == MCInit => AllInv
  BY SquashStarts, RomStarts, CramStarts, UdfStarts, IsoStarts, ErofsStarts DEF MCInit, AllInv

LEMMA AllStill == AllInv /\ UNCHANGED MCVars => AllInv' /\ SafeStep
  <1> SUFFICES ASSUME AllInv, UNCHANGED MCVars PROVE AllInv' /\ SafeStep
    OBVIOUS
  <1>1. UNCHANGED vars /\ fs' = fs
    BY DEF MCVars
  <1> QED  BY <1>1, SquashStill, RomStill, CramStill, UdfStill, IsoStill, ErofsStill DEF AllInv, SafeStep

LEMMA AllSteps == AllInv /\ MCNext => AllInv' /\ SafeStep /\ Advances
  <1> SUFFICES ASSUME AllInv, MCNext PROVE AllInv' /\ SafeStep /\ Advances
    OBVIOUS
  <1>1. fs' = fs
    BY DEF MCNext
  <1>2. CASE Rest
    <2>1. UNCHANGED vars /\ SafeStep /\ Advances
      BY <1>2, RestStep
    <2> QED  BY <1>1, <2>1, AllStill DEF MCVars
  <1>3. CASE fs = "squashfs" /\ Squash!Next
    BY <1>1, <1>3, SquashSteps DEF AllInv
  <1>4. CASE fs = "romfs" /\ Rom!Next
    BY <1>1, <1>4, RomSteps DEF AllInv
  <1>5. CASE fs = "cramfs" /\ Cramfs!Next
    BY <1>1, <1>5, CramSteps DEF AllInv
  <1>6. CASE fs = "udf" /\ Udf!Next
    BY <1>1, <1>6, UdfSteps DEF AllInv
  <1>7. CASE fs = "iso9660" /\ Iso!Next
    BY <1>1, <1>7, IsoSteps DEF AllInv
  <1>8. CASE fs = "erofs" /\ Erofs!Next
    BY <1>1, <1>8, ErofsSteps DEF AllInv
  <1> QED  BY <1>2, <1>3, <1>4, <1>5, <1>6, <1>7, <1>8 DEF MCNext

LEMMA AllHolds == MCSpec => []AllInv
  <1>1. AllInv /\ [MCNext]_MCVars => AllInv'
    BY AllStill, AllSteps
  <1> QED  BY <1>1, AllStarts, PTL DEF MCSpec

(* BlocksCoverFile for every volume: whatever the device holds and whatever   *)
(* calls came before, a squashfs file's block list, whose length is computed  *)
(* and not stored, covers the file together with its fragment                 *)
(* (squash.rs:118).                                                           *)
THEOREM BlocksAlwaysCoverFile == MCSpec => []BlocksCoverFile
  <1>1. AllInv => BlocksCoverFile
    BY SquashCovers DEF AllInv, SquashInv, BlocksCoverFile
  <1> QED  BY <1>1, AllHolds, PTL

(* OneIdPerInode for every volume: whichever calls failed after they had      *)
(* interned some of a directory's entries, there is one node per inode key,   *)
(* and it is what the device says of that inode (intern, squash.rs:394; and   *)
(* those of udf.rs and iso9660.rs).                                           *)
THEOREM IdsAreOnePerInode == MCSpec => []OneIdPerInode
  <1>1. ASSUME SquashTable PROVE TableIs(Squash!NodeOf)
    BY <1>1 DEF SquashTable, Tabled, TableIs, Squash!NodeOf
  <1>2. ASSUME UdfTable PROVE TableIs(Udf!NodeOf)
    BY <1>2 DEF UdfTable, Tabled, TableIs, Udf!NodeOf
  <1>3. ASSUME IsoTable PROVE Iso!TableIsRecords
    <2>1. Tabled(nodes, ids) /\ \A k \in DOMAIN ids : IsoIs(k, nodes[ids[k] + 1], sb.bs)
      BY <1>3 DEF IsoTable, IsoTabled
    <2>2. Len(nodes) = Cardinality(DOMAIN ids)
      BY <2>1 DEF Tabled
    <2>3. Iso!Cardinality(DOMAIN ids) = Cardinality(DOMAIN ids)
      BY DEF Iso!Cardinality, Cardinality
    <2> QED  BY <2>1, <2>2, <2>3 DEF IsoIs, Iso!TableIsRecords
  <1>4. AllInv => OneIdPerInode
    BY <1>1, <1>2, <1>3 DEF AllInv, SquashInv, UdfInv, IsoInv, OneIdPerInode
  <1> QED  BY <1>4, AllHolds, PTL

(* All six frontends keep, on any device and under any sequence of calls and  *)
(* device failures, what FoldFrontend (frontend.rs:54) promises of damaged    *)
(* volumes too: ids are never given up or given twice, a reply has good ids   *)
(* and no more bytes than the buffer, an id that was handed out is never      *)
(* NotFound and one that was not is refused, and only what probe accepts      *)
(* opens.  A call ends in no other way than in such a reply, with one         *)
(* exception, which SlicePanic states exactly: cramfs's read_at panics when   *)
(* its offset is below the inode's size and past what the file's pages        *)
(* inflated to (cramfs.rs:196), and hands out or changes nothing by it.       *)
THEOREM SafeOnEveryVolume == MCSpec => SafeOnAnyVolume
  <1>1. MCInit => Contract!Init
    BY DEF MCInit, Squash!Init, Rom!Init, Cramfs!Init, Udf!Init, Iso!Init, Erofs!Init, Contract!Init, Phase, Opening, Busy, NoArg,
           Squash!NoArg, Rom!NoArg, Cramfs!NoArg, Udf!NoArg, Iso!NoArg, Erofs!NoArg
  <1>2. AllInv /\ [MCNext]_MCVars => [Contract!SafeNext \/ SlicePanic]_(Contract!vars)
    <2>1. [MCNext]_MCVars => fs' = fs
      BY DEF MCNext, MCVars
    <2>2. AllInv /\ [MCNext]_MCVars => SafeStep
      BY AllStill, AllSteps
    <2> QED  BY <2>1, <2>2, SafeStepIsContract
  <1> QED  BY <1>1, <1>2, AllHolds, PTL DEF MCSpec, SafeOnAnyVolume

(* Every call of every frontend comes to an end, on any device (in a reply or *)
(* in cramfs's SlicePanic, by the theorem above): a step of a call leads to a *)
(* later stage of it or uses up some of its loop, so no chain of pointers on  *)
(* the device, cyclic ones included (romfs.rs:148, iso9660.rs:280), keeps a   *)
(* call going.                                                                *)
THEOREM EveryCallAdvances == MCSpec => Progress
  <1>1. AllInv /\ [MCNext]_MCVars => [Busy /\ Busy' => \/ Stage' < Stage
                                                       \/ Stage' = Stage /\ Fuel > 0 /\ Fuel' < Fuel]_MCVars
    BY AllSteps DEF Advances
  <1> QED  BY <1>1, AllHolds, PTL DEF MCSpec, Progress
=============================================================================
