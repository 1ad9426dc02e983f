-------------------------- MODULE BlockCacheProofs --------------------------
(***************************************************************************)
(* Proofs about the block cache, for every set of keys and blocks, every    *)
(* capacity and every clock width.                                          *)
(***************************************************************************)
EXTENDS BlockCache, FiniteSetTheorems, TLAPS

(* The bytes of one retained block. *)
BytesAt(k, e) == {k} \X (1..Size(e))

(* A map is an EntryMap exactly when it is a function on keys into entries. *)
LEMMA EntryMapDef ==
    ASSUME NEW m
    PROVE  m \in EntryMap <=> /\ DOMAIN m \in SUBSET Keys
                              /\ m \in [DOMAIN m -> Entry]
  BY DEF EntryMap

(* Removing a key and storing an entry keep the map well typed. *)
LEMMA MapTypes ==
    ASSUME NEW m \in EntryMap
    PROVE  /\ \A k : Remove(m, k) \in EntryMap
           /\ \A k \in Keys, e \in Entry : Put(m, k, e) \in EntryMap
  <1>1. DOMAIN m \in SUBSET Keys /\ m \in [DOMAIN m -> Entry]
    BY EntryMapDef
  <1>2. ASSUME NEW k PROVE Remove(m, k) \in EntryMap
    <2>1. Remove(m, k) \in [DOMAIN m \ {k} -> Entry]
      BY <1>1 DEF Remove
    <2>. QED  BY <1>1, <2>1 DEF EntryMap
  <1>3. ASSUME NEW k \in Keys, NEW e \in Entry PROVE Put(m, k, e) \in EntryMap
    <2>1. Put(m, k, e) \in [DOMAIN m \cup {k} -> Entry]
      BY <1>1 DEF Put
    <2>. QED  BY <1>1, <2>1 DEF EntryMap
  <1>. QED  BY <1>2, <1>3

(* An entry's size is a natural number, and its bytes are that many. *)
LEMMA BlockBytes ==
    ASSUME NEW k, NEW e \in Entry
    PROVE  /\ Size(e) \in Nat
           /\ IsFiniteSet(BytesAt(k, e))
           /\ Cardinality(BytesAt(k, e)) = Size(e)
  <1>1. Size(e) \in Nat
    BY LenAssumption DEF Size, Entry
  <1>2. IsFiniteSet(1..Size(e)) /\ Cardinality(1..Size(e)) = Size(e)
    BY <1>1, FS_Interval
  <1>3. IsFiniteSet({k}) /\ Cardinality({k}) = 1
    BY FS_Singleton
  <1>4. /\ IsFiniteSet({k} \X (1..Size(e)))
        /\ Cardinality({k} \X (1..Size(e))) = 1 * Size(e)
    BY <1>2, <1>3, FS_Product
  <1>. QED  BY <1>1, <1>4 DEF BytesAt

(* Removing a key gives back exactly the bytes of its block. *)
LEMMA RemoveBytes ==
    ASSUME NEW m \in EntryMap, NEW k \in DOMAIN m, IsFiniteSet(BytesOf(m))
    PROVE  /\ IsFiniteSet(BytesOf(Remove(m, k)))
           /\ Cardinality(BytesOf(Remove(m, k))) = Cardinality(BytesOf(m)) - Size(m[k])
           /\ Size(m[k]) \in Nat
           /\ Size(m[k]) <= Cardinality(BytesOf(m))
  <1>1. m[k] \in Entry
    BY EntryMapDef
  <1>2. BytesOf(Remove(m, k)) = BytesOf(m) \ BytesAt(k, m[k])
    BY DEF BytesOf, BytesAt, Remove
  <1>3. BytesAt(k, m[k]) \subseteq BytesOf(m)
    BY DEF BytesOf, BytesAt
  <1>4. BytesOf(m) \cap BytesAt(k, m[k]) = BytesAt(k, m[k])
    BY <1>3
  <1>5. /\ IsFiniteSet(BytesOf(m) \ BytesAt(k, m[k]))
        /\ Cardinality(BytesOf(m) \ BytesAt(k, m[k]))
             = Cardinality(BytesOf(m)) - Cardinality(BytesOf(m) \cap BytesAt(k, m[k]))
    BY FS_Difference
  <1>6. Cardinality(BytesAt(k, m[k])) <= Cardinality(BytesOf(m))
    BY <1>3, FS_Subset
  <1>. QED  BY <1>1, <1>2, <1>4, <1>5, <1>6, BlockBytes

(* Storing a block under a free key adds exactly its bytes. *)
LEMMA PutBytes ==
    ASSUME NEW m \in EntryMap, NEW k, k \notin DOMAIN m, NEW e \in Entry,
           IsFiniteSet(BytesOf(m))
    PROVE  /\ IsFiniteSet(BytesOf(Put(m, k, e)))
           /\ Cardinality(BytesOf(Put(m, k, e))) = Cardinality(BytesOf(m)) + Size(e)
  <1>1. BytesOf(Put(m, k, e)) = BytesOf(m) \cup BytesAt(k, e)
    BY DEF BytesOf, BytesAt, Put
  <1>2. BytesOf(m) \cap BytesAt(k, e) = {}
    BY DEF BytesOf, BytesAt
  <1>3. /\ IsFiniteSet(BytesAt(k, e))
        /\ Cardinality(BytesAt(k, e)) = Size(e)
        /\ Size(e) \in Nat
    BY BlockBytes
  <1>4. /\ IsFiniteSet(BytesOf(m) \cup BytesAt(k, e))
        /\ Cardinality(BytesOf(m) \cup BytesAt(k, e))
             = Cardinality(BytesOf(m)) + Cardinality(BytesAt(k, e))
               - Cardinality(BytesOf(m) \cap BytesAt(k, e))
    BY <1>3, FS_Union
  <1>5. Cardinality(BytesOf(m)) \in Nat
    BY FS_CardinalityType
  <1>6. Cardinality(BytesOf(m) \cap BytesAt(k, e)) = 0
    BY <1>2, FS_EmptySet
  <1>. QED  BY <1>1, <1>3, <1>4, <1>5, <1>6

(* Stamping an entry leaves the bytes alone. *)
LEMMA StampBytes ==
    ASSUME NEW m \in EntryMap, NEW k \in DOMAIN m, NEW t
    PROVE  BytesOf(Put(m, k, [m[k] EXCEPT !.last = t])) = BytesOf(m)
  <1>1. m[k] \in Entry
    BY EntryMapDef
  <1>2. Size([m[k] EXCEPT !.last = t]) = Size(m[k])
    BY <1>1 DEF Size, Entry
  <1>3. DOMAIN Put(m, k, [m[k] EXCEPT !.last = t]) = DOMAIN m
    BY DEF Put
  <1>4. \A j \in DOMAIN m : Size(Put(m, k, [m[k] EXCEPT !.last = t])[j]) = Size(m[j])
    BY <1>2 DEF Put
  <1>. QED  BY <1>3, <1>4 DEF BytesOf

-----------------------------------------------------------------------------
(* The inductive invariant: while an insert runs its key is out of the map  *)
(* and its block fits an empty cache, the early return having let it pass.  *)
CallOK == call # Idle => call.key \notin Held /\ ~ Declined(call.data)

IInv == TypeOK /\ Accounting /\ CapRespected /\ CallOK

LEMMA InitIInv == Init => IInv
  <1>. SUFFICES ASSUME Init PROVE IInv
    OBVIOUS
  <1>1. TypeOK
    BY TickAssumption DEF Init, TypeOK, EntryMap, Idle
  <1>2. Bytes = {}
    BY DEF Init, Bytes, BytesOf
  <1>. QED  BY <1>1, <1>2, FS_EmptySet, CapAssumption
            DEF IInv, Init, Accounting, CapRespected, CallOK

(* The clock stays within its width. *)
LEMMA TickType == TypeOK => NextTick \in 0..TickMod - 1
  BY TickAssumption DEF TypeOK, NextTick

(* Every step of every operation keeps the accounting exact and within cap. *)
LEMMA NextIInv == IInv /\ [Next]_vars => IInv'
  <1>. SUFFICES ASSUME IInv, [Next]_vars PROVE IInv'
    OBVIOUS
  <1>. USE CapAssumption, TickAssumption
  <1>0. /\ TypeOK /\ Accounting /\ CapRespected /\ CallOK
        /\ entries \in EntryMap
        /\ NextTick \in 0..TickMod - 1
        /\ cur_bytes \in Nat
        /\ IsFiniteSet(BytesOf(entries))
        /\ cur_bytes = Cardinality(BytesOf(entries))
        /\ cur_bytes <= Cap
    BY TickType DEF IInv, TypeOK, Accounting, CapRespected, Bytes
  <1>1. ASSUME NEW k \in Keys, Get(k) PROVE IInv'
    <2>1. CASE k \in Held
      <3>. DEFINE e == [entries[k] EXCEPT !.last = NextTick]
      <3>1. entries[k] \in Entry
        BY <1>0, <2>1, EntryMapDef DEF Held
      <3>2. e \in Entry /\ entries[k].data \in Blocks
        BY <1>0, <3>1 DEF Entry
      <3>3. entries' = Put(entries, k, e)
        BY <1>1, <2>1 DEF Get
      <3>4. entries' \in EntryMap
        BY <1>0, <3>2, <3>3, MapTypes
      <3>5. BytesOf(entries') = BytesOf(entries)
        BY <1>0, <2>1, <3>3, StampBytes DEF Held
      <3>6. TypeOK'
        BY <1>0, <1>1, <2>1, <3>2, <3>4 DEF TypeOK, Get
      <3>7. (Accounting /\ CapRespected)'
        BY <1>0, <1>1, <3>5 DEF Accounting, CapRespected, Bytes, Get
      <3>. QED  BY <1>1, <3>6, <3>7 DEF IInv, CallOK, Get
    <2>2. CASE k \notin Held
      <3>1. TypeOK'
        BY <1>0, <1>1, <2>2 DEF TypeOK, Get
      <3>2. (Accounting /\ CapRespected)'
        BY <1>0, <1>1, <2>2 DEF Accounting, CapRespected, Bytes, Get
      <3>. QED  BY <1>1, <3>1, <3>2 DEF IInv, CallOK, Get
    <2>. QED  BY <2>1, <2>2
  <1>2. ASSUME NEW k \in Keys, NEW b \in Blocks, InsertStart(k, b) PROVE IInv'
    <2>1. entries' = Remove(entries, k) /\ entries' \in EntryMap
      BY <1>0, <1>2, MapTypes DEF InsertStart
    <2>2. /\ IsFiniteSet(BytesOf(entries'))
          /\ cur_bytes' = Cardinality(BytesOf(entries'))
          /\ cur_bytes' \in Nat
          /\ cur_bytes' <= Cap
      <3>1. CASE k \in Held
        BY <1>0, <1>2, <2>1, <3>1, RemoveBytes, FS_CardinalityType DEF InsertStart, Held
      <3>2. CASE k \notin Held
        <4>1. Remove(entries, k) = entries
          BY <1>0, <3>2, EntryMapDef DEF Remove, Held
        <4>. QED  BY <1>0, <1>2, <2>1, <3>2, <4>1 DEF InsertStart
      <3>. QED  BY <3>1, <3>2
    <2>3. TypeOK'
      BY <1>0, <1>2, <2>1, <2>2 DEF TypeOK, InsertStart, Inserting
    <2>4. CallOK'
      BY <1>2, <2>1 DEF CallOK, InsertStart, Remove, Held, Declined
    <2>. QED  BY <2>2, <2>3, <2>4 DEF IInv, Accounting, CapRespected, Bytes
  <1>3. CASE EvictOne
    <2>1. PICK v \in Held : /\ entries' = Remove(entries, v)
                            /\ cur_bytes' = cur_bytes - Size(entries[v])
      BY <1>3 DEF EvictOne
    <2>2. /\ entries' \in EntryMap
          /\ IsFiniteSet(BytesOf(entries'))
          /\ cur_bytes' = Cardinality(BytesOf(entries'))
          /\ cur_bytes' \in Nat
          /\ cur_bytes' <= Cap
      BY <1>0, <2>1, MapTypes, RemoveBytes, FS_CardinalityType DEF Held
    <2>3. TypeOK'
      BY <1>0, <1>3, <2>2 DEF TypeOK, EvictOne
    <2>4. CallOK'
      BY <1>0, <1>3, <2>1 DEF CallOK, EvictOne, Remove, Held, Declined
    <2>. QED  BY <2>2, <2>3, <2>4 DEF IInv, Accounting, CapRespected, Bytes
  <1>4. CASE InsertFinish
    <2>. DEFINE e == [data |-> call.data, last |-> NextTick]
    <2>1. /\ call # Idle /\ call \in Inserting
          /\ call.key \notin DOMAIN entries
          /\ BlockLen[call.data] <= Cap
      BY <1>0, <1>4, LenAssumption
      DEF InsertFinish, TypeOK, CallOK, Declined, Held, Inserting
    <2>2. e \in Entry /\ call.key \in Keys /\ call.data \in Blocks
      BY <1>0, <2>1 DEF Inserting, Entry
    <2>3. Size(e) = BlockLen[call.data] /\ Size(e) \in Nat
      BY <2>2, LenAssumption DEF Size
    <2>4. entries' = Put(entries, call.key, e) /\ entries' \in EntryMap
      BY <1>0, <1>4, <2>2, MapTypes DEF InsertFinish
    <2>5. /\ IsFiniteSet(BytesOf(entries'))
          /\ cur_bytes' = Cardinality(BytesOf(entries'))
          /\ cur_bytes' \in Nat
      BY <1>0, <1>4, <2>1, <2>2, <2>3, <2>4, PutBytes, FS_CardinalityType DEF InsertFinish
    <2>6. cur_bytes' <= Cap
      <3>1. CASE ~ MustEvict
        BY <1>0, <1>4, <2>3, <3>1 DEF InsertFinish, MustEvict
      <3>2. CASE Held = {}
        <4>1. BytesOf(entries) = {}
          BY <3>2 DEF BytesOf, Held
        <4>2. cur_bytes = 0
          BY <1>0, <4>1, FS_EmptySet
        <4>. QED  BY <1>4, <2>1, <2>3, <4>2 DEF InsertFinish
      <3>. QED  BY <1>4, <3>1, <3>2 DEF InsertFinish
    <2>7. TypeOK'
      BY <1>0, <1>4, <2>4, <2>5 DEF TypeOK, InsertFinish
    <2>. QED  BY <1>4, <2>5, <2>6, <2>7
              DEF IInv, Accounting, CapRespected, Bytes, CallOK, InsertFinish
  <1>5. CASE UNCHANGED vars
    BY <1>0, <1>5
    DEF IInv, TypeOK, Accounting, CapRespected, Bytes, CallOK, Held, vars, Declined
  <1>6. ASSUME NEW k \in Keys, NEW b \in Blocks, InsertDeclined(k, b) PROVE IInv'
    BY <1>5, <1>6 DEF InsertDeclined
  <1>. QED  BY <1>1, <1>2, <1>3, <1>4, <1>5, <1>6 DEF Next

(* The invariant holds in every reachable state. *)
LEMMA Invariance == Spec => []IInv
  BY InitIInv, NextIInv, PTL DEF Spec

(* cache.rs: every variable keeps its type; cur_bytes never goes below zero. *)
THEOREM TypeCorrect == Spec => []TypeOK
  BY Invariance, PTL DEF IInv

(* cache.rs: cur_bytes is always the number of bytes in the map, whatever    *)
(* the clock does.                                                           *)
THEOREM AccountingCorrect == Spec => []Accounting
  BY Invariance, PTL DEF IInv

(* cache.rs: the bytes in the map are never above cap_bytes, in the middle   *)
(* of an insert and after the clock has wrapped too.                         *)
THEOREM CapCorrect == Spec => []CapRespected
  BY Invariance, PTL DEF IInv

(* cache.rs insert: the None => break exit never stores an oversized block. *)
THEOREM BreakCorrect == Spec => []BreakIsSafe
  <1>1. IInv => BreakIsSafe
    <2>. SUFFICES ASSUME IInv, call # Idle, Held = {} PROVE ~ MustEvict
      BY DEF BreakIsSafe
    <2>1. BytesOf(entries) = {}
      BY DEF BytesOf, Held
    <2>2. cur_bytes = 0
      BY <2>1, FS_EmptySet DEF IInv, Accounting, Bytes
    <2>3. BlockLen[call.data] \in Nat /\ BlockLen[call.data] <= Cap
      BY LenAssumption, CapAssumption DEF IInv, TypeOK, CallOK, Declined, Inserting
    <2>. QED  BY <2>2, <2>3, CapAssumption DEF MustEvict
  <1>. QED  BY <1>1, Invariance, PTL
-----------------------------------------------------------------------------
(* The refinement: as long as the clock has not wrapped, the cache is the    *)
(* abstract least-recently-used map.                                         *)

(* What an insert has given up so far, and the bytes keys K of a map m hold. *)
Evicted == (DOMAIN call.before \ {call.key}) \ Held
BytesFor(m, K) == UNION {{k} \X (1..Size(m[k])) : k \in K}

(* The clock is below its width, with a tick to spare for an insert.         *)
ClockOK == tick <= TickBound /\ (call # Idle => tick < TickBound)

(* No two blocks a caller sees have the same stamp, and none is from the     *)
(* future.                                                                   *)
StampsOK ==
    \A j, k \in DOMAIN Visible :
        /\ Visible[j].last <= tick
        /\ j # k => Visible[j].last # Visible[k].last

(* An insert under way has given up the oldest blocks of those it found, and *)
(* the youngest of them was still one too many.                              *)
EvictionOK ==
    call # Idle =>
        /\ Held \subseteq DOMAIN call.before \ {call.key}
        /\ \A k \in Held : entries[k] = call.before[k]
        /\ \A v \in Evicted, k \in Held : call.before[v].last < call.before[k].last
        /\ Evicted # {} =>
             \E v \in Evicted :
                 /\ \A u \in Evicted \ {v} : call.before[u].last < call.before[v].last
                 /\ Cardinality(BytesFor(call.before, Held \cup {v})) + BlockLen[call.data] > Cap

RInv == IInv /\ ClockOK /\ StampsOK /\ EvictionOK
(* What Idle, an insert's record and the view a caller has are. *)
LEMMA ViewType ==
    ASSUME IInv
    PROVE  /\ entries \in EntryMap /\ Visible \in EntryMap
           /\ tick \in Nat /\ tick < TickMod
           /\ \A k \in DOMAIN Visible : Visible[k].last \in Nat /\ Visible[k] \in Entry
           /\ \A k \in Held : entries[k].last \in Nat /\ entries[k] \in Entry
           /\ call # Idle => call \in Inserting
  <1>1. entries \in EntryMap /\ (call # Idle => call \in Inserting) /\ tick \in 0..TickMod - 1
    BY DEF IInv, TypeOK
  <1>2. Visible \in EntryMap
    BY <1>1 DEF Visible, Inserting
  <1>3. \A e \in Entry : e.last \in Nat
    BY TickAssumption DEF Entry
  <1>. QED  BY <1>1, <1>2, <1>3, EntryMapDef, TickAssumption DEF Held

(* Without a wrap the next tick is one more. *)
LEMMA NoWrap ==
    ASSUME TickBound < TickMod, IInv, tick < TickBound
    PROVE  NextTick = tick + 1
  BY ViewType, TickAssumption DEF NextTick

LEMMA InitRInv == Init => RInv
  BY InitIInv, TickAssumption DEF RInv, Init, ClockOK, StampsOK, EvictionOK, Visible

(* A get stamps the block it finds with a tick no other block has. *)
LEMMA GetRInv ==
    ASSUME TickBound < TickMod, RInv, NEW k \in Keys, Get(k)
    PROVE  (ClockOK /\ StampsOK /\ EvictionOK)'
  <1>0. /\ call = Idle /\ call' = Idle /\ tick \in Nat /\ tick < TickBound /\ tick' = tick + 1
        /\ Visible = entries /\ Visible' = entries'
        /\ \A j \in Held : entries[j] \in Entry /\ entries[j].last \in Nat
    BY ViewType, NoWrap, TickAssumption DEF RInv, ClockOK, Get, Visible
  <1>1. ClockOK' /\ EvictionOK'
    BY <1>0, TickAssumption DEF ClockOK, EvictionOK
  <1>2. StampsOK'
    <2>1. CASE k \in Held
      <3>1. entries' = Put(entries, k, [entries[k] EXCEPT !.last = tick'])
        BY <2>1 DEF Get
      <3>2. /\ DOMAIN entries' = Held
            /\ entries'[k].last = tick'
            /\ \A j \in Held \ {k} : entries'[j] = entries[j]
        BY <1>0, <2>1, <3>1 DEF Put, Held, Entry
      <3>. QED  BY <1>0, <3>2 DEF RInv, StampsOK, Held
    <2>2. CASE k \notin Held
      BY <1>0, <2>2 DEF Get, RInv, StampsOK, Held
    <2>. QED  BY <2>1, <2>2
  <1>. QED  BY <1>1, <1>2

(* An insert starts with nothing given up. *)
LEMMA StartRInv ==
    ASSUME RInv, NEW k \in Keys, NEW b \in Blocks, InsertStart(k, b)
    PROVE  /\ (ClockOK /\ StampsOK /\ EvictionOK)'
           /\ Visible' = Visible /\ UNCHANGED reply
  <1>1. /\ call = Idle /\ call' # Idle /\ call'.before = entries /\ call'.key = k
        /\ entries' = Remove(entries, k) /\ UNCHANGED <<tick, reply>> /\ tick # TickBound
    BY DEF InsertStart, Idle
  <1>2. Visible' = Visible
    BY <1>1 DEF Visible
  <1>3. ClockOK' /\ StampsOK'
    BY <1>1, <1>2, ViewType, TickAssumption DEF RInv, ClockOK, StampsOK
  <1>4. /\ Held' = DOMAIN entries \ {k}
        /\ \A j \in Held' : entries'[j] = entries[j]
        /\ Evicted' = {}
    BY <1>1 DEF Held, Remove, Evicted
  <1>. QED  BY <1>1, <1>2, <1>3, <1>4 DEF EvictionOK

(* The victim is older than all that stays, and was one block too many. *)
LEMMA EvictRInv ==
    ASSUME RInv, EvictOne
    PROVE  /\ (ClockOK /\ StampsOK /\ EvictionOK)'
           /\ Visible' = Visible /\ UNCHANGED reply
  <1>1. PICK v \in Held : Victim(v) /\ entries' = Remove(entries, v)
    BY DEF EvictOne
  <1>2. /\ call # Idle /\ MustEvict /\ UNCHANGED <<tick, call, reply>>
        /\ Visible = call.before /\ Visible' = call.before
    BY DEF EvictOne, Visible
  <1>3. ClockOK' /\ StampsOK'
    BY <1>2 DEF RInv, ClockOK, StampsOK
  <1>4. /\ Held \subseteq DOMAIN call.before \ {call.key}
        /\ \A k \in Held : entries[k] = call.before[k]
        /\ \A u \in Evicted, k \in Held : call.before[u].last < call.before[k].last
    BY <1>2 DEF RInv, EvictionOK
  <1>5. /\ Held' = Held \ {v}
        /\ \A k \in Held' : entries'[k] = entries[k]
        /\ Evicted' = Evicted \cup {v}
    BY <1>1, <1>2, <1>4 DEF Held, Remove, Evicted
  <1>6. \A k \in Held' : call.before[v].last < call.before[k].last
    <2>. SUFFICES ASSUME NEW k \in Held' PROVE call.before[v].last < call.before[k].last
      OBVIOUS
    <2>1. k \in Held /\ k # v
      BY <1>5
    <2>2. \/ entries[v].last < entries[k].last
          \/ entries[v].last = entries[k].last
      BY <1>1, <2>1 DEF Victim
    <2>3. call.before[v].last # call.before[k].last
      BY <1>1, <1>2, <1>4, <2>1 DEF RInv, StampsOK
    <2>. QED  BY <1>1, <1>4, <2>1, <2>2, <2>3
  <1>7. \A u \in Evicted, k \in Held' : call.before[u].last < call.before[k].last
    BY <1>4, <1>5
  <1>8. BytesFor(call.before, Held' \cup {v}) = Bytes
    <2>1. Held' \cup {v} = Held
      BY <1>1, <1>5
    <2>2. \A k \in Held : Size(call.before[k]) = Size(entries[k])
      BY <1>4
    <2>. QED  BY <2>1, <2>2 DEF BytesFor, Bytes, BytesOf, Held
  <1>9. Cardinality(BytesFor(call.before, Held' \cup {v})) + BlockLen[call.data] > Cap
    BY <1>2, <1>8 DEF RInv, IInv, Accounting, MustEvict
  <1>10. \A u \in Evicted' \ {v} : call.before[u].last < call.before[v].last
    BY <1>1, <1>4, <1>5
  <1>11. EvictionOK'
    BY <1>1, <1>2, <1>4, <1>5, <1>6, <1>7, <1>9, <1>10 DEF EvictionOK
  <1>. QED  BY <1>2, <1>3, <1>11
(* The insert that ends stores its block as the youngest. *)
LEMMA FinishRInv ==
    ASSUME TickBound < TickMod, RInv, InsertFinish
    PROVE  /\ (ClockOK /\ StampsOK /\ EvictionOK)'
           /\ call # Idle /\ call \in Inserting /\ call' = Idle /\ tick' = tick + 1
           /\ Visible' = entries' /\ DOMAIN entries' = Held \cup {call.key}
           /\ entries'[call.key] = [data |-> call.data, last |-> tick + 1]
           /\ call.key \notin Held
           /\ \A j \in Held : entries'[j] = entries[j]
  <1>1. call # Idle /\ call \in Inserting /\ call' = Idle /\ tick' = tick + 1 /\ tick < TickBound
    BY ViewType, NoWrap DEF RInv, ClockOK, InsertFinish
  <1>2. Visible = call.before /\ Visible' = entries'
    BY <1>1 DEF Visible
  <1>3. entries' = Put(entries, call.key, [data |-> call.data, last |-> tick + 1])
    BY <1>1 DEF InsertFinish
  <1>4. /\ DOMAIN entries' = Held \cup {call.key}
        /\ entries'[call.key] = [data |-> call.data, last |-> tick + 1]
        /\ call.key \notin Held
        /\ \A j \in Held : entries'[j] = entries[j]
    BY <1>1, <1>3 DEF Put, Held, RInv, IInv, CallOK
  <1>5. /\ Held \subseteq DOMAIN Visible
        /\ \A j \in Held : entries[j] = Visible[j]
    BY <1>1, <1>2 DEF RInv, EvictionOK
  <1>6. tick \in Nat /\ \A j \in Held : entries[j].last \in Nat /\ entries[j].last <= tick
    BY <1>5, ViewType DEF RInv, StampsOK
  <1>7. \A j, k \in Held : j # k => entries[j].last # entries[k].last
    BY <1>5 DEF RInv, StampsOK
  <1>8. StampsOK'
    <2>. SUFFICES ASSUME NEW j \in Held \cup {call.key}, NEW k \in Held \cup {call.key}
                  PROVE  /\ entries'[j].last <= tick + 1
                         /\ j # k => entries'[j].last # entries'[k].last
      BY <1>1, <1>2, <1>4 DEF StampsOK
    <2>1. entries'[call.key].last = tick + 1
      BY <1>4
    <2>2. \A h \in Held : entries'[h].last \in Nat /\ entries'[h].last <= tick
      BY <1>4, <1>6
    <2>3. j \in Held /\ k \in Held /\ j # k => entries'[j].last # entries'[k].last
      BY <1>4, <1>7
    <2>. QED  BY <1>6, <2>1, <2>2, <2>3
  <1>9. ClockOK' /\ EvictionOK'
    BY <1>1, <1>6, TickAssumption DEF ClockOK, EvictionOK
  <1>. QED  BY <1>1, <1>2, <1>4, <1>8, <1>9

LEMMA NextRInv == TickBound < TickMod /\ RInv /\ [Next]_vars => RInv'
  <1>. SUFFICES ASSUME TickBound < TickMod, RInv, [Next]_vars
                PROVE  (ClockOK /\ StampsOK /\ EvictionOK)'
    BY NextIInv DEF RInv
  <1>1. CASE UNCHANGED vars
    BY <1>1 DEF RInv, vars, ClockOK, StampsOK, EvictionOK, Visible, Held, Evicted
  <1>2. ASSUME NEW k \in Keys, NEW b \in Blocks, InsertDeclined(k, b)
        PROVE  (ClockOK /\ StampsOK /\ EvictionOK)'
    BY <1>1, <1>2 DEF InsertDeclined
  <1>. QED  BY <1>1, <1>2, GetRInv, StartRInv, EvictRInv, FinishRInv DEF Next

-----------------------------------------------------------------------------
(* Every step is a step of the abstract map or changes nothing it has.       *)

(* A step that leaves the view and the reply alone is a stutter. *)
LEMMA Stutters ==
    ASSUME Visible' = Visible, UNCHANGED reply
    PROVE  UNCHANGED Abstract!vars
  BY DEF Abstract!vars, CachedView, OlderView

(* A get answers from the map and makes its key the youngest. *)
LEMMA GetSimulates ==
    ASSUME TickBound < TickMod, RInv, NEW k \in Keys, Get(k)
    PROVE  Abstract!Get(k)
  <1>0. /\ call = Idle /\ call' = Idle /\ tick \in Nat /\ tick' = tick + 1
        /\ Visible = entries /\ Visible' = entries' /\ Abstract!Held = Held
        /\ \A j \in Held : entries[j] \in Entry /\ entries[j].last \in Nat /\ entries[j].last <= tick
    BY ViewType, NoWrap, TickAssumption
    DEF RInv, ClockOK, StampsOK, Get, Visible, Abstract!Held, CachedView, Held
  <1>1. CASE k \notin Held
    <2>1. Visible' = Visible /\ reply' = None
      BY <1>0, <1>1 DEF Get
    <2>. QED  BY <1>0, <1>1, <2>1 DEF Abstract!Get, CachedView, OlderView
  <1>2. CASE k \in Held
    <2>1. entries' = Put(entries, k, [entries[k] EXCEPT !.last = tick'])
      BY <1>2 DEF Get
    <2>2. /\ DOMAIN entries' = Held
          /\ entries'[k].last = tick' /\ entries'[k].data = entries[k].data
          /\ \A j \in Held \ {k} : entries'[j] = entries[j]
      BY <1>0, <1>2, <2>1 DEF Put, Held, Entry
    <2>3. CachedView' = CachedView
      BY <1>0, <2>2 DEF CachedView, Held
    <2>4. reply' = CachedView[k]
      BY <1>0, <1>2 DEF Get, CachedView, Held
    <2>5. OlderView' = Abstract!Touch(Held, k)
      <3>. DEFINE new == {<<j, k>> : j \in Held \ {k}}
                  kept == {p \in OlderView : p[1] \in Held \ {k} /\ p[2] \in Held \ {k}}
      <3>1. OlderView = {p \in Held \X Held : entries[p[1]].last < entries[p[2]].last}
        BY <1>0 DEF OlderView, Held
      <3>2. OlderView' = {p \in Held \X Held : entries'[p[1]].last < entries'[p[2]].last}
        BY <1>0, <2>2 DEF OlderView
      <3>3. ASSUME NEW i \in Held, NEW j \in Held
            PROVE  entries'[i].last < entries'[j].last
                     <=> \/ j = k /\ i # k
                         \/ i # k /\ j # k /\ entries[i].last < entries[j].last
        BY <1>0, <2>2
      <3>4. \A p \in Held \X Held : p \in OlderView' <=> p \in kept \cup new
        <4>. SUFFICES ASSUME NEW i \in Held, NEW j \in Held
                      PROVE  <<i, j>> \in OlderView' <=> <<i, j>> \in kept \cup new
          OBVIOUS
        <4>. QED  BY <1>2, <3>1, <3>2, <3>3
      <3>5. OlderView' \subseteq Held \X Held /\ kept \cup new \subseteq Held \X Held
        BY <1>2, <3>1, <3>2
      <3>. QED  BY <3>4, <3>5 DEF Abstract!Touch
    <2>. QED  BY <1>0, <1>2, <2>3, <2>4, <2>5 DEF Abstract!Get
  <1>. QED  BY <1>1, <1>2

(* What an insert gave up is what a least-recently-used cache gives up. *)
LEMMA EvictsTheOldest ==
    ASSUME RInv, InsertFinish
    PROVE  /\ Evicted \in SUBSET (Abstract!Held \ {call.key})
           /\ (Abstract!Held \ {call.key}) \ Evicted = Held
           /\ Abstract!EvictedFor(Evicted, Abstract!Held \ {call.key}, BlockLen[call.data])
  <1>1. call # Idle /\ call \in Inserting /\ Visible = call.before
    BY ViewType DEF RInv, InsertFinish, Visible
  <1>2. Abstract!Held = DOMAIN call.before
    BY <1>1 DEF Abstract!Held, CachedView
  <1>3. /\ Held \subseteq DOMAIN call.before \ {call.key}
        /\ \A k \in Held : entries[k] = call.before[k]
        /\ \A v \in Evicted, k \in Held : call.before[v].last < call.before[k].last
    BY <1>1 DEF RInv, EvictionOK
  <1>4. /\ Evicted \subseteq DOMAIN call.before \ {call.key}
        /\ (DOMAIN call.before \ {call.key}) \ Evicted = Held
    BY <1>3 DEF Evicted
  <1>5. \A u, v \in DOMAIN call.before :
           call.before[u].last < call.before[v].last => <<u, v>> \in OlderView
    BY <1>1 DEF OlderView
  <1>6. ASSUME NEW K \in SUBSET DOMAIN call.before
        PROVE  Abstract!Weight(K) = Cardinality(BytesFor(call.before, K))
    <2>1. \A k \in K : BlockLen[CachedView[k]] = Size(call.before[k])
      BY <1>1 DEF CachedView, Size
    <2>2. UNION {{k} \X (1..BlockLen[CachedView[k]]) : k \in K} = BytesFor(call.before, K)
      BY <2>1 DEF BytesFor
    <2>3. Abstract!Cardinality(BytesFor(call.before, K)) = Cardinality(BytesFor(call.before, K))
      BY Zenon DEF Abstract!Cardinality, Cardinality
    <2>. QED  BY <2>2, <2>3 DEF Abstract!Weight
  <1>7. Abstract!Weight(Held) + BlockLen[call.data] <= Cap
    <2>1. BytesFor(call.before, Held) = Bytes
      <3>1. \A k \in Held : Size(call.before[k]) = Size(entries[k])
        BY <1>3
      <3>. QED  BY <3>1 DEF BytesFor, Bytes, BytesOf, Held
    <2>2. Abstract!Weight(Held) = cur_bytes
      BY <1>3, <1>6, <2>1 DEF RInv, IInv, Accounting
    <2>3. ~ MustEvict
      <3>1. CASE Held = {}
        <4>1. BytesOf(entries) = {}
          BY <3>1 DEF BytesOf, Held
        <4>2. cur_bytes = 0
          BY <4>1, FS_EmptySet DEF RInv, IInv, Accounting, Bytes
        <4>3. BlockLen[call.data] \in Nat /\ BlockLen[call.data] <= Cap
          BY <1>1, LenAssumption, CapAssumption DEF RInv, IInv, CallOK, Declined, Inserting
        <4>. QED  BY <4>2, <4>3, CapAssumption DEF MustEvict
      <3>. QED  BY <3>1 DEF InsertFinish
    <2>4. BlockLen[call.data] \in Nat /\ cur_bytes \in Nat
      BY <1>1, LenAssumption DEF Inserting, RInv, IInv, TypeOK
    <2>. QED  BY <2>2, <2>3, <2>4, CapAssumption DEF MustEvict
  <1>8. ASSUME Evicted # {}
        PROVE  \E v \in Evicted : /\ \A u \in Evicted \ {v} : <<u, v>> \in OlderView
                                  /\ Abstract!Weight(Held \cup {v}) + BlockLen[call.data] > Cap
    <2>1. PICK v \in Evicted :
              /\ \A u \in Evicted \ {v} : call.before[u].last < call.before[v].last
              /\ Cardinality(BytesFor(call.before, Held \cup {v})) + BlockLen[call.data] > Cap
      BY <1>1, <1>8 DEF RInv, EvictionOK
    <2>2. Held \cup {v} \in SUBSET DOMAIN call.before
      BY <1>3, <1>4
    <2>. QED  BY <1>4, <1>5, <1>6, <2>1, <2>2
  <1>9. \A v \in Evicted, k \in Held : <<v, k>> \in OlderView
    BY <1>3, <1>4, <1>5
  <1>. QED  BY <1>2, <1>4, <1>7, <1>8, <1>9 DEF Abstract!EvictedFor

(* The last step of an insert is the insert of the abstract map. *)
LEMMA InsertSimulates ==
    ASSUME TickBound < TickMod, RInv, InsertFinish
    PROVE  Abstract!Insert(call.key, call.data)
  <1>. DEFINE k == call.key
              b == call.data
  <1>1. /\ call # Idle /\ call \in Inserting /\ Visible = call.before
        /\ Visible' = entries' /\ DOMAIN entries' = Held \cup {k}
        /\ entries'[k] = [data |-> b, last |-> tick + 1]
        /\ k \notin Held
        /\ \A j \in Held : entries'[j] = entries[j]
    BY FinishRInv DEF Visible
  <1>2. /\ Held \subseteq DOMAIN call.before
        /\ \A j \in Held : entries[j] = call.before[j]
    BY <1>1 DEF RInv, EvictionOK
  <1>3. Cap > 0 /\ BlockLen[b] <= Cap
    BY <1>1, CapAssumption, LenAssumption DEF RInv, IInv, CallOK, Declined, Inserting
  <1>4. CachedView' = [j \in Held \cup {k} |-> IF j = k THEN b ELSE CachedView[j]]
    <2>1. \A j \in Held \cup {k} : entries'[j].data = IF j = k THEN b ELSE CachedView[j]
      BY <1>1, <1>2 DEF CachedView
    <2>. QED  BY <1>1, <2>1 DEF CachedView
  <1>5. tick \in Nat /\ \A j \in Held : entries[j].last \in Nat /\ entries[j].last <= tick
    BY <1>1, <1>2, ViewType DEF RInv, StampsOK
  <1>6. OlderView' = Abstract!Touch(Held \cup {k}, k)
    <2>. DEFINE K == Held \cup {k}
                new == {<<j, k>> : j \in K \ {k}}
                kept == {p \in OlderView : p[1] \in K \ {k} /\ p[2] \in K \ {k}}
    <2>1. OlderView' = {p \in K \X K : entries'[p[1]].last < entries'[p[2]].last}
      BY <1>1 DEF OlderView
    <2>2. ASSUME NEW i \in K, NEW j \in K
          PROVE  entries'[i].last < entries'[j].last
                   <=> \/ j = k /\ i # k
                       \/ i # k /\ j # k /\ entries[i].last < entries[j].last
      <3>1. entries'[k].last = tick + 1
        BY <1>1
      <3>2. \A h \in K : h # k => h \in Held /\ entries'[h].last = entries[h].last
        BY <1>1
      <3>. QED  BY <1>5, <3>1, <3>2
    <2>3. \A i, j \in Held : <<i, j>> \in OlderView <=> entries[i].last < entries[j].last
      BY <1>1, <1>2 DEF OlderView
    <2>4. ASSUME NEW i \in K, NEW j \in K
          PROVE  <<i, j>> \in OlderView' <=> <<i, j>> \in kept \cup new
      <3>1. <<i, j>> \in OlderView' <=> entries'[i].last < entries'[j].last
        BY <2>1
      <3>2. <<i, j>> \in kept <=> i # k /\ j # k /\ entries[i].last < entries[j].last
        BY <1>1, <2>3
      <3>3. <<i, j>> \in new <=> j = k /\ i # k
        OBVIOUS
      <3>. QED  BY <2>2, <3>1, <3>2, <3>3
    <2>5. \A p \in K \X K : p \in OlderView' <=> p \in kept \cup new
      BY <2>4
    <2>6. OlderView' \subseteq K \X K /\ kept \cup new \subseteq K \X K
      BY <1>1, <2>1 DEF OlderView
    <2>. QED  BY <2>5, <2>6 DEF Abstract!Touch
  <1>7. UNCHANGED reply
    BY DEF InsertFinish
  <1>. QED  BY <1>1, <1>3, <1>4, <1>6, <1>7, EvictsTheOldest DEF Abstract!Insert

LEMMA InitSimulates == Init => Abstract!Init
  BY DEF Init, Abstract!Init, CachedView, OlderView, Visible

LEMMA NextSimulates ==
    TickBound < TickMod /\ RInv /\ [Next]_vars => [Abstract!Next]_(Abstract!vars)
  <1>. SUFFICES ASSUME TickBound < TickMod, RInv, [Next]_vars
                PROVE  Abstract!Next \/ UNCHANGED Abstract!vars
    OBVIOUS
  <1>1. ASSUME NEW k \in Keys, Get(k) PROVE Abstract!Next
    BY <1>1, GetSimulates DEF Abstract!Next
  <1>2. ASSUME NEW k \in Keys, NEW b \in Blocks, InsertStart(k, b) PROVE UNCHANGED Abstract!vars
    BY <1>2, StartRInv, Stutters
  <1>3. CASE EvictOne
    BY <1>3, EvictRInv, Stutters
  <1>4. CASE InsertFinish
    <2>1. call.key \in Keys /\ call.data \in Blocks
      BY <1>4, FinishRInv DEF Inserting
    <2>. QED  BY <1>4, <2>1, InsertSimulates DEF Abstract!Next
  <1>5. ASSUME UNCHANGED vars PROVE UNCHANGED Abstract!vars
    BY <1>5, Stutters DEF vars, Visible
  <1>6. ASSUME NEW k \in Keys, NEW b \in Blocks, InsertDeclined(k, b) PROVE UNCHANGED Abstract!vars
    BY <1>5, <1>6 DEF InsertDeclined
  <1>. QED  BY <1>1, <1>2, <1>3, <1>4, <1>5, <1>6 DEF Next

(* cache.rs get, insert and evict_one: as long as the clock has not come     *)
(* round to a stamp it gave before, the cache is a least-recently-used map,  *)
(* and an insert forgets as few blocks as it can, the oldest ones.           *)
THEOREM EvictsLeastRecentlyUsed == ASSUME TickBound < TickMod PROVE Spec => IsLRU
  <1>1. Init => RInv /\ Abstract!Init
    BY InitRInv, InitSimulates
  <1>2. RInv /\ [Next]_vars => RInv' /\ [Abstract!Next]_(Abstract!vars)
    BY NextRInv, NextSimulates
  <1>. QED  BY <1>1, <1>2, PTL DEF Spec, IsLRU, Abstract!Spec
=============================================================================
