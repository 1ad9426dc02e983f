----------------------------- MODULE BlockCache -----------------------------
(***************************************************************************)
(* lamfold's cache.rs: the immutable decompressed-block cache, a byte-      *)
(* capacity LRU.  An insert is the one operation with a loop; it is a       *)
(* sequence of steps here (start, evict..., finish) while every other       *)
(* operation is one step.  The cache is taken by &mut self, so nothing else *)
(* runs between the steps of an insert.                                     *)
(***************************************************************************)
EXTENDS Naturals, FiniteSets

CONSTANTS Keys,       \* block ids (u64), ordered as the BTreeMap orders them
          Blocks,     \* decompressed blocks
          BlockLen,   \* their lengths in bytes
          Cap,        \* cap_bytes
          TickMod,    \* 2^64 in the code: tick.wrapping_add(1)
          TickBound,  \* bound: no operation starts once tick has this value
          None        \* None of the Option that get returns

ASSUME KeysAssumption == Keys \subseteq Nat
ASSUME LenAssumption == BlockLen \in [Blocks -> Nat]
ASSUME CapAssumption == Cap \in Nat
ASSUME TickAssumption == TickMod \in Nat \ {0} /\ TickBound \in Nat
ASSUME NoneAssumption == None \notin Blocks

VARIABLES entries,    \* BTreeMap<u64, Entry>
          tick,       \* the logical clock that stamps Entry.last
          cur_bytes,  \* bytes retained, kept incrementally
          call,       \* the insert under way: key, data and the entries it found
          reply       \* what the last get returned

vars == <<entries, tick, cur_bytes, call, reply>>

Entry == [data : Blocks, last : 0..TickMod - 1]
Idle == [op |-> "idle"]
EntryMap == UNION {[K -> Entry] : K \in SUBSET Keys}
Inserting == [op : {"insert"}, key : Keys, data : Blocks, before : EntryMap]

Remove(m, k) == [j \in DOMAIN m \ {k} |-> m[j]]
Put(m, k, e) == [j \in DOMAIN m \cup {k} |-> IF j = k THEN e ELSE m[j]]
Size(e) == BlockLen[e.data]

Held == DOMAIN entries
NextTick == (tick + 1) % TickMod

Init ==
    /\ entries = [k \in {} |-> None]
    /\ tick = 0
    /\ cur_bytes = 0
    /\ call = Idle
    /\ reply = None

(* A mutant of Get: a hit leaves the stamp alone. *)
GetUnstamped(k) ==
    /\ call = Idle
    /\ tick # TickBound
    /\ tick' = NextTick
    /\ reply' = IF k \in Held THEN entries[k].data ELSE None
    /\ UNCHANGED <<entries, cur_bytes, call>>

(* get ticks the clock on a miss too; only a hit stamps the entry. *)
Get(k) ==
    /\ call = Idle
    /\ tick # TickBound
    /\ tick' = NextTick
    /\ IF k \in Held
         THEN /\ entries' = Put(entries, k, [entries[k] EXCEPT !.last = NextTick])
              /\ reply' = entries[k].data
         ELSE /\ reply' = None
              /\ UNCHANGED entries
    /\ UNCHANGED <<cur_bytes, call>>

(* A mutant of Declined: no check of the block against the cap. *)
DeclinedOnlyAtZero(b) == Cap = 0

(* insert's early return: nothing changes, an older block under k included. *)
Declined(b) == Cap = 0 \/ BlockLen[b] > Cap

InsertDeclined(k, b) ==
    /\ call = Idle
    /\ Declined(b)
    /\ UNCHANGED vars

(* A mutant of InsertStart: a replaced block stays counted. *)
InsertStartUncounted(k, b) ==
    /\ call = Idle
    /\ tick # TickBound
    /\ ~ Declined(b)
    /\ entries' = Remove(entries, k)
    /\ call' = [op |-> "insert", key |-> k, data |-> b, before |-> entries]
    /\ UNCHANGED <<cur_bytes, tick, reply>>

InsertStart(k, b) ==
    /\ call = Idle
    /\ tick # TickBound
    /\ ~ Declined(b)
    /\ entries' = Remove(entries, k)
    /\ cur_bytes' = IF k \in Held THEN cur_bytes - Size(entries[k]) ELSE cur_bytes
    /\ call' = [op |-> "insert", key |-> k, data |-> b, before |-> entries]
    /\ UNCHANGED <<tick, reply>>

(* A mutant of MustEvict: the new block is not counted. *)
MustEvictLate == cur_bytes > Cap

MustEvict == cur_bytes + BlockLen[call.data] > Cap

(* min_by_key over an ascending iteration: the smallest stamp, and the       *)
(* smallest key among equal stamps.                                          *)
Victim(v) ==
    /\ v \in Held
    /\ \A k \in Held : \/ entries[v].last < entries[k].last
                       \/ entries[v].last = entries[k].last /\ v <= k

(* A mutant of EvictOne: the size of the wrong block is taken off. *)
EvictOneWrongSize ==
    /\ call # Idle
    /\ MustEvict
    /\ \E v \in Held : Victim(v) /\ entries' = Remove(entries, v)
    /\ cur_bytes' = cur_bytes - BlockLen[call.data]
    /\ UNCHANGED <<tick, call, reply>>

(* A mutant of EvictOne: the victim is looked up, not removed. *)
EvictOneKeeps ==
    /\ call # Idle
    /\ MustEvict
    /\ \E v \in Held : Victim(v)
    /\ UNCHANGED vars

EvictOne ==
    /\ call # Idle
    /\ MustEvict
    /\ \E v \in Held : /\ Victim(v)
                       /\ entries' = Remove(entries, v)
                       /\ cur_bytes' = cur_bytes - Size(entries[v])
    /\ UNCHANGED <<tick, call, reply>>

(* The loop ends when the block fits, or when evict_one has nothing left. *)
InsertFinish ==
    /\ call # Idle
    /\ ~ MustEvict \/ Held = {}
    /\ tick' = NextTick
    /\ cur_bytes' = cur_bytes + BlockLen[call.data]
    /\ entries' = Put(entries, call.key, [data |-> call.data, last |-> NextTick])
    /\ call' = Idle
    /\ UNCHANGED reply

Next ==
    \/ \E k \in Keys : \/ Get(k)
                       \/ \E b \in Blocks : InsertStart(k, b) \/ InsertDeclined(k, b)
    \/ EvictOne
    \/ InsertFinish

(* An insert that was called runs to its end: it is a plain loop. *)
Spec == Init /\ [][Next]_vars
FairSpec == Spec /\ WF_vars(EvictOne \/ InsertFinish)

-----------------------------------------------------------------------------
(* Every variable has its type; the counter never wraps below zero.  *)
TypeOK ==
    /\ entries \in EntryMap
    /\ tick \in 0..TickMod - 1
    /\ cur_bytes \in Nat
    /\ call = Idle \/ call \in Inserting
    /\ reply \in Blocks \cup {None}

(* The bytes the cache really holds, one element per byte. *)
BytesOf(m) == UNION {{k} \X (1..Size(m[k])) : k \in DOMAIN m}
Bytes == BytesOf(entries)

(* cur_bytes, adjusted by hand on every removal and insertion, is the number *)
(* of bytes in the map at every step, in the middle of an insert too.        *)
Accounting == IsFiniteSet(Bytes) /\ cur_bytes = Cardinality(Bytes)

(* The cache never holds more than cap_bytes (cache.rs "holding at most      *)
(* cap_bytes"), not even between two evictions.                              *)
CapRespected == Cardinality(Bytes) <= Cap

(* insert makes room before it stores: when evict_one finds the map empty    *)
(* (the None => break exit) the block fits, so the break never overfills.    *)
BreakIsSafe == call # Idle /\ Held = {} => ~ MustEvict

(* Every insert returns: each round of the while loop removes an entry. *)
InsertReturns == call # Idle ~> call = Idle

(* The cache implements the abstract least-recently-used map.  Callers see   *)
(* the map as the insert found it until the insert is over.                  *)
Visible == IF call = Idle THEN entries ELSE call.before
CachedView == [k \in DOMAIN Visible |-> Visible[k].data]
OlderView == {p \in (DOMAIN Visible) \X (DOMAIN Visible) : Visible[p[1]].last < Visible[p[2]].last}
Abstract == INSTANCE BlockCacheSpec WITH cached <- CachedView, older <- OlderView
IsLRU == Abstract!Spec
=============================================================================
