--------------------------- MODULE BlockCacheSpec ---------------------------
(***************************************************************************)
(* What lamfold's decompressed-block cache promises its callers: a byte-    *)
(* bounded map from block ids to blocks that forgets, when it needs room,   *)
(* the smallest possible set of least recently used blocks.  Recency is an  *)
(* order on the keys, so there are no clocks and no eviction loop here.     *)
(* BlockCache is shown to implement this module.                            *)
(***************************************************************************)
EXTENDS Naturals, FiniteSets

CONSTANTS Keys,       \* block ids (a u64 chosen by the frontend)
          Blocks,     \* decompressed blocks
          BlockLen,   \* their lengths in bytes
          Cap,        \* cap_bytes
          None        \* what a miss answers

VARIABLES cached,     \* the retained blocks, a partial function on Keys
          older,      \* <<j, k>>: key j was used before key k
          reply       \* the answer of the last get

vars == <<cached, older, reply>>

Held == DOMAIN cached

(* The bytes a set K of retained keys stands for. *)
Weight(K) == Cardinality(UNION {{k} \X (1..BlockLen[cached[k]]) : k \in K})

(* Recency after k becomes the most recently used key of K. *)
Touch(K, k) ==
    {p \in older : p[1] \in K \ {k} /\ p[2] \in K \ {k}} \cup {<<j, k>> : j \in K \ {k}}

(* V is what a least-recently-used cache gives up out of K to make room for  *)
(* n bytes: V is older than everything kept, what is kept fits, and keeping  *)
(* V's youngest member as well would not.                                    *)
EvictedFor(V, K, n) ==
    /\ \A v \in V, k \in K \ V : <<v, k>> \in older
    /\ Weight(K \ V) + n <= Cap
    /\ V # {} => \E v \in V : /\ \A u \in V \ {v} : <<u, v>> \in older
                              /\ Weight((K \ V) \cup {v}) + n > Cap

Init ==
    /\ cached = [k \in {} |-> None]
    /\ older = {}
    /\ reply = None

Get(k) ==
    /\ reply' = IF k \in Held THEN cached[k] ELSE None
    /\ older' = IF k \in Held THEN Touch(Held, k) ELSE older
    /\ UNCHANGED cached

Insert(k, b) ==
    /\ Cap > 0
    /\ BlockLen[b] <= Cap
    /\ \E V \in SUBSET (Held \ {k}) :
        /\ EvictedFor(V, Held \ {k}, BlockLen[b])
        /\ LET kept == (Held \ {k}) \ V
           IN  /\ cached' = [j \in kept \cup {k} |-> IF j = k THEN b ELSE cached[j]]
               /\ older' = Touch(kept \cup {k}, k)
    /\ UNCHANGED reply

Next == \E k \in Keys : Get(k) \/ \E b \in Blocks : Insert(k, b)

Spec == Init /\ [][Next]_vars
=============================================================================
