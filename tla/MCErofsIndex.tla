--------------------------- MODULE MCErofsIndex ---------------------------
(***************************************************************************)
(* Indexes for ErofsIndex, written the way mkfs.erofs lays them out.  A     *)
(* file has n logical clusters of eight bytes; lens gives, over and over,   *)
(* how many clusters lie between one pcluster's head and the next.          *)
(***************************************************************************)
EXTENDS ErofsIndex

CONSTANTS Clusters, Bases       \* values of n_lc and of ebase

Top == 2 ^ ADDR_BITS
Put(v, at, w) == {at + k : k \in {j \in 0..w - 1 : (v \div (2 ^ j)) % 2 = 1}}

HeadAt(n, lens) ==      \* the clusters that hold a head
    LET total == lens[1] + lens[2] + lens[3]
    IN  {j \in 0..n - 1 : (j % total) \in {0, lens[1], lens[1] + lens[2]}}
Before(h, j) == Cardinality({k \in h : k < j})
HeadOf(h, j) == CHOOSE k \in h : k <= j /\ \A l \in h : l <= j => l <= k

(* The file: pclusters numbered from 0 by their heads' clusters h. *)
Type(k) == <<PLAIN, HEAD1, HEAD2, HEAD1>>[(k % 4) + 1]
Ofs(k) == IF k = 0 THEN 0 ELSE (k % 4) + 1
Count(n, h, big, j) ==  \* blocks of the pcluster whose head is cluster j
    IF big /\ j + 1 < n /\ j + 1 \notin h THEN (Before(h, j) % 3) + 1 ELSE 1
Addr(n, h, big, first, j) == first + MapThenSumSet(LAMBDA k : Count(n, h, big, k), {k \in h : k < j})

Value(n, h, big, hole, j) ==
    IF j \in h THEN Ofs(Before(h, j))
    ELSE IF big /\ j - 1 \in h
      THEN COMPACT_CBLKCNT_FLAG + (IF hole /\ j - 1 = HeadOf(h, n - 1) THEN 0 ELSE Count(n, h, big, j - 1))
    ELSE j - HeadOf(h, j)
Coded(n, h, big, hole, j) ==
    Value(n, h, big, hole, j) + 4096 * (IF j \in h THEN Type(Before(h, j)) ELSE NONHEAD)

(* 4-byte groups up to the next multiple of 32, packs, 4-byte groups. *)
First4(n, ebase) == LeastOf(CHOOSE c \in 0..7 : (ebase + 4 * c) % 32 = 0, n)
Packs(n, ebase) == (n - First4(n, ebase)) \div 16
GroupBits(n, h, big, hole, first, at, j, m, width, baseAt) ==
    UNION {Put(Coded(n, h, big, hole, j + s), 8 * at + width * s, 14) : s \in 0..m - 1}
    \cup Put(LeastOf(Addr(n, h, big, first, j) - (IF big THEN 0 ELSE 1), Top - 1), 8 * (at + baseAt), ADDR_BITS)
CompactBits(n, h, big, hole, first, ebase) ==
    LET a == First4(n, ebase)
        p == Packs(n, ebase)
        group(at, j, end) == GroupBits(n, h, big, hole, first, at, j, LeastOf(2, end - j), 16, 4)
        packAt == 8 * CeilDiv(a, 2)
        rest == a + 16 * p
    IN  UNION {group(8 * g, 2 * g, a) : g \in 0..CeilDiv(a, 2) - 1}
        \cup UNION {GroupBits(n, h, big, hole, first, packAt + 32 * q, a + 16 * q, 16, 14, 28) : q \in 0..p - 1}
        \cup UNION {group(packAt + 32 * p + 8 * g, rest + 2 * g, n) : g \in 0..CeilDiv(n - rest, 2) - 1}

FullBits(n, h, hole, first) ==
    UNION {IF j \in h
             THEN Put(Type(Before(h, j)) + (IF hole /\ j = HeadOf(h, n - 1) THEN 2 ^ LI_HOLE ELSE 0), 64 * j, 16)
                  \cup Put(Ofs(Before(h, j)), 64 * j + 16, 16)
                  \cup Put(Addr(n, h, FALSE, first, j), 64 * j + 32, ADDR_BITS)
             ELSE Put(NONHEAD, 64 * j, 16) \cup Put(j - HeadOf(h, j), 64 * j + 32, 16) : j \in 0..n - 1}

Pcluster(n, h, big, first, j) ==
    [start |-> IF j = 0 THEN 0 ELSE 8 * j + Ofs(Before(h, j)), ty |-> Type(Before(h, j)),
     blkaddr |-> Addr(n, h, big, first, j), cblkcnt |-> Count(n, h, big, j)]
TruthOf(n, h, big, first) ==
    [k \in 1..Cardinality(h) |-> Pcluster(n, h, big, first, CHOOSE j \in h : Before(h, j) = k - 1)]

Index(layout, n, lens, big, hole, first, ebase) ==
    LET h == HeadAt(n, lens)
    IN  [layout |-> layout, n_lc |-> n, ebase |-> ebase, lcsize |-> 8, big |-> big,
         hole |-> hole,
         overflow |-> h # {} /\ Addr(n, h, big, first, HeadOf(h, n - 1)) >= Top,
         bits |-> IF layout = "full" THEN FullBits(n, h, hole, first)
                                     ELSE CompactBits(n, h, big, hole, first, ebase),
         truth |-> TruthOf(n, h, big, first)]

Patterns == {<<1, 1, 1>>, <<1, 2, 3>>, <<3, 1, 2>>, <<2, 1, 1>>, <<4, 5, 3>>, <<20, 2, 2>>}
MCIndexes ==
    {Index("compact", n, p, b, FALSE, 5, e) : n \in Clusters, p \in Patterns, b \in BOOLEAN, e \in Bases}
    \cup {Index("full", n, p, FALSE, FALSE, 5, 8) : n \in Clusters \ {50}, p \in Patterns}
    \cup {Index("compact", n, <<1, 2, 3>>, TRUE, TRUE, 5, e) : n \in {6, 24}, e \in Bases}
    \cup {Index("full", 6, <<1, 2, 3>>, FALSE, TRUE, 5, 8)}
    \cup {Index("compact", n, <<1, 2, 3>>, b, FALSE, Top - a, e) :
            n \in {6, 23}, b \in BOOLEAN, a \in {1, 2, 3, 5}, e \in Bases}
=============================================================================
