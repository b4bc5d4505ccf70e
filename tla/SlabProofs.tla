----------------------------- MODULE SlabProofs -----------------------------
(***************************************************************************)
(* Proofs about slab_alloc, for every set of buffers and their sizes: the  *)
(* blocks of a buffer are handed out once and in their order, the one past *)
(* its end never, the counters are those of the free lists, and the        *)
(* allocator implements a pool of objects.                                 *)
(***************************************************************************)
EXTENDS Slab, WordTheorems

----------------------------------------------------------------------------
\* The walk along the links of a free list, as FreeList of Slab defines it.

\* Each of n blocks is linked to the one behind it.
Consecutive(n, first, link) == \A i \in first .. first + n - 1 : link[i] = i + 1

\* W visits n blocks and what the last of them is linked to.
IsWalk(W, n, first, link) == W = [i \in 0 .. n |-> IF i = 0 THEN first ELSE link[W[i - 1]]]

\* A walk along consecutive blocks visits them in their order.
LEMMA WalkAlong ==
    ASSUME NEW n \in Nat, NEW first \in Nat, NEW link, Consecutive(n, first, link),
           NEW W, IsWalk(W, n, first, link)
    PROVE  \A i \in 0 .. n : W[i] = first + i
<1> DEFINE S == {i \in Nat : i <= n => W[i] = first + i}
<1>1. W[0] = first /\ \A i \in 1 .. n : W[i] = link[W[i - 1]]
  BY DEF IsWalk
<1>2. 0 \in S
  BY <1>1
<1>3. ASSUME NEW i \in Nat, i \in S PROVE i + 1 \in S
  <2>1. SUFFICES ASSUME i + 1 <= n PROVE W[i + 1] = first + (i + 1)
    OBVIOUS
  <2>2. W[i] = first + i
    BY <1>3, <2>1
  <2>3. i + 1 \in 1 .. n /\ (i + 1) - 1 = i
    BY <2>1
  <2>4. W[i + 1] = link[W[i]]
    BY <1>1, <2>3
  <2>5. first + i \in first .. first + n - 1
    BY <2>1
  <2> QED
    BY <2>2, <2>4, <2>5 DEF Consecutive
<1> HIDE DEF S
<1>4. \A i \in Nat : i \in S
  BY <1>2, <1>3, SetInduction
<1> TAKE i \in 0 .. n
<1>5. i \in S /\ i <= n
  BY <1>4
<1> QED
  BY <1>5 DEF S

\* There is such a walk.
LEMMA WalkExists ==
    ASSUME NEW n \in Nat, NEW first \in Nat, NEW link, Consecutive(n, first, link)
    PROVE  \E W : IsWalk(W, n, first, link)
<1> DEFINE G == [i \in 0 .. n |-> first + i]
<1>1. ASSUME NEW i \in 0 .. n
      PROVE  first + i = IF i = 0 THEN first ELSE link[G[i - 1]]
  <2>1. CASE i = 0
    BY <2>1
  <2>2. CASE i # 0
    <3>1. i - 1 \in 0 .. n /\ first + (i - 1) \in first .. first + n - 1
      BY <2>2
    <3>2. G[i - 1] = first + (i - 1)
      BY <3>1
    <3>3. link[first + (i - 1)] = (first + (i - 1)) + 1
      BY <3>1 DEF Consecutive
    <3> QED
      BY <2>2, <3>2, <3>3
  <2> QED
    BY <2>1, <2>2
<1>2. IsWalk(G, n, first, link)
  BY <1>1 DEF IsWalk
<1> QED
  BY <1>2

\* The free list of a region whose blocks are consecutive from its head on.
LEMMA FreeListIs ==
    ASSUME NEW b \in Buffers, free[b] \in Nat, head[b] \in Nat,
           Consecutive(free[b], head[b], next[b])
    PROVE  FreeList(b) = {<<b, i>> : i \in head[b] .. head[b] + free[b] - 1}
<1> DEFINE n == free[b]
           first == head[b]
           W == CHOOSE w : IsWalk(w, n, first, next[b])
<1>1. FreeList(b) = {<<b, W[i]>> : i \in 0 .. n - 1}
  BY DEF FreeList, IsWalk
<1>2. \E w : IsWalk(w, n, first, next[b])
  BY WalkExists
<1>3. IsWalk(W, n, first, next[b])
  BY <1>2
<1> HIDE DEF W
<1>4. \A i \in 0 .. n : W[i] = first + i
  BY <1>3, WalkAlong
<1>5. ASSUME NEW i \in 0 .. n - 1
      PROVE  W[i] = first + i /\ first + i \in first .. first + n - 1
  BY <1>4
<1>6. ASSUME NEW j \in first .. first + n - 1
      PROVE  j - first \in 0 .. n - 1 /\ W[j - first] = j
  <2>1. j - first \in 0 .. n - 1 /\ j - first \in 0 .. n /\ first + (j - first) = j
    OBVIOUS
  <2> QED
    BY <2>1, <1>4
<1> QED
  BY <1>1, <1>5, <1>6

----------------------------------------------------------------------------
\* The invariant behind the properties of Slab.

\* The blocks of a region are handed out from the first on: those from the
\* head on are free, linked one to the next, and as many as m_free says.
RegionInv ==
    \A b \in Buffers :
        IF b \in Grown
        THEN /\ free[b] <= BlocksIn(b)
             /\ head[b] = BlocksIn(b) - free[b]
             /\ \A i \in head[b] .. Past(b) : next[b][i] = Link(b, i)
        ELSE free[b] = 0

\* What was handed out lies before the head of its region.
OutBeforeHead ==
    \A k \in 1 .. Len(out) : out[k][1] \in Grown /\ out[k][2] < head[out[k][1]]

\* A sequence of pairs; the type invariant says what its elements are.
OutTyped == out \in Seq(Buffers \X Nat)

SlabInv == TypeOK /\ OutTyped /\ RegionInv /\ OutBeforeHead /\ InOrder

\* The number of blocks of a buffer is a natural number.
LEMMA BlocksInNat == \A b \in Buffers : BlocksIn(b) \in Nat
<1> SUFFICES ASSUME NEW b \in Buffers PROVE BlocksIn(b) \in Nat
  OBVIOUS
<1>1. \A x \in Nat, y \in Nat \ {0} : x \div y \in Nat
  OBVIOUS
<1>2. BufferSize[b] \in Nat /\ REGION_SZ \in Nat /\ BLOCK_SZ \in Nat \ {0}
  BY SlabAssumption
<1>3. CASE BufferSize[b] < REGION_SZ
  BY <1>3 DEF BlocksIn
<1>4. CASE ~(BufferSize[b] < REGION_SZ)
  <2>1. BufferSize[b] - REGION_SZ \in Nat
    BY <1>2, <1>4
  <2> QED
    BY <1>1, <1>2, <1>4, <2>1 DEF BlocksIn
<1> QED
  BY <1>3, <1>4

\* The invariant holds before the first grow.
LEMMA SlabInit == Init => SlabInv
<1> SUFFICES ASSUME Init PROVE SlabInv
  OBVIOUS
<1> USE DEF Init
<1>1. /\ m_regions \in Seq(Buffers) /\ Len(m_regions) = 0
      /\ out \in Seq(Buffers \X Nat) /\ Len(out) = 0
  OBVIOUS
<1>2. Grown = {}
  BY <1>1 DEF Grown
<1>3. \A b \in Buffers : next[b] \in [Blocks(b) -> Links(b)] /\ head[b] \in Links(b)
  BY DEF Links
<1>4. TypeOK
  BY <1>1, <1>3 DEF TypeOK
<1> QED
  BY <1>1, <1>2, <1>4 DEF SlabInv, OutTyped, RegionInv, OutBeforeHead, InOrder

\* grow, when it accepts the buffer.
Accepted(b) ==
    /\ b \notin Grown
    /\ total' = [total EXCEPT ![b] = BlocksIn(b)]
    /\ free' = [free EXCEPT ![b] = BlocksIn(b)]
    /\ m_total' = m_total + BlocksIn(b)
    /\ m_free' = m_free + BlocksIn(b)
    /\ head' = [head EXCEPT ![b] = 0]
    /\ next' = [next EXCEPT ![b] = [i \in Blocks(b) |-> Link(b, i)]]
    /\ m_regions' = <<b>> \o m_regions
    /\ extent' = [extent EXCEPT ![b] = WrittenBy(b)]
    /\ UNCHANGED <<status, out>>

\* The regions after a buffer was accepted.
LEMMA GrownGrows ==
    ASSUME m_regions \in Seq(Buffers), NEW b \in Buffers, m_regions' = <<b>> \o m_regions
    PROVE  m_regions' \in Seq(Buffers) /\ Grown' = Grown \cup {b}
<1> DEFINE n == Len(m_regions)
<1>1. /\ n \in Nat /\ m_regions' \in Seq(Buffers) /\ Len(m_regions') = n + 1
      /\ m_regions'[1] = b
      /\ \A k \in 1 .. n : m_regions'[k + 1] = m_regions[k]
  OBVIOUS
<1>2. \A k \in 2 .. n + 1 : k - 1 \in 1 .. n /\ m_regions'[k] = m_regions[k - 1]
  BY <1>1
<1>3. \A k \in 1 .. n + 1 : m_regions'[k] \in Grown \cup {b}
  BY <1>1, <1>2 DEF Grown
<1>4. \A k \in 1 .. n : m_regions[k] \in Grown'
  <2> TAKE k \in 1 .. n
  <2>1. k + 1 \in 1 .. n + 1 /\ m_regions'[k + 1] = m_regions[k]
    BY <1>1
  <2> HIDE DEF n
  <2>2. Grown' = {m_regions'[j] : j \in 1 .. n + 1}
    BY <1>1, Zenon DEF Grown
  <2> QED
    BY <2>1, <2>2, Zenon
<1>5. b \in Grown'
  BY <1>1 DEF Grown
<1> HIDE DEF n
<1>6. Grown = {m_regions[k] : k \in 1 .. n} /\ Grown' = {m_regions'[k] : k \in 1 .. n + 1}
  BY <1>1, Zenon DEF Grown, n
<1>7. Grown' \subseteq Grown \cup {b}
  BY <1>3, <1>6, Zenon
<1>8. Grown \cup {b} \subseteq Grown'
  BY <1>4, <1>5, <1>6, Zenon
<1> QED
  BY <1>1, <1>7, <1>8, Zenon

\* A grow that accepts its buffer keeps the invariant.
LEMMA AcceptedKeeps ==
    ASSUME SlabInv, NEW b \in Buffers, Accepted(b)
    PROVE  SlabInv'
<1> DEFINE n == BlocksIn(b)
<1>1. n \in Nat
  BY BlocksInNat
<1>2. m_regions' \in Seq(Buffers) /\ Grown' = Grown \cup {b}
  BY GrownGrows DEF SlabInv, TypeOK, Accepted
<1>3. /\ free'[b] = n /\ head'[b] = 0 /\ next'[b] = [i \in Blocks(b) |-> Link(b, i)]
      /\ \A c \in Buffers :
            c # b => free'[c] = free[c] /\ head'[c] = head[c] /\ next'[c] = next[c]
      /\ DOMAIN head' = Buffers /\ DOMAIN next' = Buffers
  BY DEF Accepted, SlabInv, TypeOK
<1>4. TypeOK'
  <2>1. total' \in [Buffers -> Nat] /\ free' \in [Buffers -> Nat]
    BY <1>1 DEF Accepted, SlabInv, TypeOK
  <2>2. WrittenBy(b) \in Nat
    BY <1>1, SlabAssumption DEF WrittenBy, region_size, Past
  <2>3. extent' \in [Buffers -> Nat]
    BY <2>2 DEF Accepted, SlabInv, TypeOK
  <2>4. \A c \in Buffers : head'[c] \in Links(c)
    <3>1. 0 \in Links(b)
      BY <1>1 DEF Links, Blocks, Past
    <3> QED
      BY <3>1, <1>3 DEF SlabInv, TypeOK
  <2>5. \A c \in Buffers : next'[c] \in [Blocks(c) -> Links(c)]
    <3>1. \A i \in Blocks(b) : Link(b, i) \in Links(b)
      BY <1>1 DEF Link, Links, Blocks, Past
    <3>2. next'[b] \in [Blocks(b) -> Links(b)]
      BY <3>1, <1>3
    <3>3. \A c \in Buffers : c # b => next'[c] \in [Blocks(c) -> Links(c)]
      BY <1>3 DEF SlabInv, TypeOK
    <3> QED
      BY <3>2, <3>3
  <2>6. m_total' \in Nat /\ m_free' \in Nat
    BY <1>1, SMTT(60) DEF Accepted, SlabInv, TypeOK
  <2>7. status' = status /\ out' = out
    BY DEF Accepted
  <2> QED
    BY <1>2, <1>3, <2>1, <2>3, <2>4, <2>5, <2>6, <2>7 DEF SlabInv, TypeOK
<1>5. RegionInv'
  <2>1. \A i \in 0 .. n : next'[b][i] = Link(b, i)
    BY <1>3 DEF Blocks, Past
  <2> SUFFICES ASSUME NEW c \in Buffers
               PROVE  IF c \in Grown'
                      THEN /\ free'[c] <= BlocksIn(c)
                           /\ head'[c] = BlocksIn(c) - free'[c]
                           /\ \A i \in head'[c] .. Past(c) : next'[c][i] = Link(c, i)
                      ELSE free'[c] = 0
    BY DEF RegionInv
  <2>2. CASE c = b
    BY <2>1, <2>2, <1>1, <1>2, <1>3 DEF Past
  <2>3. CASE c # b
    BY <2>3, <1>2, <1>3 DEF SlabInv, RegionInv
  <2> QED
    BY <2>2, <2>3
<1>6. OutBeforeHead'
  <2> SUFFICES ASSUME NEW k \in 1 .. Len(out)
               PROVE  out[k][1] \in Grown' /\ out[k][2] < head'[out[k][1]]
    BY DEF OutBeforeHead, Accepted
  <2>1. out[k][1] \in Grown /\ out[k][1] \in Buffers /\ out[k][2] < head[out[k][1]]
    BY DEF SlabInv, TypeOK, OutBeforeHead
  <2>2. out[k][1] # b
    BY <2>1 DEF Accepted
  <2> QED
    BY <2>1, <2>2, <1>2, <1>3
<1>7. InOrder' /\ OutTyped'
  BY DEF Accepted, SlabInv, InOrder, OutTyped
<1> QED
  BY <1>4, <1>5, <1>6, <1>7 DEF SlabInv

\* alloc, when it hands out the first free block of a region.
HandedOut(b) ==
    /\ b \in Grown /\ free[b] # 0 /\ m_free # 0
    /\ Dequeue(b)
    /\ next' = [next EXCEPT ![b][head[b]] = null]
    /\ out' = Append(out, <<b, head[b]>>)
    /\ UNCHANGED <<m_regions, total, m_total, status, extent>>

\* The block handed out, and what follows it.
LEMMA HeadBlock ==
    ASSUME SlabInv, NEW b \in Buffers, HandedOut(b)
    PROVE  /\ head[b] \in Nat /\ head[b] < Past(b) /\ next[b][head[b]] = head[b] + 1
           /\ Past(b) \in Nat /\ free[b] \in Nat \ {0}
           /\ free'[b] = free[b] - 1 /\ head'[b] = head[b] + 1
           /\ \A i \in Blocks(b) : i # head[b] => next'[b][i] = next[b][i]
           /\ \A c \in Buffers :
                 c # b => free'[c] = free[c] /\ head'[c] = head[c] /\ next'[c] = next[c]
<1>1. BlocksIn(b) \in Nat /\ free[b] \in Nat /\ free[b] # 0
  BY BlocksInNat DEF SlabInv, TypeOK, HandedOut
<1>2. /\ free[b] <= BlocksIn(b) /\ head[b] = BlocksIn(b) - free[b]
      /\ \A i \in head[b] .. Past(b) : next[b][i] = Link(b, i)
  BY DEF SlabInv, RegionInv, HandedOut
<1>3. head[b] \in Nat /\ head[b] < Past(b) /\ head[b] \in head[b] .. Past(b)
  BY <1>1, <1>2 DEF Past
<1>4. next[b][head[b]] = head[b] + 1
  BY <1>2, <1>3 DEF Link, Past
<1>5. /\ free'[b] = free[b] - 1 /\ head'[b] = head[b] + 1
      /\ \A c \in Buffers :
            c # b => free'[c] = free[c] /\ head'[c] = head[c] /\ next'[c] = next[c]
  BY <1>4 DEF SlabInv, TypeOK, HandedOut, Dequeue
<1>6. \A i \in Blocks(b) : i # head[b] => next'[b][i] = next[b][i]
  BY DEF SlabInv, TypeOK, HandedOut
<1> QED
  BY <1>1, <1>3, <1>4, <1>5, <1>6 DEF Past

\* An alloc that hands out a block keeps the invariant.
LEMMA HandedOutKeeps ==
    ASSUME SlabInv, NEW b \in Buffers, HandedOut(b)
    PROVE  SlabInv'
<1> DEFINE m == Len(out)
           h == head[b]
<1>1. /\ h \in Nat /\ h < Past(b) /\ next[b][h] = h + 1
      /\ Past(b) \in Nat /\ free[b] \in Nat \ {0}
      /\ free'[b] = free[b] - 1 /\ head'[b] = h + 1
      /\ \A i \in Blocks(b) : i # h => next'[b][i] = next[b][i]
      /\ \A c \in Buffers :
            c # b => free'[c] = free[c] /\ head'[c] = head[c] /\ next'[c] = next[c]
  BY HeadBlock
<1>2. /\ m_regions' = m_regions /\ Grown' = Grown /\ b \in Grown
      /\ total' = total /\ m_total' = m_total /\ status' = status /\ extent' = extent
  BY DEF HandedOut, Grown
<1>3. /\ m \in Nat /\ Len(out') = m + 1 /\ out'[m + 1] = <<b, h>>
      /\ out' \in Seq(Buffers \X Nat)
      /\ \A k \in 1 .. m : out'[k] = out[k]
  BY <1>1 DEF SlabInv, OutTyped, HandedOut
<1>4. TypeOK'
  <2>1. free' \in [Buffers -> Nat] /\ m_free' \in Nat
    BY <1>1, SMTT(60) DEF SlabInv, TypeOK, HandedOut, Dequeue
  <2>2. h \in Blocks(b) /\ h + 1 \in Links(b) /\ null \in Links(b)
    BY <1>1 DEF Blocks, Links
  <2>3. DOMAIN head' = Buffers /\ \A c \in Buffers : head'[c] \in Links(c)
    BY <1>1, <2>2 DEF SlabInv, TypeOK, HandedOut, Dequeue
  <2>4. DOMAIN next' = Buffers /\ next'[b] \in [Blocks(b) -> Links(b)]
    BY <2>2 DEF SlabInv, TypeOK, HandedOut
  <2>5. \A c \in Buffers : next'[c] \in [Blocks(c) -> Links(c)]
    BY <1>1, <2>4 DEF SlabInv, TypeOK
  <2>6. \A k \in 1 .. m + 1 : out'[k][1] \in Buffers /\ out'[k][2] \in Blocks(out'[k][1])
    <3> TAKE k \in 1 .. m + 1
    <3>1. CASE k = m + 1
      BY <3>1, <1>3, <2>2
    <3>2. CASE k \in 1 .. m
      BY <3>2, <1>3 DEF SlabInv, TypeOK
    <3> QED
      BY <3>1, <3>2, <1>3
  <2> QED
    BY <1>2, <1>3, <2>1, <2>3, <2>4, <2>5, <2>6 DEF SlabInv, TypeOK
<1>5. RegionInv'
  <2>1. \A i \in h + 1 .. Past(b) : next'[b][i] = Link(b, i)
    <3>1. \A i \in h + 1 .. Past(b) : i \in Blocks(b) /\ i # h /\ i \in h .. Past(b)
      BY <1>1 DEF Blocks
    <3> QED
      BY <3>1, <1>1, <1>2 DEF SlabInv, RegionInv
  <2> SUFFICES ASSUME NEW c \in Buffers
               PROVE  IF c \in Grown
                      THEN /\ free'[c] <= BlocksIn(c)
                           /\ head'[c] = BlocksIn(c) - free'[c]
                           /\ \A i \in head'[c] .. Past(c) : next'[c][i] = Link(c, i)
                      ELSE free'[c] = 0
    BY <1>2 DEF RegionInv
  <2>2. CASE c = b
    <3>1. free[b] <= BlocksIn(b) /\ h = BlocksIn(b) - free[b] /\ BlocksIn(b) \in Nat
      BY <1>2, BlocksInNat DEF SlabInv, RegionInv
    <3> QED
      BY <2>1, <2>2, <3>1, <1>1, <1>2
  <2>3. CASE c # b
    BY <2>3, <1>1, <1>2 DEF SlabInv, RegionInv
  <2> QED
    BY <2>2, <2>3
<1>6. \A k \in 1 .. m : /\ out[k][1] \in Grown /\ out[k][1] \in Buffers
                         /\ out[k][2] \in Nat /\ out[k][2] < head[out[k][1]]
  BY DEF SlabInv, TypeOK, OutBeforeHead, Blocks
<1>7. OutBeforeHead'
  <2> SUFFICES ASSUME NEW k \in 1 .. m + 1
               PROVE  out'[k][1] \in Grown /\ out'[k][2] < head'[out'[k][1]]
    BY <1>2, <1>3 DEF OutBeforeHead
  <2>1. CASE k = m + 1
    BY <2>1, <1>1, <1>2, <1>3
  <2>2. CASE k \in 1 .. m
    <3>1. CASE out[k][1] = b
      BY <2>2, <3>1, <1>1, <1>3, <1>6, SMTT(60)
    <3>2. CASE out[k][1] # b
      BY <2>2, <3>2, <1>1, <1>3, <1>6, ZenonT(60)
    <3> QED
      BY <3>1, <3>2
  <2> QED
    BY <2>1, <2>2, <1>3
<1>8. InOrder'
  <2> SUFFICES ASSUME NEW j \in 1 .. m + 1, NEW k \in 1 .. m + 1, j < k,
                      out'[j][1] = out'[k][1]
               PROVE  out'[j][2] < out'[k][2]
    BY <1>3 DEF InOrder
  <2>1. j \in 1 .. m
    BY <1>3
  <2>2. CASE k = m + 1
    BY <2>1, <2>2, <1>3, <1>6
  <2>3. CASE k \in 1 .. m
    <3>1. out'[j] = out[j] /\ out'[k] = out[k]
      BY <2>1, <2>3, <1>3
    <3>2. out[j][1] = out[k][1]
      BY <3>1
    <3>3. InOrder
      BY DEF SlabInv
    <3>4. out[j][2] < out[k][2]
      BY <2>1, <2>3, <3>2, <3>3 DEF InOrder
    <3> QED
      BY <3>1, <3>4
  <2>4. k = m + 1 \/ k \in 1 .. m
    BY <1>3
  <2> QED
    BY <2>2, <2>3, <2>4
<1> QED
  BY <1>3, <1>4, <1>5, <1>7, <1>8 DEF SlabInv, OutTyped

\* What an owner writes into its object is behind the free list.
LEMMA WriteKeeps ==
    ASSUME SlabInv, WriteObject
    PROVE  /\ SlabInv'
           /\ \A b \in Grown : \A i \in head[b] .. Past(b) : next'[b][i] = next[b][i]
<1>1. PICK k \in 1 .. Len(out) :
         \E v \in Links(out[k][1]) : next' = [next EXCEPT ![out[k][1]][out[k][2]] = v]
  BY DEF WriteObject
<1>2. PICK v \in Links(out[k][1]) : next' = [next EXCEPT ![out[k][1]][out[k][2]] = v]
  BY <1>1
<1> DEFINE b == out[k][1]
           i == out[k][2]
<1>3. b \in Buffers /\ b \in Grown /\ i \in Blocks(b) /\ i < head[b]
  BY DEF SlabInv, TypeOK, OutBeforeHead
<1>4. /\ UNCHANGED <<m_regions, total, free, head, m_total, m_free, status, out, extent>>
      /\ Grown' = Grown
  BY DEF WriteObject, region, Grown
<1> HIDE DEF b, i
<1>5. next' = [next EXCEPT ![b][i] = v] /\ v \in Links(b)
  BY <1>2 DEF b, i
<1>6. /\ DOMAIN next' = Buffers
      /\ \A c \in Buffers : c # b => next'[c] = next[c]
      /\ next'[b] \in [Blocks(b) -> Links(b)]
      /\ \A j \in Blocks(b) : j # i => next'[b][j] = next[b][j]
  BY <1>3, <1>5 DEF SlabInv, TypeOK
<1>7. TypeOK'
  <2>1. \A c \in Buffers : next'[c] \in [Blocks(c) -> Links(c)]
    BY <1>6 DEF SlabInv, TypeOK
  <2> QED
    BY <2>1, <1>4, <1>6 DEF SlabInv, TypeOK
<1>8. ASSUME NEW c \in Grown, NEW j \in head[c] .. Past(c) PROVE next'[c][j] = next[c][j]
  <2>1. c \in Buffers
    BY SMTT(60) DEF Grown, SlabInv, TypeOK
  <2>2. CASE c # b
    BY <2>1, <2>2, <1>6
  <2>3. CASE c = b
    <3>1. head[b] = BlocksIn(b) - free[b] /\ free[b] <= BlocksIn(b)
          /\ BlocksIn(b) \in Nat /\ free[b] \in Nat /\ i \in Nat
      BY <1>3, BlocksInNat DEF SlabInv, RegionInv, TypeOK, Blocks
    <3>2. j \in Blocks(b) /\ j # i
      BY <2>3, <3>1, <1>3 DEF Blocks, Past
    <3> QED
      BY <2>3, <3>2, <1>6
  <2> QED
    BY <2>2, <2>3
<1>9. RegionInv'
  BY <1>4, <1>8 DEF SlabInv, RegionInv
<1>10. OutBeforeHead' /\ InOrder' /\ OutTyped'
  BY <1>4 DEF SlabInv, OutBeforeHead, InOrder, OutTyped
<1> QED
  BY <1>7, <1>8, <1>9, <1>10 DEF SlabInv

\* What a step may be.
LEMMA StepCases ==
    ASSUME SlabInv, [Next]_vars
    PROVE  \/ /\ UNCHANGED <<region, free, next, m_total, m_free, out, extent>>
              /\ status' \in {"running", "assert"}
           \/ \E b \in Buffers : Accepted(b) \/ HandedOut(b)
           \/ WriteObject
<1>1. status \in {"running", "assert"}
  BY DEF SlabInv, TypeOK
<1>2. CASE UNCHANGED vars
  BY <1>1, <1>2 DEF vars
<1>3. ASSUME NEW b \in Buffers, grow(b)
      PROVE  \/ /\ UNCHANGED <<region, free, next, m_total, m_free, out, extent>>
                /\ status' \in {"running", "assert"}
             \/ Accepted(b)
  BY <1>3 DEF grow, Accepted
<1>4. CASE alloc
  <2>1. CASE UNCHANGED <<region, free, next, m_total, m_free, status, out, extent>>
    BY <1>1, <2>1
  <2>2. ASSUME NEW k \in 1 .. Len(m_regions), m_free # 0, FirstNonEmpty(k), Dequeue(m_regions[k]),
               next' = [next EXCEPT ![m_regions[k]][head[m_regions[k]]] = null],
               out' = Append(out, <<m_regions[k], head[m_regions[k]]>>),
               UNCHANGED <<m_regions, total, m_total, status, extent>>
        PROVE  m_regions[k] \in Buffers /\ HandedOut(m_regions[k])
    <3>1. m_regions[k] \in Buffers /\ m_regions[k] \in Grown
      BY DEF SlabInv, TypeOK, Grown
    <3> QED
      BY <2>2, <3>1 DEF HandedOut, FirstNonEmpty
  <2> QED
    BY <1>4, <2>1, <2>2 DEF alloc
<1>5. CASE Spin
  BY <1>1, <1>5 DEF Spin, vars
<1> QED
  BY <1>2, <1>3, <1>4, <1>5 DEF Next

\* Every step keeps the invariant.
LEMMA SlabStep == SlabInv /\ [Next]_vars => SlabInv'
<1> SUFFICES ASSUME SlabInv, [Next]_vars PROVE SlabInv'
  OBVIOUS
<1>1. CASE /\ UNCHANGED <<region, free, next, m_total, m_free, out, extent>>
           /\ status' \in {"running", "assert"}
  <2>1. Grown' = Grown
    BY <1>1 DEF region, Grown
  <2>2. TypeOK'
    BY <1>1 DEF SlabInv, TypeOK, region
  <2>3. RegionInv' /\ OutBeforeHead'
    BY <1>1, <2>1 DEF SlabInv, region, RegionInv, OutBeforeHead
  <2>4. InOrder' /\ OutTyped'
    BY <1>1 DEF SlabInv, InOrder, OutTyped
  <2> QED
    BY <2>2, <2>3, <2>4 DEF SlabInv
<1> QED
  BY <1>1, StepCases, AcceptedKeeps, HandedOutKeeps, WriteKeeps

\* In every behaviour a region's free list is the rest of its blocks, from the
\* head on, and what was handed out lies before it (slab.h:36-77).
THEOREM SlabInvariance == Spec => []SlabInv
BY SlabInit, SlabStep, PTL DEF Spec

\* Heads and links stay within their region, with the block past the end or null,
\* and no counter goes below zero (slab.h:69-73, 102-126).
THEOREM SlabTypeCorrect == Spec => []TypeOK
<1>1. SlabInv => TypeOK
  BY DEF SlabInv
<1> QED
  BY <1>1, SlabInvariance, PTL

\* The blocks of a buffer are handed out in address order, whatever their owners
\* write over the links (slab.h:69-77).
THEOREM SlabInOrder == Spec => []InOrder
<1>1. SlabInv => InOrder
  BY DEF SlabInv
<1> QED
  BY <1>1, SlabInvariance, PTL

\* The block that grow links past the end of its buffer is never handed out:
\* m_free runs out first (slab.h:45-50 against 60-73).
THEOREM NeverPastEnd == Spec => []PastEndNeverOut
<1>1. SlabInv => PastEndNeverOut
  <2> SUFFICES ASSUME SlabInv, NEW k \in 1 .. Len(out) PROVE out[k][2] # Past(out[k][1])
    BY DEF PastEndNeverOut
  <2> DEFINE b == out[k][1]
  <2>1. b \in Buffers /\ b \in Grown /\ out[k][2] \in Nat /\ out[k][2] < head[b]
    BY DEF SlabInv, TypeOK, OutBeforeHead, Blocks
  <2> HIDE DEF b
  <2>2. head[b] = BlocksIn(b) - free[b] /\ free[b] \in Nat /\ BlocksIn(b) \in Nat
    BY <2>1, BlocksInNat DEF SlabInv, RegionInv, TypeOK
  <2> QED
    BY <2>1, <2>2 DEF Past, b
<1> QED
  BY <1>1, SlabInvariance, PTL

----------------------------------------------------------------------------
\* What is available.

Available == UNION {FreeList(b) : b \in Grown}

\* The blocks from the head of each region on, but for the one past the end.
FromHeadOn ==
    \A b \in Grown :
        /\ FreeList(b) = {<<b, i>> : i \in head[b] .. Past(b) - 1}
        /\ b \in Buffers /\ head[b] \in Nat /\ Past(b) \in Nat

\* The free list of a region is the blocks from its head on.
LEMMA AvailableIs == SlabInv => FromHeadOn
<1> SUFFICES ASSUME SlabInv, NEW b \in Grown
             PROVE  /\ FreeList(b) = {<<b, i>> : i \in head[b] .. Past(b) - 1}
                    /\ b \in Buffers /\ head[b] \in Nat /\ Past(b) \in Nat
  BY DEF FromHeadOn
<1>1. b \in Buffers /\ free[b] \in Nat /\ BlocksIn(b) \in Nat
  BY BlocksInNat, SMTT(60) DEF SlabInv, TypeOK, Grown
<1>2. /\ free[b] <= BlocksIn(b) /\ head[b] = BlocksIn(b) - free[b]
      /\ \A i \in head[b] .. Past(b) : next[b][i] = Link(b, i)
  BY <1>1 DEF SlabInv, RegionInv
<1>3. head[b] \in Nat /\ head[b] + free[b] = Past(b)
  BY <1>1, <1>2 DEF Past
<1>4. Consecutive(free[b], head[b], next[b])
  <2> SUFFICES ASSUME NEW i \in head[b] .. head[b] + free[b] - 1 PROVE next[b][i] = i + 1
    BY DEF Consecutive
  <2>1. i \in head[b] .. Past(b) /\ i # Past(b)
    BY <1>1, <1>3
  <2> QED
    BY <2>1, <1>2 DEF Link
<1>5. FreeList(b) = {<<b, i>> : i \in head[b] .. head[b] + free[b] - 1}
  BY <1>1, <1>3, <1>4, FreeListIs
<1> QED
  BY <1>1, <1>3, <1>5 DEF Past

\* The same after a step.
LEMMA AvailableIsNext == SlabInv' => FromHeadOn'
BY AvailableIs, PTL

\* The blocks of a buffer, without the one past the end.
BlocksOf(b) == {<<b, i>> : i \in 0 .. Past(b) - 1}

Handed == {out[k] : k \in 1 .. Len(out)}

\* A buffer that is accepted makes its blocks available, and no other.
LEMMA AcceptedSupplies ==
    ASSUME SlabInv, SlabInv', NEW b \in Buffers, Accepted(b)
    PROVE  /\ Available' = Available \cup BlocksOf(b)
           /\ Available \cap BlocksOf(b) = {}
           /\ BlocksOf(b) \cap Handed = {}
<1>1. FromHeadOn /\ FromHeadOn' /\ b \notin Grown
  BY AvailableIs, AvailableIsNext DEF Accepted
<1>2. Grown' = Grown \cup {b} /\ \A c \in Grown : head'[c] = head[c]
  BY <1>1, GrownGrows DEF SlabInv, TypeOK, Accepted, FromHeadOn
<1>3. head'[b] = 0
  BY DEF SlabInv, TypeOK, Accepted
<1>4. FreeList(b)' = BlocksOf(b)
  BY <1>1, <1>2, <1>3 DEF FromHeadOn, BlocksOf
<1>5. \A c \in Grown : FreeList(c)' = FreeList(c)
  BY <1>1, <1>2 DEF FromHeadOn
<1>6. Available' = Available \cup BlocksOf(b)
  BY <1>2, <1>4, <1>5 DEF Available
<1>7. Available \cap BlocksOf(b) = {}
  BY <1>1 DEF Available, FromHeadOn, BlocksOf
<1>8. BlocksOf(b) \cap Handed = {}
  BY <1>1 DEF SlabInv, OutBeforeHead, BlocksOf, Handed
<1> QED
  BY <1>6, <1>7, <1>8

\* A block that is handed out was available, and is no longer.
LEMMA HandedOutTakes ==
    ASSUME SlabInv, SlabInv', NEW b \in Buffers, HandedOut(b)
    PROVE  /\ <<b, head[b]>> \in Available
           /\ Available' = Available \ {<<b, head[b]>>}
<1>1. FromHeadOn /\ FromHeadOn'
  BY AvailableIs, AvailableIsNext
<1>2. Grown' = Grown /\ b \in Grown
  BY DEF HandedOut, Grown
<1>3. /\ head[b] \in Nat /\ Past(b) \in Nat /\ head[b] < Past(b) /\ head'[b] = head[b] + 1
      /\ \A c \in Buffers : c # b => head'[c] = head[c]
  BY HeadBlock
<1>4. <<b, head[b]>> \in FreeList(b)
  BY <1>1, <1>2, <1>3 DEF FromHeadOn
<1>5. FreeList(b)' = FreeList(b) \ {<<b, head[b]>>}
  <2>1. FreeList(b) = {<<b, i>> : i \in head[b] .. Past(b) - 1}
    BY <1>1, <1>2 DEF FromHeadOn
  <2>2. FreeList(b)' = {<<b, i>> : i \in head[b] + 1 .. Past(b) - 1}
    BY <1>1, <1>2, <1>3 DEF FromHeadOn
  <2>3. \A i : i \in head[b] + 1 .. Past(b) - 1 <=> i \in head[b] .. Past(b) - 1 /\ i # head[b]
    BY <1>3
  <2> QED
    BY <2>1, <2>2, <2>3
<1>6. \A c \in Grown : c # b => FreeList(c)' = FreeList(c) /\ <<b, head[b]>> \notin FreeList(c)
  <2> SUFFICES ASSUME NEW c \in Grown, c # b
               PROVE  FreeList(c)' = FreeList(c) /\ <<b, head[b]>> \notin FreeList(c)
    OBVIOUS
  <2>1. c \in Buffers /\ FreeList(c) = {<<c, i>> : i \in head[c] .. Past(c) - 1}
    BY <1>1 DEF FromHeadOn
  <2>2. FreeList(c)' = {<<c, i>> : i \in head'[c] .. Past(c) - 1}
    BY <1>1, <1>2 DEF FromHeadOn
  <2>3. head'[c] = head[c]
    BY <2>1, <1>3
  <2> QED
    BY <2>1, <2>2, <2>3
<1> QED
  BY <1>2, <1>4, <1>5, <1>6 DEF Available

\* A step that keeps the regions and their heads keeps what is available.
LEMMA AvailableStays ==
    ASSUME SlabInv, SlabInv', UNCHANGED <<m_regions, head>>
    PROVE  Available' = Available
<1>1. FromHeadOn /\ FromHeadOn'
  BY AvailableIs, AvailableIsNext
<1>2. Grown' = Grown
  BY DEF Grown
<1>3. \A b \in Grown : FreeList(b)' = FreeList(b)
  BY <1>1, <1>2 DEF FromHeadOn
<1> QED
  BY <1>2, <1>3 DEF Available

\* As many blocks as BlocksIn says.
LEMMA BlocksCounted ==
    ASSUME NEW b \in Buffers
    PROVE  IsFiniteSet(BlocksOf(b)) /\ Cardinality(BlocksOf(b)) = BlocksIn(b)
<1> DEFINE n == BlocksIn(b)
           f == [i \in 0 .. n - 1 |-> <<b, i>>]
<1>1. n \in Nat
  BY BlocksInNat
<1> HIDE DEF n
<1>2. IsFiniteSet(0 .. n - 1) /\ Cardinality(0 .. n - 1) = n
  BY <1>1, FS_Interval
<1>3. BlocksOf(b) = {<<b, i>> : i \in 0 .. n - 1}
  BY DEF BlocksOf, Past, n
<1>4. f \in Bijection(0 .. n - 1, BlocksOf(b))
  BY <1>3 DEF Bijection, Injection, Surjection, IsInjective
<1> HIDE DEF f
<1>5. ExistsBijection(0 .. n - 1, BlocksOf(b))
  BY <1>4 DEF ExistsBijection
<1> QED
  BY <1>2, <1>5, FS_Bijection DEF n

\* The allocator's counters are those of its free lists.
Counted ==
    /\ IsFiniteSet(Available)
    /\ CountersExact

\* The counters are right before the first grow.
LEMMA CountedInit == Init => Counted
<1> SUFFICES ASSUME Init PROVE Counted
  OBVIOUS
<1>1. Grown = {} /\ Len(out) = 0 /\ m_total = 0 /\ m_free = 0
  BY DEF Init, Grown
<1>2. Available = {}
  BY <1>1 DEF Available
<1> QED
  BY <1>1, <1>2, FS_EmptySet DEF Counted, CountersExact, Available

\* Every step keeps the counters right.
LEMMA CountedStep == SlabInv /\ SlabInv' /\ Counted /\ [Next]_vars => Counted'
<1> SUFFICES ASSUME SlabInv, SlabInv', Counted, [Next]_vars PROVE Counted'
  OBVIOUS
<1>1. /\ IsFiniteSet(Available) /\ Cardinality(Available) = m_free
      /\ m_free \in Nat /\ m_total = m_free + Len(out) /\ Len(out) \in Nat
  BY DEF Counted, CountersExact, Available, SlabInv, TypeOK, OutTyped
<1> SUFFICES /\ IsFiniteSet(Available') /\ Cardinality(Available') = m_free'
             /\ m_total' = m_free' + Len(out')
  BY DEF Counted, CountersExact, Available
<1>2. CASE UNCHANGED <<m_regions, head, m_total, m_free, out>>
  BY <1>1, <1>2, AvailableStays
<1>3. ASSUME NEW b \in Buffers, Accepted(b)
      PROVE  /\ IsFiniteSet(Available') /\ Cardinality(Available') = m_free'
             /\ m_total' = m_free' + Len(out')
  <2> DEFINE n == BlocksIn(b)
  <2>1. /\ Available' = Available \cup BlocksOf(b)
        /\ Available \cap BlocksOf(b) = {}
    BY <1>3, AcceptedSupplies
  <2>2. IsFiniteSet(BlocksOf(b)) /\ Cardinality(BlocksOf(b)) = n /\ n \in Nat
    BY BlocksCounted, BlocksInNat
  <2>3. m_free' = m_free + n /\ m_total' = m_total + n /\ out' = out
    BY <1>3 DEF Accepted
  <2> HIDE DEF n
  <2>4. /\ IsFiniteSet(Available') /\ Cardinality(Available') = m_free + n - Cardinality({})
    BY <2>1, <2>2, <1>1, FS_Union, SMTT(60)
  <2> QED
    BY <2>2, <2>3, <2>4, <1>1, FS_EmptySet
<1>4. ASSUME NEW b \in Buffers, HandedOut(b)
      PROVE  /\ IsFiniteSet(Available') /\ Cardinality(Available') = m_free'
             /\ m_total' = m_free' + Len(out')
  <2>1. /\ <<b, head[b]>> \in Available
        /\ Available' = Available \ {<<b, head[b]>>}
    BY <1>4, HandedOutTakes
  <2>2. m_free' = m_free - 1 /\ m_total' = m_total /\ Len(out') = Len(out) + 1
    BY <1>4 DEF HandedOut, Dequeue, SlabInv, OutTyped
  <2>3. IsFiniteSet(Available') /\ Cardinality(Available') = Cardinality(Available) - 1
    BY <2>1, <1>1, FS_RemoveElement
  <2> QED
    BY <2>2, <2>3, <1>1
<1>5. WriteObject => UNCHANGED <<m_regions, head, m_total, m_free, out>>
  BY DEF WriteObject, region
<1> QED
  BY <1>2, <1>3, <1>4, <1>5, StepCases DEF region

\* m_total and m_free are what the free lists and the blocks handed out add up
\* to, so alloc says null only when nothing is left (slab.h:39-41, 60-73).
THEOREM SlabCounts == Spec => []CountersExact
<1>1. Counted => CountersExact
  BY DEF Counted
<1> QED
  BY <1>1, CountedInit, CountedStep, SlabInvariance, PTL DEF Spec

----------------------------------------------------------------------------
\* Every step of the allocator is a step of a pool that hands each object out
\* at most once, or changes nothing there (slab.h:60-77).
THEOREM SlabRefinement == Spec => Implements
<1>1. Init => Pool!Init
  BY DEF Init, Pool!Init, Grown
<1>2. SlabInv /\ SlabInv' /\ [Next]_vars => [Pool!Next]_(Pool!vars)
  <2> SUFFICES ASSUME SlabInv, SlabInv', [Next]_vars PROVE [Pool!Next]_(Pool!vars)
    OBVIOUS
  <2>1. CASE UNCHANGED <<m_regions, head, out>>
    BY <2>1, AvailableStays DEF Pool!vars, Available
  <2>2. ASSUME NEW b \in Buffers, Accepted(b) PROVE Pool!Next
    BY <2>2, AcceptedSupplies DEF Pool!Next, Pool!Supply, Available, Handed, Accepted
  <2>3. ASSUME NEW b \in Buffers, HandedOut(b) PROVE Pool!Next
    <3> DEFINE o == <<b, head[b]>>
               m == Len(out)
    <3>1. /\ o \in Available
          /\ Available' = Available \ {o}
      BY <2>3, HandedOutTakes
    <3>2. /\ m \in Nat /\ Len(out') = m + 1 /\ out'[m + 1] = o
          /\ \A k \in 1 .. m : out'[k] = out[k]
      BY <2>3, HeadBlock DEF HandedOut, SlabInv, OutTyped
    <3>3. Handed' = Handed \cup {o}
      <4>1. \A k \in 1 .. m + 1 : out'[k] \in Handed \cup {o}
        <5> TAKE k \in 1 .. m + 1
        <5>1. CASE k = m + 1
          BY <5>1, <3>2
        <5>2. CASE k \in 1 .. m
          BY <5>2, <3>2 DEF Handed
        <5>3. k = m + 1 \/ k \in 1 .. m
          BY <3>2
        <5> QED
          BY <5>1, <5>2, <5>3
      <4>2. \A k \in 1 .. m : k \in 1 .. m + 1
        BY <3>2
      <4>3. o \in Handed'
        BY <3>2 DEF Handed
      <4> HIDE DEF o, m
      <4>4. Handed \subseteq Handed'
        BY <3>2, <4>2 DEF Handed, m
      <4> QED
        BY <3>2, <4>1, <4>3, <4>4 DEF Handed
    <3> QED
      BY <3>1, <3>3 DEF Pool!Next, Pool!HandOut, Available, Handed
  <2>4. WriteObject => UNCHANGED <<m_regions, head, out>>
    BY DEF WriteObject, region
  <2> QED
    BY <2>1, <2>2, <2>3, <2>4, StepCases DEF region
<1> QED
  BY <1>1, <1>2, SlabInvariance, PTL DEF Spec, Implements, Pool!Spec
=============================================================================
