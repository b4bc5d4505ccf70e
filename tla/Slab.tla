-------------------------------- MODULE Slab --------------------------------
(***************************************************************************)
(* slab_alloc<T> of include/allocators/slab.h.                             *)
(*                                                                         *)
(* A buffer given to grow holds a region header and then blocks, linked    *)
(* into the region's free list; a block is the buffer and its number.  The *)
(* loop of grow links one block more than the buffer counts, the block at  *)
(* Past(b).  A free block holds its link; a block handed out holds         *)
(* whatever its owner wrote over it (hdr and obj share the storage).       *)
(***************************************************************************)
EXTENDS Naturals, Sequences, FiniteSets

CONSTANTS
    Buffers,         \* the buffers grow may be given, each at most once
    Misaligned,      \* those that do not satisfy region_align()
    BufferSize,      \* their sizes in bytes
    REGION_SZ,       \* sizeof(slab_region)
    BLOCK_SZ,        \* sizeof(slab_block)
    POINTER_SZ,      \* sizeof(slab_block*)
    null             \* the null pointer

ASSUME SlabAssumption ==
    /\ BufferSize \in [Buffers -> Nat]
    /\ Misaligned \subseteq Buffers
    /\ REGION_SZ \in Nat /\ BLOCK_SZ \in Nat \ {0}
    /\ POINTER_SZ \in 1 .. BLOCK_SZ

VARIABLES
    m_regions,   \* the buffers in the order of the region list, newest first
    total, free, \* m_total and m_free of each region
    head,        \* m_blocks of each region: a block number
    next,        \* what each block holds where a free block holds its link
    m_total, m_free,
    status,      \* "running", or "assert" when an assert stopped the kernel
    ret,         \* what the last alloc returned
    out,         \* history: the blocks handed out, oldest first
    extent       \* history: the bytes of each buffer grow wrote up to

region == <<m_regions, total, head>>
vars == <<region, free, next, m_total, m_free, status, ret, out, extent>>

\* The block is aligned like a pointer, so the header needs no padding.
region_size(n) == REGION_SZ + n * BLOCK_SZ

BlocksIn(b) ==
    IF BufferSize[b] < REGION_SZ THEN 0 ELSE (BufferSize[b] - REGION_SZ) \div BLOCK_SZ

Past(b) == BlocksIn(b)
Blocks(b) == 0 .. Past(b)    \* with the one past the end
Links(b) == Blocks(b) \cup {null}

Init ==
    /\ m_regions = <<>>
    /\ total = [b \in Buffers |-> 0] /\ free = [b \in Buffers |-> 0]
    /\ head = [b \in Buffers |-> null]
    /\ next = [b \in Buffers |-> [i \in Blocks(b) |-> null]]
    /\ m_total = 0 /\ m_free = 0
    /\ status = "running" /\ ret = null
    /\ out = <<>>
    /\ extent = [b \in Buffers |-> 0]

----------------------------------------------------------------------------
Grown == {m_regions[k] : k \in 1 .. Len(m_regions)}

\* Mutant: the list is not terminated.
Link_Unterminated(b, i) == i + 1

\* The link of a block while it is free.
Link(b, i) == IF i = Past(b) THEN null ELSE i + 1

\* The last link is written at the block past the end.
WrittenBy(b) == region_size(Past(b)) + POINTER_SZ

grow(b) ==
    /\ status = "running" /\ b \notin Grown
    /\ \/ /\ b \in Misaligned \/ BufferSize[b] < region_size(1)
          /\ status' = "assert"
          /\ UNCHANGED <<region, free, next, m_total, m_free, ret, out, extent>>
       \/ /\ b \notin Misaligned /\ BufferSize[b] >= region_size(1)
          /\ total' = [total EXCEPT ![b] = BlocksIn(b)]
          /\ free' = [free EXCEPT ![b] = BlocksIn(b)]
          /\ m_total' = m_total + BlocksIn(b)
          /\ m_free' = m_free + BlocksIn(b)
          /\ head' = [head EXCEPT ![b] = 0]
          /\ next' = [next EXCEPT ![b] = [i \in Blocks(b) |-> Link(b, i)]]
          /\ m_regions' = <<b>> \o m_regions
          /\ extent' = [extent EXCEPT ![b] = WrittenBy(b)]
          /\ UNCHANGED <<status, ret, out>>

\* The first region of the list with a free block.
FirstNonEmpty(k) ==
    /\ free[m_regions[k]] # 0
    /\ \A j \in 1 .. k - 1 : free[m_regions[j]] = 0

\* Mutants of the dequeue: the head, the region's counter or the allocator's
\* counter is left alone.
Dequeue_HeadKept(b) ==
    /\ UNCHANGED head
    /\ free' = [free EXCEPT ![b] = @ - 1]
    /\ m_free' = m_free - 1
Dequeue_RegionUncounted(b) ==
    /\ head' = [head EXCEPT ![b] = next[b][head[b]]]
    /\ UNCHANGED free
    /\ m_free' = m_free - 1
Dequeue_TotalUncounted(b) ==
    /\ head' = [head EXCEPT ![b] = next[b][head[b]]]
    /\ free' = [free EXCEPT ![b] = @ - 1]
    /\ UNCHANGED m_free

Dequeue(b) ==
    /\ head' = [head EXCEPT ![b] = next[b][head[b]]]
    /\ free' = [free EXCEPT ![b] = @ - 1]
    /\ m_free' = m_free - 1

\* The block is cleared before it is handed out.
alloc ==
    /\ status = "running"
    /\ \/ /\ m_free = 0 \/ \A k \in 1 .. Len(m_regions) : free[m_regions[k]] = 0
          /\ ret' = null
          /\ UNCHANGED <<region, free, next, m_total, m_free, status, out, extent>>
       \/ /\ m_free # 0
          /\ \E k \in 1 .. Len(m_regions) :
                LET b == m_regions[k] IN
                /\ FirstNonEmpty(k)
                /\ Dequeue(b)
                /\ next' = [next EXCEPT ![b][head[b]] = null]
                /\ ret' = <<b, head[b]>>
                /\ out' = Append(out, <<b, head[b]>>)
          /\ UNCHANGED <<m_regions, total, m_total, status, extent>>

\* free returns NOT_IMPLEMENTED and changes nothing; the owner of a block
\* may write anything where its link was.
WriteObject ==
    /\ status = "running"
    /\ \E k \in 1 .. Len(out) :
          \E v \in Links(out[k][1]) : next' = [next EXCEPT ![out[k][1]][out[k][2]] = v]
    /\ UNCHANGED <<region, free, m_total, m_free, status, ret, out, extent>>

Spin == status = "assert" /\ UNCHANGED vars

Next == (\E b \in Buffers : grow(b)) \/ alloc \/ WriteObject \/ Spin

Spec == Init /\ [][Next]_vars

----------------------------------------------------------------------------
\* The type invariant of the allocator's variables (slab.h:102-126).
TypeOK ==
    /\ m_regions \in Seq(Buffers)
    /\ total \in [Buffers -> Nat] /\ free \in [Buffers -> Nat]
    /\ DOMAIN head = Buffers /\ \A b \in Buffers : head[b] \in Links(b)
    /\ DOMAIN next = Buffers /\ \A b \in Buffers : next[b] \in [Blocks(b) -> Links(b)]
    /\ m_total \in Nat /\ m_free \in Nat
    /\ status \in {"running", "assert"}
    /\ \A k \in 1 .. Len(out) :
          out[k][1] \in Buffers /\ out[k][2] \in Blocks(out[k][1])
    /\ extent \in [Buffers -> Nat]

\* The blocks of a region that can still be handed out: as many as m_free
\* says, along the links from m_blocks (slab.h:69-73).
FreeList(b) ==
    LET Walk[n \in 0 .. free[b]] == IF n = 0 THEN head[b] ELSE next[b][Walk[n - 1]]
    IN  {<<b, Walk[n]>> : n \in 0 .. free[b] - 1}

Pool == INSTANCE ObjectPool WITH
    available <- UNION {FreeList(b) : b \in Grown},
    out <- {out[k] : k \in 1 .. Len(out)}

\* No block is handed out twice, and nothing an owner writes into its object
\* reaches a free list, although link and object share their storage
\* (slab.h:69-77, 102-110).
Implements == Pool!Spec

\* The block linked past the end of a buffer is never handed out: m_free
\* runs out first (slab.h:45-50 against 60-73).
PastEndNeverOut == \A k \in 1 .. Len(out) : out[k][2] # Past(out[k][1])

\* alloc says null only when every block of every buffer is out, and the
\* allocator's counters are those of its regions (slab.h:39-41, 60-67, 72-73).
CountersExact ==
    /\ m_total = m_free + Len(out)
    /\ m_free = Cardinality(UNION {FreeList(b) : b \in Grown})

\* The blocks of a buffer are handed out in address order, which is why the
\* physical memory manager's descriptors are numbered as they come.
InOrder ==
    \A j, k \in 1 .. Len(out) :
        j < k /\ out[j][1] = out[k][1] => out[j][2] < out[k][2]

\* slab.h:25 and 92: grow adds "the `buffer` of length `buffer_size`", and
\* region_size(n) is "needed for a region with n elements": the region is
\* laid out within the buffer.
GrowStaysInBuffer == \A b \in Buffers : extent[b] <= BufferSize[b]
=============================================================================
