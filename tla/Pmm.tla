-------------------------------- MODULE Pmm --------------------------------
(***************************************************************************)
(* The physical memory manager of kernel/src/pmm.cpp.                      *)
(*                                                                         *)
(* A region is a contiguous piece of memory with a linked list of free     *)
(* memory_blocks; the block descriptors come from a slab allocator that    *)
(* never takes one back (module Slab), so a descriptor is the index at     *)
(* which the slab handed it out.  assert and todo print and spin forever,  *)
(* a null dereference traps: each ends in a status that no operation       *)
(* leaves.  Memory contents are abstracted; what mem::fill clears is the   *)
(* extent granted by the same call.                                        *)
(***************************************************************************)
EXTENDS Words, Sequences

CONSTANTS
    PAGE_SIZE,                \* riscv::sv39::PAGE_SIZE
    REGION_COUNT,             \* slots of the region list
    INITIAL_MEM_BLOCK_COUNT,  \* descriptors in BLOCK_BUF
    REFILL_MARK,              \* an allocation wants this many descriptors left
    Policies,                 \* what initialize may be given
    RegionArgs,               \* the [base, size] add_region may be given
    Sizes,                    \* the sizes that may be requested
    Alignments,               \* the alignments that may be requested
    MaxGrants                 \* bound on the allocations of a behaviour

ASSUME PageAssumption == PAGE_SIZE \in Word \ {0}
ASSUME CountAssumption ==
    /\ REGION_COUNT \in Nat
    /\ INITIAL_MEM_BLOCK_COUNT \in Nat \ {0}
    /\ REFILL_MARK \in Nat \ {0}
    /\ MaxGrants \in Nat
ASSUME ArgsAssumption ==
    /\ RegionArgs \subseteq [base : Word, size : Word]
    /\ Sizes \subseteq Word
    /\ Alignments \subseteq Word

VARIABLES
    pol,           \* allocation policy
    total_bytes,   \* bytes under management
    free_bytes,    \* bytes reported free
    regions,       \* the first region_count entries of the region array
    blocks,        \* the memory_block descriptors, by slab index
    block_total,   \* block_allocator.m_total
    block_free,    \* block_allocator.m_free
    status,        \* "running", or how the kernel stopped
    last,          \* the last call: operation, arguments, error, *ret
    grants         \* history: every extent handed out, oldest first

memory == <<total_bytes, free_bytes, regions, blocks, block_free, grants>>
vars == <<pol, block_total, status, last, memory>>

nullptr == 0
Descriptors == 1 .. INITIAL_MEM_BLOCK_COUNT
Statuses == {"running", "assert", "todo", "fault"}

\* The k-th descriptor the slab hands out next.
NextBlock(k) == INITIAL_MEM_BLOCK_COUNT - block_free + k

Init ==
    /\ pol = "FIRST_FIT"
    /\ total_bytes = 0 /\ free_bytes = 0
    /\ regions = <<>>
    /\ blocks = [d \in Descriptors |-> [base |-> 0, length |-> 0, next |-> nullptr]]
    /\ block_total = 0 /\ block_free = 0
    /\ status = "running"
    /\ last = [op |-> "none", args |-> <<0, 0>>, err |-> "SUCCESS", ret |-> 0]
    /\ grants = <<>>

----------------------------------------------------------------------------
\* How a call ends.  Result records it; Return and Stop change nothing else.

Result(op, args, err, ret) ==
    last' = [op |-> op, args |-> args, err |-> err, ret |-> ret]

Return(op, args, err) ==
    /\ Result(op, args, err, 0)
    /\ UNCHANGED <<pol, block_total, status, memory>>

Stop(op, args, how) ==
    /\ status' = how
    /\ Result(op, args, how, 0)
    /\ UNCHANGED <<pol, block_total>>

----------------------------------------------------------------------------
\* The kernel initializes the manager once, before any other call.
initialize(p) ==
    /\ status = "running" /\ block_total = 0
    /\ pol' = p
    /\ block_total' = INITIAL_MEM_BLOCK_COUNT
    /\ block_free' = INITIAL_MEM_BLOCK_COUNT
    /\ Result("initialize", <<0, 0>>, "SUCCESS", 0)
    /\ UNCHANGED <<status, total_bytes, free_bytes, regions, blocks, grants>>

AlignedBase(base) == AlignUp(base, PAGE_SIZE)

AlignedSize(base, size) ==
    AlignDown(Sub(size, Sub(AlignedBase(base), base)), PAGE_SIZE)

LargeEnough(base, size) ==
    /\ Add(AlignedBase(base), AlignedSize(base, size)) <= Add(base, size)
    /\ AlignedSize(base, size) >= PAGE_SIZE

\* Mutant: a lower bound that excludes the region's own base.
AlreadyManaged_Strict(base) ==
    \E i \in 1 .. Len(regions) :
        /\ regions[i].base < AlignedBase(base)
        /\ AlignedBase(base) <= Add(regions[i].base, regions[i].length)

AlreadyManaged(base) ==
    \E i \in 1 .. Len(regions) :
        /\ regions[i].base <= AlignedBase(base)
        /\ AlignedBase(base) <= Add(regions[i].base, regions[i].length)

\* Mutant: one region more than there are slots.
AddRegionError_OneMore(base, size) ==
    IF base = 0 THEN "NULL_ARGUMENT"
    ELSE IF Len(regions) > REGION_COUNT THEN "PMM_REGION_LIST_FULL"
    ELSE IF ~LargeEnough(base, size) THEN "PMM_REGION_TOO_SMALL"
    ELSE IF AlreadyManaged(base) THEN "PMM_REGION_MANAGED"
    ELSE "SUCCESS"

AddRegionError(base, size) ==
    IF base = 0 THEN "NULL_ARGUMENT"
    ELSE IF Len(regions) >= REGION_COUNT THEN "PMM_REGION_LIST_FULL"
    ELSE IF ~LargeEnough(base, size) THEN "PMM_REGION_TOO_SMALL"
    ELSE IF AlreadyManaged(base) THEN "PMM_REGION_MANAGED"
    ELSE "SUCCESS"

\* The first descriptor taken is dropped; the second becomes the free list.
\* Only the first is tested, so the list head may be null when used.
add_region(base, size) ==
    LET err     == AddRegionError(base, size)
        args    == <<base, size>>
        head    == NextBlock(2)
        extent  == [base |-> AlignedBase(base), length |-> AlignedSize(base, size)]
    IN  /\ status = "running"
        /\ \/ err # "SUCCESS" /\ Return("add_region", args, err)
           \/ /\ err = "SUCCESS" /\ block_free = 0
              /\ Stop("add_region", args, "assert")
              /\ UNCHANGED memory
           \/ /\ err = "SUCCESS" /\ block_free = 1
              /\ Stop("add_region", args, "fault")
              /\ block_free' = 0
              /\ UNCHANGED <<total_bytes, free_bytes, regions, blocks, grants>>
           \/ /\ err = "SUCCESS" /\ block_free >= 2
              /\ block_free' = block_free - 2
              /\ blocks' = [blocks EXCEPT ![head] =
                               [base |-> extent.base, length |-> extent.length,
                                next |-> nullptr]]
              /\ regions' = Append(regions,
                               [base |-> extent.base, length |-> extent.length,
                                free_bytes |-> extent.length, free_blocks |-> head])
              /\ total_bytes' = Add(total_bytes, extent.length)
              /\ free_bytes' = Add(free_bytes, extent.length)
              /\ Result("add_region", args, "SUCCESS", 0)
              /\ UNCHANGED <<pol, block_total, status, grants>>

remove_region(base, size) ==
    /\ status = "running"
    /\ Return("remove_region", <<base, size>>, "NOT_IMPLEMENTED")

----------------------------------------------------------------------------
\* alloc_aligned.

ValidAlignment(alignment) == alignment >= PAGE_SIZE /\ IsPowerOfTwo(alignment)

End(b) == Add(b.base, b.length)

\* The code's test for a block too small, and its two split conditions.
Misfit(b, size, alignment) == End(b) < Add(AlignUp(b.base, alignment), size)
ExistsPreceeding(b, alignment) == b.base # AlignUp(b.base, alignment)
ExistsPostceeding(b, size, alignment) ==
    End(b) > Add(AlignUp(b.base, alignment), size)

\* Mutants: a region is taken whatever it has left; one that fits exactly is not.
Candidate_Uncounted(i, size) == regions[i].free_blocks # nullptr
Candidate_NotExact(i, size) ==
    regions[i].free_bytes > size /\ regions[i].free_blocks # nullptr

\* The regions are searched in order for one with enough free bytes and a
\* non-empty list.  The walk over the list ends in its first iteration.
Candidate(i, size) ==
    regions[i].free_bytes >= size /\ regions[i].free_blocks # nullptr

\* Mutant: the search runs on to the last candidate.
FirstCandidate_Last(i, size) ==
    /\ Candidate(i, size)
    /\ \A j \in i + 1 .. Len(regions) : ~Candidate(j, size)

FirstCandidate(i, size) ==
    /\ Candidate(i, size)
    /\ \A j \in 1 .. i - 1 : ~Candidate(j, size)

\* The block walked to: the list head, or, when that is a misfit, its
\* successor, for which none of the locals are computed again.
Walked(i, size, alignment) ==
    LET b == blocks[regions[i].free_blocks]
    IN  IF Misfit(b, size, alignment) THEN b.next ELSE regions[i].free_blocks

\* Mutant: the region's counter is left alone.
HandOut_RegionUncounted(op, args, i, size, base, list) ==
    /\ regions' = [regions EXCEPT ![i].free_blocks = list]
    /\ free_bytes' = Sub(free_bytes, size)
    /\ grants' = Append(grants, [base |-> base, size |-> size])
    /\ Result(op, args, "SUCCESS", base)
    /\ UNCHANGED <<pol, block_total, status, total_bytes>>

\* The extent is subtracted from both counters, cleared and handed out.
HandOut(op, args, i, size, base, list) ==
    /\ regions' = [regions EXCEPT ![i].free_bytes = Sub(@, size),
                                  ![i].free_blocks = list]
    /\ free_bytes' = Sub(free_bytes, size)
    /\ grants' = Append(grants, [base |-> base, size |-> size])
    /\ Result(op, args, "SUCCESS", base)
    /\ UNCHANGED <<pol, block_total, status, total_bytes>>

\* Mutant: the descriptor made for the rest is linked into the list.
SplitBoth_Linked(b, curr, size, alignment) ==
    LET base == AlignUp(b.base, alignment) IN
    /\ blocks' = [blocks EXCEPT
          ![curr].length = Sub(base, b.base),
          ![curr].next = NextBlock(1),
          ![NextBlock(1)] = [base   |-> Add(base, size),
                             length |-> Sub(End(b), Add(base, size)),
                             next   |-> blocks[curr].next]]
    /\ block_free' = block_free - 1

\* Cut out of the middle: the descriptor made for the rest is linked to the
\* block's successor, and nothing is linked to it.
SplitBoth(b, curr, size, alignment) ==
    LET base == AlignUp(b.base, alignment) IN
    /\ blocks' = [blocks EXCEPT
          ![curr].length = Sub(base, b.base),
          ![NextBlock(1)] = [base   |-> Add(base, size),
                             length |-> Sub(End(b), Add(base, size)),
                             next   |-> blocks[curr].next]]
    /\ block_free' = block_free - 1

\* Mutant: the block keeps its length.
KeepPreceeding_Whole(b, curr, alignment) == UNCHANGED <<blocks, block_free>>

KeepPreceeding(b, curr, alignment) ==
    /\ blocks' = [blocks EXCEPT ![curr].length = Sub(AlignUp(b.base, alignment), b.base)]
    /\ UNCHANGED block_free

\* Mutants: the block keeps its base, or its length.
KeepPostceeding_SameBase(b, curr, size, alignment) ==
    LET after == Add(AlignUp(b.base, alignment), size) IN
    /\ blocks' = [blocks EXCEPT ![curr].length = Sub(End(b), after)]
    /\ UNCHANGED block_free
KeepPostceeding_SameLength(b, curr, size, alignment) ==
    LET after == Add(AlignUp(b.base, alignment), size) IN
    /\ blocks' = [blocks EXCEPT ![curr].base = after]
    /\ UNCHANGED block_free

KeepPostceeding(b, curr, size, alignment) ==
    LET after == Add(AlignUp(b.base, alignment), size) IN
    /\ blocks' = [blocks EXCEPT ![curr].base = after,
                                ![curr].length = Sub(End(b), after)]
    /\ UNCHANGED block_free

Carve(op, args, i, size, alignment) ==
    LET head == regions[i].free_blocks
        b    == blocks[head]
        curr == Walked(i, size, alignment)
        base == AlignUp(b.base, alignment)
        pre  == ExistsPreceeding(b, alignment)
        post == ExistsPostceeding(b, size, alignment)
    IN  \/ /\ curr = nullptr
           /\ Stop(op, args, "fault")
           /\ UNCHANGED memory
        \/ /\ curr # nullptr /\ pre /\ post
           /\ SplitBoth(b, curr, size, alignment)
           /\ HandOut(op, args, i, size, base, head)
        \/ /\ curr # nullptr /\ pre /\ ~post
           /\ KeepPreceeding(b, curr, alignment)
           /\ HandOut(op, args, i, size, base, head)
        \/ /\ curr # nullptr /\ ~pre /\ post
           /\ KeepPostceeding(b, curr, size, alignment)
           /\ HandOut(op, args, i, size, base, head)
        \/ /\ curr # nullptr /\ ~pre /\ ~post
           /\ UNCHANGED block_free
           /\ IF curr = head    \* prev is null
              THEN /\ HandOut(op, args, i, size, base, blocks[curr].next)
                   /\ UNCHANGED blocks
              ELSE \* the slab's free is not implemented; its error is asserted on
                   /\ blocks' = [blocks EXCEPT ![head].next = blocks[curr].next]
                   /\ Stop(op, args, "assert")
                   /\ UNCHANGED <<total_bytes, free_bytes, regions, grants>>

\* An error is returned, or, in the noerr forms, asserted on.
Refuse(op, args, err, noerr) ==
    /\ Result(op, args, err, 0)
    /\ status' = IF noerr THEN "assert" ELSE status
    /\ UNCHANGED <<pol, block_total, memory>>

Allocate(op, n, alignment, noerr) ==
    LET size  == AlignUp(n, PAGE_SIZE)
        args  == <<n, alignment>>
        found == \E i \in 1 .. Len(regions) : Candidate(i, size)
    IN  /\ status = "running"
        /\ \/ /\ ~ValidAlignment(alignment)
              /\ Refuse(op, args, "PMM_BAD_ALIGN", noerr)
           \/ /\ ValidAlignment(alignment) /\ free_bytes < size
              /\ Refuse(op, args, "PMM_OUT_OF_MEM", noerr)
           \/ /\ ValidAlignment(alignment) /\ free_bytes >= size
              /\ block_free < REFILL_MARK \/ pol # "FIRST_FIT"
              /\ Stop(op, args, "todo")
              /\ UNCHANGED memory
           \/ /\ ValidAlignment(alignment) /\ free_bytes >= size
              /\ block_free >= REFILL_MARK /\ pol = "FIRST_FIT"
              /\ \/ ~found /\ Refuse(op, args, "PMM_OUT_OF_MEM", noerr)
                 \/ \E i \in 1 .. Len(regions) :
                       FirstCandidate(i, size) /\ Carve(op, args, i, size, alignment)

alloc_aligned(n, alignment) == Allocate("alloc_aligned", n, alignment, FALSE)
alloc_aligned_noerr(n, alignment) == Allocate("alloc_aligned_noerr", n, alignment, TRUE)
alloc(n) == Allocate("alloc", n, PAGE_SIZE, FALSE)
alloc_noerr(n) == Allocate("alloc_noerr", n, PAGE_SIZE, TRUE)

\* alloc and alloc_aligned given a null ret.
alloc_null_ret(n, alignment) ==
    /\ status = "running"
    /\ Return("alloc_aligned", <<n, alignment>>, "NULL_ARGUMENT")

\* Prints that it is not implemented and reports success.
free(pa) == status = "running" /\ Return("free", <<pa, 0>>, "SUCCESS")

\* After an assert, a todo or a trap the kernel spins.
Spin == status # "running" /\ UNCHANGED vars

Next ==
    \/ \E p \in Policies : initialize(p)
    \/ \E r \in RegionArgs : add_region(r.base, r.size)
    \/ \E r \in RegionArgs : remove_region(r.base, r.size)
    \/ /\ Len(grants) < MaxGrants
       /\ \E n \in Sizes :
             \/ alloc(n)
             \/ alloc_noerr(n)
             \/ \E a \in Alignments :
                   \/ alloc_aligned(n, a)
                   \/ alloc_aligned_noerr(n, a)
                   \/ alloc_null_ret(n, a)
    \/ \E k \in 1 .. Len(grants) : free(grants[k].base)
    \/ Spin

Spec == Init /\ [][Next]_vars
=============================================================================
