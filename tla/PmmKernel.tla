----------------------------- MODULE PmmKernel -----------------------------
(***************************************************************************)
(* The physical memory manager as the kernel uses it: bump_alloc, stack<T> *)
(* and sv39 only ask for page-aligned, non-empty extents, and kernel_entry *)
(* initializes the manager as FIRST_FIT with descriptors for every region. *)
(* What may be promised to these callers is more than PmmLimine's promises.  *)
(***************************************************************************)
EXTENDS PmmLimine

ASSUME KernelAssumption ==
    /\ IsPowerOfTwo(PAGE_SIZE)
    /\ Alignments = {PAGE_SIZE}
    /\ Policies = {"FIRST_FIT"}
    /\ \A n \in Sizes : n > 0 /\ n + PAGE_SIZE <= WORD
    /\ INITIAL_MEM_BLOCK_COUNT >= REGION_COUNT + REGION_COUNT + REFILL_MARK

\* A page-aligned window of that many bytes in region i, free of grants.
Window(i, size) ==
    \E b \in regions[i].base .. regions[i].base + regions[i].length :
        /\ IsAligned(b, PAGE_SIZE)
        /\ b + size <= regions[i].base + regions[i].length
        /\ \A k \in Grants : ~Phys!Overlap([base |-> b, size |-> size], grants[k])

\* The free list of a region holds exactly the bytes its counter reports, in
\* one block: under page-aligned requests no split of alloc_aligned loses
\* memory (pmm.cpp:156-180).
FreeListExact ==
    \A i \in 1 .. Len(regions) :
        LET r == regions[i]
        IN  IF r.free_blocks = nullptr
            THEN r.free_bytes = 0
            ELSE /\ blocks[r.free_blocks].length = r.free_bytes
                 /\ blocks[r.free_blocks].next = nullptr

\* The only way an initialized manager stops the kernel is a noerr caller
\* running out of memory: it never traps, never reaches a todo, and never
\* runs out of descriptors (pmm.cpp:88-95, 130-136, 162, 198).
OnlyOutOfMemoryStops ==
    status # "running" /\ block_total # 0 =>
        /\ status = "assert"
        /\ last.op \in {"alloc_noerr", "alloc_aligned_noerr"}
        /\ last.err = "PMM_OUT_OF_MEM"

\* Out of memory is answered only when no region has room for the request
\* (pmm.cpp:124-127 and 138-190): free memory is never fragmented.
OutOfMemoryHonest ==
    last.err = "PMM_OUT_OF_MEM" =>
        \A i \in 1 .. Len(regions) : ~Window(i, AlignUp(last.args[1], PAGE_SIZE))

\* FIRST_FIT: an extent comes from the first region, in the order they were
\* added, with room for it (pmm.h:11-12, pmm.cpp:138-142).
FirstFit ==
    [][Len(grants') > Len(grants) =>
          LET g == grants'[Len(grants')]
          IN  \E j \in 1 .. Len(regions) :
                 /\ regions[j].base <= g.base
                 /\ g.base < regions[j].base + regions[j].length
                 /\ \A i \in 1 .. j - 1 : ~Window(i, g.size)]_vars
=============================================================================
