----------------------------- MODULE PmmLimine -----------------------------
(***************************************************************************)
(* The physical memory manager fed with a boot loader's memory map:        *)
(* kernel_entry.cpp adds every USABLE entry of the map, and the Limine     *)
(* protocol promises that usable entries do not overlap.  What the manager *)
(* owes its callers under that promise, for every request they may make.   *)
(***************************************************************************)
EXTENDS Pmm

(***************************************************************************)
(* An entry holds a page or more, no two entries share a byte, and every   *)
(* entry lies low enough in the address space for the arithmetic done on   *)
(* its addresses not to wrap (a RISC-V physical address has 56 bits).      *)
(***************************************************************************)
ASSUME LimineAssumption ==
    /\ \A r \in RegionArgs :
          /\ r.size >= PAGE_SIZE
          /\ \A a \in Alignments \cup {PAGE_SIZE} :
                r.base + r.size + r.size + a <= WORD
    /\ \A r, s \in RegionArgs :
          r # s => r.base + r.size <= s.base \/ s.base + s.size <= r.base

Extents == [base : Word, size : Word]

\* The abstract memory this manager implements.
Phys == INSTANCE PhysMem WITH
    managed <- {[base |-> regions[i].base, size |-> regions[i].length] :
                    i \in 1 .. Len(regions)}

----------------------------------------------------------------------------
MemoryBlock == [base : Word, length : Word, next : Descriptors \cup {nullptr}]
MemoryRegion == [base : Word, length : Word, free_bytes : Word,
                 free_blocks : Descriptors \cup {nullptr}]

Operations == {"none", "initialize", "add_region", "remove_region", "alloc", "alloc_noerr",
               "alloc_aligned", "alloc_aligned_noerr", "free"}
Outcomes == {"SUCCESS", "NULL_ARGUMENT", "NOT_IMPLEMENTED", "PMM_REGION_LIST_FULL",
             "PMM_REGION_TOO_SMALL", "PMM_REGION_MANAGED", "PMM_BAD_ALIGN",
             "PMM_OUT_OF_MEM"} \cup Statuses
Call == [op : Operations, args : Word \X Word, err : Outcomes, ret : Word]

\* The type invariant of the manager's variables (pmm.cpp:15-49).
TypeOK ==
    /\ pol \in Policies \cup {"FIRST_FIT"}
    /\ total_bytes \in Word /\ free_bytes \in Word
    /\ regions \in Seq(MemoryRegion) /\ Len(regions) <= REGION_COUNT
    /\ blocks \in [Descriptors -> MemoryBlock]
    /\ block_total \in {0, INITIAL_MEM_BLOCK_COUNT}
    /\ block_free \in 0 .. block_total
    /\ status \in Statuses
    /\ last \in Call
    /\ grants \in Seq(Extents)

Grants == 1 .. Len(grants)

\* What alloc_aligned hands out shares no byte with anything handed out
\* before, freed or not: pmm::free gives nothing back, and stack<T> keeps
\* pointers into the buffers it has freed (pmm.cpp:138-187, stack.h:86-93).
NoOverlap == \A j, k \in Grants : j < k => ~Phys!Overlap(grants[j], grants[k])

\* The free block a region's list starts with.
FreeBlock(i) == blocks[regions[i].free_blocks]

\* Each region is the page-aligned part of an entry, and no two share a byte.
RegionsFromEntries ==
    /\ block_total = 0 => regions = <<>>
    /\ \A i \in 1 .. Len(regions) : \E r \in RegionArgs :
          /\ regions[i].base = AlignedBase(r.base)
          /\ regions[i].base + regions[i].length <= r.base + r.size
          /\ regions[i].free_bytes <= regions[i].length
    /\ \A i, j \in 1 .. Len(regions) :
          i < j => \/ regions[i].base + regions[i].length <= regions[j].base
                   \/ regions[j].base + regions[j].length <= regions[i].base

\* A free list holds one block at most: its descriptor came from the slab and
\* is in no other list, and its memory lies in the region.
OneFreeBlock ==
    \A i \in 1 .. Len(regions) :
        regions[i].free_blocks # nullptr =>
            /\ regions[i].free_blocks <= INITIAL_MEM_BLOCK_COUNT - block_free
            /\ \A j \in 1 .. Len(regions) :
                  j # i => regions[j].free_blocks # regions[i].free_blocks
            /\ FreeBlock(i).next = nullptr
            /\ regions[i].base <= FreeBlock(i).base
            /\ FreeBlock(i).base + FreeBlock(i).length
                  <= regions[i].base + regions[i].length

\* What is handed out lies inside one region.
GrantsManaged ==
    \A k \in Grants : \E i \in 1 .. Len(regions) :
        /\ regions[i].base <= grants[k].base
        /\ grants[k].base + grants[k].size <= regions[i].base + regions[i].length

\* The free block of a region is never memory a caller already owns.
FreeIsUngranted ==
    \A i \in 1 .. Len(regions), k \in Grants :
        regions[i].free_blocks # nullptr =>
            ~Phys!Overlap([base |-> FreeBlock(i).base, size |-> FreeBlock(i).length],
                          grants[k])

\* The asserts inside alloc_aligned (pmm.cpp:162 and 176) never fire: what
\* stops the kernel is add_region finding the slab empty, or a caller that
\* asserts on the error it was returned.
AssertsUnreachable ==
    status = "assert" =>
        \/ last.op = "add_region" /\ block_free = 0
        \/ /\ last.op \in {"alloc_noerr", "alloc_aligned_noerr"}
           /\ last.err \in {"PMM_OUT_OF_MEM", "PMM_BAD_ALIGN"}

\* What the counters count.
RegionLengths == [i \in 1 .. Len(regions) |-> regions[i].length]
RegionsFree == [i \in 1 .. Len(regions) |-> regions[i].free_bytes]
GrantSizes == [k \in Grants |-> grants[k].size]

\* Bytes are neither lost nor invented by the counters: what is managed is
\* what is reported free plus what was handed out, and each total is that of
\* the regions (pmm.cpp:100-101, 179-180).
Conservation ==
    /\ total_bytes = SumTo(RegionLengths, Len(regions))
    /\ free_bytes = SumTo(RegionsFree, Len(regions))
    /\ total_bytes = free_bytes + SumTo(GrantSizes, Len(grants))

\* A request that succeeds is answered with the alignment asked for and,
\* unless rounding its size up to a page wraps, with that many bytes
\* (pmm.cpp:116, 149, 181).
RequestHonoured ==
    last.err = "SUCCESS" /\ last.op \in {"alloc_aligned", "alloc_aligned_noerr"} =>
        /\ IsAligned(last.ret, last.args[2])
        /\ last.args[1] + PAGE_SIZE <= WORD =>
              /\ grants[Len(grants)].base = last.ret
              /\ grants[Len(grants)].size >= last.args[1]

\* The invariant behind these: the splits of pmm.cpp:158-177 leave in a
\* region's list one block at most, and in it only what lies inside the
\* region and outside of every extent handed out, whatever was asked for.
IInv ==
    /\ TypeOK
    /\ RegionsFromEntries
    /\ OneFreeBlock
    /\ GrantsManaged
    /\ FreeIsUngranted
    /\ NoOverlap
    /\ AssertsUnreachable

\* Every step of the manager is a step of the abstract memory, or leaves it
\* alone.
Implements == Phys!Spec
=============================================================================
