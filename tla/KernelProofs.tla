---------------------------- MODULE KernelProofs ----------------------------
(***************************************************************************)
(* Proofs about the physical memory manager fed with a boot loader's map,  *)
(* for every page size, memory map, request and number of descriptors: the *)
(* inductive invariant IInv of PmmLimine, what it implies, that the        *)
(* manager implements the abstract memory of PhysMem, that a request that  *)
(* succeeds is honoured and that the counters count what they say.         *)
(*                                                                         *)
(* Then about the manager as the kernel uses it, for every page-aligned    *)
(* request: a free list is one exact block, an initialized manager stops   *)
(* only when a noerr caller runs out of memory, and the first region with  *)
(* room is the one used.  IInv does not carry the first: it holds of any   *)
(* alignment, and then the splits do lose memory.  What page-aligned       *)
(* requests add is HandedOutInOrder: a region is handed out from its       *)
(* front, without gaps.                                                    *)
(*                                                                         *)
(* Then about kernel_cxx_entry, for every memory map, device tree and      *)
(* offset of the direct map: the manager is given every usable entry, and  *)
(* the parser's stacks live in memory of their own.                        *)
(***************************************************************************)
EXTENDS Boot, PmmLimine, WordTheorems, SequenceTheorems

----------------------------------------------------------------------------
\* The manager and a boot loader's map (PmmLimine).

\* The constants, as the proofs below use them.
LEMMA ConstantFacts ==
    /\ WORD \in Nat \ {0} /\ 0 \in Word /\ 1 \in Word
    /\ PAGE_SIZE \in Word \ {0}
    /\ INITIAL_MEM_BLOCK_COUNT \in Nat \ {0}
    /\ \A r \in RegionArgs :
          /\ r.base \in Word /\ r.size \in Word
          /\ r.size >= PAGE_SIZE
          /\ r.base + r.size + r.size + PAGE_SIZE <= WORD
<1>1. PAGE_SIZE \in Nat /\ PAGE_SIZE > 0 /\ PAGE_SIZE < WORD
  BY PageAssumption, WordAssumption DEF Word
<1>2. 0 \in Word /\ 1 \in Word
  BY <1>1, WordAssumption DEF Word
<1> QED
  BY <1>1, <1>2, WordAssumption, PageAssumption, CountAssumption, ArgsAssumption,
     LimineAssumption

\* The page-aligned part of an entry lies in it, and the code's arithmetic
\* on it does not wrap.
LEMMA EntryAligned ==
    ASSUME NEW r \in RegionArgs
    PROVE  /\ AlignedBase(r.base) \in Word /\ AlignedSize(r.base, r.size) \in Word
           /\ r.base <= AlignedBase(r.base)
           /\ AlignedBase(r.base) + AlignedSize(r.base, r.size) <= r.base + r.size
<1>1. /\ r.base \in Word /\ r.size \in Word /\ PAGE_SIZE \in Word \ {0}
      /\ r.base + r.size + r.size + PAGE_SIZE <= WORD /\ r.size >= PAGE_SIZE
  BY ConstantFacts
<1>2. r.base + PAGE_SIZE <= WORD
  BY <1>1, WordAssumption DEF Word
<1>3. /\ AlignedBase(r.base) \in Word /\ r.base <= AlignedBase(r.base)
      /\ AlignedBase(r.base) < r.base + PAGE_SIZE
  BY <1>1, <1>2, AlignUpWord, AlignUpBound DEF AlignedBase
<1>4. Sub(AlignedBase(r.base), r.base) = AlignedBase(r.base) - r.base
  BY <1>1, <1>3, SubExact, WordAssumption DEF Word
<1>5. Sub(r.size, AlignedBase(r.base) - r.base) = r.size - (AlignedBase(r.base) - r.base)
  <2>1. AlignedBase(r.base) - r.base \in Nat /\ AlignedBase(r.base) - r.base <= r.size
    BY <1>1, <1>3, WordAssumption DEF Word
  <2> QED
    BY <2>1, <1>1, SubExact
<1>6. r.size - (AlignedBase(r.base) - r.base) \in Word
  BY <1>1, <1>3, WordAssumption DEF Word
<1>7. /\ AlignedSize(r.base, r.size) \in Word
      /\ AlignedSize(r.base, r.size) <= r.size - (AlignedBase(r.base) - r.base)
  BY <1>1, <1>4, <1>5, <1>6, AlignDownBound DEF AlignedSize, Word
<1> QED
  BY <1>1, <1>3, <1>7, WordAssumption DEF Word

----------------------------------------------------------------------------
\* What IInv says of the memory, without the last call and the status.
MemInv ==
    /\ RegionsFromEntries
    /\ OneFreeBlock
    /\ GrantsManaged
    /\ FreeIsUngranted
    /\ NoOverlap

\* The invariant holds initially: nothing is managed.
LEMMA InitIInv == Init => IInv
<1> SUFFICES ASSUME Init PROVE IInv
  OBVIOUS
<1> USE DEF Init
<1>1. TypeOK
  <2>1. blocks \in [Descriptors -> MemoryBlock]
    BY ConstantFacts DEF Descriptors, MemoryBlock, nullptr
  <2>2. regions \in Seq(MemoryRegion) /\ Len(regions) = 0
    OBVIOUS
  <2>3. grants \in Seq(Extents)
    OBVIOUS
  <2>4. last \in Call
    BY ConstantFacts DEF Call, Operations, Outcomes
  <2> QED
    BY <2>1, <2>2, <2>3, <2>4, ConstantFacts, CountAssumption DEF TypeOK, Statuses
<1>2. MemInv
  BY DEF MemInv, RegionsFromEntries, OneFreeBlock, GrantsManaged, FreeIsUngranted,
         NoOverlap, Grants
<1>3. AssertsUnreachable
  BY DEF AssertsUnreachable
<1> QED
  BY <1>1, <1>2, <1>3 DEF IInv, MemInv

\* A step that leaves the memory alone leaves what is said of it true.
LEMMA MemoryUnchanged ==
    ASSUME IInv, UNCHANGED <<memory, block_total>>
    PROVE  MemInv'
BY DEF IInv, MemInv, memory, RegionsFromEntries, OneFreeBlock, FreeBlock, GrantsManaged,
       FreeIsUngranted, NoOverlap, Grants

\* A result recorded by any call is well typed.
LEMMA ResultTyped ==
    ASSUME NEW op \in Operations, NEW args \in Word \X Word, NEW err \in Outcomes,
           NEW ret \in Word, Result(op, args, err, ret)
    PROVE  last' \in Call
BY DEF Result, Call

\* A call that returns without touching the memory keeps the invariant.
LEMMA ReturnKeeps ==
    ASSUME IInv, status = "running",
           NEW op \in Operations, NEW args \in Word \X Word, NEW err \in Outcomes,
           Return(op, args, err)
    PROVE  IInv'
<1>1. UNCHANGED <<memory, block_total>> /\ status' = "running" /\ pol' = pol
  BY DEF Return
<1>2. MemInv'
  BY <1>1, MemoryUnchanged
<1>3. last' \in Call
  BY ConstantFacts, ResultTyped DEF Return
<1>4. TypeOK'
  BY <1>1, <1>3 DEF IInv, TypeOK, memory
<1>5. AssertsUnreachable'
  BY <1>1 DEF AssertsUnreachable
<1> QED
  BY <1>2, <1>4, <1>5 DEF IInv, MemInv

\* So does a call that stops the kernel without touching the memory, if its
\* assert is one that may fire.
LEMMA StopKeeps ==
    ASSUME IInv, NEW op \in Operations, NEW args \in Word \X Word,
           NEW how \in Statuses, Stop(op, args, how), UNCHANGED memory,
           how = "assert" => op = "add_region" /\ block_free = 0
    PROVE  IInv'
<1>1. UNCHANGED <<memory, block_total, pol>> /\ status' = how
  BY DEF Stop
<1>2. MemInv'
  BY <1>1, MemoryUnchanged
<1>3. last' \in Call
  <2>1. how \in Outcomes
    BY DEF Outcomes
  <2> QED
    BY <2>1, ConstantFacts, ResultTyped DEF Stop
<1>4. TypeOK'
  BY <1>1, <1>3 DEF IInv, TypeOK, memory
<1>5. AssertsUnreachable'
  BY <1>1 DEF AssertsUnreachable, Stop, Result, memory
<1> QED
  BY <1>2, <1>4, <1>5 DEF IInv, MemInv

\* initialize fills the slab and manages nothing yet.
LEMMA InitializeKeeps ==
    ASSUME IInv, NEW p \in Policies, initialize(p)
    PROVE  IInv'
<1>1. /\ block_total = 0 /\ regions = <<>> /\ regions' = <<>>
      /\ block_total' = INITIAL_MEM_BLOCK_COUNT /\ block_free' = INITIAL_MEM_BLOCK_COUNT
      /\ UNCHANGED <<status, total_bytes, free_bytes, blocks, grants>>
      /\ pol' = p /\ status' = "running"
  BY DEF initialize, IInv, RegionsFromEntries
<1>2. last' \in Call
  <2>1. <<0, 0>> \in Word \X Word /\ 0 \in Word
    BY ConstantFacts
  <2>2. "initialize" \in Operations /\ "SUCCESS" \in Outcomes
    BY DEF Operations, Outcomes
  <2>3. Result("initialize", <<0, 0>>, "SUCCESS", 0)
    BY DEF initialize
  <2> QED
    BY <2>1, <2>2, <2>3, ResultTyped
<1>3. TypeOK'
  BY <1>1, <1>2, ConstantFacts DEF IInv, TypeOK, Descriptors
<1>4. MemInv'
  BY <1>1 DEF MemInv, IInv, RegionsFromEntries, OneFreeBlock, GrantsManaged, FreeIsUngranted,
         NoOverlap, Grants
<1>5. AssertsUnreachable'
  BY <1>1 DEF AssertsUnreachable
<1> QED
  BY <1>3, <1>4, <1>5 DEF IInv, MemInv

----------------------------------------------------------------------------
\* Extents of which one ends where the other starts, or before, share no byte.
LEMMA Apart ==
    ASSUME NEW eb \in Nat, NEW es \in Nat, NEW f, f.base \in Nat, f.size \in Nat,
           eb + es <= f.base \/ f.base + f.size <= eb
    PROVE  ~Phys!Overlap([base |-> eb, size |-> es], f)
BY DEF Phys!Overlap

\* Parts of extents that do not overlap do not overlap.
LEMMA PartsApart ==
    ASSUME NEW eb \in Nat, NEW es \in Nat, NEW fb \in Nat, NEW fs \in Nat,
           NEW eb1 \in Nat, NEW es1 \in Nat, NEW fb1 \in Nat, NEW fs1 \in Nat,
           eb <= eb1, eb1 + es1 <= eb + es, fb <= fb1, fb1 + fs1 <= fb + fs,
           eb + es <= fb \/ fb + fs <= eb
    PROVE  eb1 + es1 <= fb1 \/ fb1 + fs1 <= eb1
OBVIOUS

\* A part of an extent overlaps nothing that the extent does not.
LEMMA PartOverlapsNothing ==
    ASSUME NEW eb \in Nat, NEW es \in Nat, NEW eb1 \in Nat, NEW es1 \in Nat,
           NEW f, f.base \in Nat, f.size \in Nat,
           eb <= eb1, eb1 + es1 <= eb + es, ~Phys!Overlap([base |-> eb, size |-> es], f)
    PROVE  ~Phys!Overlap([base |-> eb1, size |-> es1], f)
<1>1. PICK fb \in Nat, fs \in Nat : fb = f.base /\ fs = f.size
  OBVIOUS
<1>2. ~(es > 0 /\ fs > 0 /\ eb < fb + fs /\ fb < eb + es)
  BY <1>1 DEF Phys!Overlap
<1>3. ~(es1 > 0 /\ fs > 0 /\ eb1 < fb + fs /\ fb < eb1 + es1)
  BY <1>2
<1> QED
  BY <1>1, <1>3 DEF Phys!Overlap

\* What the types say of the regions and the grants.
LEMMA Typed ==
    ASSUME TypeOK
    PROVE  /\ Len(regions) \in Nat /\ Len(grants) \in Nat
           /\ \A i \in 1 .. Len(regions) :
                 /\ regions[i] \in MemoryRegion
                 /\ regions[i].base \in Nat /\ regions[i].length \in Nat
                 /\ regions[i].free_bytes \in Word
                 /\ regions[i].free_blocks # nullptr => regions[i].free_blocks \in Descriptors
           /\ \A d \in Descriptors :
                 blocks[d] \in MemoryBlock /\ blocks[d].base \in Nat /\ blocks[d].length \in Nat
           /\ \A k \in Grants :
                 grants[k] \in Extents /\ grants[k].base \in Nat /\ grants[k].size \in Nat
<1>1. Len(regions) \in Nat /\ Len(grants) \in Nat
  BY DEF TypeOK
<1>2. Word \subseteq Nat
  BY WordAssumption DEF Word
<1>3. /\ \A i \in 1 .. Len(regions) : regions[i] \in MemoryRegion
      /\ \A k \in Grants : grants[k] \in Extents
  BY DEF TypeOK, Grants
<1>4. \A d \in Descriptors : blocks[d] \in MemoryBlock
  BY DEF TypeOK
<1> QED
  BY <1>1, <1>2, <1>3, <1>4 DEF MemoryRegion, MemoryBlock, Extents

\* What add_region accepts shares no byte with a region: its entry is none
\* of theirs, or their first byte would have been found managed.
LEMMA AcceptedIsDisjoint ==
    ASSUME IInv, NEW r \in RegionArgs, ~AlreadyManaged(r.base), NEW i \in 1 .. Len(regions)
    PROVE  \/ regions[i].base + regions[i].length <= AlignedBase(r.base)
           \/ AlignedBase(r.base) + AlignedSize(r.base, r.size) <= regions[i].base
<1>1. PICK s \in RegionArgs :
         /\ regions[i].base = AlignedBase(s.base)
         /\ regions[i].base + regions[i].length <= s.base + s.size
  BY DEF IInv, RegionsFromEntries
<1>2. /\ r.base \in Nat /\ r.size \in Nat /\ s.base \in Nat /\ s.size \in Nat
      /\ s.base + s.size < WORD
  BY ConstantFacts, SMTT(60) DEF Word
<1>3. /\ regions[i].base \in Nat /\ regions[i].length \in Nat
  BY Typed DEF IInv
<1>4. /\ AlignedBase(r.base) \in Nat /\ AlignedSize(r.base, r.size) \in Nat
      /\ r.base <= AlignedBase(r.base) /\ s.base <= AlignedBase(s.base)
      /\ AlignedBase(r.base) + AlignedSize(r.base, r.size) <= r.base + r.size
  BY EntryAligned DEF Word
<1>5. Add(regions[i].base, regions[i].length) = regions[i].base + regions[i].length
  BY <1>1, <1>2, <1>3, AddExact, WordAssumption, SMTT(60)
<1>6. r # s
  <2>1. SUFFICES ASSUME r = s PROVE AlreadyManaged(r.base)
    OBVIOUS
  <2>2. /\ regions[i].base <= AlignedBase(r.base)
        /\ AlignedBase(r.base) <= Add(regions[i].base, regions[i].length)
    BY <2>1, <1>1, <1>3, <1>5
  <2> QED
    BY <2>2 DEF AlreadyManaged
<1>7. r.base + r.size <= s.base \/ s.base + s.size <= r.base
  BY <1>6, LimineAssumption
<1> QED
  BY <1>1, <1>2, <1>3, <1>4, <1>7, SMTT(60)

\* add_region, when it takes a new region on.
LEMMA RegionAdded ==
    ASSUME IInv, NEW r \in RegionArgs, add_region(r.base, r.size),
           AddRegionError(r.base, r.size) = "SUCCESS", block_free >= 2
    PROVE  IInv'
<1> DEFINE n     == Len(regions)
           base  == AlignedBase(r.base)
           len   == AlignedSize(r.base, r.size)
           head  == NextBlock(2)
           added == [base |-> base, length |-> len, free_bytes |-> len, free_blocks |-> head]
<1>1. /\ block_free' = block_free - 2
      /\ blocks' = [blocks EXCEPT ![head] = [base |-> base, length |-> len, next |-> nullptr]]
      /\ regions' = Append(regions, added)
      /\ total_bytes' = Add(total_bytes, len)
      /\ free_bytes' = Add(free_bytes, len)
      /\ Result("add_region", <<r.base, r.size>>, "SUCCESS", 0)
      /\ UNCHANGED <<pol, block_total, status, grants>>
      /\ status = "running"
  BY DEF add_region
<1>2. TypeOK /\ Len(regions) < REGION_COUNT /\ ~AlreadyManaged(r.base)
  BY CountAssumption DEF AddRegionError, IInv, TypeOK
<1>3. base \in Word /\ len \in Word /\ base + len <= r.base + r.size
  BY EntryAligned
<1>4. /\ block_free \in 2 .. INITIAL_MEM_BLOCK_COUNT /\ block_total # 0
      /\ head \in Descriptors /\ head # nullptr
      /\ head > INITIAL_MEM_BLOCK_COUNT - block_free
      /\ head <= INITIAL_MEM_BLOCK_COUNT - block_free'
  BY <1>1, <1>2, ConstantFacts DEF TypeOK, NextBlock, Descriptors, nullptr
<1>5. /\ Len(regions') = n + 1 /\ n \in Nat
      /\ \A i \in 1 .. n : regions'[i] = regions[i]
      /\ regions'[n + 1] = added
  BY <1>1, <1>2, Typed DEF TypeOK
<1>6. /\ blocks'[head] = [base |-> base, length |-> len, next |-> nullptr]
      /\ \A d \in Descriptors : d # head => blocks'[d] = blocks[d]
  BY <1>1, <1>2, <1>4 DEF TypeOK
<1>7. \A j \in 1 .. n : regions[j].free_blocks # nullptr =>
          /\ regions[j].free_blocks \in Descriptors
          /\ regions[j].free_blocks <= INITIAL_MEM_BLOCK_COUNT - block_free
          /\ regions[j].free_blocks # head
  BY <1>2, <1>4, Typed, ConstantFacts, SMTT(60) DEF IInv, OneFreeBlock, Descriptors
<1>8. TypeOK'
  <2>1. added \in MemoryRegion
    BY <1>3, <1>4 DEF MemoryRegion
  <2>2. regions' \in Seq(MemoryRegion) /\ Len(regions') <= REGION_COUNT
    BY <1>1, <1>2, <1>5, <2>1, CountAssumption DEF TypeOK
  <2>3. blocks' \in [Descriptors -> MemoryBlock]
    BY <1>1, <1>2, <1>3 DEF TypeOK, MemoryBlock
  <2>4. last' \in Call
    <3>1. <<r.base, r.size>> \in Word \X Word
      BY ConstantFacts
    <3> QED
      BY <3>1, <1>1, ConstantFacts, ResultTyped DEF Operations, Outcomes
  <2>5. total_bytes' \in Word /\ free_bytes' \in Word
    BY <1>1, <1>2, <1>3, WordClosed DEF TypeOK
  <2>6. block_free' \in 0 .. block_total'
    BY <1>1, <1>2, <1>4, ConstantFacts DEF TypeOK
  <2> QED
    BY <1>1, <1>2, <2>2, <2>3, <2>4, <2>5, <2>6 DEF TypeOK
<1>9. RegionsFromEntries'
  <2>1. block_total' # 0
    BY <1>1, <1>4
  <2>2. \A i \in 1 .. n + 1 : \E s \in RegionArgs :
           /\ regions'[i].base = AlignedBase(s.base)
           /\ regions'[i].base + regions'[i].length <= s.base + s.size
           /\ regions'[i].free_bytes <= regions'[i].length
    <3> TAKE i \in 1 .. n + 1
    <3>1. CASE i \in 1 .. n
      BY <3>1, <1>5 DEF IInv, RegionsFromEntries
    <3>2. CASE i = n + 1
      BY <3>2, <1>3, <1>5 DEF Word
    <3> QED
      BY <3>1, <3>2, <1>5
  <2>3. \A i, j \in 1 .. n + 1 :
           i < j => \/ regions'[i].base + regions'[i].length <= regions'[j].base
                    \/ regions'[j].base + regions'[j].length <= regions'[i].base
    <3> SUFFICES ASSUME NEW i \in 1 .. n + 1, NEW j \in 1 .. n + 1, i < j
                 PROVE  \/ regions'[i].base + regions'[i].length <= regions'[j].base
                        \/ regions'[j].base + regions'[j].length <= regions'[i].base
      OBVIOUS
    <3>1. CASE j \in 1 .. n
      BY <3>1, <1>5 DEF IInv, RegionsFromEntries
    <3>2. CASE j = n + 1
      <4>1. i \in 1 .. n
        BY <3>2, <1>5
      <4> QED
        BY <3>2, <4>1, <1>2, <1>5, AcceptedIsDisjoint
    <3> QED
      BY <3>1, <3>2, <1>5
  <2> QED
    BY <2>1, <2>2, <2>3, <1>5 DEF RegionsFromEntries, AlignedBase
<1>10. OneFreeBlock'
  <2> SUFFICES ASSUME NEW i \in 1 .. n + 1, regions'[i].free_blocks # nullptr
               PROVE  /\ regions'[i].free_blocks <= INITIAL_MEM_BLOCK_COUNT - block_free'
                      /\ \A j \in 1 .. n + 1 :
                            j # i => regions'[j].free_blocks # regions'[i].free_blocks
                      /\ blocks'[regions'[i].free_blocks].next = nullptr
                      /\ regions'[i].base <= blocks'[regions'[i].free_blocks].base
                      /\ blocks'[regions'[i].free_blocks].base
                           + blocks'[regions'[i].free_blocks].length
                            <= regions'[i].base + regions'[i].length
    BY <1>5 DEF OneFreeBlock, FreeBlock
  <2>2. CASE i \in 1 .. n
    <3>1. regions'[i] = regions[i] /\ regions[i].free_blocks # nullptr
      BY <2>2, <1>5
    <3>2. blocks'[regions[i].free_blocks] = FreeBlock(i)
      BY <1>7, <2>2, <3>1, <1>6 DEF FreeBlock
    <3>3. \A j \in 1 .. n + 1 : j # i => regions'[j].free_blocks # regions'[i].free_blocks
      BY <1>7, <2>2, <3>1, <1>5 DEF IInv, OneFreeBlock
    <3>4. regions[i].free_blocks <= INITIAL_MEM_BLOCK_COUNT - block_free'
      BY <1>7, <2>2, <3>1, <1>1, <1>4, ConstantFacts DEF Descriptors
    <3> QED
      BY <2>2, <3>1, <3>2, <3>3, <3>4 DEF IInv, OneFreeBlock
  <2>3. CASE i = n + 1
    <3>1. \A j \in 1 .. n + 1 : j # i => regions'[j].free_blocks # head
      BY <1>7, <2>3, <1>4, <1>5
    <3> QED
      BY <2>3, <3>1, <1>3, <1>4, <1>5, <1>6 DEF Word
  <2> QED
    BY <2>2, <2>3, <1>5
<1>11. GrantsManaged'
  <2>1. Grants' = Grants /\ \A k \in Grants : grants'[k] = grants[k]
    BY <1>1 DEF Grants
  <2>2. ASSUME NEW k \in Grants
        PROVE  \E i \in 1 .. n + 1 :
                  /\ regions'[i].base <= grants[k].base
                  /\ grants[k].base + grants[k].size <= regions'[i].base + regions'[i].length
    <3>1. PICK i \in 1 .. n :
             /\ regions[i].base <= grants[k].base
             /\ grants[k].base + grants[k].size <= regions[i].base + regions[i].length
      BY DEF IInv, GrantsManaged
    <3>2. i \in 1 .. n + 1 /\ regions'[i] = regions[i]
      BY <1>5
    <3> HIDE DEF n
    <3> QED
      BY <3>1, <3>2, Zenon
  <2> HIDE DEF n
  <2> QED
    BY <1>5, <2>1, <2>2, Zenon DEF GrantsManaged
<1>12. FreeIsUngranted'
  <2> SUFFICES ASSUME NEW i \in 1 .. n + 1, NEW k \in Grants, regions'[i].free_blocks # nullptr
               PROVE  ~Phys!Overlap([base |-> blocks'[regions'[i].free_blocks].base,
                                     size |-> blocks'[regions'[i].free_blocks].length],
                                    grants[k])
    BY <1>1, <1>5 DEF FreeIsUngranted, FreeBlock, Grants
  <2>1. CASE i \in 1 .. n
    <3>1. regions'[i] = regions[i] /\ regions[i].free_blocks # nullptr
      BY <2>1, <1>5
    <3>2. blocks'[regions[i].free_blocks] = FreeBlock(i)
      BY <2>1, <3>1, <1>6, <1>7 DEF FreeBlock
    <3> QED
      BY <2>1, <3>1, <3>2 DEF IInv, FreeIsUngranted
  <2>2. CASE i = n + 1
    <3>1. PICK j \in 1 .. n :
             /\ regions[j].base <= grants[k].base
             /\ grants[k].base + grants[k].size <= regions[j].base + regions[j].length
      BY DEF IInv, GrantsManaged
    <3>2. regions[j].base + regions[j].length <= base \/ base + len <= regions[j].base
      BY <1>2, AcceptedIsDisjoint
    <3>3. /\ grants[k].base \in Nat /\ grants[k].size \in Nat
          /\ regions[j].base \in Nat /\ regions[j].length \in Nat
          /\ base \in Nat /\ len \in Nat
      BY <1>2, <1>3, Typed DEF Word
    <3>4. /\ blocks'[regions'[i].free_blocks].base = base
          /\ blocks'[regions'[i].free_blocks].length = len
      BY <2>2, <1>5, <1>6
    <3>5. ~Phys!Overlap([base |-> base, size |-> len], grants[k])
      <4> HIDE DEF base, len, n
      <4>1. base + len <= grants[k].base \/ grants[k].base + grants[k].size <= base
        BY <3>1, <3>2, <3>3
      <4> QED
        BY <4>1, <3>3, Apart
    <3> QED
      BY <3>4, <3>5
  <2> QED
    BY <2>1, <2>2, <1>5
<1>13. NoOverlap' /\ AssertsUnreachable'
  BY <1>1 DEF IInv, NoOverlap, AssertsUnreachable, Grants
<1> QED
  BY <1>8, <1>9, <1>10, <1>11, <1>12, <1>13 DEF IInv

\* add_region keeps the invariant, whatever it answers.
LEMMA AddRegionKeeps ==
    ASSUME IInv, NEW r \in RegionArgs, add_region(r.base, r.size)
    PROVE  IInv'
<1> DEFINE err  == AddRegionError(r.base, r.size)
           args == <<r.base, r.size>>
<1>1. /\ args \in Word \X Word /\ err \in Outcomes /\ "add_region" \in Operations
      /\ {"assert", "fault"} \subseteq Statuses
  BY ConstantFacts DEF AddRegionError, Outcomes, Operations, Statuses
<1>2. status = "running"
  BY DEF add_region
<1>3. CASE err # "SUCCESS"
  <2>1. Return("add_region", args, err)
    BY <1>3 DEF add_region
  <2> QED
    BY <1>1, <1>2, <2>1, ReturnKeeps
<1>4. CASE err = "SUCCESS" /\ block_free = 0
  <2>1. Stop("add_region", args, "assert") /\ UNCHANGED memory
    BY <1>4 DEF add_region
  <2> QED
    BY <1>1, <1>4, <2>1, StopKeeps
<1>5. CASE err = "SUCCESS" /\ block_free = 1
  <2>1. /\ Stop("add_region", args, "fault") /\ block_free' = 0
        /\ UNCHANGED <<total_bytes, free_bytes, regions, blocks, grants>>
    BY <1>5 DEF add_region
  <2>2. status' = "fault" /\ UNCHANGED <<pol, block_total>>
    BY <2>1 DEF Stop
  <2>3. last' \in Call
    <3>1. "fault" \in Outcomes
      BY DEF Outcomes, Statuses
    <3> QED
      BY <1>1, <2>1, <3>1, ConstantFacts, ResultTyped DEF Stop
  <2>4. TypeOK'
    BY <1>1, <2>1, <2>2, <2>3, ConstantFacts DEF IInv, TypeOK
  <2>5. OneFreeBlock'
    <3>1. \A i \in 1 .. Len(regions) : regions[i].free_blocks # nullptr =>
             /\ regions[i].free_blocks \in Descriptors
             /\ regions[i].free_blocks <= INITIAL_MEM_BLOCK_COUNT - block_free
      BY Typed DEF IInv, OneFreeBlock
    <3>2. \A i \in 1 .. Len(regions) : regions[i].free_blocks # nullptr =>
             regions[i].free_blocks <= INITIAL_MEM_BLOCK_COUNT - 0
      BY <1>5, <3>1, ConstantFacts DEF Descriptors
    <3> QED
      BY <2>1, <3>2 DEF IInv, OneFreeBlock, FreeBlock
  <2>6. RegionsFromEntries' /\ GrantsManaged' /\ FreeIsUngranted' /\ NoOverlap'
    BY <2>1, <2>2 DEF IInv, RegionsFromEntries, GrantsManaged, FreeIsUngranted, FreeBlock,
                      NoOverlap, Grants
  <2>7. AssertsUnreachable'
    BY <2>2 DEF AssertsUnreachable
  <2> QED
    BY <2>4, <2>5, <2>6, <2>7 DEF IInv
<1>6. CASE err = "SUCCESS" /\ block_free >= 2
  BY <1>6, RegionAdded
<1>7. block_free \in Nat
  BY ConstantFacts DEF IInv, TypeOK
<1> QED
  BY <1>3, <1>4, <1>5, <1>6, <1>7

----------------------------------------------------------------------------
(***************************************************************************)
(* What the four ways of taking an extent out of a block have in common:   *)
(* extent g is handed out of the free block of region i, and what is left  *)
(* in the list, if anything, is a part of that block beside g.             *)
(***************************************************************************)
Taken(i, g, list) ==
    /\ regions[i].free_blocks # nullptr
    /\ g \in Extents
    /\ FreeBlock(i).base <= g.base
    /\ g.base + g.size <= FreeBlock(i).base + FreeBlock(i).length
    /\ grants' = Append(grants, g)
    /\ regions' \in Seq(MemoryRegion) /\ Len(regions') = Len(regions)
    /\ \A j \in 1 .. Len(regions) :
          /\ regions'[j].base = regions[j].base
          /\ regions'[j].length = regions[j].length
          /\ regions'[j].free_bytes <= regions[j].free_bytes
          /\ regions'[j].free_blocks = IF j = i THEN list ELSE regions[j].free_blocks
    /\ blocks' \in [Descriptors -> MemoryBlock]
    /\ \A d \in Descriptors :
          d <= INITIAL_MEM_BLOCK_COUNT - block_free /\ d # regions[i].free_blocks
          => blocks'[d] = blocks[d]
    /\ block_free' \in 0 .. block_free
    /\ free_bytes' \in Word
    /\ last' \in Call /\ last'.err = "SUCCESS"
    /\ status = "running"
    /\ UNCHANGED <<pol, block_total, status, total_bytes>>
    /\ list \in {nullptr, regions[i].free_blocks}
    /\ list # nullptr =>
          LET b == FreeBlock(i)
              c == blocks'[list]
          IN  /\ c.next = nullptr
              /\ b.base <= c.base /\ c.base + c.length <= b.base + b.length
              /\ c.base + c.length <= g.base \/ g.base + g.size <= c.base

\* Taking an extent so keeps the invariant.
LEMMA TakenKeeps ==
    ASSUME IInv, NEW i \in 1 .. Len(regions), NEW g, NEW list, Taken(i, g, list)
    PROVE  IInv'
<1> DEFINE n == Len(regions)
           m == Len(grants)
           b == FreeBlock(i)
<1>1. TypeOK /\ n \in Nat /\ m \in Nat /\ Len(regions') = n
  BY Typed DEF IInv, Taken
<1>2. /\ g.base \in Nat /\ g.size \in Nat /\ g \in Extents
  BY WordAssumption DEF Taken, Extents, Word
<1>3. /\ Len(grants') = m + 1 /\ grants'[m + 1] = g
      /\ \A k \in 1 .. m : grants'[k] = grants[k]
      /\ grants' \in Seq(Extents)
  BY <1>1, <1>2 DEF Taken, TypeOK
<1>4. \A j \in 1 .. n : regions[j].free_blocks # nullptr =>
         /\ regions[j].free_blocks \in Descriptors
         /\ regions[j].free_blocks <= INITIAL_MEM_BLOCK_COUNT - block_free
         /\ j # i => /\ regions'[j].free_blocks = regions[j].free_blocks
                     /\ blocks'[regions[j].free_blocks] = FreeBlock(j)
  BY <1>1, Typed DEF IInv, OneFreeBlock, Taken, FreeBlock
<1>5. \A k \in 1 .. m : ~Phys!Overlap(grants[k], g) /\ ~Phys!Overlap(g, grants[k])
  <2> TAKE k \in 1 .. m
  <2>1. ~Phys!Overlap([base |-> b.base, size |-> b.length], grants[k])
    BY DEF IInv, FreeIsUngranted, Grants, Taken
  <2>2. /\ b.base \in Nat /\ b.length \in Nat
        /\ grants[k].base \in Nat /\ grants[k].size \in Nat
    BY <1>1, <1>4, Typed DEF FreeBlock, Taken, Grants
  <2>3. /\ b.base <= g.base /\ g.base + g.size <= b.base + b.length
    BY DEF Taken
  <2> HIDE DEF b, m
  <2>4. \/ b.length = 0 \/ grants[k].size = 0
        \/ b.base + b.length <= grants[k].base
        \/ grants[k].base + grants[k].size <= b.base
    BY <2>1, <2>2, SMTT(60) DEF Phys!Overlap
  <2>5. \/ g.size = 0 \/ grants[k].size = 0
        \/ g.base + g.size <= grants[k].base
        \/ grants[k].base + grants[k].size <= g.base
    BY <1>2, <2>2, <2>3, <2>4, SMTT(60)
  <2> QED
    BY <1>2, <2>2, <2>5, SMTT(60) DEF Phys!Overlap
<1>6. regions[i].base <= g.base /\ g.base + g.size <= regions[i].base + regions[i].length
  <2>1. /\ regions[i].base <= b.base
        /\ b.base + b.length <= regions[i].base + regions[i].length
        /\ b.base <= g.base /\ g.base + g.size <= b.base + b.length
    BY DEF IInv, OneFreeBlock, Taken
  <2>2. /\ b.base \in Nat /\ b.length \in Nat
        /\ regions[i].base \in Nat /\ regions[i].length \in Nat
    BY <1>1, <1>4, Typed DEF FreeBlock, Taken
  <2>3. regions[i].base <= g.base /\ g.base + g.size <= regions[i].base + regions[i].length
    <3> HIDE DEF b
    <3> QED
      BY <1>2, <2>1, <2>2, SMTT(60)
  <2> QED
    BY <2>3
<1>7. TypeOK'
  <2>1. block_free' \in 0 .. block_total'
    BY <1>1, ConstantFacts DEF Taken, TypeOK
  <2> QED
    BY <1>1, <1>3, <2>1 DEF TypeOK, Taken
<1>8. RegionsFromEntries'
  <2>1. \A j \in 1 .. n : regions'[j].free_bytes <= regions'[j].length
    <3> TAKE j \in 1 .. n
    <3>1. /\ regions[j].free_bytes \in Nat /\ regions[j].length \in Nat
          /\ regions'[j].free_bytes \in Nat
      <4>1. regions'[j] \in MemoryRegion
        BY <1>1 DEF Taken
      <4>2. Word \subseteq Nat
        BY WordAssumption DEF Word
      <4>3. regions[j].free_bytes \in Word /\ regions[j].length \in Nat
        BY <1>1, Typed
      <4> QED
        BY <4>1, <4>2, <4>3 DEF MemoryRegion
    <3> QED
      BY <3>1, <1>1, SMTT(60) DEF IInv, RegionsFromEntries, Taken
  <2>2. block_total # 0
    BY <1>1 DEF IInv, RegionsFromEntries
  <2> QED
    BY <1>1, <2>1, <2>2, SMTT(60) DEF IInv, RegionsFromEntries, Taken, AlignedBase
<1>9. OneFreeBlock'
  <2> SUFFICES ASSUME NEW j \in 1 .. n, regions'[j].free_blocks # nullptr
               PROVE  /\ regions'[j].free_blocks <= INITIAL_MEM_BLOCK_COUNT - block_free'
                      /\ \A l \in 1 .. n :
                            l # j => regions'[l].free_blocks # regions'[j].free_blocks
                      /\ blocks'[regions'[j].free_blocks].next = nullptr
                      /\ regions'[j].base <= blocks'[regions'[j].free_blocks].base
                      /\ blocks'[regions'[j].free_blocks].base
                           + blocks'[regions'[j].free_blocks].length
                            <= regions'[j].base + regions'[j].length
    BY <1>1 DEF OneFreeBlock, FreeBlock
  <2>1. regions'[j].free_blocks = regions[j].free_blocks /\ regions[j].free_blocks # nullptr
    BY DEF Taken
  <2>2. regions[j].free_blocks <= INITIAL_MEM_BLOCK_COUNT - block_free'
    <3>1. block_free \in Nat /\ block_free' \in 0 .. block_free
      BY <1>1, ConstantFacts DEF Taken, TypeOK
    <3> QED
      BY <1>4, <2>1, <3>1, ConstantFacts DEF Descriptors
  <2>3. \A l \in 1 .. n : l # j => regions'[l].free_blocks # regions[j].free_blocks
    BY <2>1 DEF IInv, OneFreeBlock, Taken
  <2>4. CASE j # i
    BY <1>4, <2>1, <2>2, <2>3, <2>4 DEF IInv, OneFreeBlock, Taken
  <2>5. CASE j = i
    <3> DEFINE c == blocks'[regions'[i].free_blocks]
    <3>1. /\ c.next = nullptr /\ b.base <= c.base /\ c.base + c.length <= b.base + b.length
      BY <2>1, <2>5 DEF Taken
    <3>2. /\ regions[i].base <= b.base
          /\ b.base + b.length <= regions[i].base + regions[i].length
      BY <2>1, <2>5 DEF IInv, OneFreeBlock
    <3>3. /\ c.base \in Nat /\ c.length \in Nat /\ b.base \in Nat /\ b.length \in Nat
          /\ regions[i].base \in Nat /\ regions[i].length \in Nat
      <4>1. c \in MemoryBlock /\ b \in MemoryBlock
        BY <1>1, <1>4, <2>1, <2>5 DEF Taken, FreeBlock, TypeOK
      <4> QED
        BY <4>1, <1>1, Typed, WordAssumption, SMTT(60) DEF MemoryBlock, Word
    <3>4. regions[i].base <= c.base /\ c.base + c.length <= regions[i].base + regions[i].length
      <4> HIDE DEF b, c
      <4> QED
        BY <3>1, <3>2, <3>3, SMTT(60)
    <3> QED
      BY <2>1, <2>2, <2>3, <2>5, <3>1, <3>4 DEF Taken
  <2> QED
    BY <2>4, <2>5
<1>10. GrantsManaged'
  <2> SUFFICES ASSUME NEW k \in 1 .. m + 1
               PROVE  \E j \in 1 .. n :
                         /\ regions[j].base <= grants'[k].base
                         /\ grants'[k].base + grants'[k].size
                               <= regions[j].base + regions[j].length
    BY <1>1, <1>3, ZenonT(60) DEF GrantsManaged, Grants, Taken
  <2>1. CASE k \in 1 .. m
    BY <2>1, <1>3 DEF IInv, GrantsManaged, Grants
  <2>2. CASE k = m + 1
    BY <2>2, <1>3, <1>6
  <2> QED
    BY <2>1, <2>2, <1>1
<1>11. FreeIsUngranted'
  <2> SUFFICES ASSUME NEW j \in 1 .. n, NEW k \in 1 .. m + 1, regions'[j].free_blocks # nullptr
               PROVE  ~Phys!Overlap([base |-> blocks'[regions'[j].free_blocks].base,
                                     size |-> blocks'[regions'[j].free_blocks].length],
                                    grants'[k])
    BY <1>1, <1>3 DEF FreeIsUngranted, FreeBlock, Grants
  <2> DEFINE c == blocks'[regions'[j].free_blocks]
  <2>1. regions'[j].free_blocks = regions[j].free_blocks /\ regions[j].free_blocks # nullptr
    BY DEF Taken
  <2>2. c.base \in Nat /\ c.length \in Nat /\ b.base \in Nat /\ b.length \in Nat
    <3>1. c \in MemoryBlock /\ b \in MemoryBlock
      BY <1>1, <1>4, <2>1 DEF Taken, FreeBlock, TypeOK
    <3> QED
      BY <3>1, WordAssumption DEF MemoryBlock, Word
  <2>3. CASE j # i /\ k \in 1 .. m
    BY <1>3, <1>4, <2>1, <2>3 DEF IInv, FreeIsUngranted, Grants
  <2>4. CASE j # i /\ k = m + 1
    <3>1. regions[j].base <= c.base /\ c.base + c.length <= regions[j].base + regions[j].length
      BY <1>4, <2>1, <2>4 DEF IInv, OneFreeBlock, Taken
    <3>2. \/ regions[i].base + regions[i].length <= regions[j].base
          \/ regions[j].base + regions[j].length <= regions[i].base
      BY <2>4, <1>1 DEF IInv, RegionsFromEntries
    <3>3. /\ regions[i].base \in Nat /\ regions[i].length \in Nat
          /\ regions[j].base \in Nat /\ regions[j].length \in Nat
      BY <1>1, Typed
    <3>4. c.base + c.length <= g.base \/ g.base + g.size <= c.base
      <4> HIDE DEF b, c
      <4> QED
        BY <1>2, <1>6, <2>2, <3>1, <3>2, <3>3, PartsApart
    <3>5. ~Phys!Overlap([base |-> c.base, size |-> c.length], g)
      <4> HIDE DEF c
      <4> QED
        BY <1>2, <2>2, <3>4, Apart
    <3> QED
      BY <2>4, <3>5, <1>3
  <2>5. CASE j = i /\ k = m + 1
    <3>1. c.base + c.length <= g.base \/ g.base + g.size <= c.base
      BY <2>1, <2>5 DEF Taken
    <3>2. ~Phys!Overlap([base |-> c.base, size |-> c.length], g)
      <4> HIDE DEF c
      <4> QED
        BY <1>2, <2>2, <3>1, Apart
    <3> QED
      BY <2>5, <3>2, <1>3
  <2>6. CASE j = i /\ k \in 1 .. m
    <3>1. ~Phys!Overlap([base |-> b.base, size |-> b.length], grants[k])
      BY <2>1, <2>6 DEF IInv, FreeIsUngranted, Grants
    <3>2. b.base <= c.base /\ c.base + c.length <= b.base + b.length
      BY <2>1, <2>6 DEF Taken
    <3>3. grants[k].base \in Nat /\ grants[k].size \in Nat
      BY <2>6, <1>1, Typed DEF Grants
    <3>4. ~Phys!Overlap([base |-> c.base, size |-> c.length], grants[k])
      <4> HIDE DEF b, c
      <4>1. b.base \in Nat /\ b.length \in Nat /\ c.base \in Nat /\ c.length \in Nat
        BY <2>2, WordAssumption DEF Word
      <4> QED
        BY <4>1, <3>1, <3>2, <3>3, PartOverlapsNothing, Zenon
    <3> QED
      BY <2>6, <3>4, <1>3
  <2> QED
    BY <2>3, <2>4, <2>5, <2>6, <1>1
<1>12. NoOverlap'
  <2> SUFFICES ASSUME NEW j \in 1 .. m + 1, NEW k \in 1 .. m + 1, j < k
               PROVE  ~Phys!Overlap(grants'[j], grants'[k])
    BY <1>1, <1>3 DEF NoOverlap, Grants
  <2>1. CASE k \in 1 .. m
    BY <2>1, <1>1, <1>3 DEF IInv, NoOverlap, Grants
  <2>2. CASE k = m + 1
    <3>1. j \in 1 .. m
      BY <2>2, <1>1
    <3> QED
      BY <2>2, <3>1, <1>3, <1>5
  <2> QED
    BY <2>1, <2>2, <1>1
<1>13. AssertsUnreachable'
  BY DEF Taken, AssertsUnreachable
<1> QED
  BY <1>7, <1>8, <1>9, <1>10, <1>11, <1>12, <1>13 DEF IInv

\* What the code computes for the first candidate: nothing wraps, and if the
\* block it walks to is not null it is the head of the list and holds the
\* aligned extent.
LEMMA Walk ==
    ASSUME IInv, NEW i \in 1 .. Len(regions), NEW size \in Word,
           NEW a \in Alignments \cup {PAGE_SIZE}, a \in Word \ {0}, Candidate(i, size)
    PROVE  LET b    == FreeBlock(i)
               base == AlignUp(b.base, a)
           IN  /\ base \in Word /\ b.base <= base /\ Add(base, size) = base + size
               /\ End(b) = b.base + b.length
               /\ Walked(i, size, a) # nullptr =>
                     /\ Walked(i, size, a) = regions[i].free_blocks
                     /\ base + size <= b.base + b.length
<1> DEFINE b    == FreeBlock(i)
           base == AlignUp(b.base, a)
<1>1. TypeOK /\ regions[i].free_blocks # nullptr /\ size <= regions[i].free_bytes
  BY DEF IInv, Candidate
<1>2. /\ b.base \in Word /\ b.length \in Word /\ b.next = nullptr
      /\ regions[i].base <= b.base
      /\ b.base + b.length <= regions[i].base + regions[i].length
  BY <1>1, Typed DEF IInv, OneFreeBlock, FreeBlock, MemoryBlock
<1>3. PICK r \in RegionArgs :
         /\ regions[i].base = AlignedBase(r.base)
         /\ regions[i].base + regions[i].length <= r.base + r.size
         /\ regions[i].free_bytes <= regions[i].length
  BY DEF IInv, RegionsFromEntries
<1>4. r.base <= regions[i].base
  BY <1>3, EntryAligned
<1>5. r.base + r.size + r.size + a <= WORD /\ r.base \in Nat /\ r.size \in Nat
  BY LimineAssumption, ConstantFacts DEF Word
<1>6. /\ regions[i].base \in Nat /\ regions[i].length \in Nat /\ regions[i].free_bytes \in Nat
      /\ b.base \in Nat /\ b.length \in Nat /\ size \in Nat /\ a \in Nat /\ a > 0
  <2>1. Word \subseteq Nat
    BY WordAssumption DEF Word
  <2>2. /\ regions[i].base \in Nat /\ regions[i].length \in Nat
        /\ regions[i].free_bytes \in Word
    BY <1>1, Typed
  <2>3. a \in Nat /\ a > 0
    BY <2>1
  <2> QED
    BY <1>2, <2>1, <2>2, <2>3
<1> DEFINE rb == r.base   rs == r.size
           gb == regions[i].base   gl == regions[i].length   gf == regions[i].free_bytes
           bb == b.base   bl == b.length
<1>6a. /\ rb \in Nat /\ rs \in Nat /\ gb \in Nat /\ gl \in Nat /\ gf \in Nat
       /\ bb \in Nat /\ bl \in Nat /\ size \in Nat /\ a \in Nat /\ 0 < a
  <2> HIDE DEF b
  <2> QED
    BY <1>5, <1>6
<1>6b. /\ rb <= gb /\ gb + gl <= rb + rs /\ gb <= bb /\ bb + bl <= gb + gl
       /\ size <= gf /\ gf <= gl /\ rb + rs + rs + a <= WORD
  <2> HIDE DEF b
  <2> QED
    BY <1>1, <1>2, <1>3, <1>4, <1>5, Zenon
<1> HIDE DEF rb, rs, gb, gl, gf, bb, bl
<1>6c. size <= rs /\ bb + bl <= rb + rs
  BY <1>6a, <1>6b
<1>7. size <= r.size
  BY <1>6c DEF rs
<1>8. b.base + b.length <= r.base + r.size
  BY <1>6c DEF bb, bl, rb, rs
<1>9. base \in Word /\ b.base <= base /\ base < b.base + a
  <2>1. bb + a <= WORD
    BY <1>6a, <1>6b, <1>6c, WordAssumption
  <2> QED
    BY <1>2, <2>1, AlignUpWord, AlignUpBound DEF bb
<1>10. base \in Nat /\ base + size < WORD /\ b.base + b.length < WORD
  <2>1. base \in Nat
    BY <1>9, WordAssumption DEF Word
  <2>2. base < bb + a
    BY <1>9 DEF bb
  <2> HIDE DEF base
  <2>3. base + size < WORD /\ bb + bl < WORD
    BY <1>6a, <1>6b, <1>6c, <2>1, <2>2, WordAssumption
  <2> QED
    BY <2>1, <2>3 DEF bb, bl
<1>11. Add(base, size) = base + size /\ End(b) = b.base + b.length
  BY <1>6, <1>10, AddExact DEF End
<1>12. ASSUME Walked(i, size, a) # nullptr
       PROVE  /\ Walked(i, size, a) = regions[i].free_blocks
              /\ base + size <= b.base + b.length
  <2>1. ~Misfit(b, size, a)
    BY <1>2, <1>12 DEF Walked, FreeBlock
  <2>2. ~(b.base + b.length < base + size)
    BY <2>1, <1>11 DEF Misfit
  <2> QED
    BY <2>1, <2>2, <1>6, <1>10, SMTT(60) DEF Walked, FreeBlock
<1> QED
  BY <1>9, <1>11, <1>12

\* What HandOut does to the regions and the counters.
LEMMA HandedOut ==
    ASSUME IInv, NEW i \in 1 .. Len(regions), NEW size \in Word, NEW base \in Word,
           NEW op \in Operations, NEW args \in Word \X Word, size <= regions[i].free_bytes,
           NEW list \in Descriptors \cup {nullptr}, HandOut(op, args, i, size, base, list)
    PROVE  /\ regions' \in Seq(MemoryRegion) /\ Len(regions') = Len(regions)
           /\ \A j \in 1 .. Len(regions) :
                 /\ regions'[j].base = regions[j].base
                 /\ regions'[j].length = regions[j].length
                 /\ regions'[j].free_bytes <= regions[j].free_bytes
                 /\ regions'[j].free_blocks = IF j = i THEN list ELSE regions[j].free_blocks
           /\ grants' = Append(grants, [base |-> base, size |-> size])
           /\ [base |-> base, size |-> size] \in Extents
           /\ free_bytes' \in Word
           /\ last' \in Call /\ last'.err = "SUCCESS"
           /\ UNCHANGED <<pol, block_total, status, total_bytes>>
<1> DEFINE n == Len(regions)
<1>1. TypeOK /\ n \in Nat /\ \A j \in 1 .. n : regions[j] \in MemoryRegion
  BY Typed DEF IInv
<1>2. regions' = [j \in 1 .. n |->
                    IF j = i
                    THEN [regions[i] EXCEPT !.free_bytes = Sub(regions[i].free_bytes, size),
                                            !.free_blocks = list]
                    ELSE regions[j]]
  <2>1. DOMAIN regions = 1 .. n
    BY <1>1 DEF TypeOK
  <2>2. regions' = [regions EXCEPT ![i].free_bytes = Sub(@, size), ![i].free_blocks = list]
    BY DEF HandOut
  <2> QED
    BY <2>1, <2>2
<1>3. /\ Sub(regions[i].free_bytes, size) \in Word
      /\ Sub(regions[i].free_bytes, size) <= regions[i].free_bytes
  <2>1. regions[i].free_bytes \in Word /\ Word \subseteq Nat
    BY <1>1, WordAssumption, SMTT(60) DEF MemoryRegion, Word
  <2>2. Sub(regions[i].free_bytes, size) = regions[i].free_bytes - size
    BY <2>1, SubExact
  <2>3. Sub(regions[i].free_bytes, size) \in Word
    BY <2>1, WordClosed
  <2>4. regions[i].free_bytes - size <= regions[i].free_bytes
    BY <2>1
  <2> QED
    BY <2>2, <2>3, <2>4
<1>4. \A j \in 1 .. n : regions[j].free_bytes <= regions[j].free_bytes
  BY <1>1, WordAssumption, SMTT(60) DEF MemoryRegion, Word
<1>5. /\ regions' \in Seq(MemoryRegion) /\ Len(regions') = n
      /\ \A j \in 1 .. n :
            /\ regions'[j].base = regions[j].base
            /\ regions'[j].length = regions[j].length
            /\ regions'[j].free_bytes <= regions[j].free_bytes
            /\ regions'[j].free_blocks = IF j = i THEN list ELSE regions[j].free_blocks
  <2>1. \A j \in 1 .. n : regions'[j] \in MemoryRegion
    BY <1>1, <1>2, <1>3 DEF MemoryRegion
  <2>2. regions' \in Seq(MemoryRegion) /\ Len(regions') = n
    BY <1>1, <1>2, <2>1
  <2>3. \A j \in 1 .. n :
            /\ regions'[j].base = regions[j].base
            /\ regions'[j].length = regions[j].length
            /\ regions'[j].free_bytes <= regions[j].free_bytes
            /\ regions'[j].free_blocks = IF j = i THEN list ELSE regions[j].free_blocks
    BY <1>1, <1>2, <1>3, <1>4 DEF MemoryRegion
  <2> QED
    BY <2>2, <2>3
<1>6. free_bytes' \in Word
  BY <1>1, WordClosed DEF HandOut, TypeOK
<1>7. last' \in Call /\ last'.err = "SUCCESS"
  <2>1. Result(op, args, "SUCCESS", base) /\ "SUCCESS" \in Outcomes
    BY DEF HandOut, Outcomes
  <2> QED
    BY <2>1, ResultTyped DEF Result
<1> QED
  BY <1>5, <1>6, <1>7 DEF HandOut, Extents

\* A candidate either makes the walk run off the list, or has an extent
\* taken out of its free block.
LEMMA CarveTakes ==
    ASSUME IInv, NEW i \in 1 .. Len(regions), NEW size \in Word,
           NEW a \in Alignments \cup {PAGE_SIZE}, a \in Word \ {0}, Candidate(i, size),
           NEW op \in Operations, NEW args \in Word \X Word, block_free >= REFILL_MARK,
           status = "running", Carve(op, args, i, size, a)
    PROVE  \/ Stop(op, args, "fault") /\ UNCHANGED memory
           \/ \E g \in Extents, list \in Descriptors \cup {nullptr} : Taken(i, g, list)
<1> DEFINE head == regions[i].free_blocks
           b    == blocks[head]
           curr == Walked(i, size, a)
           base == AlignUp(b.base, a)
           g    == [base |-> base, size |-> size]
           new  == NextBlock(1)
<1>1. /\ base \in Word /\ b.base <= base /\ Add(base, size) = base + size
      /\ End(b) = b.base + b.length
      /\ curr # nullptr => curr = head /\ base + size <= b.base + b.length
  BY Walk DEF FreeBlock
<1>2. /\ TypeOK /\ head # nullptr /\ head \in Descriptors
      /\ size <= regions[i].free_bytes /\ b.next = nullptr
      /\ head <= INITIAL_MEM_BLOCK_COUNT - block_free
      /\ b.base \in Word /\ b.length \in Word
  BY Typed DEF IInv, OneFreeBlock, FreeBlock, Candidate, MemoryBlock
<1>3. /\ block_free \in 1 .. INITIAL_MEM_BLOCK_COUNT
      /\ new \in Descriptors /\ new # head /\ new > INITIAL_MEM_BLOCK_COUNT - block_free
  <2>1. block_free \in 0 .. INITIAL_MEM_BLOCK_COUNT /\ block_free >= 1
    BY <1>2, ConstantFacts, CountAssumption, SMTT(60) DEF TypeOK
  <2> QED
    BY <2>1, <1>2, ConstantFacts DEF NextBlock, Descriptors
<1>4. Word \subseteq Nat
  BY WordAssumption DEF Word
<1>5. ASSUME curr # nullptr, NEW list \in {nullptr, head},
             HandOut(op, args, i, size, base, list),
             blocks' \in [Descriptors -> MemoryBlock],
             \A d \in Descriptors :
                d <= INITIAL_MEM_BLOCK_COUNT - block_free /\ d # head => blocks'[d] = blocks[d],
             block_free' \in 0 .. block_free,
             list # nullptr =>
                LET c == blocks'[head]
                IN  /\ c.next = nullptr
                    /\ b.base <= c.base /\ c.base + c.length <= b.base + b.length
                    /\ c.base + c.length <= base \/ base + size <= c.base
      PROVE  \E e \in Extents, l \in Descriptors \cup {nullptr} : Taken(i, e, l)
  <2>1. list \in Descriptors \cup {nullptr}
    BY <1>2, <1>5, SMTT(60)
  <2>2. /\ regions' \in Seq(MemoryRegion) /\ Len(regions') = Len(regions)
        /\ \A j \in 1 .. Len(regions) :
              /\ regions'[j].base = regions[j].base
              /\ regions'[j].length = regions[j].length
              /\ regions'[j].free_bytes <= regions[j].free_bytes
              /\ regions'[j].free_blocks = IF j = i THEN list ELSE regions[j].free_blocks
        /\ grants' = Append(grants, g) /\ g \in Extents
        /\ free_bytes' \in Word
        /\ last' \in Call /\ last'.err = "SUCCESS"
        /\ UNCHANGED <<pol, block_total, status, total_bytes>>
    BY <2>1, <1>1, <1>2, <1>5, HandedOut, SMTT(60)
  <2>3. g.base = base /\ g.size = size
    OBVIOUS
  <2>4. b.base <= g.base /\ g.base + g.size <= b.base + b.length
    BY <1>1, <1>5, <2>3, SMTT(60)
  <2>5. Taken(i, g, list)
    BY <1>2, <1>5, <2>2, <2>3, <2>4 DEF Taken, FreeBlock
  <2> QED
    BY <2>1, <2>2, <2>5
<1>6. CASE curr = nullptr
  BY <1>6 DEF Carve
<1>7. CASE curr # nullptr
  <2>1. curr = head /\ base + size <= b.base + b.length
    BY <1>1, <1>7
  <2>2. base \in Nat /\ size \in Nat /\ b.base \in Nat /\ b.length \in Nat
    BY <1>1, <1>2, <1>4
  <2>3. b.base + b.length < WORD \/ b.base + b.length = End(b)
    BY <1>1
  <2>4. CASE /\ ExistsPreceeding(b, a)
             /\ SplitBoth(b, curr, size, a) /\ HandOut(op, args, i, size, base, head)
    <3>1. /\ blocks' = [blocks EXCEPT ![head].length = Sub(base, b.base),
                           ![new] = [base |-> Add(base, size),
                                     length |-> Sub(End(b), Add(base, size)),
                                     next |-> b.next]]
          /\ block_free' = block_free - 1
      BY <2>1, <2>4 DEF SplitBoth
    <3>2. Sub(base, b.base) = base - b.base /\ Sub(base, b.base) \in Word
      BY <1>1, <1>2, <2>2, SubExact, WordClosed
    <3>3. Add(base, size) \in Word /\ Sub(End(b), Add(base, size)) \in Word
      BY <1>1, <1>2, WordClosed DEF End
    <3>4. blocks' \in [Descriptors -> MemoryBlock]
      <4>1. \A x, y \in MemoryBlock :
               [blocks EXCEPT ![head] = x, ![new] = y] \in [Descriptors -> MemoryBlock]
        BY <1>2 DEF TypeOK
      <4>2. [b EXCEPT !.length = Sub(base, b.base)] \in MemoryBlock
        BY <1>2, <3>2, Typed DEF MemoryBlock
      <4>3. [base |-> Add(base, size), length |-> Sub(End(b), Add(base, size)),
             next |-> b.next] \in MemoryBlock
        BY <1>2, <3>3 DEF MemoryBlock
      <4>4. blocks' = [blocks EXCEPT
               ![head] = [b EXCEPT !.length = Sub(base, b.base)],
               ![new] = [base |-> Add(base, size), length |-> Sub(End(b), Add(base, size)),
                         next |-> b.next]]
        BY <3>1
      <4> HIDE DEF base, head, new
      <4> QED
        BY <4>1, <4>2, <4>3, <4>4
    <3>5. /\ \A d \in Descriptors :
                d <= INITIAL_MEM_BLOCK_COUNT - block_free /\ d # head => blocks'[d] = blocks[d]
          /\ blocks'[head] = [b EXCEPT !.length = Sub(base, b.base)]
      <4>1. /\ \A d \in Descriptors : d # head /\ d # new => blocks'[d] = blocks[d]
            /\ blocks'[head] = [b EXCEPT !.length = Sub(base, b.base)]
        BY <1>2, <1>3, <3>1 DEF TypeOK
      <4>2. \A d \in Descriptors : d <= INITIAL_MEM_BLOCK_COUNT - block_free => d # new
        BY <1>3, ConstantFacts DEF Descriptors
      <4> QED
        BY <4>1, <4>2
    <3>6. blocks'[head].base = b.base /\ blocks'[head].length = base - b.base
          /\ blocks'[head].next = nullptr
      BY <1>2, <3>2, <3>5, Typed DEF MemoryBlock
    <3>7. block_free' \in 0 .. block_free
      BY <1>3, <3>1
    <3>8. /\ b.base <= b.base /\ b.base + (base - b.base) <= b.base + b.length
          /\ b.base + (base - b.base) <= base
      <4> HIDE DEF b, base
      <4> QED
        BY <1>1, <2>1, <2>2, SMTT(60)
    <3> QED
      BY <1>5, <1>7, <2>4, <3>4, <3>5, <3>6, <3>7, <3>8
  <2>5. CASE /\ ExistsPreceeding(b, a)
             /\ KeepPreceeding(b, curr, a) /\ HandOut(op, args, i, size, base, head)
    <3>1. /\ blocks' = [blocks EXCEPT ![head].length = Sub(base, b.base)]
          /\ block_free' = block_free
      BY <2>1, <2>5 DEF KeepPreceeding
    <3>2. Sub(base, b.base) = base - b.base /\ Sub(base, b.base) \in Word
      BY <1>1, <1>2, <2>2, SubExact, WordClosed
    <3>3. blocks' \in [Descriptors -> MemoryBlock]
      <4>1. \A x \in MemoryBlock : [blocks EXCEPT ![head] = x] \in [Descriptors -> MemoryBlock]
        BY <1>2 DEF TypeOK
      <4>2. [b EXCEPT !.length = Sub(base, b.base)] \in MemoryBlock
        BY <1>2, <3>2, Typed DEF MemoryBlock
      <4>3. blocks' = [blocks EXCEPT ![head] = [b EXCEPT !.length = Sub(base, b.base)]]
        BY <3>1
      <4> HIDE DEF b, base, head
      <4> QED
        BY <4>1, <4>2, <4>3
    <3>4. /\ \A d \in Descriptors : d # head => blocks'[d] = blocks[d]
          /\ blocks'[head] = [b EXCEPT !.length = Sub(base, b.base)]
      BY <1>2, <3>1 DEF TypeOK
    <3>5. blocks'[head].base = b.base /\ blocks'[head].length = base - b.base
          /\ blocks'[head].next = nullptr
      BY <1>2, <3>2, <3>4, Typed DEF MemoryBlock
    <3>6. block_free' \in 0 .. block_free
      BY <1>3, <3>1, SMTT(60)
    <3>7. /\ b.base <= b.base /\ b.base + (base - b.base) <= b.base + b.length
          /\ b.base + (base - b.base) <= base
      <4> HIDE DEF b, base
      <4> QED
        BY <1>1, <2>1, <2>2
    <3> QED
      BY <1>5, <1>7, <2>5, <3>3, <3>4, <3>5, <3>6, <3>7
  <2>6. CASE KeepPostceeding(b, curr, size, a) /\ HandOut(op, args, i, size, base, head)
    <3>1. /\ blocks' = [blocks EXCEPT ![head].base = Add(base, size),
                                      ![head].length = Sub(End(b), Add(base, size))]
          /\ block_free' = block_free
      BY <2>1, <2>6 DEF KeepPostceeding
    <3>2. /\ Add(base, size) = base + size /\ Add(base, size) \in Word
          /\ End(b) \in Word /\ Sub(End(b), Add(base, size)) \in Word
      BY <1>1, <1>2, WordClosed DEF End
    <3>3. Sub(End(b), Add(base, size)) = b.base + b.length - (base + size)
      <4>1. base + size \in Nat /\ base + size <= End(b)
        BY <1>1, <2>1, <2>2
      <4>2. Sub(End(b), base + size) = End(b) - (base + size)
        BY <3>2, <4>1, SubExact
      <4>3. End(b) = b.base + b.length /\ Add(base, size) = base + size
        BY <1>1
      <4> HIDE DEF b, base
      <4>4. Sub(End(b), Add(base, size)) = Sub(End(b), base + size)
        BY <4>3, SMTT(60)
      <4> QED
        BY <2>2, <4>2, <4>3, <4>4
    <3>4. blocks' \in [Descriptors -> MemoryBlock]
      <4>1. \A x \in MemoryBlock : [blocks EXCEPT ![head] = x] \in [Descriptors -> MemoryBlock]
        BY <1>2 DEF TypeOK
      <4>2. [b EXCEPT !.base = Add(base, size),
                      !.length = Sub(End(b), Add(base, size))] \in MemoryBlock
        BY <1>2, <3>2, Typed DEF MemoryBlock
      <4>3. blocks' = [blocks EXCEPT ![head] =
               [b EXCEPT !.base = Add(base, size), !.length = Sub(End(b), Add(base, size))]]
        BY <3>1
      <4> HIDE DEF b, base, head
      <4> QED
        BY <4>1, <4>2, <4>3
    <3>5. /\ \A d \in Descriptors : d # head => blocks'[d] = blocks[d]
          /\ blocks'[head] = [b EXCEPT !.base = Add(base, size),
                                       !.length = Sub(End(b), Add(base, size))]
      BY <1>2, <3>1 DEF TypeOK
    <3>6. /\ blocks'[head].base = base + size
          /\ blocks'[head].length = b.base + b.length - (base + size)
          /\ blocks'[head].next = nullptr
      BY <1>2, <3>2, <3>3, <3>5, Typed DEF MemoryBlock
    <3>7. block_free' \in 0 .. block_free
      BY <1>3, <3>1
    <3>8. /\ b.base <= base + size
          /\ (base + size) + (b.base + b.length - (base + size)) <= b.base + b.length
          /\ base + size <= base + size
      <4> HIDE DEF b, base
      <4> QED
        BY <1>1, <2>1, <2>2, SMTT(60)
    <3> QED
      BY <1>5, <1>7, <2>6, <3>4, <3>5, <3>6, <3>7, <3>8
  <2>7. CASE /\ HandOut(op, args, i, size, base, blocks[curr].next)
             /\ UNCHANGED <<blocks, block_free>>
    <3>1. HandOut(op, args, i, size, base, nullptr)
      BY <1>2, <2>1, <2>7
    <3>2. blocks' \in [Descriptors -> MemoryBlock] /\ block_free' \in 0 .. block_free
      BY <1>2, <1>3, <2>7 DEF TypeOK
    <3> QED
      BY <1>5, <1>7, <2>7, <3>1, <3>2
  <2> QED
    BY <1>7, <2>1, <2>4, <2>5, <2>6, <2>7 DEF Carve
<1> QED
  BY <1>6, <1>7

\* A refused request changes nothing but the result and, in the forms that
\* assert on it, the status.
LEMMA RefuseKeeps ==
    ASSUME IInv, NEW op \in {"alloc", "alloc_noerr", "alloc_aligned", "alloc_aligned_noerr"},
           NEW args \in Word \X Word, NEW err \in {"PMM_BAD_ALIGN", "PMM_OUT_OF_MEM"},
           NEW noerr \in BOOLEAN, Refuse(op, args, err, noerr), status = "running",
           noerr => op \in {"alloc_noerr", "alloc_aligned_noerr"}
    PROVE  IInv'
<1>1. UNCHANGED <<memory, block_total, pol>> /\ status' = IF noerr THEN "assert" ELSE status
  BY DEF Refuse
<1>2. MemInv'
  BY <1>1, MemoryUnchanged
<1>3. last' \in Call /\ last'.op = op /\ last'.err = err
  <2>1. op \in Operations /\ err \in Outcomes /\ Result(op, args, err, 0)
    BY DEF Operations, Outcomes, Refuse
  <2> QED
    BY <2>1, ConstantFacts, ResultTyped DEF Result
<1>4. TypeOK'
  BY <1>1, <1>3 DEF IInv, TypeOK, memory, Statuses
<1>5. AssertsUnreachable'
  BY <1>1, <1>3 DEF AssertsUnreachable
<1> QED
  BY <1>2, <1>4, <1>5 DEF IInv, MemInv

\* Every form of allocation keeps the invariant.
LEMMA AllocateKeeps ==
    ASSUME IInv, NEW n \in Word, NEW a \in Alignments \cup {PAGE_SIZE}, NEW noerr \in BOOLEAN,
           NEW op \in {"alloc", "alloc_noerr", "alloc_aligned", "alloc_aligned_noerr"},
           noerr => op \in {"alloc_noerr", "alloc_aligned_noerr"},
           Allocate(op, n, a, noerr)
    PROVE  IInv'
<1> DEFINE size == AlignUp(n, PAGE_SIZE)
           args == <<n, a>>
<1>1. /\ n \in Word /\ a \in Word /\ size \in Word
      /\ args \in Word \X Word /\ op \in Operations
      /\ {"todo", "fault"} \subseteq Statuses
  <2>1. n \in Word /\ a \in Word
    BY ArgsAssumption, ConstantFacts
  <2> QED
    BY <2>1, ConstantFacts, AlignUpWord DEF Operations, Statuses
<1>2. status = "running"
  BY DEF Allocate
<1>3. CASE \E err \in {"PMM_BAD_ALIGN", "PMM_OUT_OF_MEM"} : Refuse(op, args, err, noerr)
  BY <1>1, <1>2, <1>3, RefuseKeeps
<1>4. CASE Stop(op, args, "todo") /\ UNCHANGED memory
  BY <1>1, <1>4, StopKeeps
<1>5. ASSUME NEW i \in 1 .. Len(regions), ValidAlignment(a), block_free >= REFILL_MARK,
             FirstCandidate(i, size), Carve(op, args, i, size, a)
      PROVE  IInv'
  <2>1. Candidate(i, size)
    BY <1>5 DEF FirstCandidate
  <2>2. a \in Word \ {0}
    BY <1>1, <1>5 DEF ValidAlignment, IsPowerOfTwo, Word
  <2>3. \/ Stop(op, args, "fault") /\ UNCHANGED memory
        \/ \E g \in Extents, list \in Descriptors \cup {nullptr} : Taken(i, g, list)
    <3> HIDE DEF size, args
    <3> QED
      BY <1>1, <1>2, <1>5, <2>1, <2>2, CarveTakes
  <2> QED
    BY <1>1, <2>3, StopKeeps, TakenKeeps
<1> QED
  BY <1>3, <1>4, <1>5 DEF Allocate

\* The invariant is inductive.
LEMMA NextKeeps == IInv /\ [Next]_vars => IInv'
<1> SUFFICES ASSUME IInv, [Next]_vars PROVE IInv'
  OBVIOUS
<1>1. CASE UNCHANGED vars
  <2>1. UNCHANGED <<memory, block_total, pol, status, last>>
    BY <1>1 DEF vars
  <2>2. MemInv'
    BY <2>1, MemoryUnchanged
  <2>3. TypeOK' /\ AssertsUnreachable'
    BY <2>1 DEF IInv, TypeOK, AssertsUnreachable, memory
  <2> QED
    BY <2>2, <2>3 DEF IInv, MemInv
<1>2. ASSUME NEW p \in Policies, initialize(p) PROVE IInv'
  BY <1>2, InitializeKeeps
<1>3. ASSUME NEW r \in RegionArgs, add_region(r.base, r.size) PROVE IInv'
  BY <1>3, AddRegionKeeps
<1>4. ASSUME NEW r \in RegionArgs, remove_region(r.base, r.size) PROVE IInv'
  <2>1. /\ <<r.base, r.size>> \in Word \X Word
        /\ "remove_region" \in Operations /\ "NOT_IMPLEMENTED" \in Outcomes
    BY ConstantFacts DEF Operations, Outcomes
  <2> QED
    BY <1>4, <2>1, ReturnKeeps DEF remove_region
<1>5. ASSUME NEW n \in Sizes, alloc(n) \/ alloc_noerr(n) PROVE IInv'
  BY <1>5, ArgsAssumption, AllocateKeeps DEF alloc, alloc_noerr
<1>6. ASSUME NEW n \in Sizes, NEW a \in Alignments,
             alloc_aligned(n, a) \/ alloc_aligned_noerr(n, a)
      PROVE  IInv'
  BY <1>6, ArgsAssumption, AllocateKeeps DEF alloc_aligned, alloc_aligned_noerr
<1>7. ASSUME NEW n \in Sizes, NEW a \in Alignments, alloc_null_ret(n, a) PROVE IInv'
  <2>1. /\ <<n, a>> \in Word \X Word
        /\ "alloc_aligned" \in Operations /\ "NULL_ARGUMENT" \in Outcomes
    BY ArgsAssumption DEF Operations, Outcomes
  <2> QED
    BY <1>7, <2>1, ReturnKeeps DEF alloc_null_ret
<1>8. ASSUME NEW k \in 1 .. Len(grants), free(grants[k].base) PROVE IInv'
  <2>1. grants[k].base \in Word
    BY Typed DEF IInv, Grants, Extents
  <2>2. /\ <<grants[k].base, 0>> \in Word \X Word
        /\ "free" \in Operations /\ "SUCCESS" \in Outcomes
    BY <2>1, ConstantFacts DEF Operations, Outcomes
  <2> QED
    BY <1>8, <2>2, ReturnKeeps DEF free
<1>9. CASE Spin
  BY <1>1, <1>9 DEF Spin
<1> QED
  BY <1>1, <1>2, <1>3, <1>4, <1>5, <1>6, <1>7, <1>8, <1>9 DEF Next

----------------------------------------------------------------------------
\* The invariant holds in every state of the manager, whatever is asked of it.
THEOREM Invariance == Spec => []IInv
<1>1. Init => IInv
  BY InitIInv
<1>2. IInv /\ [Next]_vars => IInv'
  BY NextKeeps
<1> QED
  BY <1>1, <1>2, PTL DEF Spec

\* The manager's variables keep their types (pmm.cpp:15-49).
THEOREM TypeCorrect == Spec => []TypeOK
<1>1. IInv => TypeOK
  BY DEF IInv
<1> QED
  BY <1>1, Invariance, PTL

\* No byte is handed out twice, for any requests, alignments and entries: the
\* splits of pmm.cpp:156-177 never leave a granted byte in a free block.
THEOREM GrantsDisjoint == Spec => []NoOverlap
<1>1. IInv => NoOverlap
  BY DEF IInv
<1> QED
  BY <1>1, Invariance, PTL

\* The asserts of pmm.cpp:162 and 176 cannot fire.
THEOREM InnerAssertsHold == Spec => []AssertsUnreachable
<1>1. IInv => AssertsUnreachable
  BY DEF IInv
<1> QED
  BY <1>1, Invariance, PTL

----------------------------------------------------------------------------
\* The extent a region is to the abstract memory.
Extent(i) == [base |-> regions[i].base, size |-> regions[i].length]
Managed == {Extent(i) : i \in 1 .. Len(regions)}

\* A region taken on, as the abstract memory sees it.
Added(r) ==
    /\ ~AlreadyManaged(r.base)
    /\ \E added \in MemoryRegion :
          /\ added.base = AlignedBase(r.base)
          /\ added.length = AlignedSize(r.base, r.size)
          /\ regions' = Append(regions, added)
    /\ UNCHANGED grants

\* An allocation takes an extent or leaves regions and grants alone.
LEMMA AllocateCases ==
    ASSUME IInv, NEW n \in Word, NEW a \in Alignments \cup {PAGE_SIZE}, NEW noerr \in BOOLEAN,
           NEW op \in {"alloc", "alloc_noerr", "alloc_aligned", "alloc_aligned_noerr"},
           Allocate(op, n, a, noerr)
    PROVE  \/ UNCHANGED <<regions, grants>>
           \/ \E i \in 1 .. Len(regions) :
                 \E g \in Extents, list \in Descriptors \cup {nullptr} : Taken(i, g, list)
<1> DEFINE size == AlignUp(n, PAGE_SIZE)
           args == <<n, a>>
<1>1. /\ n \in Word /\ a \in Word /\ size \in Word
      /\ args \in Word \X Word /\ op \in Operations
  <2>1. n \in Word /\ a \in Word
    BY ArgsAssumption, ConstantFacts
  <2> QED
    BY <2>1, ConstantFacts, AlignUpWord DEF Operations
<1>2. status = "running"
  BY DEF Allocate
<1>3. CASE \E err \in {"PMM_BAD_ALIGN", "PMM_OUT_OF_MEM"} : Refuse(op, args, err, noerr)
  BY <1>3 DEF Refuse, memory
<1>4. CASE Stop(op, args, "todo") /\ UNCHANGED memory
  BY <1>4 DEF memory
<1>5. ASSUME NEW i \in 1 .. Len(regions), ValidAlignment(a), block_free >= REFILL_MARK,
             FirstCandidate(i, size), Carve(op, args, i, size, a)
      PROVE  \/ UNCHANGED <<regions, grants>>
             \/ \E g \in Extents, list \in Descriptors \cup {nullptr} : Taken(i, g, list)
  <2>1. Candidate(i, size)
    BY <1>5 DEF FirstCandidate
  <2>2. a \in Word \ {0}
    BY <1>1, <1>5 DEF ValidAlignment, IsPowerOfTwo, Word
  <2> HIDE DEF size, args
  <2> QED
    BY <1>1, <1>2, <1>5, <2>1, <2>2, CarveTakes DEF memory
<1> QED
  BY <1>3, <1>4, <1>5 DEF Allocate

\* What a step may do to the regions and the grants.
LEMMA NextCases ==
    ASSUME IInv, [Next]_vars
    PROVE  \/ UNCHANGED <<regions, grants>>
           \/ \E r \in RegionArgs : Added(r)
           \/ \E i \in 1 .. Len(regions) :
                 \E g \in Extents, list \in Descriptors \cup {nullptr} : Taken(i, g, list)
<1>1. CASE UNCHANGED vars
  BY <1>1 DEF vars, memory
<1>2. ASSUME NEW p \in Policies, initialize(p) PROVE UNCHANGED <<regions, grants>>
  BY <1>2 DEF initialize
<1>3. ASSUME NEW r \in RegionArgs, add_region(r.base, r.size)
      PROVE  UNCHANGED <<regions, grants>> \/ Added(r)
  <2> DEFINE added == [base |-> AlignedBase(r.base), length |-> AlignedSize(r.base, r.size),
                       free_bytes |-> AlignedSize(r.base, r.size),
                       free_blocks |-> NextBlock(2)]
  <2>1. CASE /\ AddRegionError(r.base, r.size) = "SUCCESS" /\ block_free >= 2
             /\ regions' = Append(regions, added) /\ UNCHANGED grants
    <3>1. ~AlreadyManaged(r.base)
      BY <2>1 DEF AddRegionError
    <3>2. NextBlock(2) \in Descriptors
      BY <2>1, ConstantFacts DEF IInv, TypeOK, NextBlock, Descriptors
    <3>3. added \in MemoryRegion
      BY <3>2, EntryAligned DEF MemoryRegion
    <3> QED
      BY <2>1, <3>1, <3>3 DEF Added
  <2> QED
    BY <1>3, <2>1 DEF add_region, Return, memory
<1>4. ASSUME NEW r \in RegionArgs, remove_region(r.base, r.size)
      PROVE  UNCHANGED <<regions, grants>>
  BY <1>4 DEF remove_region, Return, memory
<1>5. ASSUME NEW n \in Sizes, alloc(n) \/ alloc_noerr(n)
      PROVE  \/ UNCHANGED <<regions, grants>>
             \/ \E i \in 1 .. Len(regions) :
                   \E g \in Extents, list \in Descriptors \cup {nullptr} : Taken(i, g, list)
  BY <1>5, ArgsAssumption, AllocateCases DEF alloc, alloc_noerr
<1>6. ASSUME NEW n \in Sizes, NEW a \in Alignments,
             alloc_aligned(n, a) \/ alloc_aligned_noerr(n, a)
      PROVE  \/ UNCHANGED <<regions, grants>>
             \/ \E i \in 1 .. Len(regions) :
                   \E g \in Extents, list \in Descriptors \cup {nullptr} : Taken(i, g, list)
  BY <1>6, ArgsAssumption, AllocateCases DEF alloc_aligned, alloc_aligned_noerr
<1>7. ASSUME NEW n \in Sizes, NEW a \in Alignments, alloc_null_ret(n, a)
      PROVE  UNCHANGED <<regions, grants>>
  BY <1>7 DEF alloc_null_ret, Return, memory
<1>8. ASSUME NEW k \in 1 .. Len(grants), free(grants[k].base)
      PROVE  UNCHANGED <<regions, grants>>
  BY <1>8 DEF free, Return, memory
<1>9. CASE Spin
  BY <1>9 DEF Spin, vars, memory
<1> QED
  BY <1>1, <1>2, <1>3, <1>4, <1>5, <1>6, <1>7, <1>8, <1>9 DEF Next

\* A region taken on is a Manage step of the abstract memory.
LEMMA AddedManages ==
    ASSUME IInv, NEW r \in RegionArgs, Added(r)
    PROVE  \E e : e \in Managed' /\ Managed' = Managed \cup {e} /\ UNCHANGED grants
                  /\ \A m \in Managed : ~Phys!Overlap(e, m)
<1> DEFINE n    == Len(regions)
           base == AlignedBase(r.base)
           len  == AlignedSize(r.base, r.size)
           e    == [base |-> base, size |-> len]
<1>1. /\ n \in Nat /\ Len(regions') = n + 1
      /\ \A i \in 1 .. n : regions'[i] = regions[i]
      /\ regions'[n + 1].base = base /\ regions'[n + 1].length = len
  BY Typed DEF IInv, TypeOK, Added
<1>2. Managed' = Managed \cup {e}
  BY <1>1 DEF Managed, Extent
<1>3. \A i \in 1 .. n : ~Phys!Overlap(e, Extent(i))
  <2> TAKE i \in 1 .. n
  <2>1. /\ base \in Nat /\ len \in Nat
        /\ regions[i].base \in Nat /\ regions[i].length \in Nat
    BY EntryAligned, Typed, WordAssumption DEF IInv, Word
  <2>2. Extent(i).base = regions[i].base /\ Extent(i).size = regions[i].length
    BY DEF Extent
  <2>3. base + len <= regions[i].base \/ regions[i].base + regions[i].length <= base
    BY AcceptedIsDisjoint DEF Added
  <2> HIDE DEF base, len, n
  <2> QED
    BY <2>1, <2>2, <2>3, Apart
<1> QED
  BY <1>2, <1>3 DEF Managed, Added

\* An extent taken is a Grant step of the abstract memory.
LEMMA TakenGrants ==
    ASSUME IInv, IInv', NEW i \in 1 .. Len(regions), NEW g, NEW list, Taken(i, g, list)
    PROVE  Managed' = Managed /\ \E k \in DOMAIN grants' : Phys!Grant(grants'[k])
<1> DEFINE m == Len(grants)
<1>1. /\ m \in Nat /\ Len(grants') = m + 1 /\ grants'[m + 1] = g
      /\ \A k \in 1 .. m : grants'[k] = grants[k]
      /\ grants' = Append(grants, g) /\ m + 1 \in DOMAIN grants'
  <2>1. grants \in Seq(Extents) /\ g \in Extents /\ grants' = Append(grants, g)
    BY DEF IInv, TypeOK, Taken
  <2> QED
    BY <2>1, SMTT(60)
<1>2. Managed' = Managed
  <2>1. Len(regions') = Len(regions)
    BY DEF Taken
  <2>2. ASSUME NEW j \in 1 .. Len(regions) PROVE Extent(j)' = Extent(j)
    BY DEF Extent, Taken
  <2> QED
    BY <2>1, <2>2, Zenon DEF Managed
<1>3. \E e \in Managed : Phys!Within(g, e)
  <2>1. PICK j \in 1 .. Len(regions') :
           /\ regions'[j].base <= g.base
           /\ g.base + g.size <= regions'[j].base + regions'[j].length
    BY <1>1, SMTT(60) DEF IInv, GrantsManaged, Grants
  <2>2. /\ j \in 1 .. Len(regions)
        /\ regions'[j].base = regions[j].base /\ regions'[j].length = regions[j].length
    BY DEF Taken
  <2>3. Extent(j).base = regions[j].base /\ Extent(j).size = regions[j].length
    BY DEF Extent
  <2>4. Phys!Within(g, Extent(j))
    BY <2>1, <2>2, <2>3 DEF Phys!Within
  <2> QED
    BY <2>2, <2>4 DEF Managed
<1>4. \A k \in 1 .. m : ~Phys!Overlap(g, grants[k])
  <2> TAKE k \in 1 .. m
  <2>1. ~Phys!Overlap(grants'[k], grants'[m + 1])
    BY <1>1 DEF IInv, NoOverlap, Grants
  <2>2. ~Phys!Overlap(grants[k], g)
    BY <1>1, <2>1
  <2> QED
    BY <2>2 DEF Phys!Overlap
<1>5. Phys!Grant(g)
  BY <1>1, <1>2, <1>3, <1>4 DEF Phys!Grant, Phys!Grantable, Managed, Extent
<1> QED
  BY <1>1, <1>2, <1>5

\* The manager implements the abstract memory: what add_region takes on and
\* what the alloc functions hand out are its Manage and Grant steps, and
\* nothing else it does shows (pmm.cpp:58-220).
THEOREM Refinement == Spec => Implements
<1>1. Init => Phys!Init
  BY DEF Init, Phys!Init
<1>2. IInv /\ IInv' /\ [Next]_vars => [Phys!Next]_(Phys!vars)
  <2> SUFFICES ASSUME IInv, IInv', [Next]_vars PROVE [Phys!Next]_(Phys!vars)
    OBVIOUS
  <2>1. CASE UNCHANGED <<regions, grants>>
    BY <2>1 DEF Phys!vars
  <2>2. ASSUME NEW r \in RegionArgs, Added(r) PROVE Phys!Next
    BY <2>2, AddedManages DEF Phys!Next, Phys!Manage, Managed, Extent
  <2>3. ASSUME NEW i \in 1 .. Len(regions), NEW g, NEW list, Taken(i, g, list)
        PROVE  Phys!Next
    BY <2>3, TakenGrants DEF Phys!Next
  <2> QED
    BY <2>1, <2>2, <2>3, NextCases
<1> QED
  BY <1>1, <1>2, Invariance, PTL DEF Spec, Implements, Phys!Spec

----------------------------------------------------------------------------
(***************************************************************************)
(* What a call answers and counts.  The counters add up because a region's *)
(* counter never falls below what is taken from it, the total never below  *)
(* a region's, and disjoint regions below the end of the address space     *)
(* never add up to more than a word.                                       *)
(***************************************************************************)

\* The bytes asked for are handed out of the free block of region i.
HandsOut(op, n, a, i, list) ==
    /\ ValidAlignment(a)
    /\ Candidate(i, AlignUp(n, PAGE_SIZE))
    /\ HandOut(op, <<n, a>>, i, AlignUp(n, PAGE_SIZE), AlignUp(FreeBlock(i).base, a), list)

\* An answer that promises nothing about an allocation.
NoAllocation ==
    \/ last' = last
    \/ last'.err # "SUCCESS"
    \/ last'.op \notin {"alloc_aligned", "alloc_aligned_noerr"}

\* An allocation that fails answers with an error, and does not return if the
\* error is asserted on.
Failed(noerr) ==
    /\ last'.err # "SUCCESS"
    /\ noerr => status' # "running"
    /\ UNCHANGED <<total_bytes, free_bytes, regions, grants>>

\* An allocation hands out what it was asked for, or fails and leaves the
\* regions and the counters alone.
LEMMA AllocateHandsOut ==
    ASSUME IInv, NEW n \in Word, NEW a \in Alignments \cup {PAGE_SIZE}, NEW noerr \in BOOLEAN,
           NEW op \in {"alloc", "alloc_noerr", "alloc_aligned", "alloc_aligned_noerr"},
           Allocate(op, n, a, noerr)
    PROVE  \/ Failed(noerr)
           \/ \E i \in 1 .. Len(regions), list \in Descriptors \cup {nullptr} :
                 HandsOut(op, n, a, i, list)
<1> DEFINE size == AlignUp(n, PAGE_SIZE)
           args == <<n, a>>
<1>1. CASE \E err \in {"PMM_BAD_ALIGN", "PMM_OUT_OF_MEM"} : Refuse(op, args, err, noerr)
  BY <1>1 DEF Refuse, Result, Failed, memory
<1>2. CASE \E how \in {"todo", "fault"} : Stop(op, args, how) /\ UNCHANGED memory
  BY <1>2 DEF Stop, Result, Failed, memory
<1>3. ASSUME NEW i \in 1 .. Len(regions), ValidAlignment(a), FirstCandidate(i, size),
             Carve(op, args, i, size, a)
      PROVE  \/ \E how \in {"todo", "fault"} : Stop(op, args, how) /\ UNCHANGED memory
             \/ Failed(noerr)
             \/ \E list \in Descriptors \cup {nullptr} : HandsOut(op, n, a, i, list)
  <2> DEFINE head == regions[i].free_blocks
             base == AlignUp(blocks[head].base, a)
             curr == Walked(i, size, a)
  <2>1. Candidate(i, size) /\ head \in Descriptors /\ base = AlignUp(FreeBlock(i).base, a)
    BY <1>3, Typed DEF IInv, FirstCandidate, Candidate, FreeBlock
  <2>2. CASE HandOut(op, args, i, size, base, head)
    BY <1>3, <2>1, <2>2 DEF HandsOut
  <2>3. CASE curr = head /\ HandOut(op, args, i, size, base, blocks[curr].next)
    <3>1. blocks[curr].next \in Descriptors \cup {nullptr}
      BY <2>1, <2>3, Typed DEF IInv, MemoryBlock
    <3> QED
      BY <1>3, <2>1, <2>3, <3>1 DEF HandsOut
  <2>4. CASE curr = nullptr /\ Stop(op, args, "fault") /\ UNCHANGED memory
    BY <2>4
  <2>5. CASE Stop(op, args, "assert") /\ UNCHANGED <<total_bytes, free_bytes, regions, grants>>
    BY <2>5 DEF Stop, Result, Failed
  <2> QED
    BY <1>3, <2>2, <2>3, <2>4, <2>5 DEF Carve
<1> QED
  BY <1>1, <1>2, <1>3 DEF Allocate

\* A region taken on, as the counters see it.
Counted(r) ==
    LET size == AlignedSize(r.base, r.size)
    IN  /\ \E added : /\ regions' = Append(regions, added)
                      /\ added.length = size /\ added.free_bytes = size
        /\ total_bytes' = Add(total_bytes, size) /\ free_bytes' = Add(free_bytes, size)
        /\ UNCHANGED grants
        /\ NoAllocation

\* Some allocation hands out what it was asked for.
SomeHandsOut ==
    \E op \in {"alloc", "alloc_noerr", "alloc_aligned", "alloc_aligned_noerr"},
       n \in Word, a \in Alignments \cup {PAGE_SIZE}, i \in 1 .. Len(regions),
       list \in Descriptors \cup {nullptr} : HandsOut(op, n, a, i, list)

\* What a step may do to the counters and what they count.
LEMMA CounterCases ==
    ASSUME IInv, [Next]_vars
    PROVE  \/ NoAllocation /\ UNCHANGED <<total_bytes, free_bytes, regions, grants>>
           \/ \E r \in RegionArgs : Counted(r)
           \/ SomeHandsOut
<1>1. CASE UNCHANGED vars
  BY <1>1 DEF vars, memory, NoAllocation
<1>2. ASSUME NEW p \in Policies, initialize(p)
      PROVE  NoAllocation /\ UNCHANGED <<total_bytes, free_bytes, regions, grants>>
  BY <1>2 DEF initialize, Result, NoAllocation
<1>3. ASSUME NEW r \in RegionArgs, add_region(r.base, r.size)
      PROVE  \/ NoAllocation /\ UNCHANGED <<total_bytes, free_bytes, regions, grants>>
             \/ Counted(r)
  <2>1. NoAllocation
    BY <1>3 DEF add_region, Return, Stop, Result, NoAllocation
  <2>2. CASE UNCHANGED <<total_bytes, free_bytes, regions, grants>>
    BY <2>1, <2>2
  <2>3. CASE block_free >= 2 /\ AddRegionError(r.base, r.size) = "SUCCESS"
             /\ ~UNCHANGED <<total_bytes, free_bytes, regions, grants>>
    BY <1>3, <2>1, <2>3 DEF add_region, Counted
  <2> QED
    BY <1>3, <2>2, <2>3 DEF add_region, Return, memory
<1>4. ASSUME NEW r \in RegionArgs, remove_region(r.base, r.size)
      PROVE  NoAllocation /\ UNCHANGED <<total_bytes, free_bytes, regions, grants>>
  BY <1>4 DEF remove_region, Return, Result, NoAllocation, memory
<1>5. Sizes \subseteq Word
  BY ArgsAssumption
<1>6. ASSUME NEW n \in Sizes, alloc(n) \/ alloc_noerr(n)
      PROVE  \/ NoAllocation /\ UNCHANGED <<total_bytes, free_bytes, regions, grants>>
             \/ SomeHandsOut
  BY <1>5, <1>6, AllocateHandsOut, ZenonT(60)
     DEF alloc, alloc_noerr, SomeHandsOut, Failed, NoAllocation
<1>7. ASSUME NEW n \in Sizes, NEW a \in Alignments,
             alloc_aligned(n, a) \/ alloc_aligned_noerr(n, a)
      PROVE  \/ NoAllocation /\ UNCHANGED <<total_bytes, free_bytes, regions, grants>>
             \/ SomeHandsOut
  BY <1>5, <1>7, AllocateHandsOut, ZenonT(60)
     DEF alloc_aligned, alloc_aligned_noerr, SomeHandsOut, Failed, NoAllocation
<1>8. ASSUME NEW n \in Sizes, NEW a \in Alignments, alloc_null_ret(n, a)
      PROVE  NoAllocation /\ UNCHANGED <<total_bytes, free_bytes, regions, grants>>
  BY <1>8 DEF alloc_null_ret, Return, Result, NoAllocation, memory
<1>9. ASSUME NEW k \in 1 .. Len(grants), free(grants[k].base)
      PROVE  NoAllocation /\ UNCHANGED <<total_bytes, free_bytes, regions, grants>>
  BY <1>9 DEF free, Return, Result, NoAllocation, memory
<1>10. CASE Spin
  BY <1>1, <1>10 DEF Spin
<1> QED
  BY <1>1, <1>2, <1>3, <1>4, <1>6, <1>7, <1>8, <1>9, <1>10 DEF Next

\* An allocation that succeeds honours its request.
LEMMA HandsOutHonours ==
    ASSUME IInv, NEW n \in Word, NEW a \in Alignments \cup {PAGE_SIZE}, NEW op,
           NEW i \in 1 .. Len(regions), NEW list, HandsOut(op, n, a, i, list)
    PROVE  RequestHonoured'
<1> DEFINE size == AlignUp(n, PAGE_SIZE)
           base == AlignUp(FreeBlock(i).base, a)
<1>1. n \in Word /\ a \in Word \ {0} /\ PAGE_SIZE \in Word \ {0}
  <2>1. n \in Word /\ a \in Word /\ PAGE_SIZE \in Word \ {0}
    BY ArgsAssumption, ConstantFacts
  <2> QED
    BY <2>1 DEF HandsOut, ValidAlignment, IsPowerOfTwo, Word
<1>2. FreeBlock(i).base \in Word
  BY Typed DEF IInv, HandsOut, Candidate, FreeBlock, MemoryBlock
<1>3. IsAligned(base, a)
  BY <1>1, <1>2, AlignUpAligned
<1>4. n + PAGE_SIZE <= WORD => size >= n
  BY <1>1, AlignUpBound, WordAssumption DEF Word
<1>5. /\ last'.ret = base /\ last'.args = <<n, a>>
      /\ grants' = Append(grants, [base |-> base, size |-> size])
  BY DEF HandsOut, HandOut, Result
<1>6. Len(grants') = Len(grants) + 1 /\ grants'[Len(grants')] = [base |-> base, size |-> size]
  BY <1>5 DEF IInv, TypeOK
<1> HIDE DEF size, base
<1> QED
  BY <1>3, <1>4, <1>5, <1>6 DEF RequestHonoured

\* A request that succeeds is answered with the alignment asked for and with
\* that many bytes, for every size and alignment (pmm.cpp:116, 149, 181).
THEOREM RequestsHonoured == Spec => []RequestHonoured
<1>1. Init => RequestHonoured
  BY DEF Init, RequestHonoured
<1>2. IInv /\ RequestHonoured /\ [Next]_vars => RequestHonoured'
  <2> SUFFICES ASSUME IInv, RequestHonoured, [Next]_vars PROVE RequestHonoured'
    OBVIOUS
  <2>1. CASE NoAllocation /\ UNCHANGED <<total_bytes, free_bytes, regions, grants>>
    BY <2>1 DEF NoAllocation, RequestHonoured
  <2>2. CASE \E r \in RegionArgs : Counted(r)
    BY <2>2 DEF Counted, NoAllocation, RequestHonoured
  <2> QED
    BY <2>1, <2>2, CounterCases, HandsOutHonours DEF SomeHandsOut
<1> QED
  BY <1>1, <1>2, Invariance, PTL DEF Spec

\* The counters count natural numbers, and the regions' bytes fit a word.
CountsFit ==
    /\ Len(regions) \in Nat /\ Len(grants) \in Nat
    /\ Numbers(RegionLengths, Len(regions))
    /\ Numbers(RegionsFree, Len(regions))
    /\ Numbers(GrantSizes, Len(grants))
    /\ SumTo(RegionLengths, Len(regions)) < WORD

\* The entries are disjoint parts of the address space, so their sum fits.
LEMMA CountsFitIn == IInv => CountsFit
<1> SUFFICES ASSUME IInv PROVE CountsFit
  OBVIOUS
<1> DEFINE n     == Len(regions)
           bases == [i \in 1 .. n |-> regions[i].base]
           w     == WORD - 1
<1>1. /\ n \in Nat /\ Len(grants) \in Nat /\ w \in Nat
      /\ Numbers(RegionLengths, n) /\ Numbers(RegionsFree, n) /\ Numbers(bases, n)
      /\ Numbers(GrantSizes, Len(grants))
  BY Typed, WordAssumption DEF IInv, Numbers, RegionLengths, RegionsFree, GrantSizes, Grants, Word
<1>2. \A i \in 1 .. n : bases[i] + RegionLengths[i] <= w
  <2> TAKE i \in 1 .. n
  <2>1. PICK r \in RegionArgs : regions[i].base + regions[i].length <= r.base + r.size
    BY DEF IInv, RegionsFromEntries
  <2>2. r.base \in Nat /\ r.size \in Nat /\ r.size > 0 /\ r.base + r.size + r.size + PAGE_SIZE <= WORD
        /\ PAGE_SIZE \in Nat
    BY ConstantFacts DEF Word
  <2>3. regions[i].base \in Nat /\ regions[i].length \in Nat
    BY Typed DEF IInv
  <2> QED
    BY <2>1, <2>2, <2>3, WordAssumption, SMTT(60) DEF RegionLengths
<1>3. \A j, k \in 1 .. n : j < k => \/ bases[j] + RegionLengths[j] <= bases[k]
                                     \/ bases[k] + RegionLengths[k] <= bases[j]
  BY DEF IInv, RegionsFromEntries, RegionLengths
<1> HIDE DEF bases, w, n
<1>4. SumTo(RegionLengths, n) <= w
  BY <1>1, <1>2, <1>3, SumDisjoint
<1>5. SumTo(RegionLengths, n) < WORD
  BY <1>1, <1>4, SumTyped, WordAssumption DEF w
<1> QED
  BY <1>1, <1>5 DEF CountsFit, n

\* The same of the next state, where the invariant is known to hold again.
LEMMA CountsFitNext == IInv' => CountsFit'
BY CountsFitIn, PTL

\* A region taken on adds its bytes to what is managed and what is free.
LEMMA CountedConserves ==
    ASSUME IInv, IInv', Conservation, NEW r \in RegionArgs, Counted(r)
    PROVE  Conservation'
<1> DEFINE n    == Len(regions)
           size == AlignedSize(r.base, r.size)
<1>1. CountsFit /\ CountsFit' /\ size \in Nat /\ total_bytes \in Nat /\ free_bytes \in Nat
  BY CountsFitIn, CountsFitNext, EntryAligned, WordAssumption DEF IInv, TypeOK, Word
<1>2. /\ Len(regions') = n + 1 /\ n \in Nat
      /\ \A i \in 1 .. n : regions'[i] = regions[i]
      /\ regions'[n + 1].length = size /\ regions'[n + 1].free_bytes = size
  BY Typed DEF IInv, TypeOK, Counted
<1>3. /\ \A i \in 1 .. n : RegionLengths'[i] = RegionLengths[i] /\ RegionsFree'[i] = RegionsFree[i]
      /\ RegionLengths'[n + 1] = size /\ RegionsFree'[n + 1] = size
  BY <1>2 DEF RegionLengths, RegionsFree
<1> HIDE DEF n, size
<1>4. /\ SumTo(RegionLengths', n + 1) = size + SumTo(RegionLengths', n)
      /\ SumTo(RegionsFree', n + 1) = size + SumTo(RegionsFree', n)
  BY <1>2, <1>3, SumStep
<1>5. /\ SumTo(RegionLengths', n) = SumTo(RegionLengths, n)
      /\ SumTo(RegionsFree', n) = SumTo(RegionsFree, n)
  BY <1>2, <1>3, SumSame
<1>6. /\ total_bytes = SumTo(RegionLengths, n) /\ free_bytes = SumTo(RegionsFree, n)
      /\ total_bytes = free_bytes + SumTo(GrantSizes, Len(grants))
      /\ SumTo(GrantSizes, Len(grants)) \in Nat
  BY <1>1, SumTyped DEF Conservation, CountsFit, n
<1>7. size + total_bytes < WORD /\ size + free_bytes < WORD
  BY <1>1, <1>2, <1>4, <1>5, <1>6, WordAssumption, SMTT(60) DEF CountsFit
<1>8. total_bytes' = total_bytes + size /\ free_bytes' = free_bytes + size
  BY <1>1, <1>7, AddExact DEF Counted, size
<1>9. GrantSizes' = GrantSizes /\ Len(grants') = Len(grants)
  BY DEF Counted, GrantSizes, Grants
<1> QED
  BY <1>1, <1>2, <1>4, <1>5, <1>6, <1>8, <1>9, SMTT(60) DEF Conservation

\* What is handed out is taken from the counter of its region and the total.
LEMMA HandsOutConserves ==
    ASSUME IInv, IInv', Conservation, NEW n \in Word, NEW a \in Alignments \cup {PAGE_SIZE},
           NEW op, NEW i \in 1 .. Len(regions), NEW list, HandsOut(op, n, a, i, list)
    PROVE  Conservation'
<1> DEFINE m    == Len(regions)
           size == AlignUp(n, PAGE_SIZE)
           base == AlignUp(FreeBlock(i).base, a)
<1>1. CountsFit /\ CountsFit' /\ size \in Nat /\ total_bytes \in Nat /\ free_bytes \in Word
      /\ regions[i].free_bytes \in Word /\ size <= regions[i].free_bytes /\ Word \subseteq Nat
  <2>1. size \in Word /\ Word \subseteq Nat
    BY ArgsAssumption, ConstantFacts, AlignUpWord, WordAssumption DEF Word
  <2>2. size <= regions[i].free_bytes /\ regions[i].free_bytes \in Word
    BY Typed DEF IInv, HandsOut, Candidate
  <2>3. CountsFit /\ CountsFit'
    BY CountsFitIn, CountsFitNext
  <2> QED
    BY <2>1, <2>2, <2>3 DEF IInv, TypeOK
<1>2. regions' = [regions EXCEPT ![i].free_bytes = Sub(@, size), ![i].free_blocks = list]
      /\ free_bytes' = Sub(free_bytes, size) /\ total_bytes' = total_bytes
      /\ grants' = Append(grants, [base |-> base, size |-> size])
  BY DEF HandsOut, HandOut
<1>3. /\ Len(regions') = m /\ m \in Nat
      /\ \A j \in 1 .. m : /\ regions'[j].length = regions[j].length
                           /\ j # i => regions'[j].free_bytes = regions[j].free_bytes
      /\ regions'[i].free_bytes = regions[i].free_bytes - size
  <2>1. DOMAIN regions = 1 .. m /\ \A j \in 1 .. m : regions[j] \in MemoryRegion
    BY Typed DEF IInv, TypeOK
  <2>2. Sub(regions[i].free_bytes, size) = regions[i].free_bytes - size
    BY <1>1, SubExact
  <2>3. regions' = [j \in 1 .. m |->
                      IF j = i
                      THEN [regions[i] EXCEPT !.free_bytes = Sub(regions[i].free_bytes, size),
                                              !.free_blocks = list]
                      ELSE regions[j]]
    BY <1>2, <2>1
  <2>4. m \in Nat /\ Len(regions') = m
    BY <2>3, Typed DEF IInv
  <2> HIDE DEF size
  <2> QED
    BY <2>1, <2>2, <2>3, <2>4 DEF MemoryRegion
<1>4. /\ \A j \in 1 .. m : RegionLengths'[j] = RegionLengths[j]
      /\ \A j \in 1 .. m : j # i => RegionsFree[j] = RegionsFree'[j]
      /\ RegionsFree[i] = regions[i].free_bytes
      /\ RegionsFree'[i] = regions[i].free_bytes - size
  BY <1>3 DEF RegionLengths, RegionsFree
<1>5. Len(grants') = Len(grants) + 1 /\ grants'[Len(grants) + 1].size = size
      /\ \A k \in 1 .. Len(grants) : grants'[k] = grants[k]
  BY <1>2, Typed DEF IInv, TypeOK
<1>6. GrantSizes'[Len(grants) + 1] = size
      /\ \A k \in 1 .. Len(grants) : GrantSizes'[k] = GrantSizes[k]
  BY <1>1, <1>5, SMTT(60) DEF GrantSizes, Grants, CountsFit
<1> HIDE DEF size, base, m
<1>7. SumTo(RegionLengths', m) = SumTo(RegionLengths, m)
  BY <1>3, <1>4, SumSame
<1>8. SumTo(RegionsFree', m) + regions[i].free_bytes
        = SumTo(RegionsFree, m) + (regions[i].free_bytes - size)
  <2>1. Numbers(RegionsFree, m) /\ Numbers(RegionsFree', m) /\ i \in 1 .. m
    BY <1>1, <1>3 DEF CountsFit, m
  <2>2. SumTo(RegionsFree', m) + RegionsFree[i] = SumTo(RegionsFree, m) + RegionsFree'[i]
    BY <1>3, <1>4, <2>1, SumChanged
  <2> QED
    BY <1>4, <2>2
<1>9. SumTo(GrantSizes', Len(grants')) = size + SumTo(GrantSizes, Len(grants))
  <2>1. Len(grants) \in Nat
    BY <1>1 DEF CountsFit
  <2>2. SumTo(GrantSizes', Len(grants) + 1)
          = GrantSizes'[Len(grants) + 1] + SumTo(GrantSizes', Len(grants))
    BY <2>1, SumStep
  <2>3. SumTo(GrantSizes', Len(grants)) = SumTo(GrantSizes, Len(grants))
    BY <1>6, <2>1, SumSame
  <2> QED
    BY <1>5, <1>6, <2>2, <2>3
<1>10. /\ total_bytes = SumTo(RegionLengths, m) /\ free_bytes = SumTo(RegionsFree, m)
       /\ total_bytes = free_bytes + SumTo(GrantSizes, Len(grants))
       /\ SumTo(GrantSizes, Len(grants)) \in Nat /\ SumTo(RegionsFree', m) \in Nat
       /\ regions[i].free_bytes <= SumTo(RegionsFree, m)
  BY <1>1, <1>3, <1>4, SumTyped DEF Conservation, CountsFit, m
<1>11. free_bytes' = free_bytes - size
  BY <1>1, <1>2, <1>10, SubExact, SMTT(60)
<1> QED
  BY <1>1, <1>2, <1>3, <1>7, <1>8, <1>9, <1>10, <1>11, SMTT(60) DEF Conservation

\* Bytes are neither lost nor invented by the counters, and none of them ever
\* wraps (pmm.cpp:100-101, 179-180).
THEOREM BytesConserved == Spec => []Conservation
<1>1. Init => Conservation
  BY SumStep DEF Init, Conservation, Grants
<1>2. IInv /\ IInv' /\ Conservation /\ [Next]_vars => Conservation'
  <2> SUFFICES ASSUME IInv, IInv', Conservation, [Next]_vars PROVE Conservation'
    OBVIOUS
  <2>1. CASE NoAllocation /\ UNCHANGED <<total_bytes, free_bytes, regions, grants>>
    BY <2>1 DEF Conservation, RegionLengths, RegionsFree, GrantSizes, Grants
  <2> QED
    BY <2>1, CounterCases, CountedConserves, HandsOutConserves DEF SomeHandsOut
<1> QED
  BY <1>1, <1>2, Invariance, PTL DEF Spec
----------------------------------------------------------------------------
\* The manager in the kernel (PmmKernel).

\* Where what is left of a region starts.
FreeStart(i) ==
    IF regions[i].free_blocks = nullptr
    THEN regions[i].base + regions[i].length
    ELSE FreeBlock(i).base

\* The free block of a region is aligned and reaches to the region's end, and
\* every byte of the region before it has been handed out.
HandedOutInOrder ==
    \A i \in 1 .. Len(regions) :
        /\ regions[i].free_blocks # nullptr =>
              /\ IsAligned(FreeBlock(i).base, PAGE_SIZE)
              /\ FreeBlock(i).base + FreeBlock(i).length
                    = regions[i].base + regions[i].length
        /\ \A x \in regions[i].base .. FreeStart(i) - 1 :
              \E k \in Grants :
                 grants[k].base <= x /\ x < grants[k].base + grants[k].size

\* Each region has taken two descriptors and nothing else takes any.
DescriptorsLeft ==
    /\ pol = "FIRST_FIT"
    /\ block_total = 0 => free_bytes = 0
    /\ block_total # 0 =>
          block_free + Len(regions) + Len(regions) = INITIAL_MEM_BLOCK_COUNT

\* What is said of the memory, beyond IInv.
KernelMemInv == FreeListExact /\ HandedOutInOrder /\ DescriptorsLeft

KernelInv == IInv /\ KernelMemInv /\ OnlyOutOfMemoryStops

\* The constants, as the proofs below use them.
LEMMA KernelFacts ==
    /\ PAGE_SIZE \in Word \ {0} /\ IsPowerOfTwo(PAGE_SIZE)
    /\ Alignments = {PAGE_SIZE} /\ Policies = {"FIRST_FIT"}
    /\ \A n \in Sizes : n \in Word /\ n > 0 /\ n + PAGE_SIZE <= WORD
    /\ REGION_COUNT \in Nat /\ REFILL_MARK \in Nat \ {0}
    /\ INITIAL_MEM_BLOCK_COUNT >= REGION_COUNT + REGION_COUNT + REFILL_MARK
BY ConstantFacts, KernelAssumption, CountAssumption, ArgsAssumption

\* A request is rounded up to whole pages, and never to none.
LEMMA RequestSize ==
    ASSUME NEW n \in Sizes
    PROVE  /\ AlignUp(n, PAGE_SIZE) \in Word /\ AlignUp(n, PAGE_SIZE) > 0
           /\ IsAligned(AlignUp(n, PAGE_SIZE), PAGE_SIZE)
<1>1. n \in Word /\ PAGE_SIZE \in Word \ {0} /\ n + PAGE_SIZE <= WORD /\ n > 0
  BY KernelFacts
<1>2. n <= AlignUp(n, PAGE_SIZE) /\ AlignUp(n, PAGE_SIZE) \in Word
  BY <1>1, AlignUpBound, AlignUpWord
<1> QED
  BY <1>1, <1>2, AlignUpAligned, WordAssumption DEF Word

\* Initially there is nothing to say.
LEMMA InitKernelInv == Init => KernelInv
<1> SUFFICES ASSUME Init PROVE KernelInv
  OBVIOUS
<1>1. IInv
  BY InitIInv
<1>2. KernelMemInv
  BY DEF Init, KernelMemInv, FreeListExact, HandedOutInOrder, DescriptorsLeft
<1>3. OnlyOutOfMemoryStops
  BY DEF Init, OnlyOutOfMemoryStops
<1> QED
  BY <1>1, <1>2, <1>3 DEF KernelInv

\* A step that leaves the memory alone leaves what is said of it true.
LEMMA KernelMemoryUnchanged ==
    ASSUME KernelInv, UNCHANGED <<memory, block_total, pol>>
    PROVE  KernelMemInv'
BY DEF KernelInv, KernelMemInv, memory, FreeListExact, HandedOutInOrder, DescriptorsLeft,
       FreeStart, FreeBlock, Grants

----------------------------------------------------------------------------
\* size bytes are handed out from the front of the free block of region i,
\* the first with room for them.
TakenFromFront(i, size) ==
    LET head == regions[i].free_blocks
        b    == FreeBlock(i)
    IN  /\ FirstCandidate(i, size)
        /\ size \in Word /\ size > 0 /\ size <= b.length
        /\ IsAligned(size, PAGE_SIZE)
        /\ grants' = Append(grants, [base |-> b.base, size |-> size])
        /\ Len(regions') = Len(regions)
        /\ \A j \in 1 .. Len(regions) :
              /\ regions'[j].base = regions[j].base
              /\ regions'[j].length = regions[j].length
              /\ regions'[j].free_bytes =
                    IF j = i THEN regions[j].free_bytes - size ELSE regions[j].free_bytes
              /\ regions'[j].free_blocks =
                    IF j = i /\ size = b.length THEN nullptr ELSE regions[j].free_blocks
        /\ \A d \in Descriptors \ {head} : blocks'[d] = blocks[d]
        /\ size # b.length =>
              blocks'[head] = [base |-> b.base + size, length |-> b.length - size,
                               next |-> nullptr]
        /\ UNCHANGED <<pol, block_total, block_free, status>>

\* The block walked to is the head of the list, it is aligned as it is, and
\* only what lies behind the extent is kept.
LEMMA CarveFromFront ==
    ASSUME KernelInv, NEW i \in 1 .. Len(regions), NEW size \in Word, size > 0,
           IsAligned(size, PAGE_SIZE), FirstCandidate(i, size),
           NEW op, NEW args, Carve(op, args, i, size, PAGE_SIZE)
    PROVE  TakenFromFront(i, size)
<1> DEFINE head == regions[i].free_blocks
           b    == blocks[head]
           base == AlignUp(b.base, PAGE_SIZE)
<1>1. /\ TypeOK /\ Candidate(i, size) /\ IInv
      /\ head # nullptr /\ head \in Descriptors /\ b \in MemoryBlock
      /\ PAGE_SIZE \in Word \ {0} /\ Word \subseteq Nat
  <2>1. TypeOK /\ Candidate(i, size) /\ IInv
    BY DEF KernelInv, IInv, FirstCandidate
  <2> QED
    BY <2>1, Typed, KernelFacts, WordAssumption DEF Candidate, Word
<1>2. /\ size <= regions[i].free_bytes
      /\ b.base \in Word /\ b.length \in Word /\ b.next = nullptr
      /\ b.length = regions[i].free_bytes
      /\ IsAligned(b.base, PAGE_SIZE)
  BY <1>1 DEF Candidate, MemoryBlock, KernelInv, KernelMemInv, FreeListExact,
              HandedOutInOrder, FreeBlock
<1>3. /\ Add(base, size) = base + size /\ End(b) = b.base + b.length
      /\ b.base <= base /\ base \in Word
  BY <1>1, Walk DEF FreeBlock
<1>4. base = b.base
  <2>1. b.base + PAGE_SIZE <= WORD
    <3>1. PICK r \in RegionArgs : regions[i].base + regions[i].length <= r.base + r.size
      BY <1>1 DEF IInv, RegionsFromEntries
    <3>2. /\ r.base + r.size + r.size + PAGE_SIZE <= WORD
          /\ r.base \in Word /\ r.size \in Word
      BY ConstantFacts
    <3>3. b.base + b.length <= regions[i].base + regions[i].length
      BY <1>1 DEF IInv, OneFreeBlock, FreeBlock
    <3>4. regions[i].base \in Nat /\ regions[i].length \in Nat
      BY <1>1, Typed
    <3>5. /\ b.base \in Nat /\ b.length \in Nat /\ r.base \in Nat /\ r.size \in Nat
          /\ PAGE_SIZE \in Nat /\ WORD \in Nat
      BY <1>1, <1>2, <3>2, WordAssumption
    <3> HIDE DEF b
    <3>6. b.base <= r.base + r.size
      BY <3>1, <3>3, <3>4, <3>5, SMTT(60)
    <3> QED
      BY <3>2, <3>5, <3>6, SMTT(60)
  <2> QED
    BY <1>1, <1>2, <2>1, AlignUpStays
<1>5. size <= b.length /\ b.base \in Nat /\ b.length \in Nat /\ size \in Nat
  BY <1>1, <1>2
<1>6. /\ ~Misfit(b, size, PAGE_SIZE) /\ ~ExistsPreceeding(b, PAGE_SIZE)
      /\ ExistsPostceeding(b, size, PAGE_SIZE) <=> size # b.length
  <2> HIDE DEF b, base
  <2>1. ~(b.base + b.length < b.base + size)
        /\ (b.base + b.length > b.base + size <=> size # b.length)
    BY <1>5
  <2> USE DEF base
  <2> QED
    BY <1>3, <1>4, <2>1 DEF Misfit, ExistsPreceeding, ExistsPostceeding
<1>7. Walked(i, size, PAGE_SIZE) = head
  BY <1>6 DEF Walked
<1>8. \/ /\ size # b.length /\ KeepPostceeding(b, head, size, PAGE_SIZE)
         /\ HandOut(op, args, i, size, b.base, head)
      \/ /\ size = b.length /\ UNCHANGED <<blocks, block_free>>
         /\ HandOut(op, args, i, size, b.base, nullptr)
  BY <1>1, <1>2, <1>4, <1>6, <1>7 DEF Carve
<1>9. ASSUME NEW list \in Descriptors \cup {nullptr}, HandOut(op, args, i, size, b.base, list)
      PROVE  /\ Len(regions') = Len(regions)
             /\ grants' = Append(grants, [base |-> b.base, size |-> size])
             /\ UNCHANGED <<pol, block_total, status>>
             /\ \A j \in 1 .. Len(regions) :
                   /\ regions'[j].base = regions[j].base
                   /\ regions'[j].length = regions[j].length
                   /\ regions'[j].free_bytes =
                         IF j = i THEN regions[j].free_bytes - size ELSE regions[j].free_bytes
                   /\ regions'[j].free_blocks = IF j = i THEN list ELSE regions[j].free_blocks
  <2>1. Sub(regions[i].free_bytes, size) = regions[i].free_bytes - size
    BY <1>1, <1>2, SubExact, Typed
  <2>2. regions' = [regions EXCEPT ![i].free_bytes = regions[i].free_bytes - size,
                                   ![i].free_blocks = list]
    BY <1>9, <2>1 DEF HandOut
  <2>3. /\ DOMAIN regions = 1 .. Len(regions) /\ Len(regions) \in Nat
        /\ \A j \in 1 .. Len(regions) : regions[j] \in MemoryRegion
    BY <1>1, Typed DEF TypeOK
  <2>4. Len(regions') = Len(regions)
    BY <1>1, <2>2 DEF TypeOK
  <2>5. \A j \in 1 .. Len(regions) :
           regions'[j] = IF j = i THEN [regions[i] EXCEPT
                                           !.free_bytes = regions[i].free_bytes - size,
                                           !.free_blocks = list]
                         ELSE regions[j]
    BY <2>2, <2>3
  <2>6. ASSUME NEW j \in 1 .. Len(regions)
        PROVE  /\ regions'[j].base = regions[j].base
               /\ regions'[j].length = regions[j].length
               /\ regions'[j].free_bytes =
                     IF j = i THEN regions[j].free_bytes - size ELSE regions[j].free_bytes
               /\ regions'[j].free_blocks = IF j = i THEN list ELSE regions[j].free_blocks
    <3> HIDE DEF b, base, head
    <3>1. CASE j = i
      <4>1. /\ DOMAIN regions[i] = {"base", "length", "free_bytes", "free_blocks"}
            /\ regions'[i] = [regions[i] EXCEPT !.free_bytes = regions[i].free_bytes - size,
                                                !.free_blocks = list]
        BY <2>3, <2>5, SMTT(60) DEF MemoryRegion
      <4> QED
        BY <3>1, <4>1, SMTT(60)
    <3>2. CASE j # i
      BY <3>2, <2>5
    <3> QED
      BY <3>1, <3>2
  <2>7. grants' = Append(grants, [base |-> b.base, size |-> size])
        /\ UNCHANGED <<pol, block_total, status>>
    BY <1>9 DEF HandOut
  <2> QED
    BY <2>4, <2>6, <2>7, Zenon
<1>10. CASE /\ size # b.length /\ KeepPostceeding(b, head, size, PAGE_SIZE)
            /\ HandOut(op, args, i, size, b.base, head)
  <2>1. /\ blocks' = [blocks EXCEPT ![head].base = b.base + size,
                                    ![head].length = b.length - size]
        /\ block_free' = block_free
    <3>1. Add(AlignUp(b.base, PAGE_SIZE), size) = b.base + size
      BY <1>3, <1>4
    <3>2. Sub(End(b), b.base + size) = b.length - size
      <4>1. End(b) \in Word
        BY <1>1, <1>2, WordClosed DEF End
      <4>2. b.base + size <= End(b) /\ b.base + size \in Nat
        BY <1>3, <1>5, SMTT(60)
      <4>3. Sub(End(b), b.base + size) = End(b) - (b.base + size)
        BY <4>1, <4>2, SubExact
      <4> HIDE DEF b
      <4> QED
        BY <1>3, <1>5, <4>3
    <3> QED
      BY <1>10, <3>1, <3>2 DEF KeepPostceeding
  <2>2. /\ \A d \in Descriptors \ {head} : blocks'[d] = blocks[d]
        /\ blocks'[head] = [base |-> b.base + size, length |-> b.length - size,
                            next |-> nullptr]
    BY <1>1, <1>2, <2>1 DEF TypeOK, MemoryBlock
  <2>3. /\ Len(regions') = Len(regions)
        /\ grants' = Append(grants, [base |-> b.base, size |-> size])
        /\ UNCHANGED <<pol, block_total, status>>
        /\ \A j \in 1 .. Len(regions) :
              /\ regions'[j].base = regions[j].base
              /\ regions'[j].length = regions[j].length
              /\ regions'[j].free_bytes =
                    IF j = i THEN regions[j].free_bytes - size ELSE regions[j].free_bytes
              /\ regions'[j].free_blocks = IF j = i THEN head ELSE regions[j].free_blocks
    <3> HIDE DEF b
    <3>1. head \in Descriptors \cup {nullptr}
      BY <1>1
    <3> QED
      BY <1>9, <1>10, <3>1, Zenon
  <2>4. \A j \in 1 .. Len(regions) :
           regions'[j].free_blocks =
              IF j = i /\ size = b.length THEN nullptr ELSE regions[j].free_blocks
    <3> HIDE DEF b
    <3> QED
      BY <1>10, <2>3, SMTT(60)
  <2>5. b = FreeBlock(i) /\ UNCHANGED block_free
    BY <2>1, SMTT(60) DEF FreeBlock
  <2> HIDE DEF b
  <2> QED
    BY <1>5, <2>2, <2>3, <2>4, <2>5, Zenon DEF TakenFromFront
<1>11. CASE /\ size = b.length /\ UNCHANGED <<blocks, block_free>>
            /\ HandOut(op, args, i, size, b.base, nullptr)
  BY <1>5, <1>9, <1>11 DEF TakenFromFront, FreeBlock
<1> QED
  BY <1>8, <1>10, <1>11
\* Handing out from the front keeps what is said of the memory.
LEMMA TakenFromFrontKeeps ==
    ASSUME KernelInv, NEW i \in 1 .. Len(regions), NEW size, TakenFromFront(i, size)
    PROVE  KernelMemInv'
<1> DEFINE n    == Len(regions)
           m    == Len(grants)
           head == regions[i].free_blocks
           b    == blocks[head]
           g    == [base |-> b.base, size |-> size]
<1>1. /\ IInv /\ TypeOK /\ Candidate(i, size) /\ n \in Nat /\ m \in Nat
      /\ head # nullptr /\ head \in Descriptors
      /\ size \in Nat /\ size > 0 /\ size <= b.length /\ IsAligned(size, PAGE_SIZE)
      /\ b.base \in Nat /\ b.length \in Nat /\ PAGE_SIZE \in Nat \ {0}
  <2>1. TypeOK /\ Candidate(i, size) /\ IInv /\ Word \subseteq Nat
    BY WordAssumption DEF KernelInv, IInv, FirstCandidate, TakenFromFront, Word
  <2> QED
    BY <2>1, Typed, KernelFacts DEF Candidate, TakenFromFront, FreeBlock
<1>2. /\ b.length = regions[i].free_bytes /\ b.next = nullptr
      /\ IsAligned(b.base, PAGE_SIZE)
      /\ b.base + b.length = regions[i].base + regions[i].length
      /\ \A x \in regions[i].base .. b.base - 1 :
            \E k \in 1 .. m : grants[k].base <= x /\ x < grants[k].base + grants[k].size
  BY <1>1 DEF KernelInv, KernelMemInv, FreeListExact, HandedOutInOrder, FreeBlock,
              FreeStart, Grants
<1>3. /\ grants' = Append(grants, g) /\ Len(grants') = m + 1
      /\ \A k \in 1 .. m : grants'[k] = grants[k]
      /\ grants'[m + 1] = g
  BY <1>1 DEF TypeOK, TakenFromFront, FreeBlock
<1>4. /\ Len(regions') = n
      /\ \A j \in 1 .. n :
            /\ regions'[j].base = regions[j].base
            /\ regions'[j].length = regions[j].length
            /\ regions'[j].free_bytes =
                  IF j = i THEN regions[j].free_bytes - size ELSE regions[j].free_bytes
            /\ regions'[j].free_blocks =
                  IF j = i /\ size = b.length THEN nullptr ELSE regions[j].free_blocks
      /\ \A d \in Descriptors \ {head} : blocks'[d] = blocks[d]
      /\ size # b.length =>
            blocks'[head] = [base |-> b.base + size, length |-> b.length - size,
                             next |-> nullptr]
      /\ UNCHANGED <<pol, block_total, block_free, status>>
  BY DEF TakenFromFront, FreeBlock
\* The other regions keep their list and the block in it.
<1>5. \A j \in 1 .. n \ {i} :
         /\ regions'[j].free_blocks = regions[j].free_blocks
         /\ regions[j].free_blocks # nullptr =>
               blocks'[regions[j].free_blocks] = blocks[regions[j].free_blocks]
  <2> TAKE j \in 1 .. n \ {i}
  <2>1. regions[j].free_blocks # nullptr =>
           regions[j].free_blocks \in Descriptors /\ regions[j].free_blocks # head
    BY <1>1, Typed DEF IInv, OneFreeBlock
  <2> QED
    BY <1>4, <2>1
<1>6. FreeListExact'
  <2> SUFFICES ASSUME NEW j \in 1 .. n
               PROVE  IF regions'[j].free_blocks = nullptr
                      THEN regions'[j].free_bytes = 0
                      ELSE /\ blocks'[regions'[j].free_blocks].length = regions'[j].free_bytes
                           /\ blocks'[regions'[j].free_blocks].next = nullptr
    BY <1>4 DEF FreeListExact
  <2>1. CASE j # i
    BY <2>1, <1>4, <1>5 DEF KernelInv, KernelMemInv, FreeListExact
  <2>2. CASE j = i /\ size = b.length
    <3>1. regions'[j].free_bytes = b.length - b.length /\ regions'[j].free_blocks = nullptr
      BY <2>2, <1>2, <1>4
    <3> QED
      BY <3>1, <1>1
  <2>3. CASE j = i /\ size # b.length
    BY <2>3, <1>1, <1>2, <1>4, SMTT(60)
  <2> QED
    BY <2>1, <2>2, <2>3
<1>7. HandedOutInOrder'
  <2> DEFINE start(j) == IF regions'[j].free_blocks = nullptr
                         THEN regions'[j].base + regions'[j].length
                         ELSE blocks'[regions'[j].free_blocks].base
  <2> SUFFICES ASSUME NEW j \in 1 .. n
               PROVE  /\ regions'[j].free_blocks # nullptr =>
                            /\ IsAligned(blocks'[regions'[j].free_blocks].base, PAGE_SIZE)
                            /\ blocks'[regions'[j].free_blocks].base
                                 + blocks'[regions'[j].free_blocks].length
                                  = regions'[j].base + regions'[j].length
                      /\ \A x \in regions'[j].base .. start(j) - 1 :
                            \E k \in 1 .. m + 1 :
                               /\ grants'[k].base <= x
                               /\ x < grants'[k].base + grants'[k].size
    BY <1>3, <1>4 DEF HandedOutInOrder, FreeStart, FreeBlock, Grants
  <2>1. CASE j # i
    <3>1. /\ regions'[j].free_blocks # nullptr =>
                /\ IsAligned(blocks'[regions'[j].free_blocks].base, PAGE_SIZE)
                /\ blocks'[regions'[j].free_blocks].base
                     + blocks'[regions'[j].free_blocks].length
                      = regions'[j].base + regions'[j].length
          /\ start(j) = FreeStart(j)
      BY <2>1, <1>4, <1>5 DEF KernelInv, KernelMemInv, HandedOutInOrder, FreeBlock, FreeStart
    <3>2. \A x \in regions[j].base .. FreeStart(j) - 1 :
             \E k \in 1 .. m : grants[k].base <= x /\ x < grants[k].base + grants[k].size
      BY DEF KernelInv, KernelMemInv, HandedOutInOrder, Grants
    <3>3. \A x \in regions'[j].base .. start(j) - 1 :
             \E k \in 1 .. m + 1 :
                grants'[k].base <= x /\ x < grants'[k].base + grants'[k].size
      <4> HIDE DEF start
      <4>1. regions'[j].base = regions[j].base /\ start(j) = FreeStart(j)
        BY <1>4, <3>1
      <4>2. ASSUME NEW k \in 1 .. m PROVE k \in 1 .. m + 1 /\ grants'[k] = grants[k]
        BY <1>1, <1>3
      <4> HIDE DEF m
      <4> QED
        BY <3>2, <4>1, <4>2, Zenon
    <3> QED
      BY <3>1, <3>3
  <2>2. CASE j = i
    <3>1. start(j) = b.base + size
      <4>1. CASE size = b.length
        BY <4>1, <2>2, <1>2, <1>4
      <4>2. CASE size # b.length
        BY <4>2, <2>2, <1>1, <1>4
      <4> QED
        BY <4>1, <4>2
    <3>2. \A x \in regions'[j].base .. start(j) - 1 :
             \E k \in 1 .. m + 1 :
                grants'[k].base <= x /\ x < grants'[k].base + grants'[k].size
      <4> SUFFICES ASSUME NEW x \in regions[i].base .. (b.base + size) - 1
                   PROVE  \E k \in 1 .. m + 1 :
                             grants'[k].base <= x /\ x < grants'[k].base + grants'[k].size
        BY <2>2, <3>1, <1>4
      <4>1. regions[i].base \in Nat /\ x \in Nat
        BY <1>1, Typed
      <4>2. CASE x < b.base
        <5>1. x \in regions[i].base .. b.base - 1
          <6> HIDE DEF b
          <6> QED
            BY <4>1, <4>2, <1>1
        <5>2. PICK k \in 1 .. m : grants[k].base <= x /\ x < grants[k].base + grants[k].size
          BY <5>1, <1>2
        <5> QED
          BY <5>2, <1>1, <1>3, SMTT(60)
      <4>3. CASE b.base <= x
        <5>1. g.base <= x /\ x < g.base + g.size
          <6>1. b.base <= x /\ x < b.base + size
            <7> HIDE DEF b
            <7> QED
              BY <4>1, <4>3, <1>1
          <6> QED
            BY <6>1
        <5> QED
          BY <5>1, <1>1, <1>3, SMTT(60)
      <4> QED
        BY <4>1, <4>2, <4>3, <1>1, SMTT(60)
    <3>3. ASSUME size # b.length
          PROVE  /\ blocks'[head].base = b.base + size
                 /\ blocks'[head].length = b.length - size
                 /\ IsAligned(b.base + size, PAGE_SIZE)
                 /\ (b.base + size) + (b.length - size) = regions[i].base + regions[i].length
      <4>1. IsAligned(b.base + size, PAGE_SIZE)
        BY <1>1, <1>2, SumAligned
      <4>2. (b.base + size) + (b.length - size) = b.base + b.length
        <5> HIDE DEF b
        <5> QED
          BY <1>1
      <4> QED
        BY <3>3, <4>1, <4>2, <1>2, <1>4
    <3>4. regions'[i].free_blocks # nullptr => size # b.length /\ regions'[i].free_blocks = head
      BY <1>4
    <3> QED
      BY <2>2, <3>2, <3>3, <3>4, <1>4
  <2> QED
    BY <2>1, <2>2
<1>8. DescriptorsLeft'
  <2>1. block_total # 0
    <3>1. n # 0
      BY <1>1
    <3> QED
      BY <1>1, <3>1 DEF IInv, RegionsFromEntries
  <2> QED
    BY <2>1, <1>4 DEF KernelInv, KernelMemInv, DescriptorsLeft
<1> QED
  BY <1>6, <1>7, <1>8 DEF KernelMemInv
----------------------------------------------------------------------------
\* A region that is taken on is free as a whole.
LEMMA RegionAddedKeeps ==
    ASSUME KernelInv, NEW r \in RegionArgs, add_region(r.base, r.size),
           AddRegionError(r.base, r.size) = "SUCCESS", block_free >= 2
    PROVE  KernelMemInv'
<1> DEFINE n     == Len(regions)
           base  == AlignedBase(r.base)
           len   == AlignedSize(r.base, r.size)
           head  == NextBlock(2)
           added == [base |-> base, length |-> len, free_bytes |-> len, free_blocks |-> head]
<1>1. /\ block_free' = block_free - 2
      /\ blocks' = [blocks EXCEPT ![head] = [base |-> base, length |-> len, next |-> nullptr]]
      /\ regions' = Append(regions, added)
      /\ UNCHANGED <<pol, block_total, grants>>
  BY DEF add_region
<1>2. TypeOK /\ IInv /\ n \in Nat /\ Len(regions) + 1 \in Nat
  BY Typed DEF KernelInv, IInv
<1>3. /\ block_free \in 2 .. INITIAL_MEM_BLOCK_COUNT /\ block_total # 0
      /\ head \in Descriptors /\ head # nullptr
      /\ head > INITIAL_MEM_BLOCK_COUNT - block_free
  BY <1>2, ConstantFacts DEF TypeOK, NextBlock, Descriptors, nullptr
<1>4. /\ Len(regions') = n + 1
      /\ \A j \in 1 .. n : regions'[j] = regions[j]
      /\ regions'[n + 1] = added
      /\ blocks'[head] = [base |-> base, length |-> len, next |-> nullptr]
      /\ \A d \in Descriptors : d # head => blocks'[d] = blocks[d]
  BY <1>1, <1>2, <1>3 DEF TypeOK
<1>5. \A j \in 1 .. n : regions[j].free_blocks # nullptr =>
         blocks'[regions[j].free_blocks] = blocks[regions[j].free_blocks]
  <2> SUFFICES ASSUME NEW j \in 1 .. n, regions[j].free_blocks # nullptr
               PROVE  blocks'[regions[j].free_blocks] = blocks[regions[j].free_blocks]
    OBVIOUS
  <2>1. /\ regions[j].free_blocks \in Descriptors
        /\ regions[j].free_blocks <= INITIAL_MEM_BLOCK_COUNT - block_free
    BY <1>2, Typed DEF IInv, OneFreeBlock
  <2>2. regions[j].free_blocks # head
    BY <2>1, <1>3, ConstantFacts DEF Descriptors
  <2> QED
    BY <2>1, <2>2, <1>4
<1>6. FreeListExact'
  <2> SUFFICES ASSUME NEW j \in 1 .. n + 1
               PROVE  IF regions'[j].free_blocks = nullptr
                      THEN regions'[j].free_bytes = 0
                      ELSE /\ blocks'[regions'[j].free_blocks].length = regions'[j].free_bytes
                           /\ blocks'[regions'[j].free_blocks].next = nullptr
    BY <1>4 DEF FreeListExact
  <2>1. CASE j \in 1 .. n
    BY <2>1, <1>4, <1>5 DEF KernelInv, KernelMemInv, FreeListExact
  <2>2. CASE j = n + 1
    BY <2>2, <1>3, <1>4
  <2> QED
    BY <2>1, <2>2, <1>2
<1>7. HandedOutInOrder'
  <2> DEFINE start(j) == IF regions'[j].free_blocks = nullptr
                         THEN regions'[j].base + regions'[j].length
                         ELSE blocks'[regions'[j].free_blocks].base
  <2> SUFFICES ASSUME NEW j \in 1 .. n + 1
               PROVE  /\ regions'[j].free_blocks # nullptr =>
                            /\ IsAligned(blocks'[regions'[j].free_blocks].base, PAGE_SIZE)
                            /\ blocks'[regions'[j].free_blocks].base
                                 + blocks'[regions'[j].free_blocks].length
                                  = regions'[j].base + regions'[j].length
                      /\ \A x \in regions'[j].base .. start(j) - 1 :
                            \E k \in Grants :
                               grants[k].base <= x /\ x < grants[k].base + grants[k].size
    BY <1>1, <1>4 DEF HandedOutInOrder, FreeStart, FreeBlock, Grants
  <2>1. CASE j \in 1 .. n
    <3>1. start(j) = FreeStart(j)
      BY <2>1, <1>4, <1>5 DEF FreeStart, FreeBlock
    <3> HIDE DEF start
    <3> QED
      BY <2>1, <3>1, <1>4, <1>5 DEF KernelInv, KernelMemInv, HandedOutInOrder, FreeBlock
  <2>2. CASE j = n + 1
    <3>1. IsAligned(base, PAGE_SIZE) /\ base \in Nat /\ start(j) = base
      <4>1. r.base \in Word /\ PAGE_SIZE \in Word \ {0}
        BY ConstantFacts
      <4>2. base \in Word /\ IsAligned(base, PAGE_SIZE)
        BY <4>1, AlignUpWord, AlignUpAligned DEF AlignedBase
      <4> QED
        BY <4>2, <2>2, <1>3, <1>4, WordAssumption DEF Word
    <3>2. regions'[j].base .. start(j) - 1 = {}
      <4>1. regions'[j].base = base
        BY <2>2, <1>4
      <4> HIDE DEF start, base
      <4> QED
        BY <4>1, <3>1
    <3> QED
      BY <2>2, <3>1, <3>2, <1>3, <1>4
  <2> QED
    BY <2>1, <2>2, <1>2
<1>8. DescriptorsLeft'
  <2>1. block_free + n + n = INITIAL_MEM_BLOCK_COUNT /\ block_free \in Nat
    BY <1>3 DEF KernelInv, KernelMemInv, DescriptorsLeft
  <2>2. block_free' + (n + 1) + (n + 1) = INITIAL_MEM_BLOCK_COUNT
    <3> HIDE DEF n
    <3> QED
      BY <2>1, <1>1, <1>2, <1>3
  <2> QED
    BY <2>2, <1>1, <1>3, <1>4 DEF KernelInv, KernelMemInv, DescriptorsLeft
<1> QED
  BY <1>6, <1>7, <1>8 DEF KernelMemInv

\* While there is a slot for a region there are the two descriptors it takes,
\* and one more than the mark.
LEMMA EnoughDescriptors ==
    ASSUME KernelInv, block_total # 0
    PROVE  /\ block_free >= REFILL_MARK
           /\ Len(regions) < REGION_COUNT => block_free >= 2
<1>1. /\ block_free \in Nat /\ Len(regions) \in Nat /\ Len(regions) <= REGION_COUNT
      /\ block_free + Len(regions) + Len(regions) = INITIAL_MEM_BLOCK_COUNT
  BY ConstantFacts DEF KernelInv, IInv, TypeOK, KernelMemInv, DescriptorsLeft
<1>2. /\ REGION_COUNT \in Nat /\ REFILL_MARK \in Nat /\ INITIAL_MEM_BLOCK_COUNT \in Nat
      /\ INITIAL_MEM_BLOCK_COUNT >= REGION_COUNT + REGION_COUNT + REFILL_MARK
  BY KernelFacts, ConstantFacts
<1> QED
  BY <1>1, <1>2

\* A call that leaves the kernel running, or the manager uninitialized, does
\* not stop an initialized manager.
LEMMA NotStopped ==
    ASSUME status' = "running" \/ block_total' = 0
    PROVE  OnlyOutOfMemoryStops'
BY DEF OnlyOutOfMemoryStops

\* What add_region may do.
LEMMA AddRegionKernel ==
    ASSUME KernelInv, NEW r \in RegionArgs, add_region(r.base, r.size)
    PROVE  KernelMemInv' /\ OnlyOutOfMemoryStops'
<1> DEFINE err == AddRegionError(r.base, r.size)
<1>1. status = "running"
  BY DEF add_region
<1>2. CASE err # "SUCCESS"
  <2>1. UNCHANGED <<memory, block_total, pol, status>>
    BY <1>2 DEF add_region, Return
  <2> QED
    BY <2>1, <1>1, KernelMemoryUnchanged, NotStopped
<1>3. CASE err = "SUCCESS" /\ block_total = 0
  <2>1. block_free = 0
    BY <1>3 DEF KernelInv, IInv, TypeOK
  <2>2. UNCHANGED <<memory, block_total, pol>>
    BY <1>3, <2>1 DEF add_region, Stop
  <2> QED
    BY <2>2, <1>3, KernelMemoryUnchanged, NotStopped
<1>4. CASE err = "SUCCESS" /\ block_total # 0
  <2>1. Len(regions) < REGION_COUNT
    BY <1>4, CountAssumption DEF AddRegionError, KernelInv, IInv, TypeOK
  <2>2. block_free >= 2 /\ block_free \in Nat
    BY <1>4, <2>1, EnoughDescriptors, ConstantFacts DEF KernelInv, IInv, TypeOK
  <2>3. status' = "running"
    BY <1>1, <1>4, <2>2 DEF add_region
  <2> QED
    BY <1>4, <2>2, <2>3, RegionAddedKeeps, NotStopped
<1> QED
  BY <1>2, <1>3, <1>4

\* What initialize does: the manager has its descriptors and no regions.
LEMMA InitializeKernel ==
    ASSUME KernelInv, NEW p \in Policies, initialize(p)
    PROVE  KernelMemInv' /\ OnlyOutOfMemoryStops'
<1>1. /\ regions = <<>> /\ regions' = <<>> /\ status' = "running"
      /\ block_total' = INITIAL_MEM_BLOCK_COUNT /\ block_free' = INITIAL_MEM_BLOCK_COUNT
      /\ pol' = "FIRST_FIT"
  BY KernelFacts DEF initialize, KernelInv, IInv, RegionsFromEntries
<1>2. KernelMemInv'
  BY <1>1, ConstantFacts DEF KernelMemInv, FreeListExact, HandedOutInOrder, DescriptorsLeft
<1> QED
  BY <1>1, <1>2, NotStopped
\* A request for whole pages is refused for want of memory, or met.
LEMMA AllocateKernel ==
    ASSUME KernelInv, NEW n \in Sizes, NEW op, NEW noerr \in BOOLEAN,
           noerr => op \in {"alloc_noerr", "alloc_aligned_noerr"},
           Allocate(op, n, PAGE_SIZE, noerr)
    PROVE  \/ UNCHANGED <<memory, block_total, pol>> /\ OnlyOutOfMemoryStops'
           \/ /\ status' = "running"
              /\ \E i \in 1 .. Len(regions) : TakenFromFront(i, AlignUp(n, PAGE_SIZE))
<1> DEFINE size == AlignUp(n, PAGE_SIZE)
           args == <<n, PAGE_SIZE>>
<1>1. /\ size \in Word /\ size > 0 /\ IsAligned(size, PAGE_SIZE)
      /\ ValidAlignment(PAGE_SIZE) /\ status = "running"
  BY RequestSize, KernelFacts, WordAssumption DEF ValidAlignment, Allocate, Word
<1>2. CASE Refuse(op, args, "PMM_OUT_OF_MEM", noerr)
  <2>1. /\ UNCHANGED <<memory, block_total, pol>>
        /\ last'.op = op /\ last'.err = "PMM_OUT_OF_MEM"
        /\ status' = IF noerr THEN "assert" ELSE "running"
    BY <1>1, <1>2 DEF Refuse, Result
  <2> QED
    BY <2>1 DEF OnlyOutOfMemoryStops
<1>3. ASSUME free_bytes >= size
      PROVE  block_free >= REFILL_MARK /\ pol = "FIRST_FIT" /\ block_free \in Nat
  <2>1. free_bytes # 0
    BY <1>1, <1>3, WordAssumption DEF Word, KernelInv, IInv, TypeOK
  <2>2. block_total # 0 /\ pol = "FIRST_FIT"
    BY <2>1 DEF KernelInv, KernelMemInv, DescriptorsLeft
  <2> QED
    BY <2>2, EnoughDescriptors, ConstantFacts DEF KernelInv, IInv, TypeOK
<1>4. ASSUME NEW i \in 1 .. Len(regions), FirstCandidate(i, size),
             Carve(op, args, i, size, PAGE_SIZE)
      PROVE  TakenFromFront(i, size) /\ status' = "running"
  <2> HIDE DEF size, args
  <2>1. TakenFromFront(i, size)
    BY <1>1, <1>4, CarveFromFront
  <2> QED
    BY <2>1, <1>1 DEF TakenFromFront
<1>5. \/ Refuse(op, args, "PMM_OUT_OF_MEM", noerr)
      \/ \E i \in 1 .. Len(regions) :
            FirstCandidate(i, size) /\ Carve(op, args, i, size, PAGE_SIZE)
  <2>1. free_bytes >= size => ~(block_free < REFILL_MARK \/ pol # "FIRST_FIT")
    BY <1>3, KernelFacts
  <2> QED
    BY <1>1, <2>1 DEF Allocate
<1> QED
  BY <1>2, <1>4, <1>5

\* What a step may do.
LEMMA KernelCases ==
    ASSUME KernelInv, [Next]_vars
    PROVE  \/ KernelMemInv' /\ OnlyOutOfMemoryStops' /\ UNCHANGED grants
           \/ /\ status' = "running"
              /\ \E i \in 1 .. Len(regions), n \in Sizes :
                    TakenFromFront(i, AlignUp(n, PAGE_SIZE))
<1>1. CASE UNCHANGED vars
  <2>1. OnlyOutOfMemoryStops' /\ UNCHANGED <<memory, block_total, pol>>
    BY <1>1 DEF KernelInv, OnlyOutOfMemoryStops, vars
  <2> QED
    BY <2>1, KernelMemoryUnchanged DEF memory
<1>2. ASSUME NEW p \in Policies, initialize(p)
      PROVE  KernelMemInv' /\ OnlyOutOfMemoryStops' /\ UNCHANGED grants
  BY <1>2, InitializeKernel DEF initialize
<1>3. ASSUME NEW r \in RegionArgs, add_region(r.base, r.size)
      PROVE  KernelMemInv' /\ OnlyOutOfMemoryStops' /\ UNCHANGED grants
  BY <1>3, AddRegionKernel DEF add_region, Return, memory
<1>4. ASSUME NEW op, NEW args, NEW err, status = "running", Return(op, args, err)
      PROVE  KernelMemInv' /\ OnlyOutOfMemoryStops' /\ UNCHANGED grants
  <2>1. UNCHANGED <<memory, block_total, pol>> /\ status' = "running"
    BY <1>4 DEF Return
  <2> QED
    BY <2>1, KernelMemoryUnchanged, NotStopped DEF memory
<1>5. ASSUME NEW r \in RegionArgs, remove_region(r.base, r.size)
      PROVE  KernelMemInv' /\ OnlyOutOfMemoryStops' /\ UNCHANGED grants
  BY <1>4, <1>5 DEF remove_region
<1>6. ASSUME NEW n \in Sizes, NEW op, NEW noerr \in BOOLEAN,
             noerr => op \in {"alloc_noerr", "alloc_aligned_noerr"},
             Allocate(op, n, PAGE_SIZE, noerr)
      PROVE  \/ KernelMemInv' /\ OnlyOutOfMemoryStops' /\ UNCHANGED grants
             \/ /\ status' = "running"
                /\ \E i \in 1 .. Len(regions) : TakenFromFront(i, AlignUp(n, PAGE_SIZE))
  BY <1>6, AllocateKernel, KernelMemoryUnchanged DEF memory
<1>7. ASSUME NEW n \in Sizes, alloc(n) \/ alloc_noerr(n)
      PROVE  \/ KernelMemInv' /\ OnlyOutOfMemoryStops' /\ UNCHANGED grants
             \/ /\ status' = "running"
                /\ \E i \in 1 .. Len(regions) : TakenFromFront(i, AlignUp(n, PAGE_SIZE))
  BY <1>6, <1>7 DEF alloc, alloc_noerr
<1>8. ASSUME NEW n \in Sizes, NEW a \in Alignments,
             alloc_aligned(n, a) \/ alloc_aligned_noerr(n, a)
      PROVE  \/ KernelMemInv' /\ OnlyOutOfMemoryStops' /\ UNCHANGED grants
             \/ /\ status' = "running"
                /\ \E i \in 1 .. Len(regions) : TakenFromFront(i, AlignUp(n, PAGE_SIZE))
  <2>1. a = PAGE_SIZE
    BY KernelFacts
  <2> QED
    BY <1>6, <1>8, <2>1 DEF alloc_aligned, alloc_aligned_noerr
<1>9. ASSUME NEW n \in Sizes, NEW a \in Alignments, alloc_null_ret(n, a)
      PROVE  KernelMemInv' /\ OnlyOutOfMemoryStops' /\ UNCHANGED grants
  BY <1>4, <1>9 DEF alloc_null_ret
<1>10. ASSUME NEW k \in 1 .. Len(grants), free(grants[k].base)
       PROVE  KernelMemInv' /\ OnlyOutOfMemoryStops' /\ UNCHANGED grants
  BY <1>4, <1>10 DEF free
<1>11. CASE Spin
  BY <1>1, <1>11 DEF Spin
<1> QED
  BY <1>1, <1>2, <1>3, <1>5, <1>7, <1>8, <1>9, <1>10, <1>11 DEF Next

\* The invariant is inductive.
LEMMA KernelNextKeeps == KernelInv /\ [Next]_vars => KernelInv'
<1> SUFFICES ASSUME KernelInv, [Next]_vars PROVE KernelInv'
  OBVIOUS
<1>1. IInv'
  BY NextKeeps DEF KernelInv
<1>2. KernelMemInv' /\ OnlyOutOfMemoryStops'
  BY KernelCases, TakenFromFrontKeeps, NotStopped
<1> QED
  BY <1>1, <1>2 DEF KernelInv

----------------------------------------------------------------------------
\* The strengthened invariant holds in every state of the manager.
THEOREM KernelInvariance == Spec => []KernelInv
<1>1. Init => KernelInv
  BY InitKernelInv
<1>2. KernelInv /\ [Next]_vars => KernelInv'
  BY KernelNextKeeps
<1> QED
  BY <1>1, <1>2, PTL DEF Spec

\* Under page-aligned requests no split of alloc_aligned loses memory: a free
\* list is one block, of the length its region's counter reports
\* (pmm.cpp:156-187).
THEOREM NoMemoryLost == Spec => []FreeListExact
<1>1. KernelInv => FreeListExact
  BY DEF KernelInv, KernelMemInv
<1> QED
  BY <1>1, KernelInvariance, PTL

\* An initialized manager never traps, never reaches a todo and never runs
\* out of descriptors: it stops when a noerr caller runs out of memory
\* (pmm.cpp:88-95, 130-136, 162, 198).
THEOREM KernelKeepsRunning == Spec => []OnlyOutOfMemoryStops
<1>1. KernelInv => OnlyOutOfMemoryStops
  BY DEF KernelInv
<1> QED
  BY <1>1, KernelInvariance, PTL

\* A region that is no candidate has no window: its bytes before the free
\* block are handed out, and the free block is too short.
LEMMA NoWindow ==
    ASSUME KernelInv, NEW i \in 1 .. Len(regions), NEW size \in Nat, size > 0,
           ~Candidate(i, size)
    PROVE  ~Window(i, size)
<1> SUFFICES ASSUME NEW x \in regions[i].base .. regions[i].base + regions[i].length,
                    x + size <= regions[i].base + regions[i].length
             PROVE  \E k \in Grants : Phys!Overlap([base |-> x, size |-> size], grants[k])
  BY DEF Window
<1> DEFINE end == regions[i].base + regions[i].length
<1>1. TypeOK /\ regions[i].base \in Nat /\ regions[i].length \in Nat /\ x \in Nat /\ end \in Nat
  <2>1. TypeOK
    BY DEF KernelInv, IInv
  <2> QED
    BY <2>1, Typed
<1>2. x < FreeStart(i)
  <2>1. CASE regions[i].free_blocks = nullptr
    BY <2>1, <1>1 DEF FreeStart
  <2>2. CASE regions[i].free_blocks # nullptr
    <3>1. /\ FreeBlock(i).length = regions[i].free_bytes
          /\ FreeBlock(i).base + FreeBlock(i).length = end
          /\ FreeStart(i) = FreeBlock(i).base
      BY <2>2 DEF KernelInv, KernelMemInv, FreeListExact, HandedOutInOrder, FreeBlock, FreeStart
    <3>2. FreeBlock(i).base \in Nat /\ FreeBlock(i).length \in Nat
      BY <1>1, <2>2, Typed DEF FreeBlock
    <3>3. FreeBlock(i).length < size
      BY <2>2, <3>1, <3>2 DEF Candidate
    <3> QED
      BY <1>1, <3>1, <3>2, <3>3
  <2> QED
    BY <2>1, <2>2
<1>3. FreeStart(i) \in Nat
  BY <1>1, Typed DEF FreeStart, FreeBlock
<1>4. PICK k \in Grants : grants[k].base <= x /\ x < grants[k].base + grants[k].size
  <2>1. x \in regions[i].base .. FreeStart(i) - 1
    BY <1>1, <1>2, <1>3
  <2> QED
    BY <2>1 DEF KernelInv, KernelMemInv, HandedOutInOrder
<1>5. grants[k].base \in Nat /\ grants[k].size \in Nat
  BY <1>1, Typed
<1>6. Phys!Overlap([base |-> x, size |-> size], grants[k])
  BY <1>1, <1>4, <1>5, SMTT(60) DEF Phys!Overlap
<1> QED
  BY <1>6

\* FIRST_FIT: an extent comes from the first region that has room for it,
\* wherever in that region the room is (pmm.h:11-12, pmm.cpp:138-142).
THEOREM FirstFitHolds == Spec => FirstFit
<1> DEFINE FromFirst ==
      Len(grants') > Len(grants) =>
          LET g == grants'[Len(grants')]
          IN  \E j \in 1 .. Len(regions) :
                 /\ regions[j].base <= g.base
                 /\ g.base < regions[j].base + regions[j].length
                 /\ \A i \in 1 .. j - 1 : ~Window(i, g.size)
<1>1. KernelInv /\ [Next]_vars => FromFirst
  <2> SUFFICES ASSUME KernelInv, [Next]_vars, Len(grants') > Len(grants)
               PROVE  FromFirst
    OBVIOUS
  <2>1. TypeOK /\ Len(grants) \in Nat /\ Len(regions) \in Nat
    BY Typed DEF KernelInv, IInv
  <2>2. grants' # grants
    BY <2>1
  <2>3. PICK i \in 1 .. Len(regions), n \in Sizes : TakenFromFront(i, AlignUp(n, PAGE_SIZE))
    BY <2>2, KernelCases
  <2> DEFINE size == AlignUp(n, PAGE_SIZE)
             b    == FreeBlock(i)
  <2>4. /\ grants'[Len(grants')] = [base |-> b.base, size |-> size]
        /\ size \in Nat /\ size > 0 /\ size <= b.length
        /\ regions[i].free_blocks # nullptr
        /\ \A j \in 1 .. i - 1 : ~Candidate(j, size)
    <3> HIDE DEF size
    <3>1. grants' = Append(grants, [base |-> b.base, size |-> size])
      BY <2>3 DEF TakenFromFront, size
    <3>2. grants'[Len(grants')] = [base |-> b.base, size |-> size]
      BY <2>1, <3>1 DEF TypeOK
    <3>3. size \in Word /\ size > 0 /\ size <= b.length /\ FirstCandidate(i, size)
      BY <2>3 DEF TakenFromFront, size
    <3> QED
      BY <3>2, <3>3, WordAssumption DEF FirstCandidate, Candidate, Word
  <2>5. /\ regions[i].base <= b.base
        /\ b.base + b.length = regions[i].base + regions[i].length
        /\ b.base \in Nat /\ b.length \in Nat
    BY <2>1, <2>4, Typed DEF KernelInv, IInv, OneFreeBlock, KernelMemInv, HandedOutInOrder,
                             FreeBlock
  <2>6. b.base < regions[i].base + regions[i].length
    <3> HIDE DEF b, size
    <3> QED
      BY <2>4, <2>5
  <2>7. \A j \in 1 .. i - 1 : ~Window(j, size)
    <3> HIDE DEF size
    <3> QED
      BY <2>1, <2>4, NoWindow
  <2> HIDE DEF b, size
  <2> QED
    BY <2>4, <2>5, <2>6, <2>7
<1>2. KernelInv /\ [Next]_vars => [FromFirst]_vars
  BY <1>1
<1> QED
  BY <1>2, KernelInvariance, PTL DEF Spec, FirstFit

----------------------------------------------------------------------------
\* A total too small for a request is the sum of counters too small for it.
LEMMA NoCandidate ==
    ASSUME IInv, Conservation, NEW size \in Nat, free_bytes < size, NEW i \in 1 .. Len(regions)
    PROVE  ~Candidate(i, size)
<1>1. CountsFit
  BY CountsFitIn
<1>2. RegionsFree[i] <= SumTo(RegionsFree, Len(regions)) /\ RegionsFree[i] = regions[i].free_bytes
  BY <1>1, SumTyped DEF CountsFit, RegionsFree
<1>3. regions[i].free_bytes \in Nat /\ free_bytes \in Nat
  BY Typed, WordAssumption DEF IInv, TypeOK, Word
<1> QED
  BY <1>2, <1>3 DEF Conservation, Candidate

\* A request refused for want of memory, of which no region has enough.
Refused(n) ==
    /\ last'.args[1] = n
    /\ UNCHANGED <<regions, grants>>
    /\ \A i \in 1 .. Len(regions) : ~Candidate(i, AlignUp(n, PAGE_SIZE))

\* Out of memory is answered after both counters have been asked.
LEMMA AllocateRefuses ==
    ASSUME IInv, Conservation, NEW n \in Sizes, NEW op, NEW noerr,
           Allocate(op, n, PAGE_SIZE, noerr), last'.err = "PMM_OUT_OF_MEM"
    PROVE  Refused(n)
<1> DEFINE size == AlignUp(n, PAGE_SIZE)
           args == <<n, PAGE_SIZE>>
<1>1. size \in Nat
  BY KernelFacts, AlignUpWord, WordAssumption DEF Word
<1>2. CASE Refuse(op, args, "PMM_OUT_OF_MEM", noerr) /\ free_bytes < size
  BY <1>1, <1>2, NoCandidate DEF Refuse, Result, Refused, memory
<1>3. CASE /\ Refuse(op, args, "PMM_OUT_OF_MEM", noerr)
           /\ ~\E i \in 1 .. Len(regions) : Candidate(i, size)
  BY <1>3 DEF Refuse, Result, Refused, memory
<1>4. ASSUME NEW i, Carve(op, args, i, size, PAGE_SIZE) PROVE FALSE
  <2>1. \A err, ret : Result(op, args, err, ret) => err = "PMM_OUT_OF_MEM"
    BY DEF Result
  <2> HIDE DEF size, args
  <2> QED
    BY <1>4, <2>1 DEF Carve, HandOut, Stop
<1>5. ASSUME Stop(op, args, "todo") PROVE FALSE
  BY <1>5 DEF Stop, Result
<1>6. ASSUME Refuse(op, args, "PMM_BAD_ALIGN", noerr) PROVE FALSE
  BY <1>6 DEF Refuse, Result
<1> HIDE DEF size, args
<1> QED
  BY <1>2, <1>3, <1>4, <1>5, <1>6 DEF Allocate, size, args

\* Which steps leave out of memory as the last answer.
LEMMA OutOfMemoryCases ==
    ASSUME IInv, Conservation, [Next]_vars, last'.err = "PMM_OUT_OF_MEM"
    PROVE  UNCHANGED <<last, regions, grants>> \/ \E n \in Sizes : Refused(n)
<1>1. CASE UNCHANGED vars
  BY <1>1 DEF vars, memory
<1>2. ASSUME NEW n \in Sizes, alloc(n) \/ alloc_noerr(n) PROVE Refused(n)
  BY <1>2, AllocateRefuses DEF alloc, alloc_noerr
<1>3. ASSUME NEW n \in Sizes, NEW a \in Alignments,
             alloc_aligned(n, a) \/ alloc_aligned_noerr(n, a)
      PROVE  Refused(n)
  BY <1>3, KernelFacts, AllocateRefuses DEF alloc_aligned, alloc_aligned_noerr
<1>4. ASSUME NEW r \in RegionArgs, add_region(r.base, r.size) PROVE FALSE
  BY <1>4 DEF add_region, AddRegionError, Return, Stop, Result
<1> QED
  BY <1>1, <1>2, <1>3, <1>4
     DEF Next, initialize, remove_region, alloc_null_ret, free, Spin, Return, Result

\* Out of memory is never answered while a region has room for the request:
\* free memory is never fragmented, and the counter tested first never says
\* less than the regions have (pmm.cpp:124-127, 138-190).
THEOREM OutOfMemoryIsHonest == Spec => []OutOfMemoryHonest
<1>1. Init => OutOfMemoryHonest
  BY DEF Init, OutOfMemoryHonest
<1>2. KernelInv /\ Conservation /\ OutOfMemoryHonest /\ [Next]_vars => OutOfMemoryHonest'
  <2> SUFFICES ASSUME KernelInv, Conservation, OutOfMemoryHonest, [Next]_vars,
                      last'.err = "PMM_OUT_OF_MEM"
               PROVE  OutOfMemoryHonest'
    BY DEF OutOfMemoryHonest
  <2>1. CASE UNCHANGED <<last, regions, grants>>
    BY <2>1 DEF OutOfMemoryHonest, Window, Grants
  <2>2. ASSUME NEW n \in Sizes, Refused(n) PROVE OutOfMemoryHonest'
    <3> DEFINE size == AlignUp(n, PAGE_SIZE)
    <3>1. size \in Nat /\ size > 0
      BY RequestSize, WordAssumption DEF Word
    <3>2. \A i \in 1 .. Len(regions) : ~Window(i, size)
      BY <2>2, <3>1, NoWindow DEF Refused
    <3>3. \A i \in 1 .. Len(regions) : ~Window(i, size)'
      BY <2>2, <3>2 DEF Refused, Window, Grants
    <3> QED
      BY <2>2, <3>3 DEF Refused, OutOfMemoryHonest
  <2> QED
    BY <2>1, <2>2, OutOfMemoryCases DEF KernelInv
<1> QED
  BY <1>1, <1>2, KernelInvariance, BytesConserved, PTL DEF Spec

----------------------------------------------------------------------------
\* The boot sequence (Boot).


\* The usable entries before the one kernel_cxx_entry is at.
UsableBefore == {i \in UsableEntries : i < entry}

\* The managed extents are those of the usable entries met so far.
Fed ==
    /\ phase \in {"platform", "mode", "initialize"} => regions = <<>> /\ entry = 1
    /\ phase = "memmap" => Managed = {Pages(i) : i \in UsableBefore}
    /\ phase \in {"parse", "free"} => Managed = {Pages(i) : i \in UsableEntries}

\* Nothing but usable entries is ever managed.
OnlyPages == Managed \subseteq {Pages(i) : i \in UsableEntries}

\* The buffer of stack s was handed out as the k-th extent.
Holds(s, k) ==
    /\ Buffer(s).base = grants[k].base
    /\ Buffer(s).size <= grants[k].size
    /\ IsAligned(grants[k].size, PAGE_SIZE)

HasBuffer(s) == stacks[s].m_capacity > 0

\* Each stack has room for its elements, and its buffer was handed out to it
\* and to no other stack.
StacksHeld ==
    \A s \in Stacks :
        /\ stacks[s].m_size <= stacks[s].m_capacity
        /\ HasBuffer(s) => \E k \in Grants : Holds(s, k)
        /\ \A t \in Stacks \ {s} :
              HasBuffer(s) /\ HasBuffer(t) => ~Phys!Overlap(Buffer(s), Buffer(t))

BootTypeOK ==
    /\ loader \in Loaders
    /\ entry \in Nat \ {0} /\ want \in Nat
    /\ stacks \in [Stacks -> [m_size : Nat, m_capacity : Nat, m_buffer : Word]]
    /\ old_buffer \in Word

BootInv == IInv /\ BootTypeOK /\ Fed /\ OnlyPages /\ StacksHeld

----------------------------------------------------------------------------
\* The constants, as the proofs below use them.
LEMMA BootFacts ==
    /\ hhdm_base \in Word /\ "FIRST_FIT" \in Policies
    /\ \A s \in Stacks : SizeOf[s] \in Nat /\ SizeOf[s] > 0 /\ SizeOf[s] <= PAGE_SIZE
    /\ \A l \in Loaders :
          /\ Len(l.memmap) \in Nat /\ Len(l.blob.wants) \in Nat
          /\ \A i \in 1 .. Len(l.memmap) :
                l.memmap[i].type = "USABLE" =>
                    [base |-> l.memmap[i].base, size |-> l.memmap[i].length] \in RegionArgs
          /\ \A j \in 1 .. Len(l.blob.wants) :
                \/ l.blob.wants[j].op = "emplace" /\ l.blob.wants[j].stack \in Stacks
                \/ l.blob.wants[j].op = "region" /\ l.blob.wants[j].size \in Sizes
<1>1. \A s \in Stacks : SizeOf[s] \in 1 .. PAGE_SIZE
  BY BootAssumption
<1>2. PAGE_SIZE \in Nat
  BY ConstantFacts DEF Word
<1> QED
  BY <1>1, <1>2, BootAssumption, KernelAssumption

\* An address of the direct map and its physical address name each other.
LEMMA RoundTrip ==
    ASSUME NEW pa \in Word
    PROVE  /\ hhdm_phys_to_virt(pa) \in Word
           /\ hhdm_virt_to_phys(hhdm_phys_to_virt(pa)) = pa
<1> DEFINE sum == pa + hhdm_base
<1>1. /\ hhdm_base \in Nat /\ hhdm_base < WORD /\ pa \in Nat /\ pa < WORD
      /\ WORD \in Nat \ {0}
  BY BootFacts, WordAssumption DEF Word
<1>2. hhdm_phys_to_virt(pa) \in Word
  BY BootFacts, WordClosed DEF hhdm_phys_to_virt
<1>3. CASE sum < WORD
  <2>1. Add(pa, hhdm_base) = sum
    BY <1>1, <1>3, AddExact
  <2>2. Sub(sum, hhdm_base) = sum - hhdm_base
    BY <1>1, <1>3, SubExact DEF Word
  <2> QED
    BY <1>1, <1>2, <2>1, <2>2 DEF hhdm_phys_to_virt, hhdm_virt_to_phys
<1>4. CASE sum >= WORD
  <2>1. Add(pa, hhdm_base) = sum - WORD
    BY <1>1, <1>4 DEF Add
  <2>2. Sub(sum - WORD, hhdm_base) = pa
    <3>1. ((sum - WORD) + WORD - hhdm_base) % WORD = pa % WORD
      BY <1>1
    <3>2. pa % WORD = pa
      BY <1>1
    <3> QED
      BY <3>1, <3>2 DEF Sub
  <2> QED
    BY <1>2, <2>1, <2>2 DEF hhdm_phys_to_virt, hhdm_virt_to_phys
<1> QED
  BY <1>1, <1>3, <1>4

\* An aligned number no less than v is no less than v rounded up.
LEMMA RoundedBelow ==
    ASSUME NEW v \in Word, NEW a \in Word \ {0}, NEW g \in Nat,
           v + a <= WORD, v <= g, IsAligned(g, a)
    PROVE  AlignUp(v, a) <= g
<1> DEFINE u == AlignUp(v, a)
<1>1. u \in Nat /\ u < v + a /\ IsAligned(u, a) /\ a \in Nat \ {0} /\ v \in Nat
  BY AlignUpWord, AlignUpBound, AlignUpAligned, WordAssumption DEF Word
<1>2. u \div a \in Nat /\ u = (a * (u \div a)) + (u % a)
  BY <1>1, Division
<1>3. g \div a \in Nat /\ g = (a * (g \div a)) + (g % a)
  BY <1>1, Division
<1> DEFINE p == u \div a
           q == g \div a
<1>4. u = a * p /\ g = a * q /\ p \in Nat /\ q \in Nat
  BY <1>1, <1>2, <1>3 DEF IsAligned
<1> HIDE DEF u, p, q
<1>5. a * p < a * q + a
  BY <1>1, <1>4
<1>6. p <= q
  <2>1. SUFFICES ASSUME q + 1 <= p PROVE FALSE
    BY <1>4
  <2>2. a * (q + 1) <= a * p
    BY <1>1, <1>4, <2>1
  <2>3. a * (q + 1) = a * q + a
    BY <1>1, <1>4
  <2> QED
    BY <1>1, <1>4, <1>5, <2>2, <2>3
<1>7. a * p <= a * q
  BY <1>1, <1>4, <1>6
<1> QED
  BY <1>4, <1>7 DEF u

\* A multiple that is not zero is no less than what it is a multiple of.
LEMMA AtLeastOne ==
    ASSUME NEW n \in Nat, NEW a \in Nat \ {0}, n > 0, IsAligned(n, a)
    PROVE  a <= n
<1> DEFINE q == n \div a
<1>1. q \in Nat /\ n = a * q
  BY Division DEF IsAligned
<1> HIDE DEF q
<1>2. q >= 1
  BY <1>1
<1>3. a * 1 <= a * q
  BY <1>1, <1>2
<1> QED
  BY <1>1, <1>3

\* How many elements of d bytes n bytes have room for.
LEMMA RoomFor ==
    ASSUME NEW n \in Nat, NEW d \in Nat \ {0}, NEW c \in Nat, c * d <= n
    PROVE  n \div d \in Nat /\ c <= n \div d /\ (n \div d) * d <= n /\ (d <= n => n \div d > 0)
<1> DEFINE q == n \div d
           r == n % d
<1>1. q \in Nat /\ n = (d * q) + r /\ r \in 0 .. d - 1
  BY Division, ModRange
<1> HIDE DEF q, r
<1>2. q * d = d * q /\ d * q <= n
  BY <1>1
<1>3. ASSUME NEW m \in Nat, m * d <= n PROVE m <= q
  <2>1. SUFFICES ASSUME q + 1 <= m PROVE FALSE
    BY <1>1
  <2>2. d * (q + 1) <= d * m
    BY <1>1, <2>1
  <2>3. d * (q + 1) = d * q + d /\ d * m = m * d
    BY <1>1
  <2> QED
    BY <1>1, <1>3, <2>2, <2>3
<1>4. d <= n => q > 0
  BY <1>1, <1>3
<1> QED
  BY <1>1, <1>2, <1>3, <1>4 DEF q

\* The stack aligns as the manager does.
LEMMA SameAlignUp ==
    \A v, a : S!AlignUp(v, a) = AlignUp(v, a)
BY DEF S!AlignUp, S!AlignDown, S!Add, S!Sub, AlignUp, AlignDown, Add, Sub

\* The extent a stack's buffer was handed out as is no longer than an entry of
\* the memory map.
LEMMA HeldFits ==
    ASSUME IInv, NEW k \in Grants
    PROVE  /\ grants[k].base \in Word /\ grants[k].size \in Nat
           /\ grants[k].size + grants[k].size + PAGE_SIZE <= WORD
<1>1. PICK i \in 1 .. Len(regions) :
         /\ regions[i].base <= grants[k].base
         /\ grants[k].base + grants[k].size <= regions[i].base + regions[i].length
  BY DEF IInv, GrantsManaged
<1>2. PICK r \in RegionArgs :
         /\ regions[i].base = AlignedBase(r.base)
         /\ regions[i].base + regions[i].length <= r.base + r.size
  BY DEF IInv, RegionsFromEntries
<1>3. /\ grants[k] \in Extents /\ grants[k].base \in Nat /\ grants[k].size \in Nat
      /\ regions[i].base \in Nat /\ regions[i].length \in Nat
  BY Typed DEF IInv
<1>4. /\ r.base \in Nat /\ r.size \in Nat /\ r.base <= regions[i].base
      /\ r.base + r.size + r.size + PAGE_SIZE <= WORD /\ PAGE_SIZE \in Nat /\ WORD \in Nat
  BY <1>2, ConstantFacts, EntryAligned DEF Word
<1> DEFINE gb == grants[k].base   gs == grants[k].size   rb == r.base   rs == r.size
           ib == regions[i].base   il == regions[i].length
<1>5. /\ gb \in Nat /\ gs \in Nat /\ rb \in Nat /\ rs \in Nat /\ ib \in Nat /\ il \in Nat
      /\ PAGE_SIZE \in Nat /\ WORD \in Nat
      /\ ib <= gb /\ gb + gs <= ib + il /\ rb <= ib /\ ib + il <= rb + rs
      /\ rb + rs + rs + PAGE_SIZE <= WORD
  BY <1>1, <1>2, <1>3, <1>4, Zenon
<1> HIDE DEF gb, gs, rb, rs, ib, il
<1>6. gs <= rs
  BY <1>5
<1>7. gs + gs + PAGE_SIZE <= WORD
  BY <1>5, <1>6
<1> QED
  BY <1>3, <1>7 DEF Extents, gs

HeldInEntry ==
    \A k \in Grants : grants[k].base \in Nat /\ grants[k].size \in Nat

\* The same of the next state, where the invariant is known to hold again.
LEMMA HeldFitsNext == IInv' => HeldInEntry'
<1>1. IInv => HeldInEntry
  BY HeldFits, WordAssumption DEF HeldInEntry, Word
<1> QED
  BY <1>1, PTL

\* The bytes a full stack asks for: no fewer than it has, and so few that the
\* arithmetic on them does not wrap.
LEMMA GrownFits ==
    ASSUME BootInv, NEW s \in Stacks
    PROVE  LET c == stacks[s].m_capacity * SizeOf[s]
               n == S!GrownSize(stacks[s], SizeOf[s])
           IN  /\ c \in Nat /\ n \in Word /\ n > 0 /\ c <= n
               /\ IsAligned(n, PAGE_SIZE) /\ PAGE_SIZE <= n
               /\ regions # <<>> => n + PAGE_SIZE <= WORD
<1> DEFINE c == stacks[s].m_capacity * SizeOf[s]
           n == S!GrownSize(stacks[s], SizeOf[s])
           u == AlignUp(c, PAGE_SIZE)
           v == 1 + (u * 3) \div 2
           Fits == /\ v \in Word /\ n \in Word /\ n > 0 /\ c <= n
                   /\ regions # <<>> => n + PAGE_SIZE <= WORD
<1>1. /\ stacks[s].m_capacity \in Nat /\ SizeOf[s] \in Nat /\ SizeOf[s] > 0 /\ c \in Nat
      /\ PAGE_SIZE \in Word \ {0} /\ PAGE_SIZE \in Nat \ {0} /\ PAGE_SIZE < WORD
      /\ WORD \in Nat /\ Word \subseteq Nat
  BY BootFacts, ConstantFacts, WordAssumption DEF BootInv, BootTypeOK, Word
<1>2. n = AlignUp(v, PAGE_SIZE)
  BY SameAlignUp DEF S!GrownSize
<1> HIDE DEF c, n, u, v
<1>3. ASSUME NEW g \in Nat, g > 0, IsAligned(g, PAGE_SIZE), c + PAGE_SIZE <= WORD, c <= g,
             g + g + PAGE_SIZE <= WORD, u <= g, c <= u
      PROVE  v \in Word /\ n \in Word /\ n > 0 /\ c <= n /\ n <= g + g
  <2>1. u \in Nat
    BY <1>1, <1>3, AlignUpWord, SMTT(60) DEF u, Word
  <2>2. v \in Nat /\ v > 0 /\ u <= v /\ v <= g + g
    BY <1>3, <2>1 DEF v
  <2>3. v \in Word /\ v + PAGE_SIZE <= WORD
    BY <1>1, <1>3, <2>2 DEF Word
  <2>4. IsAligned(g + g, PAGE_SIZE)
    BY <1>1, <1>3, SumAligned
  <2>5. n <= g + g
    BY <1>1, <1>2, <1>3, <2>2, <2>3, <2>4, RoundedBelow
  <2>6. v <= n /\ n \in Word
    BY <1>1, <1>2, <2>3, AlignUpBound, AlignUpWord
  <2> QED
    BY <1>1, <1>3, <2>1, <2>2, <2>3, <2>5, <2>6
<1>4. ASSUME HasBuffer(s) PROVE Fits
  <2>1. PICK k \in Grants : Holds(s, k)
    BY <1>4 DEF BootInv, StacksHeld
  <2> DEFINE g == grants[k].size
  <2>2. g \in Nat /\ g + g + PAGE_SIZE <= WORD /\ c <= g /\ IsAligned(g, PAGE_SIZE)
    BY <2>1, HeldFits DEF BootInv, Holds, Buffer, c
  <2>3. c > 0
    BY <1>1, <1>4 DEF c, HasBuffer
  <2> HIDE DEF g
  <2>4. c \in Word /\ c + PAGE_SIZE <= WORD /\ g > 0
    BY <1>1, <2>2, <2>3 DEF Word
  <2>5. u <= g /\ c <= u
    BY <1>1, <2>2, <2>4, RoundedBelow, AlignUpBound DEF u
  <2>6. v \in Word /\ n \in Word /\ n > 0 /\ c <= n /\ n <= g + g
    BY <1>3, <2>2, <2>4, <2>5
  <2>7. n + PAGE_SIZE <= WORD
    BY <1>1, <2>2, <2>6
  <2> QED
    BY <2>6, <2>7
<1>5. ASSUME ~HasBuffer(s) PROVE Fits
  <2>1. c = 0 /\ 0 \in Word /\ 1 \in Word
    BY <1>1, <1>5, ConstantFacts DEF HasBuffer, c
  <2>2. u = 0
    BY <1>1, <2>1, AlignUpStays DEF u, IsAligned
  <2>3. v = 1
    BY <2>2 DEF v
  <2>4. IsAligned(PAGE_SIZE, PAGE_SIZE)
    BY <1>1 DEF IsAligned
  <2>5. n <= PAGE_SIZE /\ 1 <= n /\ n \in Word
    BY <1>1, <1>2, <2>1, <2>3, <2>4, RoundedBelow, AlignUpBound, AlignUpWord
  <2>6. regions # <<>> => n + PAGE_SIZE <= WORD
    <3> SUFFICES ASSUME regions # <<>> PROVE n + PAGE_SIZE <= WORD
      OBVIOUS
    <3>1. 1 \in 1 .. Len(regions)
      BY DEF BootInv, IInv, TypeOK
    <3>2. PICK r \in RegionArgs : TRUE
      BY <3>1 DEF BootInv, IInv, RegionsFromEntries
    <3>3. /\ r.base \in Nat /\ r.size \in Nat /\ r.size >= PAGE_SIZE
          /\ r.base + r.size + r.size + PAGE_SIZE <= WORD
      BY ConstantFacts DEF Word
    <3> QED
      BY <1>1, <2>5, <3>3
  <2> QED
    BY <1>1, <2>1, <2>3, <2>5, <2>6
<1>6. IsAligned(n, PAGE_SIZE)
  BY <1>1, <1>2, <1>4, <1>5, AlignUpAligned
<1> QED
  BY <1>1, <1>4, <1>5, <1>6, AtLeastOne DEF c, n

----------------------------------------------------------------------------
\* The regions stay where they are, and nothing handed out is forgotten.
MapKept == Managed' = Managed /\ \A k \in Grants : k \in Grants' /\ grants'[k] = grants[k]

\* What an allocation does to the memory, granted or not.
LEMMA AllocKeepsMap ==
    ASSUME IInv, NEW n \in Word, NEW noerr \in BOOLEAN,
           NEW op \in {"alloc", "alloc_noerr"}, noerr => op = "alloc_noerr",
           Allocate(op, n, PAGE_SIZE, noerr)
    PROVE  IInv' /\ MapKept
<1>1. IInv'
  BY AllocateKeeps
<1>2. CASE UNCHANGED <<regions, grants>>
  BY <1>1, <1>2 DEF MapKept, Managed, Extent, Grants
<1>3. ASSUME NEW i \in 1 .. Len(regions), NEW g \in Extents, NEW list, Taken(i, g, list)
      PROVE  MapKept
  <2>1. Len(grants) \in Nat /\ grants' = Append(grants, g)
    BY <1>3 DEF Taken, IInv, TypeOK
  <2>2. \A k \in Grants : k \in Grants' /\ grants'[k] = grants[k]
    <3>1. grants \in Seq(Extents)
      BY DEF IInv, TypeOK
    <3> QED
      BY <2>1, <3>1, SMTT(60) DEF Grants
  <2>3. Managed' = Managed
    <3>1. Len(regions') = Len(regions)
      BY <1>3 DEF Taken
    <3>2. ASSUME NEW j \in 1 .. Len(regions) PROVE Extent(j)' = Extent(j)
      BY <1>3 DEF Extent, Taken
    <3> QED
      BY <3>1, <3>2, Zenon DEF Managed
  <2> QED
    BY <2>2, <2>3 DEF MapKept
<1> QED
  BY <1>1, <1>2, <1>3, AllocateCases

\* A call that touches neither the regions nor the grants.
LEMMA MemoryKeepsMap ==
    ASSUME UNCHANGED <<regions, grants>>
    PROVE  MapKept
BY DEF MapKept, Managed, Extent, Grants

\* Extents inside ones that share no byte share none.
LEMMA PartsDoNotOverlap ==
    ASSUME NEW e, NEW f, NEW e1, NEW f1,
           e.base \in Nat, e.size \in Nat, f.base \in Nat, f.size \in Nat,
           e1.base \in Nat, e1.size \in Nat, f1.base \in Nat, f1.size \in Nat,
           e.base = e1.base, e.size <= e1.size, f.base = f1.base, f.size <= f1.size,
           ~Phys!Overlap(e1, f1)
    PROVE  ~Phys!Overlap(e, f) /\ ~Phys!Overlap(f, e)
BY DEF Phys!Overlap

\* The stacks' buffers stay theirs while the stacks are left alone.
LEMMA StacksKept ==
    ASSUME StacksHeld, stacks' = stacks, MapKept
    PROVE  StacksHeld'
<1>1. \A s \in Stacks : Buffer(s)' = Buffer(s) /\ (HasBuffer(s)' <=> HasBuffer(s))
  BY DEF Buffer, HasBuffer
<1>2. \A s \in Stacks, k \in Grants : Holds(s, k) => Holds(s, k)' /\ k \in Grants'
  BY <1>1 DEF Holds, MapKept
<1> QED
  BY <1>1, <1>2 DEF StacksHeld

\* The invariant, once the memory is seen to.
LEMMA SteadyKeeps ==
    ASSUME BootInv, IInv', BootTypeOK', Fed', MapKept, UNCHANGED <<loader, stacks>>
    PROVE  BootInv'
<1>1. StacksHeld'
  BY StacksKept DEF BootInv
<1>2. OnlyPages'
  BY DEF BootInv, OnlyPages, MapKept, UsableEntries, Pages
<1> QED
  BY <1>1, <1>2 DEF BootInv

\* While the parser runs, the manager has all it is ever given.
LEMMA FedKept ==
    ASSUME Fed, loader' = loader, MapKept, phase \in {"parse", "free"},
           phase' \notin {"platform", "mode", "initialize", "memmap"}
    PROVE  Fed'
BY DEF Fed, MapKept, UsableEntries, Pages

\* Nothing is said of the memory once the parser has returned.
LEMMA FedLater ==
    ASSUME phase' \in {"draw", "assert", "panic", "idle", "astray"}
    PROVE  Fed'
BY DEF Fed

----------------------------------------------------------------------------
\* The invariant holds initially.
LEMMA InitBootInv == BootInit => BootInv
<1> SUFFICES ASSUME BootInit PROVE BootInv
  OBVIOUS
<1>1. IInv
  BY InitIInv DEF BootInit
<1>2. BootTypeOK
  BY ConstantFacts DEF BootInit, BootTypeOK, nullptr
<1>3. regions = <<>> /\ Len(regions) = 0
  BY DEF BootInit, Init
<1>4. Fed /\ OnlyPages
  BY <1>3 DEF BootInit, Fed, OnlyPages, Managed
<1>5. StacksHeld
  BY DEF BootInit, StacksHeld, HasBuffer
<1> QED
  BY <1>1, <1>2, <1>4, <1>5 DEF BootInv

\* A step of the kernel that calls no operation of the manager.
LEMMA VarsUnchanged ==
    ASSUME IInv, UNCHANGED vars
    PROVE  IInv' /\ MapKept
<1>1. IInv'
  BY NextKeeps
<1> QED
  BY <1>1, MemoryKeepsMap DEF vars, memory

\* Going on to another phase, with the memory left alone.
LEMMA GotoKeeps ==
    ASSUME BootInv, IInv', MapKept, NEW p, Goto(p), Fed'
    PROVE  BootInv'
BY SteadyKeeps DEF Goto, BootInv, BootTypeOK

\* kernel_cxx_entry, up to the memory map.
LEMMA StartKeeps ==
    ASSUME BootInv, parse_platform_info \/ check_mode \/ initialize_pmm
    PROVE  BootInv'
<1>1. CASE parse_platform_info \/ check_mode
  <2>1. IInv' /\ MapKept /\ regions' = regions
    BY <1>1, VarsUnchanged DEF BootInv, parse_platform_info, check_mode, vars, memory
  <2>2. Fed'
    BY <1>1, <2>1 DEF parse_platform_info, check_mode, Goto, BootInv, Fed
  <2> QED
    BY <1>1, <2>1, <2>2, GotoKeeps DEF parse_platform_info, check_mode
<1>2. CASE initialize_pmm
  <2>1. initialize("FIRST_FIT") /\ Goto("memmap") /\ phase = "initialize"
    BY <1>2 DEF initialize_pmm
  <2>2. IInv'
    BY <2>1, BootFacts, InitializeKeeps DEF BootInv
  <2>3. UNCHANGED <<regions, grants>>
    BY <2>1 DEF initialize
  <2>4. regions' = <<>> /\ entry' = 1 /\ phase' = "memmap"
    BY <2>1, <2>3 DEF BootInv, Fed, Goto
  <2>5. Managed' = {} /\ UsableBefore' = {}
    BY <2>4 DEF Managed, UsableBefore, UsableEntries
  <2>6. Fed'
    BY <2>4, <2>5 DEF Fed
  <2> QED
    BY <2>1, <2>2, <2>3, <2>6, MemoryKeepsMap, GotoKeeps
<1> QED
  BY <1>1, <1>2

\* A usable entry is given to the manager, or the kernel panics.
LEMMA AddUsableKeeps ==
    ASSUME BootInv, add_usable
    PROVE  BootInv'
<1> DEFINE r == [base |-> Entry.base, size |-> Entry.length]
<1>1. /\ entry \in UsableEntries /\ r \in RegionArgs
      /\ phase = "memmap" /\ add_region(r.base, r.size)
  <2>1. entry \in 1 .. Len(loader.memmap) /\ loader \in Loaders /\ Entry.type = "USABLE"
    BY BootFacts DEF add_usable, EntriesLeft, BootInv, BootTypeOK
  <2> QED
    BY <2>1, BootFacts DEF add_usable, Entry, UsableEntries
<1>2. IInv'
  BY <1>1, AddRegionKeeps DEF BootInv
<1>3. UNCHANGED <<loader, want, stacks, old_buffer>> /\ entry' = entry + 1
  BY DEF add_usable, NextEntry
<1>4. BootTypeOK'
  BY <1>3 DEF BootInv, BootTypeOK
<1>5. StacksHeld'
  <2>1. grants' = grants
    BY <1>1 DEF add_region, Return, memory
  <2>2. \A s \in Stacks : Buffer(s)' = Buffer(s) /\ (HasBuffer(s)' <=> HasBuffer(s))
    BY <1>3 DEF Buffer, HasBuffer
  <2> QED
    BY <1>3, <2>1, <2>2 DEF BootInv, StacksHeld, Holds, Grants
<1>6. UsableEntries' = UsableEntries /\ \A i : Pages(i)' = Pages(i)
  BY <1>3 DEF UsableEntries, Pages
<1>7. CASE last'.err # "SUCCESS"
  <2>1. regions' = regions
    BY <1>1, <1>7 DEF add_region, Return, Stop, Result, memory
  <2>2. phase' = "panic"
    BY <1>7 DEF add_usable
  <2>3. Fed' /\ OnlyPages'
    BY <1>6, <2>1, <2>2 DEF BootInv, Fed, OnlyPages, Managed, Extent
  <2> QED
    BY <1>2, <1>4, <1>5, <2>3 DEF BootInv
<1>8. CASE last'.err = "SUCCESS"
  <2>1. /\ Len(regions') = Len(regions) + 1 /\ Len(regions) \in Nat
        /\ \A i \in 1 .. Len(regions) : regions'[i] = regions[i]
        /\ regions'[Len(regions) + 1].base = AlignedBase(r.base)
        /\ regions'[Len(regions) + 1].length = AlignedSize(r.base, r.size)
    <3>1. \E e : /\ regions' = Append(regions, e)
                 /\ e.base = AlignedBase(r.base) /\ e.length = AlignedSize(r.base, r.size)
      BY <1>1, <1>8 DEF add_region, Return, Stop, Result
    <3> QED
      BY <3>1 DEF BootInv, IInv, TypeOK
  <2>2. Managed' = Managed \cup {Pages(entry)}
    BY <2>1 DEF Managed, Extent, Pages, Entry
  <2>3. UsableBefore' = UsableBefore \cup {entry}
    <3>1. \A i \in UsableEntries : i < entry + 1 <=> i < entry \/ i = entry
      BY BootFacts DEF UsableEntries, BootInv, BootTypeOK
    <3> QED
      BY <1>1, <1>3, <1>6, <3>1 DEF UsableBefore
  <2>4. phase' = "memmap"
    BY <1>8 DEF add_usable
  <2>5. Managed' = {Pages(i)' : i \in UsableBefore'}
    BY <1>1, <1>6, <2>2, <2>3 DEF BootInv, Fed
  <2>6. Fed'
    BY <2>4, <2>5 DEF Fed
  <2>7. OnlyPages'
    BY <1>1, <1>6, <2>2 DEF BootInv, OnlyPages
  <2> QED
    BY <1>2, <1>4, <1>5, <2>6, <2>7 DEF BootInv
<1> QED
  BY <1>7, <1>8

\* The loop over the memory map, past the entries it skips and at its end.
LEMMA MemmapKeeps ==
    ASSUME BootInv, skip_entry \/ memmap_done
    PROVE  BootInv'
<1>1. IInv' /\ MapKept /\ phase = "memmap" /\ UNCHANGED <<loader, stacks, old_buffer, want>>
  BY VarsUnchanged DEF BootInv, skip_entry, memmap_done, NextEntry, Goto
<1>2. UsableEntries' = UsableEntries /\ \A i : Pages(i)' = Pages(i)
  BY <1>1 DEF UsableEntries, Pages
<1>3. Len(loader.memmap) \in Nat /\ entry \in Nat /\ UsableEntries \subseteq Nat
  BY BootFacts DEF BootInv, BootTypeOK, UsableEntries
<1>4. CASE skip_entry
  <2>1. entry' = entry + 1 /\ phase' = "memmap" /\ entry \notin UsableEntries
    BY <1>4 DEF skip_entry, NextEntry, Entry, UsableEntries
  <2>2. UsableBefore' = UsableBefore
    <3>1. \A i \in UsableEntries : i < entry + 1 <=> i < entry
      BY <1>3, <2>1
    <3> QED
      BY <1>2, <2>1, <3>1 DEF UsableBefore
  <2>3. Fed' /\ BootTypeOK'
    BY <1>1, <1>2, <1>3, <2>1, <2>2 DEF BootInv, BootTypeOK, Fed, MapKept
  <2> QED
    BY <1>1, <2>3, SteadyKeeps
<1>5. CASE memmap_done
  <2>1. Goto("parse") /\ ~(entry <= Len(loader.memmap))
    BY <1>5 DEF memmap_done, EntriesLeft
  <2>2. UsableBefore = UsableEntries
    BY <1>3, <2>1 DEF UsableBefore, UsableEntries
  <2>3. Fed'
    BY <1>1, <1>2, <2>1, <2>2 DEF Goto, BootInv, Fed, MapKept
  <2> QED
    BY <1>1, <2>1, <2>3, GotoKeeps
<1> QED
  BY <1>4, <1>5

----------------------------------------------------------------------------
\* What the parser wants is one of the two things it may want.
LEMMA Wants ==
    ASSUME BootInv
    PROVE  /\ Wanting("emplace") => Want.stack \in Stacks
           /\ Wanting("region") => Want.size \in Sizes
<1>1. want < Len(loader.blob.wants) => want + 1 \in 1 .. Len(loader.blob.wants)
  BY BootFacts DEF BootInv, BootTypeOK
<1> QED
  BY <1>1, BootFacts DEF Wanting, Want, BootInv, BootTypeOK

\* A stack with room takes an element.
LEMMA EmplaceKeeps ==
    ASSUME BootInv, emplace
    PROVE  BootInv'
<1> DEFINE s == Want.stack
<1>1. s \in Stacks /\ phase = "parse"
  BY Wants DEF emplace, Wanting
<1>2. IInv' /\ MapKept /\ UNCHANGED <<loader, phase, entry, old_buffer>> /\ want' = want + 1
  BY VarsUnchanged DEF BootInv, emplace
<1>3. /\ stacks' = [stacks EXCEPT ![s].m_size = @ + 1]
      /\ stacks[s].m_size # stacks[s].m_capacity
  BY DEF emplace, S!Full
<1> HIDE DEF s
<1>4. /\ stacks'[s] = [stacks[s] EXCEPT !.m_size = stacks[s].m_size + 1]
      /\ \A t \in Stacks : t # s => stacks'[t] = stacks[t]
      /\ \A t \in Stacks : stacks[t] \in [m_size : Nat, m_capacity : Nat, m_buffer : Word]
  BY <1>1, <1>3 DEF BootInv, BootTypeOK
<1>5. \A t \in Stacks : Buffer(t)' = Buffer(t) /\ (HasBuffer(t)' <=> HasBuffer(t))
  <2> TAKE t \in Stacks
  <2>1. stacks'[t].m_capacity = stacks[t].m_capacity /\ stacks'[t].m_buffer = stacks[t].m_buffer
    <3>1. CASE t = s
      BY <1>4, <3>1
    <3>2. CASE t # s
      BY <1>4, <3>2
    <3> QED
      BY <3>1, <3>2
  <2> QED
    BY <2>1 DEF Buffer, HasBuffer, hhdm_virt_to_phys
<1>6. \A t \in Stacks, k \in Grants : Holds(t, k) => Holds(t, k)' /\ k \in Grants'
  BY <1>2, <1>5 DEF Holds, MapKept
<1>7. \A t \in Stacks : stacks'[t].m_size <= stacks'[t].m_capacity
  <2>1. /\ stacks[s].m_size \in Nat /\ stacks[s].m_capacity \in Nat
        /\ stacks[s].m_size <= stacks[s].m_capacity
    BY <1>1 DEF BootInv, BootTypeOK, StacksHeld
  <2>2. stacks[s].m_size + 1 <= stacks[s].m_capacity
    BY <1>3, <2>1
  <2>3. ASSUME NEW t \in Stacks, t # s PROVE stacks'[t].m_size <= stacks'[t].m_capacity
    BY <1>4, <2>3 DEF BootInv, StacksHeld
  <2>4. stacks'[s].m_size = stacks[s].m_size + 1 /\ stacks'[s].m_capacity = stacks[s].m_capacity
    BY <1>1, <1>4
  <2> QED
    BY <2>2, <2>3, <2>4
<1>8. StacksHeld'
  BY <1>5, <1>6, <1>7 DEF BootInv, StacksHeld
<1>9. BootTypeOK'
  BY <1>1, <1>2, <1>3 DEF BootInv, BootTypeOK
<1>10. Fed'
  BY <1>1, <1>2, FedKept DEF BootInv
<1>11. OnlyPages'
  BY <1>2 DEF BootInv, OnlyPages, MapKept, UsableEntries, Pages
<1> QED
  BY <1>2, <1>8, <1>9, <1>10, <1>11 DEF BootInv

\* A region of the bump allocator is one more grant, or the parser is astray.
LEMMA NewRegionKeeps ==
    ASSUME BootInv, new_region
    PROVE  BootInv'
<1>1. Want.size \in Word /\ phase = "parse"
  BY Wants, ArgsAssumption DEF new_region, Wanting
<1>2. IInv' /\ MapKept
  BY <1>1, AllocKeepsMap DEF BootInv, new_region, alloc
<1>3. /\ UNCHANGED <<loader, entry, stacks, old_buffer>> /\ want' = want + 1
      /\ phase' \in {"parse", "astray"}
  BY DEF new_region
<1>4. Fed' /\ BootTypeOK'
  BY <1>1, <1>2, <1>3, FedKept DEF BootInv, BootTypeOK
<1> QED
  BY <1>2, <1>3, <1>4, SteadyKeeps

\* The old buffer is given to free, which keeps nothing of it.
LEMMA FreeOldKeeps ==
    ASSUME BootInv, free_old
    PROVE  BootInv'
<1> DEFINE args == <<hhdm_virt_to_phys(old_buffer), 0>>
<1>1. args \in Word \X Word /\ "free" \in Operations /\ "SUCCESS" \in Outcomes
  BY BootFacts, ConstantFacts, WordClosed
     DEF BootInv, BootTypeOK, hhdm_virt_to_phys, Operations, Outcomes
<1>2. status = "running" /\ Return("free", args, "SUCCESS")
  BY DEF free_old, free
<1>3. IInv'
  BY <1>1, <1>2, ReturnKeeps DEF BootInv
<1>4. MapKept
  BY <1>2, MemoryKeepsMap DEF Return, memory
<1>5. Fed'
  BY <1>4, FedKept DEF BootInv, free_old, Goto
<1> QED
  BY <1>3, <1>4, <1>5, GotoKeeps DEF free_old

\* What a stack that grows is given: a buffer for more elements than it has.
LEMMA GrownBuffer ==
    ASSUME BootInv, grow, status' = "running"
    PROVE  LET s == Want.stack
               n == S!GrownSize(stacks[s], SizeOf[s])
               g == grants'[Len(grants) + 1]
           IN  /\ Len(grants') = Len(grants) + 1 /\ Len(grants) \in Nat
               /\ \A k \in Grants : grants'[k] = grants[k]
               /\ g.base = last'.ret /\ n <= g.size /\ IsAligned(g.size, PAGE_SIZE)
<1> DEFINE s    == Want.stack
           n    == S!GrownSize(stacks[s], SizeOf[s])
           size == AlignUp(n, PAGE_SIZE)
<1>1. s \in Stacks /\ alloc_noerr(n)
  BY Wants DEF grow
<1>2. n \in Word /\ (regions # <<>> => n + PAGE_SIZE <= WORD)
  BY <1>1, GrownFits
<1>3. PAGE_SIZE \in Word \ {0}
  BY ConstantFacts
<1> HIDE DEF s, n
<1>4. PICK i \in 1 .. Len(regions), list \in Descriptors \cup {nullptr} :
         HandsOut("alloc_noerr", n, PAGE_SIZE, i, list)
  BY <1>1, <1>2, AllocateHandsOut DEF BootInv, alloc_noerr, Failed
<1>5. regions # <<>>
  BY <1>4
<1>6. n <= size /\ IsAligned(size, PAGE_SIZE)
  BY <1>2, <1>3, <1>5, AlignUpBound, AlignUpAligned, WordAssumption DEF Word
<1>7. \E b : grants' = Append(grants, [base |-> b, size |-> size]) /\ last'.ret = b
  BY <1>4 DEF HandsOut, HandOut, Result
<1>8. grants \in Seq(Extents) /\ Len(grants) \in Nat
  BY DEF BootInv, IInv, TypeOK
<1> HIDE DEF size
<1>9. /\ Len(grants') = Len(grants) + 1
      /\ \A k \in Grants : grants'[k] = grants[k]
      /\ grants'[Len(grants) + 1].base = last'.ret /\ grants'[Len(grants) + 1].size = size
  BY <1>7, <1>8 DEF Grants
<1> QED
  BY <1>6, <1>8, <1>9 DEF s, n

\* A stack whose new buffer was handed out to it has that buffer to itself.
LEMMA NewBufferKeeps ==
    ASSUME BootInv, IInv', MapKept, UNCHANGED <<loader, entry, want>>,
           phase = "parse", phase' = "free",
           NEW s \in Stacks, NEW c \in Nat, NEW va \in Word, NEW m \in Nat,
           m = Len(grants), Len(grants') = m + 1,
           stacks' = [stacks EXCEPT ![s].m_capacity = c, ![s].m_buffer = va],
           old_buffer' = stacks[s].m_buffer,
           stacks[s].m_capacity <= c, c > 0,
           hhdm_virt_to_phys(va) = grants'[m + 1].base,
           c * SizeOf[s] <= grants'[m + 1].size, IsAligned(grants'[m + 1].size, PAGE_SIZE)
    PROVE  BootInv'
<1>1. /\ stacks'[s] = [stacks[s] EXCEPT !.m_capacity = c, !.m_buffer = va]
      /\ \A t \in Stacks : t # s => stacks'[t] = stacks[t]
      /\ \A t \in Stacks : stacks[t] \in [m_size : Nat, m_capacity : Nat, m_buffer : Word]
  BY DEF BootInv, BootTypeOK
<1>2. /\ stacks'[s].m_size = stacks[s].m_size /\ stacks'[s].m_capacity = c
      /\ stacks'[s].m_buffer = va
  <2>1. stacks[s] \in [m_size : Nat, m_capacity : Nat, m_buffer : Word]
    BY <1>1
  <2>2. stacks'[s] = [stacks[s] EXCEPT !.m_capacity = c, !.m_buffer = va]
    BY <1>1
  <2>3. stacks[s] = [m_size |-> stacks[s].m_size, m_capacity |-> stacks[s].m_capacity,
                     m_buffer |-> stacks[s].m_buffer]
    BY <2>1
  <2>4. stacks'[s] = [m_size |-> stacks[s].m_size, m_capacity |-> c, m_buffer |-> va]
    BY <2>2, <2>3, ZenonT(60)
  <2> QED
    BY <2>4
<1>3. BootTypeOK'
  <2>1. stacks' \in [Stacks -> [m_size : Nat, m_capacity : Nat, m_buffer : Word]]
    BY DEF BootInv, BootTypeOK
  <2>2. old_buffer' \in Word
    BY <1>1
  <2> QED
    BY <2>1, <2>2 DEF BootInv, BootTypeOK
<1>4. /\ Buffer(s)' = [base |-> grants'[m + 1].base, size |-> c * SizeOf[s]]
      /\ HasBuffer(s)'
  BY <1>2 DEF Buffer, HasBuffer, hhdm_virt_to_phys
<1>5. \A t \in Stacks : t # s => Buffer(t)' = Buffer(t) /\ (HasBuffer(t)' <=> HasBuffer(t))
  <2> TAKE t \in Stacks
  <2>1. t # s => stacks'[t] = stacks[t]
    BY <1>1
  <2> QED
    BY <2>1 DEF Buffer, HasBuffer, hhdm_virt_to_phys
<1>6. m + 1 \in Grants' /\ Holds(s, m + 1)'
  BY <1>4 DEF Grants, Holds
<1>7. \A t \in Stacks, k \in Grants : t # s /\ Holds(t, k) => Holds(t, k)' /\ k \in Grants'
  BY <1>5 DEF Holds, MapKept
<1>8. ASSUME NEW t \in Stacks, t # s, HasBuffer(t)
      PROVE  /\ ~Phys!Overlap(Buffer(s)', Buffer(t)')
             /\ ~Phys!Overlap(Buffer(t)', Buffer(s)')
  <2>1. PICK k \in Grants : Holds(t, k)
    BY <1>8 DEF BootInv, StacksHeld
  <2>2. Holds(t, k)' /\ k \in Grants' /\ k < m + 1
    BY <1>7, <1>8, <2>1 DEF Grants
  <2>3. ~Phys!Overlap(grants'[k], grants'[m + 1])
    BY <1>6, <2>2 DEF IInv, NoOverlap
  <2>4. /\ grants'[k].base \in Nat /\ grants'[k].size \in Nat
        /\ grants'[m + 1].base \in Nat /\ grants'[m + 1].size \in Nat
    BY <1>6, <2>2, HeldFitsNext DEF HeldInEntry
  <2>5. Buffer(s)'.size \in Nat /\ Buffer(t)'.size \in Nat
    <3>1. SizeOf[s] \in Nat /\ SizeOf[t] \in Nat /\ stacks[t].m_capacity \in Nat
      BY <1>1, BootFacts
    <3>2. c * SizeOf[s] \in Nat /\ stacks[t].m_capacity * SizeOf[t] \in Nat
      BY <3>1, SMTT(60)
    <3>3. Buffer(t).size = stacks[t].m_capacity * SizeOf[t]
      BY DEF Buffer
    <3> QED
      BY <1>4, <1>5, <1>8, <3>2, <3>3
  <2>6. /\ Buffer(s)'.base = grants'[m + 1].base /\ Buffer(s)'.size <= grants'[m + 1].size
        /\ Buffer(t)'.base = grants'[k].base /\ Buffer(t)'.size <= grants'[k].size
    BY <1>6, <2>2 DEF Holds
  <2> QED
    BY <2>3, <2>4, <2>5, <2>6, PartsDoNotOverlap
<1>9. \A t \in Stacks : stacks'[t].m_size <= stacks'[t].m_capacity
  <2>1. /\ stacks[s].m_size \in Nat /\ stacks[s].m_capacity \in Nat
        /\ stacks[s].m_size <= stacks[s].m_capacity
    BY <1>1 DEF BootInv, StacksHeld
  <2>2. stacks'[s].m_size <= stacks'[s].m_capacity
    BY <1>2, <2>1
  <2>3. \A t \in Stacks : t # s => stacks'[t].m_size <= stacks'[t].m_capacity
    BY <1>1 DEF BootInv, StacksHeld
  <2> QED
    BY <2>2, <2>3
<1>10. StacksHeld'
  <2>1. \A t \in Stacks : HasBuffer(t)' => \E k \in Grants' : Holds(t, k)'
    BY <1>5, <1>6, <1>7 DEF BootInv, StacksHeld
  <2>2. ASSUME NEW t \in Stacks, NEW u \in Stacks \ {t}, HasBuffer(t)', HasBuffer(u)'
        PROVE  ~Phys!Overlap(Buffer(t)', Buffer(u)')
    <3>1. CASE t = s
      BY <1>5, <1>8, <2>2, <3>1
    <3>2. CASE u = s
      BY <1>5, <1>8, <2>2, <3>2
    <3>3. CASE t # s /\ u # s
      BY <1>5, <2>2, <3>3 DEF BootInv, StacksHeld
    <3> QED
      BY <3>1, <3>2, <3>3
  <2> QED
    BY <1>9, <2>1, <2>2 DEF StacksHeld
<1>11. Fed' /\ OnlyPages'
  BY FedKept DEF BootInv, OnlyPages, MapKept, UsableEntries, Pages
<1> QED
  BY <1>3, <1>10, <1>11 DEF BootInv

\* A full stack gets a buffer of its own, or the kernel stops.
LEMMA GrowKeeps ==
    ASSUME BootInv, grow
    PROVE  BootInv'
<1>1. PICK s \in Stacks : s = Want.stack
  BY Wants DEF grow
<1> DEFINE d == SizeOf[s]
           n == S!GrownSize(stacks[s], d)
<1>2. /\ n \in Word /\ n \in Nat /\ stacks[s].m_capacity * d <= n /\ d <= n
      /\ stacks[s].m_capacity \in Nat /\ d \in Nat \ {0}
  <2>1. n \in Word /\ stacks[s].m_capacity * d <= n /\ PAGE_SIZE <= n
    BY GrownFits
  <2>2. n \in Nat /\ d \in Nat \ {0} /\ d <= PAGE_SIZE /\ PAGE_SIZE \in Nat
    BY <2>1, BootFacts, ConstantFacts, WordAssumption DEF Word
  <2>3. stacks[s].m_capacity \in Nat
    BY DEF BootInv, BootTypeOK
  <2> HIDE DEF n, d
  <2> QED
    BY <2>1, <2>2, <2>3
<1>3. phase = "parse" /\ alloc_noerr(n) /\ UNCHANGED <<loader, entry, want>>
  BY <1>1 DEF grow, Wanting
<1>4. CASE status' # "running"
  <2>1. UNCHANGED <<stacks, old_buffer, phase>>
    BY <1>4 DEF grow
  <2>2. IInv' /\ MapKept
    <3> HIDE DEF n
    <3> QED
      BY <1>2, <1>3, AllocKeepsMap DEF BootInv, alloc_noerr
  <2>3. Fed' /\ BootTypeOK'
    BY <1>3, <2>1, <2>2, FedKept DEF BootInv, BootTypeOK
  <2> QED
    BY <1>3, <2>1, <2>2, <2>3, SteadyKeeps
<1>5. CASE status' = "running"
  <2>1. PICK c \in Nat : c = n \div d /\ stacks[s].m_capacity <= c /\ c * d <= n /\ c > 0
    <3> HIDE DEF n, d
    <3> QED
      BY <1>2, RoomFor
  <2>2. IInv' /\ MapKept
    <3> HIDE DEF n
    <3> QED
      BY <1>2, <1>3, AllocKeepsMap DEF BootInv, alloc_noerr
  <2>3. PICK va \in Word :
           va = hhdm_phys_to_virt(last'.ret) /\ hhdm_virt_to_phys(va) = last'.ret
    BY <2>2, RoundTrip DEF IInv, TypeOK, Call
  <2>4. PICK m \in Nat :
           /\ m = Len(grants) /\ Len(grants') = m + 1
           /\ grants'[m + 1].base = last'.ret /\ n <= grants'[m + 1].size
           /\ IsAligned(grants'[m + 1].size, PAGE_SIZE)
    BY <1>1, <1>5, GrownBuffer
  <2>5. grants'[m + 1].size \in Nat
    BY <2>2, <2>4, HeldFitsNext DEF HeldInEntry, Grants
  <2>6. c * d <= grants'[m + 1].size
    <3> HIDE DEF n
    <3>1. c * d \in Nat
      BY <1>2
    <3> QED
      BY <1>2, <2>1, <2>4, <2>5, <3>1
  <2>7. /\ stacks' = [stacks EXCEPT ![s].m_capacity = c, ![s].m_buffer = va]
        /\ old_buffer' = stacks[s].m_buffer /\ phase' = "free"
    BY <1>1, <1>5, <2>1, <2>3 DEF grow
  <2> HIDE DEF n
  <2> QED
    BY <1>3, <2>1, <2>2, <2>3, <2>4, <2>6, <2>7, NewBufferKeeps
<1> QED
  BY <1>4, <1>5

\* The invariant is inductive.
LEMMA BootNextKeeps == BootInv /\ [BootNext]_<<bootvars, vars>> => BootInv'
<1> SUFFICES ASSUME BootInv, [BootNext]_<<bootvars, vars>> PROVE BootInv'
  OBVIOUS
<1>1. CASE UNCHANGED <<bootvars, vars>>
  <2>1. IInv' /\ MapKept /\ UNCHANGED <<loader, phase, entry, want, stacks, old_buffer, regions>>
    BY <1>1, VarsUnchanged DEF BootInv, bootvars, vars, memory
  <2>2. UsableEntries' = UsableEntries /\ UsableBefore' = UsableBefore /\ \A i : Pages(i)' = Pages(i)
    BY <2>1 DEF UsableBefore, UsableEntries, Pages
  <2>3. Fed' /\ BootTypeOK'
    BY <2>1, <2>2 DEF BootInv, Fed, BootTypeOK, MapKept
  <2> QED
    BY <2>1, <2>3, SteadyKeeps
<1>2. CASE parse_from_blob \/ draw_and_print
  <2>1. IInv' /\ MapKept
    BY <1>2, VarsUnchanged DEF BootInv, parse_from_blob, draw_and_print
  <2>2. PICK p \in {"draw", "assert", "idle", "astray"} : Goto(p)
    BY <1>2 DEF parse_from_blob, draw_and_print
  <2>3. Fed'
    BY <2>2, FedLater DEF Goto
  <2> QED
    BY <2>1, <2>2, <2>3, GotoKeeps
<1> QED
  BY <1>1, <1>2, StartKeeps, AddUsableKeeps, MemmapKeeps, EmplaceKeeps, GrowKeeps,
     FreeOldKeeps, NewRegionKeeps DEF BootNext, kernel_cxx_entry, BootSpin

----------------------------------------------------------------------------
\* The invariant holds in every state of the boot.
THEOREM BootInvariance == BootSpec => []BootInv
<1>1. BootInit => BootInv
  BY InitBootInv
<1>2. BootInv /\ [BootNext]_<<bootvars, vars>> => BootInv'
  BY BootNextKeeps
<1> QED
  BY <1>1, <1>2, PTL DEF BootSpec

\* When the parser starts, the manager has every whole page of every usable
\* entry and nothing else, whatever the memory map (kernel_entry.cpp:24-32).
THEOREM UsableIsManaged == BootSpec => []EveryUsableManaged
<1>1. BootInv => EveryUsableManaged
  BY DEF BootInv, Fed, EveryUsableManaged, Managed, Extent
<1> QED
  BY <1>1, BootInvariance, PTL

\* Every stack of the parser holds its elements in usable memory of its own,
\* whatever the tree makes it hold (stack.h:77-117, pmm.cpp:113-191).
THEOREM StacksAreSafe == BootSpec => []StacksInUsableMemory
<1>1. BootInv => StacksInUsableMemory
  <2> SUFFICES ASSUME BootInv, NEW s \in Stacks, stacks[s].m_size > 0
               PROVE  /\ stacks[s].m_size <= stacks[s].m_capacity
                      /\ \E i \in UsableEntries : Phys!Within(Buffer(s), Pages(i))
                      /\ \A t \in Stacks \ {s} : ~Phys!Overlap(Buffer(s), Buffer(t))
    BY DEF StacksInUsableMemory
  <2>1. \A t \in Stacks : /\ stacks[t].m_size \in Nat /\ stacks[t].m_capacity \in Nat
                          /\ stacks[t].m_size <= stacks[t].m_capacity
    BY DEF BootInv, BootTypeOK, StacksHeld
  <2>2. HasBuffer(s)
    BY <2>1 DEF HasBuffer
  <2>3. \E i \in UsableEntries : Phys!Within(Buffer(s), Pages(i))
    <3>1. PICK k \in Grants : Holds(s, k)
      BY <2>2 DEF BootInv, StacksHeld
    <3>2. PICK j \in 1 .. Len(regions) :
             /\ regions[j].base <= grants[k].base
             /\ grants[k].base + grants[k].size <= regions[j].base + regions[j].length
      BY DEF BootInv, IInv, GrantsManaged
    <3>3. PICK i \in UsableEntries : Extent(j) = Pages(i)
      BY DEF BootInv, OnlyPages, Managed
    <3>4. /\ grants[k].base \in Nat /\ grants[k].size \in Nat
          /\ regions[j].base \in Nat /\ regions[j].length \in Nat
      BY Typed DEF BootInv, IInv
    <3>5. Buffer(s).size \in Nat
      <4>1. stacks[s].m_capacity * SizeOf[s] \in Nat
        BY <2>1, BootFacts
      <4> QED
        BY <4>1 DEF Buffer
    <3>6. Buffer(s).base = grants[k].base /\ Buffer(s).size <= grants[k].size
      BY <3>1 DEF Holds
    <3>7. Pages(i).base = regions[j].base /\ Pages(i).size = regions[j].length
      BY <3>3 DEF Extent
    <3>8. Phys!Within(Buffer(s), Pages(i))
      BY <3>2, <3>4, <3>5, <3>6, <3>7, SMTT(60) DEF Phys!Within
    <3> QED
      BY <3>8
  <2>4. ASSUME NEW t \in Stacks \ {s} PROVE ~Phys!Overlap(Buffer(s), Buffer(t))
    <3>1. CASE HasBuffer(t)
      BY <2>2, <2>4, <3>1 DEF BootInv, StacksHeld
    <3>2. CASE ~HasBuffer(t)
      <4>1. stacks[t].m_capacity * SizeOf[t] = 0
        BY <2>1, <2>4, <3>2, BootFacts DEF HasBuffer
      <4>2. Buffer(t).size = 0
        BY <4>1 DEF Buffer
      <4> QED
        BY <4>2 DEF Phys!Overlap
    <3> QED
      BY <3>1, <3>2
  <2> QED
    BY <2>1, <2>3, <2>4
<1> QED
  BY <1>1, BootInvariance, PTL
=============================================================================
