-------------------------------- MODULE Bump --------------------------------
(***************************************************************************)
(* bump_alloc of kernel/src/allocators/bump.cpp on a physical memory       *)
(* manager known by its promise: pmm::alloc is a Grant of PhysMem at a     *)
(* page-aligned base, or a refusal that sets the answer to 0.  assert_err  *)
(* only prints, so the code goes on after a refusal.                       *)
(*                                                                         *)
(* Addresses are physical: hhdm_phys_to_virt and back add and subtract one *)
(* page-aligned constant.  The two constructors that move are todos and    *)
(* grow_by_n_pages is declared without a body.                             *)
(***************************************************************************)
EXTENDS Words, Sequences

CONSTANTS
    PAGE_SIZE,
    HEADER_SZ,      \* sizeof(struct region)
    Managed,        \* the extents under the manager's control
    Requests,       \* the [size, alignment] asked for
    MaxAllocs       \* bound on the allocations of a behaviour

ASSUME BumpAssumption ==
    /\ PAGE_SIZE \in Word /\ HEADER_SZ \in 1 .. PAGE_SIZE - 1
    /\ Managed \subseteq [base : Word, size : Word]
    /\ Requests \subseteq [size : Word, alignment : Word]

VARIABLES
    chain,       \* the regions [base, end, curr] from m_region_list along next
    status,      \* "running", or "fault" after a null dereference
    ret,         \* what the last call returned
    grants,      \* every extent the manager granted to this allocator
    allocated,   \* history: every extent returned to a caller
    freed,       \* history: the addresses given to pmm::free
    forgotten,   \* history: the regions in the list when grow replaced it
    refused      \* history: the manager has refused a request

vars == <<chain, status, ret, grants, allocated, freed, forgotten, refused>>

nullptr == 0

\* Both pointers are null, or m_current_region ends m_region_list.
Init ==
    /\ chain = <<>>
    /\ status = "running" /\ ret = nullptr
    /\ grants = <<>> /\ allocated = <<>> /\ freed = {} /\ forgotten = {}
    /\ refused = FALSE

Pmm == INSTANCE PhysMem WITH managed <- Managed

PageBases == UNION {{m.base + k * PAGE_SIZE : k \in 0 .. m.size \div PAGE_SIZE} : m \in Managed}

\* pmm::alloc of n bytes answers pa; a refusal answers 0.
pmm_alloc(n, pa) ==
    \/ /\ Pmm!Grant([base |-> pa, size |-> n])
       /\ UNCHANGED refused
    \/ /\ pa = 0
       /\ refused' = TRUE
       /\ UNCHANGED grants

----------------------------------------------------------------------------
\* Mutant: no room is left for the header.
NewRegion_NoHeader(pa, size) == [base |-> pa, end |-> pa + size, curr |-> pa]

NewRegion(pa, size) == [base |-> pa, end |-> pa + size, curr |-> pa + HEADER_SZ]

\* Mutant: the walk over the list ends at the current region.
Bases_NotLast(c) == {c[k].base : k \in 1 .. Len(c) - 1}

Bases(c) == {c[k].base : k \in 1 .. Len(c)}

\* The list is replaced, whatever it held; a refusal is returned.
grow ==
    /\ status = "running"
    /\ \E pa \in PageBases \cup {0} :
          /\ pmm_alloc(PAGE_SIZE, pa)
          /\ \/ /\ grants' # grants
                /\ chain' = <<NewRegion(pa, PAGE_SIZE)>>
                /\ forgotten' = forgotten \cup Bases(chain)
             \/ grants' = grants /\ UNCHANGED <<chain, forgotten>>
    /\ ret' = nullptr
    /\ UNCHANGED <<status, allocated, freed>>

\* Mutant: the page for the header and the padding is forgotten.
RegionSize_NoExtraPage(difference) == AlignUp(difference, PAGE_SIZE)

RegionSize(difference) == AlignUp(difference, PAGE_SIZE) + PAGE_SIZE

Current(c) == c[Len(c)]

\* Mutant: the padding is not counted.
Fits_Unaligned(c, size, alignment) == Current(c).curr + size <= Current(c).end

\* The size and the alignment are those of a call of alloc or alloc_aligned;
\* alloc asks for byte alignment, and the alignment may be any number.
Fits(c, size, alignment) == MaskUp(Current(c).curr, alignment) + size <= Current(c).end

Shortfall(c, size, alignment) ==
    MaskUp(Current(c).curr, alignment) + size - Current(c).end

\* Allocates from the current region of c.
Take(c, size, alignment) ==
    LET base == MaskUp(Current(c).curr, alignment) IN
    /\ chain' = [c EXCEPT ![Len(c)].curr = base + size]
    /\ allocated' = Append(allocated, [base |-> base, size |-> size])
    /\ ret' = base

\* What follows once there is a current region: another region is linked to
\* it when it lacks room.
Bump(c, size, alignment) ==
    \/ /\ Fits(c, size, alignment)
       /\ Take(c, size, alignment)
       /\ UNCHANGED <<grants, refused>>
    \/ /\ ~Fits(c, size, alignment)
       /\ LET n == RegionSize(Shortfall(c, size, alignment))
          IN  \E pa \in PageBases \cup {0} :
                 /\ pmm_alloc(n, pa)
                 /\ Take(Append(c, NewRegion(pa, n)), size, alignment)

\* alloc tests for a missing region before it would grow, and gives up.
alloc(size) ==
    /\ status = "running" /\ Len(allocated) < MaxAllocs
    /\ \/ /\ chain = <<>> \/ size = 0
          /\ ret' = nullptr
          /\ UNCHANGED <<chain, grants, allocated, refused>>
       \/ chain # <<>> /\ size # 0 /\ Bump(chain, size, 1)
    /\ UNCHANGED <<status, freed, forgotten>>

ReturnNull ==
    /\ ret' = nullptr
    /\ UNCHANGED <<chain, grants, allocated, refused, status>>

\* The first region is a page, whatever is asked for: when the first request
\* does not fit in it, a second region is allocated by the same call.
FirstRegion(size, alignment) ==
    \E pa \in PageBases : LET c == <<NewRegion(pa, PAGE_SIZE)>> IN
        /\ Pmm!Grant([base |-> pa, size |-> PAGE_SIZE])
        /\ Fits(c, size, alignment)
        /\ Take(c, size, alignment)
        /\ UNCHANGED <<refused, status>>

TwoRegions(size, alignment) ==
    \E pa \in PageBases, qa \in PageBases \cup {0} :
        LET c  == <<NewRegion(pa, PAGE_SIZE)>>
            n  == RegionSize(Shortfall(c, size, alignment))
            e1 == [base |-> pa, size |-> PAGE_SIZE]
            e2 == [base |-> qa, size |-> n]
        IN  /\ Pmm!Grantable(e1)
            /\ ~Fits(c, size, alignment)
            /\ \/ /\ Pmm!Grantable(e2) /\ ~Pmm!Overlap(e1, e2)
                  /\ grants' = grants \o <<e1, e2>>
                  /\ UNCHANGED refused
               \/ /\ qa = 0
                  /\ grants' = Append(grants, e1)
                  /\ refused' = TRUE
            /\ Take(Append(c, NewRegion(qa, n)), size, alignment)
            /\ UNCHANGED status

\* The page for the first region is refused, and its null pointer used.
NoRegion ==
    /\ refused' = TRUE
    /\ status' = "fault"
    /\ UNCHANGED <<chain, ret, grants, allocated>>

alloc_aligned(size, alignment) ==
    /\ status = "running" /\ Len(allocated) < MaxAllocs
    /\ \/ (size = 0 \/ alignment = 0) /\ ReturnNull
       \/ /\ size # 0 /\ alignment # 0 /\ chain = <<>>
          /\ \/ FirstRegion(size, alignment)
             \/ TwoRegions(size, alignment)
             \/ NoRegion
       \/ /\ size # 0 /\ alignment # 0 /\ chain # <<>>
          /\ Bump(chain, size, alignment)
          /\ UNCHANGED status
    /\ UNCHANGED <<freed, forgotten>>

\* ~bump_alloc: every region of the list goes to pmm::free, which succeeds.
destroy ==
    /\ status = "running"
    /\ freed' = freed \cup Bases(chain)
    /\ chain' = <<>>
    /\ ret' = nullptr
    /\ UNCHANGED <<status, grants, allocated, forgotten, refused>>

Spin == status = "fault" /\ UNCHANGED vars

Next ==
    \/ grow
    \/ \E r \in Requests : alloc(r.size) \/ alloc_aligned(r.size, r.alignment)
    \/ destroy
    \/ Spin

Spec == Init /\ [][Next]_vars

----------------------------------------------------------------------------
\* The type invariant of the allocator's variables (bump.h:37-45).
TypeOK ==
    /\ chain \in Seq([base : Word, end : Word, curr : Word])
    /\ \A k \in 1 .. Len(chain) : chain[k].base < chain[k].curr /\ chain[k].curr <= chain[k].end
    /\ status \in {"running", "fault"}
    /\ ret \in Nat
    /\ grants \in Seq([base : Nat, size : Nat])
    /\ allocated \in Seq([base : Nat, size : Nat])
    /\ freed \subseteq Nat /\ forgotten \subseteq Nat
    /\ refused \in BOOLEAN

Header(g) == [base |-> g.base, size |-> HEADER_SZ]

\* While the manager grants what it is asked for, what is returned shares no
\* byte with anything returned before or with a region header, across every
\* region ever chained (bump.cpp:55-63, 86-95).
AllocationsDisjoint ==
    ~refused =>
        \A k \in 1 .. Len(allocated) :
            /\ \A j \in 1 .. k - 1 : ~Pmm!Overlap(allocated[j], allocated[k])
            /\ \A g \in 1 .. Len(grants) : ~Pmm!Overlap(Header(grants[g]), allocated[k])

\* While the manager grants what it is asked for, what is returned is memory
\* that was granted to this allocator (bump.cpp:47-62 and 79-95).
AllocationsOwned ==
    ~refused =>
        \A k \in 1 .. Len(allocated) : \E g \in 1 .. Len(grants) :
            Pmm!Within(allocated[k], grants[g])

\* Destroying the allocator gives back every extent it was granted, but for
\* those in the list when a grow replaced it (bump.cpp:10-16 and 27-31,
\* bump.h:16 "Frees the allocated memory").
DestroyFreesAll ==
    chain = <<>> =>
        {grants[g].base : g \in 1 .. Len(grants)} \subseteq freed \cup forgotten
=============================================================================
