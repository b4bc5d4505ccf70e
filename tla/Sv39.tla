-------------------------------- MODULE Sv39 --------------------------------
(***************************************************************************)
(* map_small_page and virt_to_phys of kernel/src/riscv/sv39.cpp: page      *)
(* tables of three levels, built on demand from pages of the physical      *)
(* memory manager.  The file is not part of the build.                     *)
(*                                                                         *)
(* Numbers have the widths of the code.  A table is known by its address,  *)
(* which the code uses as a pointer; pages come cleared from the manager,  *)
(* so an entry that was never written is 0.                                *)
(***************************************************************************)
EXTENDS Words, FiniteSets

CONSTANTS
    ROOT,       \* the address of the root table
    Pages,      \* the pages the manager may grant
    VAs, PAs,   \* the addresses a mapping is asked for
    Flags       \* the flags it is asked with

PAGE_SIZE == 4096
MEGAPAGE_SIZE == 2097152
GIGAPAGE_SIZE == 1073741824
TABLE_ENTRY_COUNT == 512
ALIGNOF_PAGE_TABLE == 8    \* that of its only member, an array of u64

TEF_VALID == 1
TEF_READ == 2
TEF_WRITE == 4
TEF_EXECUTE == 8

VARIABLES
    entries,     \* the words written into tables, by table and index
    granted,     \* the pages obtained from the manager
    result,      \* the code map_small_page returned, the latest on top
    mapped       \* history: what the first successful call for a page asked for

vars == <<entries, granted, result, mapped>>

----------------------------------------------------------------------------
\* Mutant: the address is not shifted to the page number's place.
table_entry_Unshifted(page_address, flags) == Or(page_address, flags)

table_entry(page_address, flags) == Or(page_address \div 4, flags)

is_valid(e) == e % 2 = TEF_VALID

\* Mutant: a page that may only be written or executed is not a leaf.
is_leaf_Readable(e) == (e \div 2) % 2 # 0

\* One of the bits for reading, writing and executing is set.
is_leaf(e) == (e \div 2) % 8 # 0

get_address(e) == (e \div 1024) * PAGE_SIZE
FlagBits(e) == e % 1024

\* The index of va into a table of that level.
vpn(va, level) ==
    (va \div (CASE level = 0 -> PAGE_SIZE
                [] level = 1 -> MEGAPAGE_SIZE
                [] level = 2 -> GIGAPAGE_SIZE)) % TABLE_ENTRY_COUNT

Slot(table, va, level) == <<table, vpn(va, level)>>

Entry(m, slot) == IF slot \in DOMAIN m THEN m[slot] ELSE 0

Write(m, slot, e) == [s \in DOMAIN m \cup {slot} |-> IF s = slot THEN e ELSE m[s]]

Page(va) == va - (va % PAGE_SIZE)

\* A caller names tables that are pages, and asks for some access.  It uses
\* canonical addresses: two that agree in the bits that are translated agree
\* in those above, and are of one page.
ASSUME Sv39Assumption ==
    /\ \A p \in Pages \cup {ROOT} : p \in Nat /\ p % PAGE_SIZE = 0
    /\ ROOT \notin Pages
    /\ VAs \subseteq Nat /\ PAs \subseteq Nat
    /\ \A f \in Flags : f \in 0 .. 255 /\ (f \div 2) % 8 # 0
    /\ \A v, w \in VAs : (\A level \in 0 .. 2 : vpn(v, level) = vpn(w, level)) => Page(v) = Page(w)

----------------------------------------------------------------------------
Init == entries = <<>> /\ granted = {} /\ result = "none" /\ mapped = <<>>

Aligned(va, pa) == va % ALIGNOF_PAGE_TABLE = 0 /\ pa % ALIGNOF_PAGE_TABLE = 0

\* The tables m after a missing one was put into the slot, and the pages in
\* use then.  The manager grants any page it has not granted.
Tables(m, g, slot) ==
    IF is_valid(Entry(m, slot))
    THEN {[m |-> m, g |-> g]}
    ELSE {[m |-> Write(m, slot, table_entry(p, TEF_VALID)), g |-> g \cup {p}] : p \in Pages \ g}

TableAt(m, slot) == get_address(Entry(m, slot))

Unaligned(va, pa) ==
    /\ ~Aligned(va, pa)
    /\ result' = "PAGING_UNALIGNED_ADDR"
    /\ UNCHANGED <<entries, granted, mapped>>

\* The manager may have no page for the second level.
NoSecondLevel(va, pa) ==
    /\ Aligned(va, pa)
    /\ ~is_valid(Entry(entries, Slot(ROOT, va, 2)))
    /\ result' = "PAGING_ALLOC_FAILED"
    /\ UNCHANGED <<entries, granted, mapped>>

\* Mutant: the second level is linked when the first has been allocated.
NoFirstLevel_Unlinked(va, pa) ==
    /\ Aligned(va, pa)
    /\ \E t \in Tables(entries, granted, Slot(ROOT, va, 2)) :
          /\ ~is_valid(Entry(t.m, Slot(TableAt(t.m, Slot(ROOT, va, 2)), va, 1)))
          /\ granted' = t.g
    /\ result' = "PAGING_ALLOC_FAILED"
    /\ UNCHANGED <<entries, mapped>>

\* Or one for the second level and none for the first: the second stays.
NoFirstLevel(va, pa) ==
    /\ Aligned(va, pa)
    /\ \E t \in Tables(entries, granted, Slot(ROOT, va, 2)) :
          /\ ~is_valid(Entry(t.m, Slot(TableAt(t.m, Slot(ROOT, va, 2)), va, 1)))
          /\ entries' = t.m /\ granted' = t.g
    /\ result' = "PAGING_ALLOC_FAILED"
    /\ UNCHANGED mapped

\* Mutant: a mapping that exists is replaced.
Taken_Never(e) == FALSE

Taken(e) == is_valid(e)

Walked(va, pa, flags) ==
    /\ Aligned(va, pa)
    /\ \E t \in Tables(entries, granted, Slot(ROOT, va, 2)) :
       \E u \in Tables(t.m, t.g, Slot(TableAt(t.m, Slot(ROOT, va, 2)), va, 1)) :
          LET l1   == Slot(TableAt(t.m, Slot(ROOT, va, 2)), va, 1)
              leaf == Slot(TableAt(u.m, l1), va, 0)
          IN  /\ granted' = u.g
              /\ IF Taken(Entry(u.m, leaf))
                 THEN /\ entries' = u.m
                      /\ result' = "PAGING_MAP_EXISTS"
                      /\ UNCHANGED mapped
                 ELSE /\ entries' = Write(u.m, leaf, table_entry(pa, Or(flags, TEF_VALID)))
                      /\ result' = "SUCCESS"
                      /\ mapped' = IF Page(va) \in DOMAIN mapped THEN mapped
                                   ELSE Write(mapped, Page(va), [pa |-> pa, flags |-> flags])

map_small_page(va, pa, flags) ==
    Unaligned(va, pa) \/ NoSecondLevel(va, pa) \/ NoFirstLevel(va, pa) \/ Walked(va, pa, flags)

Next == \E va \in VAs, pa \in PAs, flags \in Flags : map_small_page(va, pa, flags)

Spec == Init /\ [][Next]_vars

----------------------------------------------------------------------------
NotMapped == 2147483647      \* stands for (paddr_t)-1
Unreachable == 2147483646    \* what follows __builtin_unreachable

\* page_offset is the bit va & PAGE_SIZE, joined with the address.  A leaf
\* of an upper level is larger than a page.
PhysicalAddress(e, va, level) ==
    LET page_offset == And[va][PAGE_SIZE]
        ppn == e \div 1024
    IN  CASE level = 2 -> Or(Or(Or(ppn * GIGAPAGE_SIZE, vpn(va, 1) * MEGAPAGE_SIZE),
                                vpn(va, 0) * PAGE_SIZE), page_offset)
          [] level = 1 -> Or(IF ppn # 0 \/ vpn(va, 0) # 0 THEN 1 ELSE 0, page_offset)
          [] level = 0 -> Or(get_address(e), page_offset)

virt_to_phys(va) ==
    LET walk[level \in 0 .. 2] ==
            [table \in Nat |->
                LET e == Entry(entries, Slot(table, va, level))
                IN  CASE ~is_valid(e) -> NotMapped
                      [] is_valid(e) /\ is_leaf(e) -> PhysicalAddress(e, va, level)
                      [] OTHER -> IF level = 0 THEN Unreachable
                                               ELSE walk[level - 1][get_address(e)]]
    IN  walk[2][ROOT]

\* The tables that are linked, by level.
LinkedFrom(tables) == {get_address(entries[s]) : s \in {s \in DOMAIN entries : s[1] \in tables}}
SecondLevel == LinkedFrom({ROOT})
FirstLevel == LinkedFrom(SecondLevel)

\* The type invariant of the tables (sv39.h:33-72): a table of the upper
\* levels links pages that were granted for tables.
TypeOK ==
    /\ granted \subseteq Pages
    /\ \A s \in DOMAIN entries : s[1] \in granted \cup {ROOT} /\ s[2] < TABLE_ENTRY_COUNT
    /\ SecondLevel \cup FirstLevel \subseteq granted
    /\ result \in {"none", "SUCCESS", "PAGING_UNALIGNED_ADDR", "PAGING_ALLOC_FAILED",
                   "PAGING_MAP_EXISTS"}

\* A page that was granted is linked in one place, whatever was refused in
\* between: a mapping that fails half way leaves a table the next one uses
\* (sv39.cpp:25-41).
TablesLinkedOnce ==
    LET upper == {s \in DOMAIN entries : s[1] \in SecondLevel \cup {ROOT}}
    IN  \A p \in granted : Cardinality({s \in upper : get_address(entries[s]) = p}) = 1

\* A translation is found for the pages that were mapped and for no others,
\* and the access is the one first asked for when the physical address is
\* that of a page: no mapping disturbs another (sv39.cpp:43-50 and 63-83).
Leaf(page) ==
    LET l2 == Slot(ROOT, page, 2)
        l1 == Slot(TableAt(entries, l2), page, 1)
    IN  Entry(entries, Slot(TableAt(entries, l1), page, 0))

MappedAsAsked ==
    \A va \in VAs :
        LET page == Page(va)
        IN  IF page \in DOMAIN mapped
            THEN /\ virt_to_phys(va) \notin {NotMapped, Unreachable}
                 /\ mapped[page].pa % PAGE_SIZE = 0 =>
                       FlagBits(Leaf(page)) = Or(mapped[page].flags, TEF_VALID)
            ELSE virt_to_phys(va) = NotMapped

\* The leaf holds the physical page that was first asked for, and for a page
\* with an even number the translation leads into it, whatever was mapped or
\* refused since (sv39.cpp:43-50 and 60-83).
TranslatedPage ==
    \A va \in VAs :
        LET page == Page(va)
        IN  page \in DOMAIN mapped /\ mapped[page].pa % PAGE_SIZE = 0 =>
                /\ get_address(Leaf(page)) = mapped[page].pa
                /\ (page \div PAGE_SIZE) % 2 = 0 =>
                      Page(virt_to_phys(va)) = mapped[page].pa

\* What sv39.h:79 says of virt_to_phys: the answer is the physical address of
\* the byte.  The code takes the bit va & PAGE_SIZE for the offset in the page
\* (sv39.cpp:60 and 80), so it is not.
TranslationIsPhysical ==
    \A va \in VAs :
        LET page == Page(va)
        IN  page \in DOMAIN mapped /\ mapped[page].pa % PAGE_SIZE = 0 =>
                virt_to_phys(va) = mapped[page].pa + (va % PAGE_SIZE)
=============================================================================
