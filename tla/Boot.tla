-------------------------------- MODULE Boot --------------------------------
(***************************************************************************)
(* kernel_cxx_entry, from the boot loader's responses to the idle loop:    *)
(* the physical memory manager is given the memory map, and the device     *)
(* tree parser then takes from it the buffers of its stacks and the        *)
(* regions of its bump allocator.                                          *)
(*                                                                         *)
(* One hart runs it and no interrupt is enabled.  Here the parser is what  *)
(* it asks the manager for, in some order, and the error it returns;       *)
(* module DeviceTreeRewrite has the rest of it.  An assert, a panic and an *)
(* idle kernel all spin, and panic differs from assert in its wording.     *)
(***************************************************************************)
EXTENDS PmmKernel, SequencesExt

CONSTANTS
    hhdm_base,     \* the offset of the higher half's direct map
    Stacks,        \* the stacks of the parser
    SizeOf,        \* the size of an element of each of them
    Loaders        \* what the boot loader may answer

S == INSTANCE Stack

Requests == {"base_revision", "framebuffer", "paging_mode", "memmap", "dtb", "hhdm"}

\* memmap is the entries [base, length, type], and blob what the parser wants
\* for the tree at dtb_ptr: an element of a stack, or a region of that size.
ASSUME BootAssumption ==
    /\ hhdm_base \in Word
    /\ SizeOf \in [Stacks -> 1 .. PAGE_SIZE]
    /\ \A l \in Loaders :
          /\ l.answered \subseteq Requests /\ l.framebuffer_count \in Nat
          /\ Len(l.memmap) \in Nat /\ Len(l.blob.wants) \in Nat
          /\ \A i \in 1 .. Len(l.memmap) :
                l.memmap[i].type = "USABLE" =>
                    [base |-> l.memmap[i].base, size |-> l.memmap[i].length] \in RegionArgs
          /\ \A j \in 1 .. Len(l.blob.wants) :
                LET w == l.blob.wants[j]
                IN  \/ w.op = "emplace" /\ w.stack \in Stacks
                    \/ w.op = "region" /\ w.size \in Sizes

VARIABLES
    loader,      \* the boot loader's responses
    phase,       \* where kernel_cxx_entry is
    entry,       \* i, the index of the memory map's entry
    want,        \* how many of the parser's requests are answered
    stacks,      \* m_size, m_capacity and m_buffer of each stack
    old_buffer   \* the local of grow

bootvars == <<loader, phase, entry, want, stacks, old_buffer>>

BootInit ==
    /\ Init
    /\ loader \in Loaders
    /\ phase = "platform" /\ entry = 1 /\ want = 0
    /\ stacks = [s \in Stacks |-> [m_size |-> 0, m_capacity |-> 0, m_buffer |-> nullptr]]
    /\ old_buffer = nullptr

hhdm_phys_to_virt(pa) == Add(pa, hhdm_base)
hhdm_virt_to_phys(ptr) == Sub(ptr, hhdm_base)

Goto(p) == phase' = p /\ UNCHANGED <<loader, entry, want, stacks, old_buffer>>

----------------------------------------------------------------------------
\* Every request must have been answered.
parse_platform_info ==
    /\ phase = "platform"
    /\ Goto(IF Requests \subseteq loader.answered THEN "mode" ELSE "assert")
    /\ UNCHANGED vars

check_mode ==
    /\ phase = "mode"
    /\ Goto(IF loader.mode = "SV39" THEN "initialize" ELSE "assert")
    /\ UNCHANGED vars

initialize_pmm ==
    /\ phase = "initialize"
    /\ initialize("FIRST_FIT")
    /\ Goto("memmap")

Entry == loader.memmap[entry]

\* Mutant: the first entry is taken for the second.
EntriesLeft_Short == entry < Len(loader.memmap)

EntriesLeft == entry <= Len(loader.memmap)

NextEntry == entry' = entry + 1 /\ UNCHANGED <<loader, want, stacks, old_buffer>>

add_usable ==
    /\ phase = "memmap" /\ EntriesLeft /\ Entry.type = "USABLE"
    /\ add_region(Entry.base, Entry.length)
    /\ NextEntry
    /\ phase' = IF last'.err = "SUCCESS" THEN "memmap" ELSE "panic"

\* Mutant: an entry that is skipped is met again.
skip_entry_Again ==
    /\ phase = "memmap" /\ EntriesLeft /\ Entry.type # "USABLE"
    /\ UNCHANGED bootvars
    /\ UNCHANGED vars

skip_entry ==
    /\ phase = "memmap" /\ EntriesLeft /\ Entry.type # "USABLE"
    /\ NextEntry
    /\ UNCHANGED phase
    /\ UNCHANGED vars

memmap_done ==
    /\ phase = "memmap" /\ ~EntriesLeft
    /\ Goto("parse")
    /\ UNCHANGED vars

----------------------------------------------------------------------------
\* The parser.

Want == loader.blob.wants[want + 1]
Wanting(op) == phase = "parse" /\ want < Len(loader.blob.wants) /\ Want.op = op

\* A stack with room takes another element.
emplace ==
    /\ Wanting("emplace") /\ ~S!Full(stacks[Want.stack])
    /\ want' = want + 1
    /\ stacks' = [stacks EXCEPT ![Want.stack].m_size = @ + 1]
    /\ UNCHANGED <<loader, phase, entry, old_buffer>>
    /\ UNCHANGED vars

\* A full one gets a new buffer, and then gives the old one, null at first,
\* to the manager.
grow ==
    /\ Wanting("emplace") /\ S!Full(stacks[Want.stack])
    /\ LET s == Want.stack
           n == S!GrownSize(stacks[s], SizeOf[s])
       IN  /\ alloc_noerr(n)
           /\ IF status' = "running"
              THEN /\ stacks' = [stacks EXCEPT
                          ![s].m_capacity = n \div SizeOf[s],
                          ![s].m_buffer = hhdm_phys_to_virt(last'.ret)]
                   /\ old_buffer' = stacks[s].m_buffer
                   /\ phase' = "free"
              ELSE UNCHANGED <<stacks, old_buffer, phase>>
    /\ UNCHANGED <<loader, entry, want>>

free_old ==
    /\ phase = "free"
    /\ free(hhdm_virt_to_phys(old_buffer))
    /\ Goto("parse")

\* A region of the bump allocator.  A refusal is printed and the region used
\* all the same, at physical address 0: what follows is not modelled.
new_region ==
    /\ Wanting("region")
    /\ alloc(Want.size)
    /\ want' = want + 1
    /\ phase' = IF last'.err = "SUCCESS" THEN "parse" ELSE "astray"
    /\ UNCHANGED <<loader, entry, stacks, old_buffer>>

\* The error the parser returned is asserted on.
parse_from_blob ==
    /\ phase = "parse" /\ want = Len(loader.blob.wants)
    /\ Goto(IF loader.blob.err = "SUCCESS" THEN "draw" ELSE "assert")
    /\ UNCHANGED vars

\* The first framebuffer is drawn on, be there one or not; then the tree is
\* printed.
draw_and_print ==
    /\ phase = "draw"
    /\ Goto(IF loader.framebuffer_count > 0 THEN "idle" ELSE "astray")
    /\ UNCHANGED vars

Spinning == status # "running" \/ phase \in {"assert", "panic", "idle", "astray"}

\* The kernel never leaves a loop it spins in.
BootSpin == Spinning /\ UNCHANGED bootvars /\ UNCHANGED vars

kernel_cxx_entry ==
    /\ ~Spinning
    /\ \/ parse_platform_info \/ check_mode \/ initialize_pmm
       \/ add_usable \/ skip_entry \/ memmap_done
       \/ emplace \/ grow \/ free_old \/ new_region \/ parse_from_blob
       \/ draw_and_print

BootNext == kernel_cxx_entry \/ BootSpin

\* The hart runs: nothing it waits for comes from elsewhere.
BootSpec ==
    /\ BootInit
    /\ [][BootNext]_<<bootvars, vars>>
    /\ WF_<<bootvars, vars>>(kernel_cxx_entry)

----------------------------------------------------------------------------
UsableEntries == {i \in 1 .. Len(loader.memmap) : loader.memmap[i].type = "USABLE"}

\* The extents of whole pages in the usable entries.
Pages(i) ==
    LET e == loader.memmap[i]
    IN  [base |-> AlignedBase(e.base), size |-> AlignedSize(e.base, e.length)]

\* When the parser starts, the manager has every whole page of every usable
\* entry, and nothing else, whatever the order and number of entries
\* (kernel_entry.cpp:24-32, pmm.cpp:58-103).
EveryUsableManaged ==
    phase = "parse" =>
        {[base |-> regions[r].base, size |-> regions[r].length] : r \in 1 .. Len(regions)}
            = {Pages(i) : i \in UsableEntries}

\* The bytes of a stack's buffer, in physical memory.
Buffer(s) == [base |-> hhdm_virt_to_phys(stacks[s].m_buffer),
              size |-> stacks[s].m_capacity * SizeOf[s]]

\* Every stack of the parser holds its elements in memory of its own that
\* the boot loader called usable, after any number of growths of any of them
\* (stack.h:77-117, pmm.cpp:113-191, kernel_entry.cpp:25-32).
StacksInUsableMemory ==
    \A s \in Stacks : stacks[s].m_size > 0 =>
        /\ stacks[s].m_size <= stacks[s].m_capacity
        /\ \E i \in UsableEntries : Phys!Within(Buffer(s), Pages(i))
        /\ \A t \in Stacks \ {s} : ~Phys!Overlap(Buffer(s), Buffer(t))

\* What the parser takes from the manager when every request is granted.
Demand ==
    LET after(taken, w) ==
            LET s == taken.of[w.stack]
                n == S!GrownSize(s, SizeOf[w.stack])
            IN  IF w.op = "region"
                THEN [taken EXCEPT !.bytes = @ + AlignUp(w.size, PAGE_SIZE)]
                ELSE IF ~S!Full(s) THEN [taken EXCEPT !.of[w.stack].m_size = @ + 1]
                ELSE [taken EXCEPT
                         !.bytes = @ + n,
                         !.of[w.stack] = [m_size     |-> s.m_size + 1,
                                          m_capacity |-> n \div SizeOf[w.stack]]]
        none == [bytes |-> 0, of |-> [s \in Stacks |-> [m_size |-> 0, m_capacity |-> 0]]]
    IN  FoldLeft(after, none, loader.blob.wants).bytes

\* An entry that add_region accepts after those before it.
Acceptable(i) ==
    /\ loader.memmap[i].base # 0
    /\ Pages(i).size >= PAGE_SIZE
    /\ \A j \in UsableEntries : j < i => Pages(j).base + Pages(j).size # Pages(i).base

WellProvided ==
    /\ loader.answered = Requests /\ loader.mode = "SV39" /\ loader.framebuffer_count > 0
    /\ loader.blob.err = "SUCCESS"
    /\ Cardinality(UsableEntries) <= REGION_COUNT
    /\ \A i \in UsableEntries : Acceptable(i)
    /\ \E i \in UsableEntries : Pages(i).size >= Demand

\* A kernel whose boot loader answers everything, with usable entries that
\* have a whole page and none of which begins where an earlier one ends, no
\* more of them than there are region slots, and one with room for all the
\* parser takes, comes to its idle loop (kernel_entry.cpp:16-48).
ReachesIdle == WellProvided => <>(phase = "idle")
=============================================================================
