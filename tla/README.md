# octiron in TLA+

octiron is a small RISC-V kernel in C++. It boots through the Limine protocol,
puts the usable memory under a physical memory manager, parses the device tree
into structures it allocates itself, prints them and spins. It runs on one hart
with no interrupts enabled: **nothing in it is concurrent, nothing is
persisted, and no message is exchanged**. What is hard in it is sequential:
long sequences of legal calls on linked data that several counters describe,
arithmetic that wraps, containers that move under the pointers into them, and
refusals the callers do not handle. There are no tests and no README in the
repository; the comments in the headers are its only statement of intent.

This directory holds the TLA+ modules that model it, the TLC configurations
that check them, and the proofs TLAPS checks.

## 1. Inventory

| component | source (under `src/kernel`) | state | operations | used by |
|---|---|---|---|---|
| physical memory manager | `src/pmm.cpp`, `include/pmm.h` | regions, each with a list of free blocks and a counter; total and free counters; a slab of block descriptors; the policy | initialize, add_region, remove_region, alloc, alloc_aligned, their noerr forms, free | every container, paging, kernel entry |
| slab allocator | `include/allocators/slab.h` | regions with a list of free blocks, counters | grow, alloc, free | the manager's descriptors |
| bump allocator | `src/allocators/bump.cpp` | a list of regions and the current one | grow, alloc, alloc_aligned, destructor | device tree |
| error stack | `include/types/error.h` | one word | construct, push, pop, top, is_ok, str | everything |
| alignment, words | `include/types/number.h` | none | align_up, align_down, is_aligned, byte swaps | everything |
| stack container | `include/types/stack.h` | size, capacity, buffer | grow, push_back, emplace_back, move, destructor | device tree |
| device tree | `src/devices/device_tree.cpp` | stacks of nodes, properties and reservations; the root; parent, child and sibling pointers | parse, two rewrite passes, print | kernel entry |
| platform information | `src/limine/platform_info.cpp` | the boot loader's answers | parse, physical to virtual and back | kernel entry, containers |
| kernel entry | `src/kernel_entry.cpp` | none of its own | the boot sequence | the boot loader |
| sv39 paging | `src/riscv/sv39.cpp` | page tables | map_small_page, virt_to_phys | nobody; not in the build |
| dynamic array | `include/types/dynamic_array.h` | as the stack | create, grow | nobody; never instantiated |
| output, uart, csr, views, memory helpers | `fmt/`, `uart.*`, `riscv/csr.h`, `types/*_view.h`, `memory.cpp` | one function pointer | conversions, register accesses | everything |

Interactions. Everything is a direct call. The manager takes descriptors from
the slab and never gives one back (the slab's `free` is not implemented). The
bump allocator and the containers take pages from the manager and reach them
through the higher-half mapping, whose offset is added and subtracted again.
The device tree takes nodes and properties from stacks, arrays from the bump
allocator, and keeps pointers into all three. `kernel_entry.cpp` adds every
usable entry of the memory map, panics on a refusal, then parses the tree.

How things stop. `assert`, `todo` and `panic` print and spin; a null
dereference traps. `assert_err` only prints: the code goes on.

What is hard, and what makes each component correct:

* *Manager*: a byte is handed out once; what is handed out lies in one region
  and is aligned; counters and lists agree; out of memory is said honestly;
  the earlier region is preferred; the kernel stops only when a caller asked
  for that.
* *Slab*: a block is handed out once although its link lies in the same bytes
  as the object; the counters run out before the list runs off the buffer.
* *Bump*: what is returned is disjoint, avoids the region headers, lies in
  memory that was granted; a refusal is passed on; the destructor gives
  everything back.
* *Error stack*: an error never reads as success.
* *Stack, device tree*: what is reached through a pointer is what was written
  through it, across growth; the parser stays in step with the blob and builds
  the tree it nests; `reg` and `ranges` are decoded by the right cells; the
  arrays are as large as what is written into them; a well-formed blob is
  parsed to its end.
* *Boot*: every usable page is managed before the parser runs; with enough
  memory and a sane map the kernel comes to its idle loop.
* *Paging*: what was mapped is what is found; a map that fails half way leaves
  tables the next one finds.
* *Helpers*: loops over bytes do what their names say at their ends; a number
  in the blob is printed as it stands there.

`PROJECT.json` lists the hazards line by line.

## 2. Modules

```
Words ── PhysMem (abstract)            ObjectPool (abstract)
  │  \      │                             │
  │   Pmm ──┤                            Slab ─┬─ MCSlab
  │    └─ PmmLimine ─┬─ MCPmm                  └─ SlabProofs *
  │                  ├─ PmmKernel ─┬─ MCPmmKernel
  │                  │             └─ Boot ─┬─ MCBoot
  │                                         └─ KernelProofs *
  │
  ├─ Bump (on PhysMem) ── BumpKernel ─┬─ MCBump
  │                                   └─ BumpProofs *
  ├─ Stack ── DeviceTree (on NodeTree, abstract)
  │              └─ DeviceTreeRewrite (with Bump) ─┬─ MCDeviceTree
  │                                                └─ DeviceTreeProofs * ── RewriteProofs
  ├─ Sv39 ─┬─ MCSv39 ── MCLeaves (with ErrorStack and Conversions)
  │        └──────────┐
  ├─ ErrorStack ── BitProofs *
  ├─ Conversions ── ConversionsProofs *
  └─ WordTheorems, which the modules with a * use
```

**`Words`** is the unsigned arithmetic of a `size_t` modulo `WORD`, and the
alignment helpers. The code masks; for a power of two that is the remainder of
`AlignUp` and `AlignDown`, and the manager refuses other alignments before it
aligns. The device tree aligns arrays by the size of their numbers, which may
be 12 bytes: for the bump allocator `MaskUp` keeps the mask. That the two agree
for a power of two is a theorem (`MaskUpAligns`). `And` and `Or` are `&` and
`|`, defined bit by bit.

**`PhysMem`** is the abstract memory: extents are put under management when
they overlap nothing managed, and granted when they lie in one managed extent
and overlap nothing granted before. It never takes a grant back. That is more
than an allocator has to promise, and it is what the callers rely on: the
containers keep pointers into buffers they have freed.

**`Pmm`** is `pmm.cpp`. `regions` is the used part of the array, `blocks` the
descriptors by their slab index, `block_free` the slab's counter. An
action is a call: `initialize`, `add_region`, `remove_region`, `alloc`,
`alloc_noerr`, `alloc_aligned`, `alloc_aligned_noerr`, a call with a null
`ret`, `free`. `Allocate` follows `alloc_aligned` line by line: the order of
the refusals, the todos, the search for a region (`Candidate`), the single
iteration of the walk (`Walked`), and the four ways to carve a block (`Carve`
with `SplitBoth`, `KeepPreceeding`, `KeepPostceeding` and the removal of a
block). `status` says how the kernel stopped, `last` what the last call was and
answered, `grants` is the history of extents handed out. The contents of memory
are left out.

Two modules say what may be asked of it, in two environments:

* `PmmLimine`: the boot loader's promise about usable entries
  (`LimineAssumption`: an entry has a page or more, entries do not overlap,
  addresses do not come near the top of the word), *any* sizes and alignments.
* `PmmKernel`: moreover page-aligned non-empty requests, as the bump allocator,
  the stack and paging make, and enough descriptors for every region slot.

**`Slab`** is `slab.h`: `next` is what a block holds where its link is, so an
owner's write (`WriteObject`) changes it. Numbering the blocks of a buffer as
they are handed out (`InOrder`) is what lets `Pmm` name descriptors by index.
**`ObjectPool`** is the abstract allocator: objects appear in batches and each
is handed out once.

**`Bump`** is `bump.cpp` over `PhysMem`: `pmm::alloc` is any grant of the
abstract memory, at any page, or a refusal that answers 0. `Refinement` below
is what justifies using the abstract memory in the manager's place, with
one difference in the direction of caution: the abstract manager may refuse
at any time. A call that takes two regions (`TwoRegions`) is one action, as in
the code. **`BumpKernel`** says how the kernel uses it (`BumpKernelAssumption`):
a request fits with its header and padding in the two pages of the smallest
region a shortfall links, and physical addresses stay far below the top of a
word. The first is what the arrays of a device tree are with pages of 4096
bytes; without it a returned piece may run past its region (section 5).

**`ErrorStack`** is the word of `class error`, its shifts and the `|` of a code
into it.

**`Stack`** is `stack<T>`: a stack is described with every buffer it ever had,
and a pointer names the buffer it points into. A growth copies the elements to
a new buffer and leaves the old one as it is: `pmm::free` keeps nothing, and
that nothing else is granted over it is what `GrantsDisjoint` proves. So a
pointer kept across a growth is not dangling; it leads to an abandoned copy.

**`DeviceTree`** is `parse_from_blob` up to the rewrite. A blob is its magic
number, its reservation map and its tokens; names and values are known by what
the parser tells apart. An action reads one token: `parse_node`, `EndNode`,
`pre_parse_property`, `Nop`, `Unknown`, `End`; `Header`, `Reservation` and
`ReservationsEnd` come before. The layout of the structure block is the
Devicetree Specification's and external. `BlobAssumption` says what the parser
takes for granted: there is an END token, and a length in the block is that of a
name or value in memory, so that adding a token's size to it does not wrap (it has
32 bits and is added as a `size_t`), a value is a number where it is read as one,
and an entry of the reservation map is an address and a size. **`NodeTree`** is the abstract tree:
`Open`, `Close`, `Attach`.

**`DeviceTreeRewrite`** is the rest: the two laps over the properties and the
recursion over the children, as a stack of `frames`; the arrays come from
`Bump`, whose actions are taken as they are, and every element written is
recorded in `stores`. `print_device_tree` records the order of what it prints:
like `Chain`, `Listing` follows the links no deeper than the blob has tokens,
which a tree of the blob's nodes never reaches.

**`Boot`** is `kernel_cxx_entry`: `parse_platform_info`, the mode, the manager's
`initialize`, one `add_region` for each usable entry, then the parser as a
sequence of requests (`emplace`, `grow`, `free_old`, `new_region`), then the
drawing and the idle loop. It takes the actions of `Pmm` as they are, and the
arithmetic of `Stack` for what a growth asks for. What the boot loader answers
is a constant, and so is what the parser wants for a tree.

**`Sv39`** is `map_small_page` and `virt_to_phys` in their real widths, with
tables known by their addresses. `Sv39Assumption` says that the manager grants
pages, that a mapping asks for some access, and that addresses are canonical:
the code looks at 39 bits and never at those above, so of two addresses that
agree in the 39 it could map only one.

**`Conversions`** is the helpers: `mem`, the views, `read_big_endian` and the
printers of numbers, on a memory of a few bytes.

`MC*` modules give the constants their values, `*Proofs` hold the theorems.
**`WordTheorems`** has induction over the natural numbers in the form of sets,
and the lemmas about words, bits, alignment and sums.

## 3. What the runs check

| run | what it shows |
|---|---|
| `pmm` | `IInv` with its parts `NoOverlap` and `AssertsUnreachable`; `Conservation` of bytes across the counters; `RequestHonoured`; that the manager implements `PhysMem` |
| `pmm_kernel` | `TypeOK`, `FreeListExact`, `OnlyOutOfMemoryStops`, `OutOfMemoryHonest`, `FirstFit` |
| `slab` | `PastEndNeverOut`, `CountersExact`, `InOrder`, that it implements `ObjectPool` |
| `slab_overrun` | `grow` writes 8 bytes past a buffer of `region_size(n)` bytes, which `BLOCK_BUF` is |
| `bump` | `AllocationsDisjoint`, `AllocationsOwned`, `DestroyFreesAll` |
| `device_tree` | `OffsetsInStep`, `OpenNodes`, that the parser implements `NodeTree`; `CellsInherited`, `ArraysInBounds`, `EveryPropertyRewritten`, `PrintedOnce`; that a well-formed blob is parsed and printed (`WellFormedIsParsed`) |
| `dt_arrays`, `dt_status` | the array of compatible strings is written past its end; a status is typed but never set |
| `leaves` | of paging `TablesLinkedOnce`, `MappedAsAsked`, `TranslatedPage`; of the error word `OkMeansNoError`; of the helpers `LoopsExact`, `ViewsClipped`, `PrintsReadBack` |
| `sv39_offset` | `virt_to_phys` does not answer the physical address: the offset in the page is dropped, and a bit of the page number joined |
| `view_advance` | a view that is advanced keeps its size and ends behind what it was made from |
| `boot` | `EveryUsableManaged`, `StacksInUsableMemory`, and that a kernel given enough comes to its idle loop (`ReachesIdle`) |

*Bounds, and why they are enough.* The manager's run has two entries, one that
must be trimmed on both sides, pages of 4 bytes, alignments of half a page to
four pages and one that is no power of two, sizes that are empty, below, at and
above a page and one that wraps; three grants suffice for every branch of the
carving to follow every other one. Seven descriptors are enough for two regions
and a double split, and few enough for the todo to be reached. The kernel's run
has three entries for two slots and six grants, so that the region list fills
up, memory runs out in both regions, and a request fits only the later one. The
slab's run has a usable buffer of one block, one of three with a remainder, one
too small and one misaligned. The bump allocator's run has four pages, so up to
four regions, and requests below, at and beyond what one page holds after its
header, one of them aligned to no power of two; the requests satisfy
`BumpKernelAssumption`.

The device tree's run has every string of up to five tokens of five kinds,
which is every way to close, nest and stray, and trees of three levels with
every combination of cells, arrays and orders the rewrite tells apart. A page
holds four nodes or two properties, so the stack of properties grows in most
trees and that of the nodes in those of five or six.

The run of the leaves explores paging, the error word and the helpers beside one
another: they share no state and no action of one reads another's, so a behaviour
uses one of them and their interleavings are left out (`NoPaging`, `NoError`,
`NoHelper`). Paging has pages that share tables of all levels, of one and of none,
addresses inside an even and an odd page, and fewer pages for tables than the
mappings ask for. A stack of errors has up to seven codes, so that early bits
leave the byte that is tested. The helpers start from every memory of four bytes
of four values: two widths of numbers, every pair of views, every overlap of a
copy; the digits are those of base 4's bytes, 10 and 16.

The boot run has every memory map of up to three of four
entries, each usable or reserved, in every order: more usable ones than slots,
one that begins where another ends, one at address 0, one that is not aligned;
and trees that need more than the smaller regions hold.

The counters that are capped are the history's or the caller's: `MaxGrants`,
`MaxAllocs` (`MaxArrays` where the device tree is the caller), `MaxPushes`,
`Steps` (the bytes a view is advanced by). Deadlock is checked in every run; a stopped
kernel spins (`Spin`, `BootSpin`), and so does one that has finished.

*Fairness.* The boot sequence and the parser are run by the one hart there is,
nothing preempts it, and no step of theirs waits for anything: `BootSpec` and
the specification of `DeviceTreeRewrite` assume weak fairness of the sequence's
next step, which says that a hart goes on. The manager, the allocators, paging and
the helpers are called, and nothing says that a caller calls: no fairness.

*What the liveness properties suppose.* `WellProvided` (in `Boot`) is a list of
what the code needs to get through: every request answered, Sv39, a framebuffer,
usable entries that `add_region` accepts one after the other, and a region with
room for all the parser takes. `WellFormed` (in `DeviceTreeRewrite`) is a blob
that nests one root and gives its arrays the lengths their cells ask for,
without reserved memory. The instances have a boot loader or a blob that fails
each condition alone and a kernel that then stops, or goes where the model does
not follow it, but for two conditions: that nothing follows the END token, and
that the root is the only node outside all others. Both belong to the format;
the code gets through without the second, and leaves the further roots as the
first lap has them.

*Conditions inside the safety properties.* `NodesFit` (the nodes fit in the
first buffer of their stack) and `~refused` (the manager has granted what was
asked) are where the code itself stops being right; section 5 says how.
`Sized` in `ArraysInBounds` names the arrays whose size the code gets right.
`MappedAsAsked` and `TranslatedPage` compare an entry with what was asked when the
physical address is that of a page, and follow a translation for even pages;
`ViewsClipped` bounds the end of views that were not advanced; `DestroyFreesAll`
leaves out the regions `grow` forgot. `LimineAssumption` excludes a region that
ends in front of the next page boundary and one that covers a managed one, both of
which `add_region` accepts. No property asks for what the code gets wrong: section 5
says what that is, and runs of their own show part of it.

*Mutants.* A definition named `X_Y` beside `X` is `X` with a plausible mistake;
`PROJECT.json` names the property that finds each of them. No specification
uses them.

## 4. What is proved

A theorem holds for every value of the constants that satisfies the named
assumptions; the runs check the same properties, and those assumptions, on their
instances. All modules assume `WordAssumption` (the width of a word).

| theorem | states | module, and what it assumes |
|---|---|---|
| `Invariance`, `TypeCorrect`, `GrantsDisjoint`, `InnerAssertsHold` | `IInv`, `TypeOK`, `NoOverlap`, `AssertsUnreachable` | `KernelProofs`: `PageAssumption`, `CountAssumption`, `ArgsAssumption`, `LimineAssumption` |
| `RequestsHonoured`, `BytesConserved` | `RequestHonoured`, `Conservation` | the same |
| `Refinement` | `Implements`: the manager implements `PhysMem` | the same |
| `NoMemoryLost`, `KernelKeepsRunning`, `FirstFitHolds`, `OutOfMemoryIsHonest` | `FreeListExact`, `OnlyOutOfMemoryStops`, `FirstFit`, `OutOfMemoryHonest` | the same, and `KernelAssumption` |
| `SlabTypeCorrect`, `SlabInOrder`, `NeverPastEnd`, `SlabCounts` | `TypeOK`, `InOrder`, `PastEndNeverOut`, `CountersExact` | `SlabProofs`: `SlabAssumption` |
| `SlabRefinement` | `Implements`: the slab implements `ObjectPool` | the same |
| `BumpTypeCorrect`, `AllocationsAreDisjoint`, `AllocationsAreOwned`, `DestroyReturnsAll` | `TypeOK`, `AllocationsDisjoint`, `AllocationsOwned`, `DestroyFreesAll` | `BumpProofs`: `BumpAssumption`, `BumpKernelAssumption` |
| `UsableIsManaged`, `StacksAreSafe` | `EveryUsableManaged`, `StacksInUsableMemory` | `KernelProofs`: all of these, and `BootAssumption` |
| `TokensReadInStep`, `ParentsAreOpenNodes` | `OffsetsInStep`, `OpenNodes` | `DeviceTreeProofs`: `DeviceTreeAssumption`, `BlobAssumption` |
| `ParserImplementsTree` | `Implements`: the parser implements `NodeTree` | the same |
| `TypesByName`, `CellsAreInherited` | `EveryPropertyRewritten`, `CellsInherited` | the same |
| `ParserTypes` | `TypeOK` of `DeviceTreeRewrite` | the same, and `RewriteAssumption` |
| `ArraysAreInBounds`, `EachIsPrintedOnce` | `ArraysInBounds`, `PrintedOnce` | `RewriteProofs`: `DeviceTreeAssumption`, `BlobAssumption` |
| `ErrorsNeverCancel` | `OkMeansNoError` | `BitProofs`: `CodesAssumption` |
| `TablesTyped`, `LinkedOnce`, `MappingsKept`, `PagesAreTranslated` | `TypeOK`, `TablesLinkedOnce`, `MappedAsAsked`, `TranslatedPage` | `BitProofs`: `Sv39Assumption` |
| `LoopsAreExact`, `ViewsAreClipped`, `PrintedNumbersReadBack` | `LoopsExact`, `ViewsClipped`, `PrintsReadBack` | `ConversionsProofs`: `ConversionsAssumption` |
| `MaskUpAligns` | `MaskUp` is `AlignUp` for a power of two | `WordTheorems` |

*The manager.* `NoOverlap` is not inductive: one has to know that the next
extent comes from memory no grant touches. So `IInv` adds that a region's free
block overlaps no grant (`FreeIsUngranted`) and lies in its region
(`OneFreeBlock`), that grants lie in regions (`GrantsManaged`), and that regions
come from disjoint entries (`RegionsFromEntries`). The surprising part is that
`OneFreeBlock` is needed and true: the list of a region never holds more than
one block. The only split that could make two drops the second one. Were it
linked in, the walk would reach the second block with the head's locals
(`pmm.cpp:150-157`), and either the assert of line 176 would fire or memory
would be handed out twice: the mutant `SplitBoth_Linked` is that repair, and it
breaks `AssertsUnreachable`. With one block per list, a block found too small
has a null successor, so the walk traps before it hands out anything, and
whatever is handed out is inside the head block (lemma `Walk`). `CarveTakes`
then shows that what is taken and what remains are disjoint for each of the
four splits, and one lemma for each operation shows it keeps the invariant.

*Its counters.* `free_bytes` is decremented modulo the word, and so are the
regions' counters, so `Conservation` rests on none of them wrapping. `HandsOut`
is what a successful `Allocate` comes to for any arguments: one region, the
candidate, loses `AlignUp(size)` bytes of at least as many. `SumChanged` (in
`WordTheorems`) is what that does to the sum over the regions, `SumStep` what an
`add_region` does. That the sums themselves fit in a word is `SumDisjoint`: the
regions are disjoint pieces below the top of the word, so their lengths add up
to no more (`CountsFit`).

*The manager in the kernel.* `IInv` holds of any alignment, and with the larger
ones memory is lost and the walk does trap, so it cannot carry these. `KernelInv`
adds `HandedOutInOrder`: the free block is page-aligned and reaches to the end of
its region, and every byte before it has been handed out. Then `align_up` leaves
the block's base where it is, two of the four splits do not occur
(`CarveFromFront`), and what remains is again aligned and reaches to the end
(`TakenFromFrontKeeps`). `FreeListExact` is part of the induction: the counter
that admits a region must be the length of the block the walk finds, or the walk
would run off the list. `DescriptorsLeft` counts the slab: two descriptors
for each region and none for an allocation, so a region slot that is left has
its descriptors. A region that is passed over has no window (`NoWindow`): a
window would begin in bytes that are handed out, or in a block that is too
short. `OutOfMemoryIsHonest` needs one thing more: line 119 refuses by the sum
alone, before any region is looked at, and only `Conservation` says that a sum
too small leaves each region too small.

*The slab.* `SlabInv` knows a free list by its first block and its length: the
blocks from `head[b]` on are linked to their neighbours (`Consecutive`), the
blocks in front of it are out (`OutBeforeHead`), and together they are the
buffer's. An owner's write reaches only blocks in front of the head, so it
changes no link of the list, and this is where `link and object share storage`
is answered. `FreeListIs` identifies the walk along the links with that interval,
by induction over its length; the counters are then cardinalities of intervals.
The last block's link leads past the end, but it becomes the head only when
`free[b]` falls to 0, and then the region serves nothing more.

*The bump allocator.* `BumpInv` says of the current region that what is left of
it (`Remaining`) lies in a grant and overlaps neither an allocation nor a header
(`Free`), and of every region that its end is two pages below the top of the
word, so that no padding wraps. The new region of a request (`RegionSizeBound`)
has at least two pages because the code rounds the shortfall up and adds a page;
`BumpKernelAssumption` makes that enough. Nothing is said of earlier regions:
they are never used again.

*The boot sequence.* `BootInv` extends the manager's `IInv`, as `Boot` extends its
actions. `Fed` says that the managed extents are the pages of the usable entries
already met, `OnlyPages` that there are no others, `StacksHeld` that a stack's
buffer is at the base of an extent handed out to it and to no other stack. A
buffer's address is kept in the direct map, so the proof first shows that
`hhdm_virt_to_phys` undoes `hhdm_phys_to_virt` modulo the word, for any offset.
`GrownFits` is the arithmetic of `stack::grow`: what is asked for is a whole
number of pages, no smaller than the buffer there was, and nothing wraps because
that buffer was handed out, so that its entry stays below half a word; the
manager rounds it no further, and it holds the new capacity; `StacksInUsableMemory` then follows because the extent lies in a
region and the region in an entry. A buffer given back stays in `grants`: that
`free` keeps nothing is what makes it safe to copy from it.

*The device tree.* Every step reads the next token or leaves the parser alone
(`Quiet`, `Takes`), so `ParserInv` speaks of the number `m` of tokens read. `InStep`
puts the offset behind them: `align_up` of a length is the padding of the format,
and the sums of the sizes are multiples of 4. It also keeps the END token ahead,
without which the last token would leave the parser nowhere. `OpenPath` says that
the parents of `current` are the `m` tokens' open nodes: it is stated of the
pointers as they are, into whichever buffer, and survives a growth because
`EmplaceBack` leaves the old buffers alone, and survives an assignment because
none changes a parent or a token (lemmas on `Deref` and `Assign`). A chain of
parents is no longer than `m`, so `Chain` follows it to the end. For the
refinement `TreeInv` adds, when `NodesFit`, that there is one buffer of nodes
(`OneBuffer`), so that each has one copy and a pointer leads to it; that there is
one node for each BEGIN_NODE token read and no other (`NodesByToken`); and
that the lists of children and properties end (`Lists`, `TreeOK`). `TreeOpens` and `TreeAttaches` are the two
steps that show in the abstract tree. The rewrite is a stutter: it assigns cells
and data, and a pointer that leads nowhere assigns nothing.

*The rewrite.* What the recursion meets depends on the order of the lists, which
`TreeInv` says nothing of. `Shape` does: there are functions `N` and `W` from
tokens to the pointers of their nodes and properties, and each list leads from a
token to the last one before it with the same parent or owner (`Leads`, `Kids`,
`Props`). So a pointer into a list stands for a bound `b`: what is ahead are the
tokens up to `b`, what lies behind it has been dealt with. A call is then
described by its node and its bound alone (`FrameIs`): on the first lap the
properties behind the bound have the type of their name, unless they wait for
the second lap, and the cells of the node are what those behind the bound leave
(`CellsLeft`), which at the end of the lap is the first in the blob, or the
default; in the loop over the children those behind the bound are done or being
called. `Walk` is that for all the frames, each being for a child of the next
one's node, down to the root. A node is `Done` when its properties have their
types and its children are done; nothing says that a node is called only once,
or that the recursion ends, and neither is needed: the set `D` of the done nodes
is closed under children, and holds the root when the outermost call returns, so
it holds the tree (`ReachesAll`). `RewriteInv` joins the phases: all raw and
without cells before (`Fresh`), the defaults at the start of the rewrite
(`RootTaken`), and `AllRewritten` behind it. `CellsInherited` needs no end: when
an array is filled its own node has been through the first lap, and the caller's
node through both, so the four counts it is divided by are those the tokens give
(`CellsAre`, `EntrySizeIs`).

*Its arrays.* Two things keep an element in its array. The entries are as many as
the value has bytes for, by the cells that size its numbers, the same that
`CellsInherited` is about (`EntriesFit`). And an array is filled once, which `Walk`
does not say. `Ahead` does: a property that waits for the second lap of a call
has no elements yet, nor has one nested in a child that its loop has not come to,
and no inner call is for a node that is still ahead of an outer one (`Apart`).
A bound that moves on only makes less be ahead (`AheadFollows`); a call takes
one child out of what is ahead, and the subtrees of two children share nothing
(`WithinChild`). The condition `Sized` says which arrays are meant; `dt_arrays`
shows one that is not.

*Its listing.* What is printed from a pointer on is the node it leads to, the elder
siblings of that and all that is nested in any of them (`SpanOf`): the line of the
node, what its children print and what its next sibling prints are three lists
that share no token (`SpanSplits`), and nothing in a later one has anything of an
earlier one nested in it, so behind one another they keep the order
(`PrintsBoth`). `ListingFrom` is the induction over the number of nodes. From the
root it is the whole tree (`TreeIs`), when every node has been closed and none is
lost; `ListInv` keeps that from the rewrite to the printing.

*Its types.* Behind `TypeOK` is the hazard of `Stack`: a full stack grows by pages,
and everything that points into it was made before. `TypeInv` says that in every
buffer a stack ever had the elements are good: their pointers are null or lead
to an element of a buffer there is. A growth adds a buffer and takes none away,
so what was good stays good (`GoodWiden`). That a push has room afterwards is
`GrownEnough`: the capacity times the size of an element is at most what was
granted (`SizesFit`), and rounding one byte more than that up to pages goes a
page further (`NextMultiple`), which holds another element because an element is
smaller than a page. It needs that no such sum wraps: `DeviceTreeAssumption` says
that memory ends below half a word, as addresses of 56 bits do.
`RewriteAssumption` says that the regions the bump allocator may be given have
their base and size in words, and that its header is smaller than a page.

*The error stack.* A shift may push the low byte out, but the `|` that follows
puts a nonzero code into it. That `x | c` keeps a nonzero remainder modulo `M`
when `c` has one (`KeepsBits`) is shown for `M = 1` and for `2M` when it holds of
`M`, by the low bits and the halves of both words (`OneBitMore`): eight times
make a byte. A word of whole bytes then leaves that byte alone when it wraps.

*Paging.* The flags of an entry are or-ed below its page number: numbers below
`M` that are or-ed into a multiple of `M` are added to it (`LeavesRoom`), again
by doubling `M`. So a link gives its page back and is no leaf (`LinkFacts`),
and the entry of a mapping is a valid leaf whatever address spilled into its
flags (`LeafFacts`, by `KeepsBits`). `TablesOK` splits the entries by the table
they are in: those of the root and of the tables it links hold granted pages,
no page twice and every page once, and all others map pages. That no page is
linked twice is what the rest stands on: a table of the last level is then none
of the upper ones (`LeafTable`), so writing a mapping changes no link, and two
addresses that come to one entry have the same indices on the whole way
(`OnePlace`), so they are of one page. A page just granted has no entries, so
linking it makes nothing found that was not (`LinkFinds`). `MapsOK` relates the
entries to the history: what is found is exactly what was mapped, and holds what
was first asked. The loop of `virt_to_phys` is then three turns (`ThreeTurns`),
and the bit it joins is that of the page number (`PageBit`), which an even
page has not set.

*The helpers.* A loop that goes on while its index is in a set `G` is a function
with the equations of `IsScan`; there is one, and it gives the value at the first
index not in `G` (`ScanAnswers`). For `cmp` and `compare` that is the first
difference or the end, and the first difference decides the order
(`DifferenceDecides`), the length when there is none (`LengthDecides`). `CopyIs` is
an induction over the bytes copied: a byte that is still to be read has not been
written, unless the copy starts inside the block. Of the views, `ViewInv` says
more than `ViewsClipped`: sizes are numbers, so neither a `substr` nor a `shorten`
wraps, and an end is never further out than the view was advanced.

*Printed numbers.* The byte of a number at a place (`Byte`) is a quotient and a
remainder, and what a shift does to it is the arithmetic of two quotients
(`TwoQuotients`, `ByteRight`, `ByteLeft`). Bytes times the values of their places
add up to a number that has them for its bytes (`PlacedSum`): so do those that are
loaded, and then the masked ones, which are the same in the mirrored order
(`FlippedByte`), at every width. Their sum is what `Horner` makes of them from the
highest down, term by term from the other end (`ReadIsBigEndian`). The digits of
a number divided by the base, and its remainder, are read back as the number
(`ReadsMore`), and the first is not 0 because a number below the base prints as
itself. A negative number is printed as its complement, which is not 0 and at
most half of the width's values, the half itself for the smallest.

*Induction.* The provers cannot instantiate the library's induction theorems,
which take an operator. `SetInduction` states induction for a set instead, and
is proved from the minimum of a well-founded relation; a recursive function is
handled by showing that a function with its equations exists, and any two agree.
The alignment mask (`And`), the sums, the walks of the slab, the lists of the
device tree (`Chain`) and its open nodes (`OpenAfter`) are proved so.

*Only model-checked.* Liveness (`WellFormedIsParsed`, `ReachesIdle`) is out of
the provers' reach. Every other property of a passing run has a theorem.

## 5. Where the code differs from what it says

Five are runs with a counterexample:

* `slab_overrun`: `slab_alloc::grow` writes a link past the end of its buffer.
  It happens at every boot.
* `dt_arrays`: the array for `compatible` is allocated by the size of a pointer
  (`device_tree.cpp:362`) and filled with views twice that size; the array of
  the next `reg` is written over its end.
* `dt_status`: the text of a status is compared with its terminator counted
  (`device_tree.cpp:382-397`), so no status is ever recognized; the type says
  STATUS, and the union still holds the raw view when it is printed.
* `sv39_offset`: `virt_to_phys` masks the address with the page size and not with
  one less (`sv39.cpp:60`), so an offset in the page is dropped and the page
  number's lowest bit is or-ed into the answer; `sv39.h:79` promises the
  translation. No test or caller asks for one.
* `view_advance`: `advance` keeps the size of the view (`byte_view.h:62`,
  `str_view.h:87`), though `byte_view.h:35` says it shrinks it. So the comparison
  of a status with `fail-` (`device_tree.cpp:395`) reads the bytes behind the
  status; it finds no match there, since the format pads a value of that length
  with zeros.

The models contain these too, without a run of their own.

*Manager.* Memory cut off behind a split leaves the list but stays in the counter
(`pmm.cpp:165`), which line 42 calls the free memory managed; a region with enough
bytes in no large enough block leads to a null dereference instead of an error
(150); a region reaching into a managed one from below is accepted (80); a region
that ends before the next page boundary wraps its size and is accepted; a size
within a page of the largest word rounds up to 0; `add_region` drops the first of
the two descriptors it takes, and tests only that one. None of these can be met
with the requests the kernel makes today and a page-aligned memory map: that is
what `pmm_kernel` shows. The others can: a region that begins where a managed one
ends is refused as managed, and the boot panics; `pmm::free` reports success and
keeps nothing; `alloc_noerr` and `alloc_aligned_noerr` assert on an error (198)
where `pmm.h:37-38` and `46-47` promise a null answer.

*Bump.* A new region is sized by the shortfall of the current one
(`bump.cpp:81`), so a request of more than two pages may run past it; a refused
page is used as address 0 or as a null region (84; `astray` in `Boot`); `grow`
forgets the regions it replaces (`forgotten`); `alloc` on an empty allocator
returns null before the test that would grow it.

*Error stack.* Codes are shifted by one bit (`error.h:140`), so the top is not
the pushed code, and `str` may index past its table (158).

*Device tree.* A reservation map with an entry is read forever
(`device_tree.cpp:490`, action `Reservation`); END_NODE or PROP without an open
node follows a null pointer (518, 198); with more nodes than a buffer holds,
children appended after a growth are linked into an abandoned copy, and the
tree seen from `root` (547) lacks them; `reg` or `ranges` in the root follows its
null parent (219, 289); a `reg` with three address cells is written as
16-byte numbers into an array sized for 12 (319); the array of parent addresses
is sized by the child's cells (229).

*Paging.* Addresses are checked for 8 bytes and not for a page (`sv39.cpp:13`); a
megapage address is a truth value (74).

## 6. Not modelled, and what is left

Left out for good: the uart and the control registers (single device accesses),
wording and layout of what is printed, the pixels drawn, declarations without
bodies (`kvspace.h`, `vma.h`, `virtio.h`, `ramfs_ustar`), the vendored `limine.h`,
and the build files. `dynamic_array` is not instantiated anywhere and does not
compile when it is; `current_page_table` does not compile either. The move
operations and the destructor of `stack`, and `push_back`, have no caller.

Not joined: `Boot` takes the parser's requests as a sequence, and
`DeviceTreeRewrite` the manager as an amount of memory; the one sequence of both
would multiply the trees with the memory maps and show nothing that depends on
the pair. The mapping of memory itself is the boot loader's: that
`alloc_aligned` can clear an extent through its physical address
(`pmm.cpp:184`) rests on it.

What the runs check and no theorem states is liveness, which needs ENABLED.
