------------------------- MODULE DeviceTreeRewrite -------------------------
(***************************************************************************)
(* The rest of parse_from_blob: recursive_property_rewrite, which gives    *)
(* the properties their types and builds the arrays of compatible, reg and *)
(* ranges with the bump allocator, and print_device_tree.                  *)
(*                                                                         *)
(* The recursion is a stack of frames.  A step handles one property, moves *)
(* to the next lap, or calls or returns; where the code calls the bump     *)
(* allocator several times for a property, each call is a step.            *)
(***************************************************************************)
EXTENDS DeviceTree

CONSTANTS
    HEADER_SZ,      \* sizeof(bump_alloc::region)
    BumpMemory,     \* the extents the bump allocator may be granted from
    MaxArrays       \* bound on the arrays of a blob

ASSUME RewriteAssumption ==
    HEADER_SZ \in 1 .. PAGE_SIZE - 1 /\ BumpMemory \subseteq [base : Word, size : Word]

VARIABLES
    frames,         \* the calls of recursive_property_rewrite, the innermost first
    stores,         \* history: the elements written, oldest first
    initialized,
    printed,        \* the nodes and properties printed, in order
    chain, bump_status, ret, grants, allocated, freed, forgotten, refused

B == INSTANCE Bump WITH
    Managed <- BumpMemory, Requests <- {}, MaxAllocs <- MaxArrays, status <- bump_status

bump_vars == <<chain, bump_status, ret, grants, allocated, freed, forgotten, refused>>
rewrite_vars == <<frames, stores, initialized, printed>>
vars == <<parse_vars, rewrite_vars, bump_vars>>

POINTER_SZ == 8
STR_VIEW_SZ == 16

----------------------------------------------------------------------------
Frame(p) == [node |-> p, lap |-> "first", at |-> Deref(nodes, p).properties, arrays |-> <<>>]

Top == frames[1]
ThisNode == Deref(nodes, Top.node)
This == Deref(properties, Top.at)

Name(p) == blob.tokens[p.token].name
Value(p) == blob.tokens[p.token].value

\* The innermost call is on that lap, at an element or at its end.
OnLap(lap) ==
    /\ Running /\ bump_status = "running"
    /\ pc = "rewrite" /\ frames # <<>>
    /\ Top.lap = lap

AtProperty(lap) == OnLap(lap) /\ Top.at # NULL

Assigned(type, data) ==
    Assign(properties, Top.at, [This EXCEPT !.type = type, !.data = data])

Advanced == [frames EXCEPT ![1].at = This.next_property, ![1].arrays = <<>>]

unchanged_parse ==
    UNCHANGED <<blob, offset, current, reserved_regions, root, granted, status>>

Fails(code) ==
    /\ pc' = "done"
    /\ result' = <<"DT_REWRITE_FAILED", code>>
    /\ UNCHANGED <<nodes, frames>>

\* Something that stops the kernel: an assert, or a null pointer followed.
Abort(how) == Stop(how) /\ UNCHANGED <<rewrite_vars, bump_vars>>

Enter ==
    /\ Running /\ pc = "rewrite" /\ frames = <<>>
    /\ frames' = <<Frame(root)>>
    /\ UNCHANGED <<parse_vars, stores, initialized, printed, bump_vars>>

----------------------------------------------------------------------------
\* The types given on the first lap; every other name stays RAW there.
FirstLapTypes ==
    [name \in {"model", "phandle", "status", "device_type", "dma-coherent", "dma-noncoherent",
               "virtual-reg", "interrupt-parent", "#interrupt-cells", "interrupt-controller"} |->
        CASE name = "model"                -> "MODEL"
          [] name = "phandle"              -> "PHANDLE"
          [] name = "status"               -> "STATUS"
          [] name = "device_type"          -> "DEVICE_TYPE"
          [] name = "virtual-reg"          -> "VIRTUAL_REG"
          [] name = "interrupt-parent"     -> "INTERRUPT_PARENT"
          [] name = "#interrupt-cells"     -> "INTERRUPT_CELLS"
          [] name = "interrupt-controller" -> "INTERRUPT_CONTROLLER"
          [] OTHER                         -> "DMA_COHERENCE"]

CellTypes ==
    [name \in {"#address-cells", "#size-cells"} |->
        IF name = "#address-cells" THEN "ADDRESS_CELLS" ELSE "SIZE_CELLS"]

ArrayTypes ==
    [name \in {"reg", "ranges", "bus-ranges"} |-> IF name = "reg" THEN "REG" ELSE "RANGES"]

\* compare with the literal is 0: the length of the view counts the
\* terminator of the value.  The last test of the chain looks for "fail-" in
\* the padding behind the value, and never finds it.
IsStatus(value, literal) == value.text = literal /\ value.len = Len(literal)

StatusIsSet(value) ==
    \E literal \in {"okay", "disabled", "reserved", "fail"} : IsStatus(value, literal)

NameType(name) == FirstLapTypes[name]

\* What becomes of the data of the property p.
NameData(p) ==
    LET to(value) == [member |-> NameType(Name(p)), value |-> value]
    IN  CASE NameType(Name(p)) \in {"MODEL", "DEVICE_TYPE"} -> to(Value(p).len)
          [] Name(p) = "dma-coherent" -> to(1)
          [] Name(p) = "dma-noncoherent" -> to(0)
          [] NameType(Name(p)) = "STATUS" ->
                 IF StatusIsSet(Value(p)) THEN to(0) ELSE p.data
          [] NameType(Name(p)) = "INTERRUPT_CONTROLLER" -> p.data
          [] OTHER -> to(Value(p).word)

RewriteByName ==
    /\ AtProperty("first")
    /\ Name(This) \in DOMAIN FirstLapTypes
    /\ properties' = Assigned(NameType(Name(This)), NameData(This))
    /\ frames' = Advanced
    /\ unchanged_parse /\ UNCHANGED <<pc, nodes, result, stores, initialized, printed, bump_vars>>

\* Names that are listed and left alone, names left for the second lap, and
\* names only reported as unhandled.
Skip ==
    /\ AtProperty("first")
    /\ Name(This) \notin DOMAIN FirstLapTypes \cup DOMAIN CellTypes \cup {"compatible"}
    /\ frames' = Advanced
    /\ UNCHANGED <<parse_vars, stores, initialized, printed, bump_vars>>

\* Mutant: one limit for both.
TooLarge_One(type, w) == w > 3

TooLarge(type, w) == w > IF type = "ADDRESS_CELLS" THEN 3 ELSE 2

\* The cell counts of the node are what its children and its ranges go by.
RewriteCells ==
    /\ AtProperty("first")
    /\ Name(This) \in DOMAIN CellTypes
    /\ LET w    == Value(This).word
           type == CellTypes[Name(This)]
       IN  /\ properties' = Assigned(type, [member |-> type, value |-> w])
           /\ IF TooLarge(type, w)
              THEN Fails("DT_" \o type \o "_TOO_LARGE")
              ELSE /\ nodes' = Assign(nodes, Top.node,
                                  IF type = "ADDRESS_CELLS"
                                  THEN [ThisNode EXCEPT !.address_cells = w]
                                  ELSE [ThisNode EXCEPT !.size_cells = w])
                   /\ frames' = Advanced
                   /\ UNCHANGED <<pc, result>>
    /\ unchanged_parse /\ UNCHANGED <<stores, initialized, printed, bump_vars>>

\* A write of width bytes, at an offset into an array of size bytes.
Store(part, base, size, at, width) ==
    [token |-> This.token, part |-> part, base |-> base, size |-> size, at |-> at,
     width |-> width]

CompatibleSize(nuls) == POINTER_SZ * (nuls + 1)

\* One view for each string, and an empty one behind the last.
CompatibleStores(base) ==
    [j \in 1 .. Value(This).nuls + 1 |->
        Store("compatible", base, CompatibleSize(Value(This).nuls), STR_VIEW_SZ * (j - 1),
              STR_VIEW_SZ)]

RewriteCompatible ==
    /\ AtProperty("first")
    /\ Name(This) = "compatible"
    /\ B!alloc_aligned(CompatibleSize(Value(This).nuls), POINTER_SZ)
    /\ IF bump_status' = "running"
       THEN /\ stores' = stores \o CompatibleStores(ret')
            /\ properties' = Assigned("COMPATIBLE", [member |-> "COMPATIBLE", value |-> ret'])
            /\ frames' = Advanced
       ELSE UNCHANGED <<stores, properties, frames>>
    /\ unchanged_parse /\ UNCHANGED <<pc, nodes, result, initialized, printed>>

----------------------------------------------------------------------------
Parent == Deref(nodes, ThisNode.parent)

\* An array holds one number of so many cells for each pair or triple, and
\* is allocated for numbers of room cells.
Part(name, cells, room) == [name |-> name, cells |-> cells, room |-> room]

\* Mutant: a device is addressed by its own cells.
RegParts_Own == <<Part("address", ThisNode.address_cells, ThisNode.address_cells),
                  Part("size", ThisNode.size_cells, ThisNode.size_cells)>>

RegParts == <<Part("address", Parent.address_cells, Parent.address_cells),
              Part("size", Parent.size_cells, Parent.size_cells)>>

RangesParts == <<Part("cbus", ThisNode.address_cells, ThisNode.address_cells),
                 Part("pbus", Parent.address_cells, ThisNode.address_cells),
                 Part("size", ThisNode.size_cells, ThisNode.size_cells)>>

Type == ArrayTypes[Name(This)]
Parts == IF Type = "REG" THEN RegParts ELSE RangesParts

EntrySize(parts) == 4 * (parts[1].cells + parts[2].cells + IF Len(parts) = 3 THEN parts[3].cells ELSE 0)

\* Division by zero answers all ones, and the remainder the dividend.
Entries(parts) ==
    IF EntrySize(parts) = 0 THEN WORD - 1 ELSE Value(This).len \div EntrySize(parts)
Rest(parts) ==
    IF EntrySize(parts) = 0 THEN Value(This).len ELSE Value(This).len % EntrySize(parts)

\* The asserts before the arrays are allocated.
Asserted(parts) ==
    /\ Entries(parts) > 0 /\ Rest(parts) = 0
    /\ parts[1].cells <= 3 /\ parts[Len(parts)].cells <= 2

\* A property of the second lap; an empty ranges has no arrays.
AtArrays == AtProperty("second") /\ Name(This) \in DOMAIN ArrayTypes
EmptyRanges == Type = "RANGES" /\ Value(This).len = 0

SkipSecond ==
    /\ AtProperty("second")
    /\ Name(This) \notin DOMAIN ArrayTypes
    /\ frames' = Advanced
    /\ UNCHANGED <<parse_vars, stores, initialized, printed, bump_vars>>

RangesEmpty ==
    /\ AtArrays /\ EmptyRanges
    /\ properties' = Assigned("RANGES", [member |-> "RANGES", value |-> 0])
    /\ frames' = Advanced
    /\ unchanged_parse /\ UNCHANGED <<pc, nodes, result, stores, initialized, printed, bump_vars>>

\* The root has no parent, and its cells are read through it.
NoParent == AtArrays /\ ~EmptyRanges /\ ThisNode.parent = NULL /\ Abort("fault")

AtParts == AtArrays /\ ~EmptyRanges /\ ThisNode.parent # NULL

AssertFails == AtParts /\ ~Asserted(Parts) /\ Abort("panic")

\* The next array is allocated.  That it is null exactly when its numbers
\* have no cells is asserted for reg, and holds by what alloc_aligned does.
AllocateArray ==
    /\ AtParts /\ Asserted(Parts)
    /\ Len(Top.arrays) < Len(Parts)
    /\ LET room == 4 * Parts[Len(Top.arrays) + 1].room
       IN  B!alloc_aligned((room * Entries(Parts)) % WORD, room)
    /\ frames' = IF bump_status' = "running"
                 THEN [frames EXCEPT ![1].arrays = Append(@, ret')]
                 ELSE frames
    /\ UNCHANGED <<parse_vars, stores, initialized, printed>>

\* Mutant: every number is written as a u64.
Width_U64(type, cells) == IF cells = 0 THEN 0 ELSE 8

\* The bytes of one element: three cells are a u128 in reg, a u64 in ranges.
Width(type, cells) ==
    CASE cells = 3 -> IF type = "REG" THEN 16 ELSE 8
      [] OTHER -> 4 * cells

\* Entry i of part k, in the order of the loop: no bytes where the part has no
\* cells.
ArrayStores(parts) ==
    LET n == Len(parts)
        entry(m) ==
            LET i == (m - 1) \div n
                k == ((m - 1) % n) + 1
                w == Width(Type, parts[k].cells)
            IN  Store(parts[k].name, Top.arrays[k], 4 * parts[k].room * Entries(parts), w * i, w)
    IN  IF EntrySize(parts) = 0
        THEN <<>>
        ELSE [m \in 1 .. n * Entries(parts) |-> entry(m)]

\* The addresses of a range must have cells: the code says it cannot be
\* otherwise, and what is built then may do anything.
NoCells(parts) == Type = "RANGES" /\ 0 \in {parts[1].cells, parts[2].cells}

FillArrays ==
    /\ AtParts /\ Asserted(Parts)
    /\ Len(Top.arrays) = Len(Parts)
    /\ IF NoCells(Parts)
       THEN Abort("unreachable")
       ELSE /\ stores' = stores \o ArrayStores(Parts)
            /\ properties' = Assigned(Type, [member |-> Type, value |-> Entries(Parts)])
            /\ frames' = Advanced
            /\ unchanged_parse
            /\ UNCHANGED <<pc, nodes, result, initialized, printed, bump_vars>>

----------------------------------------------------------------------------
NextLap ==
    /\ Running /\ bump_status = "running" /\ pc = "rewrite" /\ frames # <<>>
    /\ Top.at = NULL /\ Top.lap # "children"
    /\ frames' = [frames EXCEPT
                     ![1].at = IF Top.lap = "first" THEN ThisNode.properties
                                                    ELSE ThisNode.children,
                     ![1].lap = IF @ = "first" THEN "second" ELSE "children"]
    /\ UNCHANGED <<parse_vars, stores, initialized, printed, bump_vars>>

\* Mutant: only the first child is visited.
AfterChild_None == NULL

AfterChild == Deref(nodes, Top.at).next_sibling

Call ==
    /\ OnLap("children") /\ Top.at # NULL
    /\ frames' = <<Frame(Top.at)>> \o [frames EXCEPT ![1].at = AfterChild]
    /\ UNCHANGED <<parse_vars, stores, initialized, printed, bump_vars>>

Return ==
    /\ OnLap("children") /\ Top.at = NULL
    /\ frames' = Tail(frames)
    /\ IF Len(frames) = 1
       THEN pc' = "done" /\ initialized' = TRUE /\ result' = <<"SUCCESS">>
       ELSE UNCHANGED <<pc, initialized, result>>
    /\ unchanged_parse /\ UNCHANGED <<nodes, properties, stores, printed, bump_vars>>

Rewrite ==
    \/ Enter \/ RewriteByName \/ Skip \/ RewriteCells \/ RewriteCompatible
    \/ SkipSecond \/ RangesEmpty \/ NoParent \/ AssertFails \/ AllocateArray \/ FillArrays
    \/ NextLap \/ Call \/ Return

Line(p) ==
    <<Deref(nodes, p).token>> \o TokensOf(properties, Deref(nodes, p).properties, "next_property")

\* Mutant: the children of the children are left out.
Listing_First(p) == Line(p) \o TokensOf(nodes, Deref(nodes, p).children, "next_sibling")

\* A node, its properties, then what its children and its siblings print.  The
\* links are followed no deeper than the blob has tokens, as Chain follows them.
Listing(p) ==
    LET from[n \in 0 .. Len(blob.tokens)] ==
            [q \in Pointers |->
                IF n = 0 \/ q = NULL THEN <<>>
                ELSE Line(q) \o from[n - 1][Deref(nodes, q).children]
                             \o from[n - 1][Deref(nodes, q).next_sibling]]
    IN  from[Len(blob.tokens)][p]

\* kernel_entry calls print_device_tree when parse_from_blob was successful.
print_device_tree ==
    /\ Running /\ bump_status = "running"
    /\ pc = "done" /\ result = <<"SUCCESS">>
    /\ pc' = "printed"
    /\ printed' = IF initialized THEN Listing(root) ELSE <<>>
    /\ UNCHANGED <<blob, offset, current, reserved_regions, nodes, properties, root, granted,
                   status, result, frames, stores, initialized, bump_vars>>

\* After the last step, after a failure, and when the kernel has stopped.
Finished ==
    \/ ~Running \/ bump_status # "running" \/ pc = "printed"
    \/ pc = "done" /\ result # <<"SUCCESS">>

Spin == Finished /\ UNCHANGED vars

RewriteInit ==
    /\ Init /\ B!Init
    /\ frames = <<>> /\ stores = <<>> /\ initialized = FALSE /\ printed = <<>>

Next ==
    \/ Parse /\ UNCHANGED <<rewrite_vars, bump_vars>>
    \/ Rewrite
    \/ print_device_tree
    \/ Spin

\* One hart runs the parser to its end: nothing else runs, and no interrupt
\* is enabled before it returns.
Spec == RewriteInit /\ [][Next]_vars /\ WF_vars(Next)
----------------------------------------------------------------------------
\* What the tokens of the blob say, without stacks or pointers.
PropertyTokens == {k \in Kinds("PROP") : OpenAfter(k) # <<>>}
Owner(k) == OpenAfter(k)[1]
Outside(n) == OpenAfter(n - 1)

\* The first node, and what is nested in it.
FirstRoot == CHOOSE n \in Kinds("BEGIN_NODE") : \A j \in Kinds("BEGIN_NODE") : n <= j
InTree(n) == n = FirstRoot \/ FirstRoot \in SetOf(Outside(n))

\* The cells a node gives its children: its own property, the first if there
\* are more, or 2 and 1 for the root and none for any other node.
Given(n, name, root_default) ==
    LET ks == {k \in PropertyTokens : Owner(k) = n /\ blob.tokens[k].name = name}
    IN  IF ks # {} THEN blob.tokens[CHOOSE k \in ks : \A j \in ks : k <= j].value.word
        ELSE IF n = FirstRoot THEN root_default ELSE 0

AddressCells(n) == Given(n, "#address-cells", 2)
SizeCells(n) == Given(n, "#size-cells", 1)

\* The bytes of one entry of the array property k.
EntryBytes(k) ==
    LET n     == Owner(k)
        outer == Outside(n)[1]
    IN  IF blob.tokens[k].name = "reg"
        THEN 4 * (AddressCells(outer) + SizeCells(outer))
        ELSE 4 * (AddressCells(n) + AddressCells(outer) + SizeCells(n))

\* The properties as the lists of the nodes lead to them: in an old buffer
\* those that were parsed before their stack grew.
AllProperties ==
    UNION {LET c == Chain(properties, Deref(nodes, ElementAt(nodes, i)).properties, "next_property")
           IN  {Deref(properties, p) : p \in SetOf(c)} : i \in 1 .. nodes.m_size}

\* The names a property's type can have; none is given INTERRUPT_MAP.
PropertyTypes ==
    {"RAW", "COMPATIBLE", "MODEL", "PHANDLE", "STATUS", "ADDRESS_CELLS", "SIZE_CELLS", "REG",
     "VIRTUAL_REG", "DMA_COHERENCE", "DEVICE_TYPE", "RANGES", "INTERRUPT_PARENT",
     "INTERRUPT_CONTROLLER", "INTERRUPT_CELLS", "INTERRUPT_MAP"}

\* The type invariant of the parser's variables (device_tree.cpp:35-166).
TypeOK ==
    /\ pc \in {"header", "reservations", "tokens", "rewrite", "done", "printed"}
    /\ status \in {"running", "panic", "fault", "unreachable"}
    /\ offset \in Nat /\ granted \in 0 .. Memory
    /\ {current, root} \subseteq Pointers
    /\ StackOf([address : Nat, size : Nat], reserved_regions)
    /\ StackOf([token : Tokens, address_cells : 0 .. 3, size_cells : 0 .. 2,
                properties : Pointers, parent : Pointers, children : Pointers,
                next_sibling : Pointers], nodes)
    /\ StackOf([token : Tokens, next_property : Pointers, type : PropertyTypes,
                data : [member : PropertyTypes \cup {"raw"}, value : Nat]], properties)
    /\ \A b \in 1 .. Len(nodes.buffers), i \in 1 .. nodes.m_size :
          i <= Len(nodes.buffers[b]) =>
              LET n == nodes.buffers[b][i]
              IN  /\ \A p \in {n.parent, n.children, n.next_sibling} :
                        p # NULL => PointsInto(nodes, p)
                  /\ n.properties # NULL => PointsInto(properties, n.properties)

\* Every reg and ranges is decoded by the cells of the node the blob has it
\* in and of the node around that, wherever in their lists these stand:
\* ranges by its own node's cells, which must be known by then, and both by
\* those of the parent, which must be rewritten first (device_tree.cpp:352-470).
CellsInherited ==
    NodesFit =>
        \A p \in AllProperties :
            p.type \in {"REG", "RANGES"} =>
                \/ p.data.value * EntryBytes(p.token) = Value(p).len
                \/ p.type = "RANGES" /\ p.data.value = 0 /\ Value(p).len = 0

\* What the arrays are sized for: reg with numbers of one or two cells, and
\* ranges whose parent has no more address cells than the node itself.
Sized(s) ==
    LET n     == Owner(s.token)
        outer == Outside(n)[1]
    IN  CASE s.part = "compatible" -> FALSE
          [] s.part = "address"    -> AddressCells(outer) <= 2
          [] s.part = "pbus"       -> AddressCells(outer) <= AddressCells(n)
          [] OTHER -> TRUE

\* An element is written inside its array and over no other element of it
\* (device_tree.cpp:232-276 and 308-339).
ArraysInBounds ==
    NodesFit =>
        \A i \in 1 .. Len(stores) :
            LET s == stores[i]
            IN  Sized(s) =>
                    /\ s.at + s.width <= s.size
                    /\ \A j \in 1 .. i - 1 :
                          LET t == stores[j]
                          IN  t.token = s.token /\ t.part = s.part => t.at + t.width <= s.at

\* A blob that parses leaves no property of its tree unevaluated: both laps
\* of every node see every property, and every child of every node is
\* visited (device_tree.cpp:352-468).
ExpectedType(name) ==
    CASE name \in DOMAIN FirstLapTypes -> FirstLapTypes[name]
      [] name \in DOMAIN CellTypes     -> CellTypes[name]
      [] name \in DOMAIN ArrayTypes    -> ArrayTypes[name]
      [] name = "compatible"           -> "COMPATIBLE"
      [] OTHER                         -> "RAW"

EveryPropertyRewritten ==
    initialized /\ NodesFit =>
        \A p \in AllProperties :
            InTree(Owner(p.token)) => p.type = ExpectedType(blob.tokens[p.token].name)

\* The nodes and the properties of the tree are printed once each, and a
\* node before what is nested in it (device_tree.cpp:562-669).
PrintedOnce ==
    pc = "printed" /\ NodesFit =>
        LET all == {k \in Kinds("BEGIN_NODE") : InTree(k)}
                       \cup {k \in PropertyTokens : InTree(Owner(k))}
        IN  /\ SetOf(printed) = all /\ Len(printed) = Cardinality(all)
            /\ \A i, j \in 1 .. Len(printed) :
                  printed[i] \in SetOf(OpenAfter(printed[j] - 1)) => i < j

\* A blob that nests one root, whose properties have the lengths their cells
\* ask for.
WellFormed ==
    LET last == Len(blob.tokens) IN
    /\ blob.magic /\ blob.reserved = <<>> /\ Kinds("BEGIN_NODE") # {}
    /\ \A k \in Tokens : blob.tokens[k].kind # "UNKNOWN" /\ (blob.tokens[k].kind = "END" <=> k = last)
    /\ \A k \in Tokens : blob.tokens[k].kind \in {"END_NODE", "PROP"} => OpenAfter(k - 1) # <<>>
    /\ OpenAfter(last) = <<>>
    /\ {n \in Kinds("BEGIN_NODE") : Outside(n) = <<>>} = {FirstRoot}
    /\ \A k \in PropertyTokens :
          LET t == blob.tokens[k] IN
          /\ t.name = "#address-cells" => t.value.word <= 3
          /\ t.name = "#size-cells" => t.value.word <= 2
          /\ t.name \in DOMAIN ArrayTypes /\ t.value.len > 0 =>
                /\ Owner(k) # FirstRoot
                /\ EntryBytes(k) > 0 /\ t.value.len % EntryBytes(k) = 0
                /\ t.name = "reg" \/ (AddressCells(Owner(k)) > 0
                                       /\ AddressCells(Outside(Owner(k))[1]) > 0)
          /\ t.name = "reg" => t.value.len > 0

\* Such a blob is parsed to its end and printed, unless the manager refuses
\* memory (device_tree.cpp:478-560 and 658-669).
WellFormedIsParsed ==
    WellFormed /\ NodesFit => <>(pc = "printed" \/ refused)

\* device_tree.cpp:90-91: the list of strings for driver selection is
\* "Null-terminated": the last write to its terminator is that of the list.
CompatibleTerminated ==
    \A i \in 1 .. Len(stores) :
        LET s == stores[i] IN
        s.part = "compatible" /\ s.at = STR_VIEW_SZ * Value(s).nuls =>
            \A j \in i + 1 .. Len(stores) :
                LET t == stores[j] IN
                \/ t.base + t.at + t.width <= s.base + s.at
                \/ s.base + s.at + s.width <= t.base + t.at

\* device_tree.cpp:84-85: the type of a property tells what its data holds,
\* "The property specific type specific data".
StatusIsKnown ==
    \A p \in AllProperties : p.type = "STATUS" => p.data.member = "STATUS"
=============================================================================
