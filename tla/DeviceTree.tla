----------------------------- MODULE DeviceTree -----------------------------
(***************************************************************************)
(* parse_from_blob of kernel/src/devices/device_tree.cpp, up to the point  *)
(* where the properties are rewritten: the header, the reservation map and *)
(* the structure tokens, which become nodes and properties in two stacks,  *)
(* linked by pointers into whatever buffer the stack had at the time.      *)
(*                                                                         *)
(* A blob is what the boot loader hands over: whether its magic number is  *)
(* right, the entries of its reservation map and its tokens.  A node and a *)
(* property are known by the index of the token they come from.            *)
(***************************************************************************)
EXTENDS Stack, FiniteSets

CONSTANTS
    Blobs,          \* records [magic, reserved, tokens]
    NODE_SZ, PROPERTY_SZ, RESERVED_SZ,    \* sizeof the elements of the stacks
    Memory          \* the bytes the physical memory manager has for stacks

ASSUME DeviceTreeAssumption ==
    /\ PAGE_SIZE \in Word /\ Memory \in Nat
    /\ 2 * (Memory + 2 * PAGE_SIZE) <= WORD    \* an address has 56 bits, a word 64
    /\ {NODE_SZ, PROPERTY_SZ, RESERVED_SZ} \subseteq 1 .. PAGE_SIZE
    /\ \A b \in Blobs : b.magic \in BOOLEAN

\* The structure block has an END token, the lengths in it are those of names
\* and values in memory, and a value is a number where it is read as one, and
\* the terminators in it are counted where it is a list of strings.
ASSUME BlobAssumption ==
    \A b \in Blobs :
        /\ Len(b.tokens) \in Nat /\ DOMAIN b.tokens = 1 .. Len(b.tokens)
        /\ b.reserved # <<>> => b.reserved[1] \in [address : Nat, size : Nat]
        /\ \E k \in 1 .. Len(b.tokens) : b.tokens[k].kind = "END"
        /\ \A k \in 1 .. Len(b.tokens) :
              /\ b.tokens[k].kind = "BEGIN_NODE" =>
                    b.tokens[k].len \in Nat /\ b.tokens[k].len + 4 < WORD
              /\ b.tokens[k].kind = "PROP" =>
                    /\ b.tokens[k].value.len \in Nat /\ b.tokens[k].value.len + 4 < WORD
                    /\ b.tokens[k].value.word \in Nat /\ b.tokens[k].value.nuls \in Nat

VARIABLES
    blob, pc,
    offset,                                  \* into the structure block
    current,                                 \* the innermost open node
    reserved_regions, nodes, properties,     \* the stacks
    root,
    granted,                                 \* bytes granted to stacks
    status,      \* "running", or how the kernel stopped
    result       \* the codes of the returned error, the latest first

parse_vars == <<blob, pc, offset, current, reserved_regions, nodes, properties, root,
                granted, status, result>>

----------------------------------------------------------------------------
\* The encoding of the structure block (Devicetree Specification 5.4.1): each
\* token is a word, and what follows it is padded to whole words.
Padded(n) == 4 * ((n + 3) \div 4)

EncodedSize(t) ==
    CASE t.kind = "BEGIN_NODE" -> 4 + Padded(t.len + 1)
      [] t.kind = "PROP"       -> 12 + Padded(t.value.len)
      [] OTHER                 -> 4

Tokens == DOMAIN blob.tokens

\* Where token k starts: behind those before it.
Start(k) == SumTo([j \in Tokens |-> EncodedSize(blob.tokens[j])], k - 1)

----------------------------------------------------------------------------
Init ==
    /\ blob \in Blobs
    /\ pc = "header" /\ offset = 0
    /\ current = NULL /\ root = NULL
    /\ reserved_regions = EmptyStack /\ nodes = EmptyStack /\ properties = EmptyStack
    /\ granted = 0 /\ status = "running" /\ result = <<>>

Running == status = "running"

Stop(how) ==
    /\ status' = how
    /\ UNCHANGED <<blob, pc, offset, current, reserved_regions, nodes, properties, root,
                   granted, result>>

\* The magic number is the first thing looked at.
Header ==
    /\ Running /\ pc = "header"
    /\ IF blob.magic
       THEN pc' = "reservations" /\ UNCHANGED result
       ELSE pc' = "done" /\ result' = <<"DT_MAGIC_NUMBER">>
    /\ UNCHANGED <<blob, offset, current, reserved_regions, nodes, properties, root,
                   granted, status>>

\* pmm::alloc_noerr grants what a growing stack asks for, or stops the kernel.
Affordable(s, size_of) == granted + Wanted(s, size_of) <= Memory
Grant(s, size_of) == granted' = granted + Wanted(s, size_of)

\* The entry looked at is always the first.
ReservedEntry ==
    /\ blob.reserved # <<>>
    /\ blob.reserved[1].address # 0 /\ blob.reserved[1].size # 0

Reservation ==
    /\ Running /\ pc = "reservations"
    /\ ReservedEntry
    /\ IF Affordable(reserved_regions, RESERVED_SZ)
       THEN /\ reserved_regions' =
                   EmplaceBack(reserved_regions, RESERVED_SZ, blob.reserved[1])
            /\ Grant(reserved_regions, RESERVED_SZ)
            /\ UNCHANGED <<blob, pc, offset, current, nodes, properties, root, status, result>>
       ELSE Stop("panic")

ReservationsEnd ==
    /\ Running /\ pc = "reservations"
    /\ ~ReservedEntry
    /\ pc' = "tokens"
    /\ UNCHANGED <<blob, offset, current, reserved_regions, nodes, properties, root,
                   granted, status, result>>

----------------------------------------------------------------------------
\* Token k is the one read, and the assert on the alignment has let it pass.
Reads(k, kind) ==
    /\ Running /\ pc = "tokens"
    /\ IsAligned(offset, 4)
    /\ Start(k) = offset
    /\ blob.tokens[k].kind = kind

Node(k) == [token |-> k, address_cells |-> 0, size_cells |-> 0, properties |-> NULL,
            parent |-> current, children |-> NULL, next_sibling |-> NULL]

\* Mutant: the new child replaces its siblings.
Linked_Alone(s, p) == Assign(s, current, [Deref(s, current) EXCEPT !.children = p])

\* The new node p becomes the first child of the current one.
Linked(s, p) ==
    LET t == Assign(s, p, [Deref(s, p) EXCEPT !.next_sibling = Deref(s, current).children])
    IN  Assign(t, current, [Deref(t, current) EXCEPT !.children = p])

\* Mutant: the terminator of the name is not counted.
NameEnd_NoTerminator(o, len) == o + AlignUp(len, 4)

\* The offset behind a name that starts at o.
NameEnd(o, len) == o + AlignUp(len + 1, 4)

parse_node(k) ==
    /\ Reads(k, "BEGIN_NODE")
    /\ IF Affordable(nodes, NODE_SZ)
       THEN LET s == EmplaceBack(nodes, NODE_SZ, Node(k))
            IN  /\ nodes' = IF current = NULL THEN s ELSE Linked(s, Last(s))
                /\ current' = Last(s)
                /\ Grant(nodes, NODE_SZ)
                /\ offset' = NameEnd(offset + 4, blob.tokens[k].len)
                /\ UNCHANGED <<blob, pc, reserved_regions, properties, root, status, result>>
       ELSE Stop("panic")

\* Mutant: back to the root instead of the parent.
Outer_Root == IF Deref(nodes, current).parent = NULL THEN NULL ELSE ElementAt(nodes, 1)

Outer == Deref(nodes, current).parent

\* The parent of a null node is read like any other.
EndNode(k) ==
    /\ Reads(k, "END_NODE")
    /\ IF current = NULL
       THEN Stop("fault")
       ELSE /\ current' = Outer
            /\ offset' = offset + 4
            /\ UNCHANGED <<blob, pc, reserved_regions, nodes, properties, root, granted,
                           status, result>>

\* The name and the length are known by the token; data names the member of
\* the union that was last assigned, and its value.
Property(k, next) ==
    [token |-> k, next_property |-> next, type |-> "RAW",
     data |-> [member |-> "raw", value |-> blob.tokens[k].value.len]]

pre_parse_property(k) ==
    /\ Reads(k, "PROP")
    /\ CASE ~Affordable(properties, PROPERTY_SZ) -> Stop("panic")
         [] Affordable(properties, PROPERTY_SZ) /\ current = NULL -> Stop("fault")
         [] OTHER ->
              LET n == Deref(nodes, current)
                  s == EmplaceBack(properties, PROPERTY_SZ, Property(k, n.properties))
              IN  /\ properties' = s
                  /\ nodes' = Assign(nodes, current, [n EXCEPT !.properties = Last(s)])
                  /\ Grant(properties, PROPERTY_SZ)
                  /\ offset' = offset + 12 + AlignUp(blob.tokens[k].value.len, 4)
                  /\ UNCHANGED <<blob, pc, current, reserved_regions, root, status, result>>

\* Mutant: the word of the token is not stepped over.
Nop_Stays(k) == Reads(k, "NOP") /\ UNCHANGED parse_vars

Nop(k) ==
    /\ Reads(k, "NOP")
    /\ offset' = offset + 4
    /\ UNCHANGED <<blob, pc, current, reserved_regions, nodes, properties, root, granted,
                   status, result>>

Unknown(k) == Reads(k, "UNKNOWN") /\ Stop("panic")

\* The root is the first node of the buffer the stack has now.
End(k) ==
    /\ Reads(k, "END")
    /\ CASE current # NULL -> Stop("panic")
         [] current = NULL /\ nodes.m_size = 0 ->
              /\ pc' = "done" /\ result' = <<"DT_NO_NODES">>
              /\ offset' = offset + 4
              /\ UNCHANGED <<blob, current, reserved_regions, nodes, properties, root,
                             granted, status>>
         [] OTHER ->
              /\ root' = ElementAt(nodes, 1)
              /\ nodes' = Assign(nodes, ElementAt(nodes, 1),
                                 [Deref(nodes, ElementAt(nodes, 1)) EXCEPT
                                     !.address_cells = 2, !.size_cells = 1])
              /\ pc' = "rewrite"
              /\ offset' = offset + 4
              /\ UNCHANGED <<blob, current, reserved_regions, properties, granted, status,
                             result>>

Token ==
    \E k \in Tokens :
        parse_node(k) \/ EndNode(k) \/ pre_parse_property(k) \/ Nop(k) \/ Unknown(k) \/ End(k)

Parse == Header \/ Reservation \/ ReservationsEnd \/ Token

----------------------------------------------------------------------------
Pointers == [buffer : Nat, index : Nat]

\* The pointers of a linked list that starts at p, in its order.  It is
\* followed no further than the blob has tokens: a list that were longer
\* would go round in circles.
Chain(s, p, link) ==
    LET from[n \in 0 .. Len(blob.tokens)] ==
            [q \in Pointers |-> IF n = 0 \/ q = NULL THEN <<>>
                                ELSE <<q>> \o from[n - 1][Deref(s, q)[link]]]
    IN  from[Len(blob.tokens)][p]

\* The tokens of the elements of such a list.
TokensOf(s, p, link) ==
    LET c == Chain(s, p, link) IN [i \in 1 .. Len(c) |-> Deref(s, c[i]).token]

SetOf(list) == {list[i] : i \in 1 .. Len(list)}

Kinds(kind) == {k \in Tokens : blob.tokens[k].kind = kind}

Read == {k \in Tokens : Start(k) < offset}

\* The nodes that are open after the first k tokens, the innermost first.
OpenAfter(k) ==
    LET open[j \in 0 .. k] ==
            IF j = 0 THEN <<>>
            ELSE CASE blob.tokens[j].kind = "BEGIN_NODE" -> <<j>> \o open[j - 1]
                   [] blob.tokens[j].kind = "END_NODE" /\ open[j - 1] # <<>> -> Tail(open[j - 1])
                   [] OTHER -> open[j - 1]
    IN  open[k]

\* The parser stands at the start of a token, the alignment its assert asks
\* for, whatever the lengths of the names and values it has stepped over
\* (device_tree.cpp:507-511, 175, 181 and 194).
OffsetsInStep ==
    pc = "tokens" => IsAligned(offset, 4) /\ \E k \in Tokens : Start(k) = offset

\* The chain of parents of the current node is the nodes the blob has opened
\* and not closed, although a growth of the stack leaves the chain in buffers
\* that were given back (device_tree.cpp:172-180 and 517-518, stack.h:85-94).
OpenNodes ==
    pc = "tokens" => TokensOf(nodes, current, "parent") = OpenAfter(Cardinality(Read))

\* The nodes fit in the first buffer of their stack.
NodesFit == Cardinality(Kinds("BEGIN_NODE")) <= FirstCapacity(NODE_SZ)

\* The tree the two stacks hold, while the nodes fit in one buffer.  A node
\* that is in the stack is found there by its position.
NodeAt(k) == CHOOSE i \in 1 .. nodes.m_size : Deref(nodes, ElementAt(nodes, i)).token = k
TheNode(k) == Deref(nodes, ElementAt(nodes, NodeAt(k)))
Parsed == Kinds("BEGIN_NODE") \cap Read

TreeChildren ==
    IF NodesFit
    THEN [k \in Parsed |-> SetOf(TokensOf(nodes, TheNode(k).children, "next_sibling"))]
    ELSE <<>>

TreeOwned ==
    IF NodesFit
    THEN [k \in Parsed |-> SetOf(TokensOf(properties, TheNode(k).properties, "next_property"))]
    ELSE <<>>

TreePath == IF NodesFit THEN TokensOf(nodes, current, "parent") ELSE <<>>

Tree == INSTANCE NodeTree WITH
    children <- TreeChildren, owned <- TreeOwned, path <- TreePath

\* While its nodes fit in one buffer the parser builds the tree the blob
\* nests: no node or property is lost or moves, although the stack of the
\* properties may grow (device_tree.cpp:168-200).
Implements == Tree!Spec
=============================================================================
