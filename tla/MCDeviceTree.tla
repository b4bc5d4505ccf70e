---------------------------- MODULE MCDeviceTree ----------------------------
(***************************************************************************)
(* TLC instances of DeviceTreeRewrite.  Pages of 64 bytes hold four nodes  *)
(* or two properties, so that the stack of properties grows early and the  *)
(* stack of nodes with the fifth.                                          *)
(***************************************************************************)
EXTENDS DeviceTreeRewrite

Begin == [kind |-> "BEGIN_NODE", len |-> 4]
Leave == [kind |-> "END_NODE"]
Pad   == [kind |-> "NOP"]
Stray == [kind |-> "UNKNOWN"]
Last_ == [kind |-> "END"]

Prop(name, len, word, nuls, text) ==
    [kind |-> "PROP", name |-> name,
     value |-> [len |-> len, word |-> word, nuls |-> nuls, text |-> text]]

Cell(name, word)  == Prop(name, 4, word, 3, "")
Bytes(name, len)  == Prop(name, len, 1, 0, "")
Strings(n)        == Prop("compatible", 5 * n, 1, n, "")
Status(text)      == Prop("status", Len(text) + 1, 1, 1, text)

Blob(tokens) == [magic |-> TRUE, reserved |-> <<>>, tokens |-> Append(tokens, Last_)]

\* Every string of up to five tokens.
Strings5 == UNION {[1 .. n -> {Begin, Leave, Pad, Stray, Bytes("other", 3)}] : n \in 0 .. 5}
Nestings == {Blob(t) : t \in Strings5}

\* A root, a node in it and a node in that, each with its properties.
Nested(p, q, r) ==
    Blob(<<Begin>> \o p \o <<Begin>> \o q \o <<Begin>> \o r \o <<Leave, Leave, Leave>>)

Both(a, s) == <<Cell("#address-cells", a), Cell("#size-cells", s)>>

RootCells == {<<>>, Both(1, 1), Both(2, 2), Both(3, 2), Both(0, 0),
              <<Cell("#address-cells", 4)>>, <<Cell("#size-cells", 3)>>}
BusCells == {<<>>, Both(1, 1), Both(2, 1), Both(3, 2), Both(0, 1)}
BusArrays == {<<>>, <<Strings(1)>>, <<Strings(5)>>, <<Bytes("reg", 0)>>, <<Bytes("reg", 12)>>,
              <<Bytes("reg", 24)>>, <<Bytes("ranges", 0)>>, <<Bytes("ranges", 16)>>,
              <<Bytes("bus-ranges", 24)>>, <<Strings(2), Bytes("reg", 16)>>}
DeviceArrays == {<<>>, <<Bytes("reg", 8)>>, <<Strings(1), Bytes("reg", 12)>>,
                 <<Bytes("reg", 24), Status("okay")>>}

Buses == {Nested(p, q, r) :
             p \in RootCells, r \in DeviceArrays,
             q \in UNION {{c \o a, a \o c} : c \in BusCells, a \in BusArrays}}

\* Names that are told apart by what is done for them.
OtherNames == {"model", "phandle", "device_type", "dma-coherent", "dma-noncoherent",
               "virtual-reg", "interrupt-parent", "#interrupt-cells", "interrupt-controller",
               "interrupts", "other"}
Named == {Nested(<<Cell(n, 1)>>, <<Cell("other", 1), Cell(m, 2)>>, <<>>) :
             n, m \in OtherNames}
Statuses == {Nested(<<>>, <<Status(t)>>, <<Status(u)>>) :
                t, u \in {"okay", "disabled", "fail", "fail-late"}}
RootArrays == {Nested(<<Bytes(n, 12)>>, <<>>, <<>>) : n \in {"reg", "ranges"}}

\* Two nodes in a root, each with properties of both laps.
Siblings == {Blob(<<Begin>> \o c \o <<Begin, Cell("phandle", 1), Bytes("reg", 12), Leave,
                    Begin, Bytes("reg", 12), Strings(1), Leave, Leave>>) :
                c \in {<<>>, Both(1, 2)}}

\* Five and six nodes, deep and wide: the stack of the nodes grows.
Large == {Blob(<<Begin, Begin, Begin, Begin, Begin>> \o t) :
             t \in {<<Leave, Leave, Leave, Leave, Leave>>,
                    <<Begin, Leave, Leave, Leave, Leave, Leave, Leave>>,
                    <<Leave, Begin, Bytes("other", 3), Leave, Leave, Leave, Leave, Leave>>}}
         \cup {Blob(<<Begin>> \o <<Begin, Leave, Begin, Leave, Begin, Leave, Begin, Leave,
                      Begin, Leave, Leave>>)}

\* The other ways in: no magic number, reserved memory, an entry that ends
\* the map although its address is not zero.
Reserving == {[magic |-> m, reserved |-> <<[address |-> a, size |-> n]>>,
               tokens |-> <<Begin, Leave, Last_>>] : m \in BOOLEAN, a, n \in {0, 16}}
             \cup {[magic |-> FALSE, reserved |-> <<>>, tokens |-> <<Begin, Leave, Last_>>]}

MCBlobs ==
    UNION {Nestings, Buses, Named, Statuses, RootArrays, Siblings, Large, Reserving}
MCBumpMemory == {[base |-> 64, size |-> 192]}
=============================================================================
