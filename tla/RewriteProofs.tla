---------------------------- MODULE RewriteProofs ----------------------------
(***************************************************************************)
(* Proofs about what the rewritten tree is used for, for every blob whose  *)
(* nodes fit in one buffer: an element of an array that                    *)
(* recursive_property_rewrite fills is written inside its array and over   *)
(* no other one, and print_device_tree prints each node and property once. *)
(*                                                                         *)
(* Two things keep the elements apart.  The entries are counted by the     *)
(* cells that size the numbers, which DeviceTreeProofs knows to be those   *)
(* of the blob.  And no property is decoded twice: what is still ahead of  *)
(* a call, and all that is nested in the children still ahead, has no      *)
(* elements yet, and the calls around it are ahead of none of that (Ahead).*)
(*                                                                         *)
(* What is printed from a node on is that node, its elder siblings and all *)
(* that is nested in any of them (SpanOf), which the node's own line, its  *)
(* children and its next sibling divide among them (SpanSplits).           *)
(***************************************************************************)
EXTENDS DeviceTreeProofs

----------------------------------------------------------------------------
\* The arrays: what is still ahead of the calls has none yet.

All == Len(blob.tokens)

Unwritten(y) == ForArrays(y) => \A i \in 1 .. Len(stores) : stores[i].token # y

Within(d, c) == d = c \/ Inside(d, c)
UnwrittenIn(c) == \A y \in OwnedTo(All) : Within(Owner(y), c) => Unwritten(y)

\* The node of a call, and the token it stands at.
NodeOf(f) == Deref(nodes, f.node).token
PlaceOf(f) ==
    IF f.at = NULL THEN 0
    ELSE IF f.lap = "children" THEN Deref(nodes, f.at).token ELSE Deref(properties, f.at).token

\* The pointers of a call lead somewhere.
Placed(f) ==
    /\ PointsInto(nodes, f.node)
    /\ f.at = NULL \/ (IF f.lap = "children" THEN PointsInto(nodes, f.at)
                                             ELSE PointsInto(properties, f.at))

\* The array properties and the children that are still ahead of a call.
PropsAhead(f) ==
    \A y \in OwnedTo(All) :
        Owner(y) = NodeOf(f) /\ (f.lap = "first" \/ (f.lap = "second" /\ y <= PlaceOf(f)))
        => Unwritten(y)
KidsAhead(f) == {c \in Kids(NodeOf(f), All) : f.lap = "children" => c <= PlaceOf(f)}

FrameAhead(f) == PropsAhead(f) /\ \A c \in KidsAhead(f) : UnwrittenIn(c)

\* No call is for a node that is ahead of another.
Apart(f, g) == \A c \in KidsAhead(g) : ~Within(NodeOf(f), c)

Ahead ==
    /\ \A i \in 1 .. Len(frames) : FrameAhead(frames[i])
    /\ \A i, j \in 1 .. Len(frames) : i < j => Apart(frames[i], frames[j])

AheadInv ==
    /\ \E S : stores \in Seq(S)
    /\ pc \in {"header", "reservations", "tokens"} \/ (pc = "rewrite" /\ frames = <<>>)
       => stores = <<>>
    /\ pc = "rewrite" => Ahead

\* Where the lists stay, a call is where it was.
LEMMA PlacesKept ==
    ASSUME Quiet, NEW f, Placed(f)
    PROVE  /\ NodeOf(f)' = NodeOf(f) /\ PlaceOf(f)' = PlaceOf(f)
           /\ KidsAhead(f)' = KidsAhead(f)
<1>1. PICK p, q, l : p = f.node /\ q = f.at /\ l = f.lap
  OBVIOUS
<1>2. Deref(nodes', p).token = Deref(nodes, p).token
  BY <1>1 DEF Quiet, NodesSame, SameLinks, Placed
<1>3. NodeOf(f)' = NodeOf(f)
  BY <1>1, <1>2 DEF NodeOf
<1>4. PlaceOf(f)' = PlaceOf(f)
  <2>1. CASE q = NULL
    BY <1>1, <2>1 DEF PlaceOf
  <2>2. CASE q # NULL /\ l = "children"
    <3>1. Deref(nodes', q).token = Deref(nodes, q).token
      BY <1>1, <2>2 DEF Quiet, NodesSame, SameLinks, Placed
    <3> QED
      BY <1>1, <2>2, <3>1 DEF PlaceOf
  <2>3. CASE q # NULL /\ l # "children"
    <3>1. Deref(properties', q).token = Deref(properties, q).token
      BY <1>1, <2>3 DEF Quiet, PropertiesSame, Placed
    <3> QED
      BY <1>1, <2>3, <3>1 DEF PlaceOf
  <2> QED
    BY <2>1, <2>2, <2>3
<1>5. KidsAhead(f)' = KidsAhead(f)
  <2>1. blob' = blob
    BY DEF Quiet
  <2>2. All' = All /\ \A t : Kids(t, All)' = Kids(t, All)
    BY <2>1, BlobStays DEF All
  <2> QED
    BY <1>3, <1>4, <2>2 DEF KidsAhead
<1> QED
  BY <1>3, <1>4, <1>5

\* The calls of the walk are for its nodes.
LEMMA CallsPlaced ==
    ASSUME NEW m \in Nat, NEW N, NEW W, NEW T, NEW X, NEW D, Walk(m, N, W, T, X, D),
           Shape(m, N, W), NEW i \in 1 .. Len(frames)
    PROVE  /\ Placed(frames[i]) /\ NodeOf(frames[i]) = T[i] /\ T[i] \in NodesTo(m)
           /\ i # 1 => frames[i].lap = "children"
<1>1. PICK f, t, b, up : f = frames[i] /\ t = T[i] /\ b = X[i] /\ up = Called(T, i)
  OBVIOUS
<1>2. f.node = N[t] /\ FrameIs(m, N, W, D, f.lap, f.at, t, b, up) /\ (i # 1 => f.lap = "children")
  BY <1>1 DEF Walk, CallIs
<1>3. t \in NodesTo(m) /\ PointsInto(nodes, f.node) /\ Deref(nodes, f.node).token = t
  BY <1>2 DEF FrameIs, Shape, NodesAt
<1>4. b \in 0 .. m /\ Props(t, b) \subseteq OwnedTo(m) /\ Kids(t, b) \subseteq NodesTo(m)
  BY <1>2 DEF FrameIs, Props, Kids, OwnedTo, NodesTo
<1>5. CASE f.lap = "children"
  <2>1. f.at = NULL \/ \E c \in NodesTo(m) : f.at = N[c]
    BY <1>2, <1>4, <1>5 DEF FrameIs, Leads
  <2> QED
    BY <1>1, <1>2, <1>3, <1>5, <2>1 DEF Placed, NodeOf, Shape, NodesAt
<1>6. CASE f.lap # "children"
  <2>1. f.at = NULL \/ \E y \in OwnedTo(m) : f.at = W[y]
    BY <1>2, <1>4, <1>6 DEF FrameIs, Leads
  <2> QED
    BY <1>1, <1>2, <1>3, <1>6, <2>1 DEF Placed, NodeOf, Shape, PropertiesAt
<1> QED
  BY <1>5, <1>6

\* What is nested in a child of a node is not the node.
LEMMA NotWithin ==
    ASSUME NEW n \in Nat, NEW t, NEW c \in Kids(t, n)
    PROVE  ~Within(t, c) /\ t \in Nat /\ c \in Nat /\ t < c
<1>1. c \in Nat \ {0} /\ Child(c, t)
  BY DEF Kids
<1>2. t \in 1 .. c - 1
  BY <1>1, ChildIs
<1>3. t \in Nat /\ t - 1 \in Nat /\ t < c
  BY <1>1, <1>2
<1>4. ASSUME Inside(t, c) PROVE FALSE
  <2>1. c \in OpenSet(t - 1)
    BY <1>4 DEF Inside, OpenSet, Outside
  <2>2. c \in 1 .. t - 1
    BY <1>3, <2>1, OpenOnesAre DEF OpenOnes
  <2> QED
    BY <1>1, <1>3, <2>2
<1> QED
  BY <1>1, <1>3, <1>4 DEF Within

\* The innermost call moves, and writes at most what is its node's.
LEMMA AheadGoesOn ==
    ASSUME NEW m \in Nat, NEW N, NEW W, NEW T, NEW X, NEW D, Walk(m, N, W, T, X, D),
           Shape(m, N, W), All \in Nat, Ahead, Quiet, NEW g, Placed(g), NodeOf(g) = NodeOf(Top),
           frames' = [frames EXCEPT ![1] = g], KidsAhead(g) \subseteq KidsAhead(Top),
           \A y \in OwnedTo(All) : Unwritten(y) => Unwritten(y)' \/ Owner(y) = NodeOf(Top),
           PropsAhead(g)'
    PROVE  Ahead'
<1>1. PICK S : frames \in Seq(S)
  BY DEF Walk, AreFrames
<1>2. PICK n \in Nat : n = Len(frames) /\ 1 \in 1 .. n
  BY FramesAre DEF Walk
<1>3. /\ Len(frames') = n /\ frames'[1] = g
      /\ \A i \in 1 .. n : i # 1 => frames'[i] = frames[i]
  BY <1>1, <1>2
<1>4. Top = frames[1]
  BY DEF Top
<1>5. blob' = blob
  BY DEF Quiet
<1>6. /\ OwnedTo(All)' = OwnedTo(All) /\ \A y : Owner(y)' = Owner(y)
      /\ \A d, c : Within(d, c)' = Within(d, c)
  <2>1. \A d, c : Inside(d, c)' = Inside(d, c)
    BY <1>5, BlobStays DEF Inside
  <2> QED
    BY <1>5, <2>1, BlobStays DEF All, Within
<1>7. ASSUME NEW c, UnwrittenIn(c), ~Within(NodeOf(Top), c) PROVE UnwrittenIn(c)'
  BY <1>6, <1>7 DEF UnwrittenIn
<1>8. \A c \in KidsAhead(Top) : ~Within(NodeOf(Top), c)
  BY NotWithin DEF KidsAhead
<1>9. FrameAhead(g)'
  <2>1. \A c \in KidsAhead(Top) : UnwrittenIn(c)
    BY <1>2, <1>4 DEF Ahead, FrameAhead
  <2>2. KidsAhead(g)' = KidsAhead(g)
    BY PlacesKept
  <2> QED
    BY <1>7, <1>8, <2>1, <2>2 DEF FrameAhead
<1>10. ASSUME NEW i \in 1 .. n, i # 1
       PROVE  FrameAhead(frames[i])' /\ KidsAhead(frames[i])' = KidsAhead(frames[i])
  <2>1. PICK f : f = frames[i]
    OBVIOUS
  <2>2. Placed(f) /\ f.lap = "children" /\ f = frames'[i]
    BY <1>2, <1>3, <1>10, <2>1, CallsPlaced
  <2>3. KidsAhead(f)' = KidsAhead(f)
    BY <2>2, PlacesKept
  <2>4. \A c \in KidsAhead(f) : UnwrittenIn(c) /\ ~Within(NodeOf(Top), c)
    <3>1. 1 < i
      BY <1>10
    <3> QED
      BY <1>2, <1>4, <2>1, <3>1 DEF Ahead, FrameAhead, Apart
  <2>5. PropsAhead(f)'
    BY <2>2 DEF PropsAhead
  <2>6. FrameAhead(f)'
    BY <1>7, <2>3, <2>4, <2>5 DEF FrameAhead
  <2> QED
    BY <2>1, <2>2, <2>3, <2>6
<1>11. ASSUME NEW i \in 1 .. n, NEW j \in 1 .. n, i < j PROVE Apart(frames[i], frames[j])'
  <2>1. PICK f, h, k : f = frames'[i] /\ h = frames'[j] /\ k = frames[j]
    OBVIOUS
  <2>2. j # 1 /\ h = k
    BY <1>3, <1>11, <2>1
  <2>9. KidsAhead(h)' = KidsAhead(k)
    BY <1>10, <2>1, <2>2
  <2>3. PICK e : e = frames[i]
    OBVIOUS
  <2>4. NodeOf(f)' = NodeOf(e)
    <3>1. CASE i = 1
      <4>1. f = g /\ e = Top
        BY <1>3, <1>4, <2>1, <2>3, <3>1
      <4> QED
        BY <4>1, PlacesKept
    <3>2. CASE i # 1
      <4>1. f = e /\ Placed(e)
        BY <1>2, <1>3, <2>1, <2>3, <3>2, CallsPlaced
      <4> QED
        BY <4>1, PlacesKept
    <3> QED
      BY <3>1, <3>2
  <2>5. Apart(e, k)
    BY <1>2, <1>11, <2>1, <2>3 DEF Ahead
  <2>6. PICK t : t = NodeOf(e)
    OBVIOUS
  <2>7. \A c \in KidsAhead(k) : ~Within(t, c)'
    BY <1>6, <2>5, <2>6 DEF Apart
  <2>8. Apart(f, h)'
    BY <2>4, <2>6, <2>7, <2>9 DEF Apart
  <2> QED
    BY <2>1, <2>8
<1> QED
  BY <1>2, <1>3, <1>9, <1>10, <1>11 DEF Ahead

\* What is unwritten stays where nothing of it is written.
LEMMA UnwrittenStays ==
    ASSUME UNCHANGED <<blob, stores>>
    PROVE  \A y : Unwritten(y)' = Unwritten(y)
<1>1. \A y : ForArrays(y)' = ForArrays(y)
  BY DEF ForArrays
<1> QED
  BY <1>1 DEF Unwritten

\* The elements written are those, of the property x.
Adds(x, new) ==
    /\ \E S : new \in Seq(S)
    /\ \A j \in 1 .. Len(new) : new[j].token = x
    /\ stores' = stores \o new

LEMMA AddedTo ==
    ASSUME NEW S, stores \in Seq(S), NEW x, NEW new, Adds(x, new), UNCHANGED blob
    PROVE  /\ \E R : stores' \in Seq(R)
           /\ \A y : Unwritten(y) /\ (y # x \/ ~ForArrays(x)) => Unwritten(y)'
<1>1. PICK Q : /\ new \in Seq(Q) /\ stores' = stores \o new
               /\ \A j \in 1 .. Len(new) : new[j].token = x
  BY DEF Adds
<1>2. PICK R, old, all : R = S \cup Q /\ old = stores /\ all = old \o new
  OBVIOUS
<1>3. old \in Seq(R) /\ new \in Seq(R)
  BY <1>1, <1>2
<1>4. /\ all \in Seq(R) /\ Len(all) = Len(old) + Len(new) /\ Len(old) \in Nat /\ Len(new) \in Nat
      /\ \A i \in 1 .. Len(all) : all[i] = IF i <= Len(old) THEN old[i] ELSE new[i - Len(old)]
  BY <1>2, <1>3
<1>5. stores' = all
  BY <1>1, <1>2
<1>6. ASSUME NEW i \in 1 .. Len(all), all[i].token # x
      PROVE  \E j \in 1 .. Len(old) : old[j] = all[i]
  <2>1. CASE i <= Len(old)
    BY <1>4, <2>1
  <2>2. CASE ~(i <= Len(old))
    <3>1. i - Len(old) \in 1 .. Len(new)
      BY <1>4, <2>2
    <3> QED
      BY <1>1, <1>4, <1>6, <2>2, <3>1
  <2> QED
    BY <2>1, <2>2
<1>7. \A y : ForArrays(y)' = ForArrays(y)
  BY DEF ForArrays
<1>8. ASSUME NEW y, Unwritten(y), y # x \/ ~ForArrays(x), ForArrays(y),
             NEW i \in 1 .. Len(all)
      PROVE  all[i].token # y
  BY <1>2, <1>6, <1>8 DEF Unwritten
<1>9. ASSUME NEW y, Unwritten(y), y # x \/ ~ForArrays(x) PROVE Unwritten(y)'
  BY <1>5, <1>7, <1>8, <1>9, Zenon DEF Unwritten
<1> QED
  BY <1>4, <1>5, <1>9

\* The innermost call stays where it is, or is given arrays.
LEMMA AheadStays ==
    ASSUME NEW m \in Nat, NEW N, NEW W, NEW T, NEW X, NEW D, Walk(m, N, W, T, X, D),
           Shape(m, N, W), All \in Nat, Ahead, Quiet, UNCHANGED stores,
           frames' = frames \/ \E x : frames' = [frames EXCEPT ![1].arrays = Append(@, x)]
    PROVE  Ahead'
<1>1. PICK S : frames \in Seq(S)
  BY DEF Walk, AreFrames
<1>2. 1 \in 1 .. Len(frames) /\ Top = frames[1]
  BY FramesAre DEF Walk, Top
<1>3. PICK g : /\ g.node = Top.node /\ g.lap = Top.lap /\ g.at = Top.at
               /\ frames' = [frames EXCEPT ![1] = g]
  <2>1. CASE frames' = frames
    BY <1>1, <1>2, <2>1
  <2>2. CASE frames' # frames
    <3>1. PICK x : frames' = [frames EXCEPT ![1].arrays = Append(@, x)]
      BY <2>2
    <3>2. AreFrames(frames) /\ Len(frames) # 0
      BY DEF Walk
    <3>3. PICK h : /\ h.node = Top.node /\ h.lap = Top.lap /\ h.at = Top.at
                   /\ [frames EXCEPT ![1].arrays = Append(@, x)] = [frames EXCEPT ![1] = h]
      BY <3>2, FramesAre, ZenonT(60)
    <3> QED
      BY <3>1, <3>3
  <2> QED
    BY <2>1, <2>2
<1>4. NodeOf(g) = NodeOf(Top) /\ PlaceOf(g) = PlaceOf(Top)
  BY <1>3 DEF NodeOf, PlaceOf
<1>5. Placed(g)
  <2>1. Placed(Top)
    BY <1>2, CallsPlaced
  <2> QED
    BY <1>3, <2>1 DEF Placed
<1>6. KidsAhead(g) = KidsAhead(Top)
  BY <1>3, <1>4 DEF KidsAhead
<1>7. blob' = blob /\ \A y : Unwritten(y)' = Unwritten(y)
  BY UnwrittenStays DEF Quiet
<1>8. PropsAhead(g)'
  <2>1. PropsAhead(g)
    BY <1>2, <1>3, <1>4 DEF Ahead, FrameAhead, PropsAhead
  <2>2. NodeOf(g)' = NodeOf(g) /\ PlaceOf(g)' = PlaceOf(g)
    BY <1>5, PlacesKept
  <2>3. OwnedTo(All)' = OwnedTo(All) /\ \A y : Owner(y)' = Owner(y)
    BY <1>7, BlobStays DEF All
  <2> QED
    BY <1>7, <2>1, <2>2, <2>3 DEF PropsAhead
<1> QED
  BY <1>3, <1>4, <1>5, <1>6, <1>7, <1>8, AheadGoesOn

\* The innermost call is done with the property x.
LEMMA AheadPasses ==
    ASSUME NEW m \in Nat, NEW N, NEW W, NEW T, NEW X, NEW D, Walk(m, N, W, T, X, D),
           Shape(m, N, W), All \in Nat, m <= All, Ahead, Quiet,
           Top.at # NULL, Top.lap # "children", NEW x, AtHand(m, W, T, X, x), frames' = Advanced,
           \A y : Unwritten(y) /\ (y # x \/ Top.lap = "first") => Unwritten(y)'
    PROVE  Ahead'
<1>1. PICK g : /\ g.node = Top.node /\ g.lap = Top.lap /\ g.at = This.next_property
               /\ frames' = [frames EXCEPT ![1] = g]
  BY FramesAre, ZenonT(60) DEF Walk
<1>2. 1 \in 1 .. Len(frames) /\ Top = frames[1]
  BY FramesAre DEF Walk, Top
<1>3. Placed(Top) /\ NodeOf(Top) = T[1]
  BY <1>2, CallsPlaced
<1>4. x \in Props(T[1], m) /\ x \in 1 .. m /\ This.token = x
      /\ Leads(This.next_property, W, Props(T[1], x - 1))
  BY DEF AtHand, Props
<1>5. PlaceOf(Top) = x
  BY <1>4 DEF PlaceOf, This
<1>6. /\ This.next_property = NULL \/ PointsInto(properties, This.next_property)
      /\ PlaceOf(g) \in Nat /\ PlaceOf(g) < x
  <2>1. CASE This.next_property = NULL
    BY <1>1, <1>4, <2>1 DEF PlaceOf
  <2>2. CASE This.next_property # NULL
    <3>1. PICK z \in Props(T[1], x - 1) : This.next_property = W[z]
      BY <1>4, <2>2 DEF Leads
    <3>2. z \in OwnedTo(m) /\ z \in Nat /\ z < x
      BY <1>4, <3>1 DEF Props, OwnedTo
    <3>3. PointsInto(properties, W[z]) /\ Deref(properties, W[z]).token = z
      BY <3>2 DEF Shape, PropertiesAt
    <3> QED
      BY <1>1, <2>2, <3>1, <3>2, <3>3 DEF PlaceOf
  <2> QED
    BY <2>1, <2>2
<1>7. Placed(g) /\ NodeOf(g) = NodeOf(Top)
  BY <1>1, <1>3, <1>6 DEF Placed, NodeOf
<1>8. KidsAhead(g) = KidsAhead(Top)
  BY <1>1, <1>7 DEF KidsAhead
<1>9. blob' = blob /\ Owner(x) = NodeOf(Top)
  BY <1>3, <1>4 DEF Quiet, Props
<1>10. PropsAhead(g)'
  <2>1. PropsAhead(Top)
    BY <1>2 DEF Ahead, FrameAhead
  <2>2. NodeOf(g)' = NodeOf(g) /\ PlaceOf(g)' = PlaceOf(g)
    BY <1>7, PlacesKept
  <2>3. OwnedTo(All)' = OwnedTo(All) /\ \A y : Owner(y)' = Owner(y)
    BY <1>9, BlobStays DEF All
  <2>4. ASSUME NEW y \in OwnedTo(All), Owner(y) = NodeOf(g),
               g.lap = "first" \/ (g.lap = "second" /\ y <= PlaceOf(g))
        PROVE  Unwritten(y)'
    <3>1. y \in Nat
      BY DEF OwnedTo
    <3>2. Unwritten(y)
      BY <1>1, <1>4, <1>5, <1>6, <1>7, <2>1, <2>4, <3>1 DEF PropsAhead
    <3>3. y # x \/ Top.lap = "first"
      BY <1>1, <1>4, <1>6, <2>4, <3>1
    <3> QED
      BY <3>2, <3>3
  <2> QED
    BY <2>2, <2>3, <2>4 DEF PropsAhead
<1>11. \A y \in OwnedTo(All) : Unwritten(y) => Unwritten(y)' \/ Owner(y) = NodeOf(Top)
  BY <1>9
<1> QED
  BY <1>1, <1>7, <1>8, <1>10, <1>11, AheadGoesOn

\* What a call is ahead of stays where nothing is written.
LEMMA AheadKept ==
    ASSUME Quiet, UNCHANGED stores, NEW f, Placed(f), NEW g, Placed(g)
    PROVE  /\ FrameAhead(f) => FrameAhead(f)'
           /\ Apart(f, g) => Apart(f, g)'
<1>1. blob' = blob /\ \A y : Unwritten(y)' = Unwritten(y)
  BY UnwrittenStays DEF Quiet
<1>2. /\ OwnedTo(All)' = OwnedTo(All) /\ \A y : Owner(y)' = Owner(y)
      /\ \A d, c : Within(d, c)' = Within(d, c)
  <2>1. \A d, c : Inside(d, c)' = Inside(d, c)
    BY <1>1, BlobStays DEF Inside
  <2> QED
    BY <1>1, <2>1, BlobStays DEF All, Within
<1>3. /\ NodeOf(f)' = NodeOf(f) /\ PlaceOf(f)' = PlaceOf(f) /\ KidsAhead(f)' = KidsAhead(f)
      /\ KidsAhead(g)' = KidsAhead(g)
  BY PlacesKept
<1>4. \A c : UnwrittenIn(c)' = UnwrittenIn(c)
  BY <1>1, <1>2 DEF UnwrittenIn
<1>5. PropsAhead(f) => PropsAhead(f)'
  BY <1>1, <1>2, <1>3 DEF PropsAhead
<1> QED
  BY <1>2, <1>3, <1>4, <1>5 DEF FrameAhead, Apart

\* Where nothing is written it is enough to look at the calls there are then.
LEMMA AheadFollows ==
    ASSUME Quiet, UNCHANGED stores, NEW n, n = Len(frames'),
           \A j \in 1 .. n :
              /\ Placed(frames'[j]) /\ FrameAhead(frames'[j])
              /\ \A i \in 1 .. n : i < j => Apart(frames'[i], frames'[j])
    PROVE  Ahead'
<1>1. ASSUME NEW j \in 1 .. n PROVE FrameAhead(frames[j])'
  <2>1. PICK f : f = frames'[j]
    OBVIOUS
  <2>2. FrameAhead(f)'
    BY <2>1, AheadKept
  <2> QED
    BY <2>1, <2>2
<1>2. ASSUME NEW i \in 1 .. n, NEW j \in 1 .. n, i < j PROVE Apart(frames[i], frames[j])'
  <2>1. PICK f, g : f = frames'[i] /\ g = frames'[j]
    OBVIOUS
  <2>2. Apart(f, g)'
    BY <1>2, <2>1, AheadKept
  <2> QED
    BY <2>1, <2>2
<1> QED
  BY <1>1, <1>2 DEF Ahead

\* What is nested in a child is nested in its parent.
LEMMA WithinChild ==
    ASSUME NEW n \in Nat, NEW c, NEW k \in Kids(c, n), NEW d \in Nat \ {0}, Within(d, k)
    PROVE  Within(d, c)
<1>1. k \in Nat \ {0} /\ Inside(k, c)
  <2>1. k \in Nat \ {0} /\ Child(k, c)
    BY DEF Kids
  <2> QED
    BY <2>1, ChildIs
<1>2. CASE d = k
  BY <1>1, <1>2 DEF Within
<1>3. CASE Inside(d, k)
  <2>1. d - 1 \in Nat /\ k \in OpenSet(d - 1) /\ c \in OpenSet(k - 1)
    BY <1>1, <1>3 DEF Inside, OpenSet, Outside
  <2>2. c \in OpenSet(d - 1)
    <3>1. PICK e \in Nat : e = d - 1 /\ k \in OpenSet(e)
      BY <2>1
    <3>2. OpenSet(k - 1) \subseteq OpenSet(e)
      BY <3>1, OpenOnesAre DEF OpenOnes
    <3> QED
      BY <2>1, <3>1, <3>2
  <2> QED
    BY <2>2 DEF Within, Inside, OpenSet, Outside
<1> QED
  BY <1>2, <1>3 DEF Within

\* A call for a child: nothing of the child is written yet.
LEMMA AheadCalls ==
    ASSUME NEW m \in Nat, NEW N, NEW W, NEW T, NEW X, NEW D, Walk(m, N, W, T, X, D),
           Shape(m, N, W), blob \in Blobs, All \in Nat, m <= All, Ahead, Quiet,
           UNCHANGED stores, Call
    PROVE  Ahead'
<1>1. PICK n \in Nat : n = Len(frames) /\ 1 \in 1 .. n
  BY FramesAre DEF Walk
<1>2. PICK t : t = T[1] /\ Top = frames[1]
  BY DEF Top
<1>3. Placed(Top) /\ NodeOf(Top) = t /\ Top.lap = "children" /\ Top.at # NULL
  BY <1>1, <1>2, CallsPlaced DEF Call, OnLap
<1>4. PICK c \in Kids(t, m) :
         /\ Top.at = N[c] /\ c \in NodesTo(m) /\ Child(c, t) /\ c - 1 \in 0 .. m
         /\ FrameIs(m, N, W, D, "children", AfterChild, t, c - 1, {c})
  BY <1>2, <1>3, ChildAtHand
<1>5. PICK f, g : /\ f.node = Top.at /\ f.lap = "first" /\ f.at = Deref(nodes, Top.at).properties
                  /\ g.node = Top.node /\ g.lap = Top.lap /\ g.at = AfterChild
                  /\ Len(frames') = n + 1 /\ frames'[1] = f /\ frames'[2] = g
                  /\ \A i \in 2 .. n : frames'[i + 1] = frames[i]
  BY <1>1, CallFrames DEF Walk
<1>6. c \in Kids(t, All) /\ c \in Nat \ {0} /\ c \in 1 .. m
  BY <1>4 DEF Kids
<1>7. Placed(f) /\ NodeOf(f) = c /\ PlaceOf(Top) = c
  <2>1. PointsInto(nodes, N[c]) /\ Deref(nodes, N[c]).token = c
    BY <1>4 DEF Shape, NodesAt
  <2>2. Leads(f.at, W, Props(c, m))
    BY <1>4, <1>5 DEF Shape, NodeLeads
  <2>3. f.at = NULL \/ \E y \in OwnedTo(m) : f.at = W[y]
    BY <2>2 DEF Leads, Props, OwnedTo
  <2>4. f.at = NULL \/ PointsInto(properties, f.at)
    BY <2>3 DEF Shape, PropertiesAt
  <2> QED
    BY <1>3, <1>4, <1>5, <2>1, <2>4 DEF Placed, NodeOf, PlaceOf
<1>8. Placed(g) /\ NodeOf(g) = t /\ PlaceOf(g) \in Nat /\ PlaceOf(g) < c
  <2>1. Leads(AfterChild, N, Kids(t, c - 1))
    <3>1. PICK b : b = c - 1
      OBVIOUS
    <3>2. FrameIs(m, N, W, D, "children", AfterChild, t, b, {c})
      BY <1>4, <3>1
    <3> QED
      BY <3>1, <3>2 DEF FrameIs
  <2>2. CASE AfterChild = NULL
    BY <1>3, <1>5, <1>6, <2>2 DEF Placed, NodeOf, PlaceOf
  <2>3. CASE AfterChild # NULL
    <3>1. PICK z \in Kids(t, c - 1) : AfterChild = N[z]
      BY <2>1, <2>3 DEF Leads
    <3>2. z \in NodesTo(m) /\ z \in Nat /\ z < c
      BY <1>6, <3>1 DEF Kids, NodesTo
    <3>3. PointsInto(nodes, N[z]) /\ Deref(nodes, N[z]).token = z
      BY <3>2 DEF Shape, NodesAt
    <3> QED
      BY <1>3, <1>5, <2>3, <3>1, <3>2, <3>3 DEF Placed, NodeOf, PlaceOf
  <2> QED
    BY <2>2, <2>3
<1>9. UnwrittenIn(c)
  <2>1. c \in KidsAhead(Top)
    BY <1>3, <1>6, <1>7 DEF KidsAhead
  <2> QED
    BY <1>1, <1>2, <2>1 DEF Ahead, FrameAhead
<1>10. FrameAhead(f)
  <2>1. ASSUME NEW k \in KidsAhead(f), NEW y \in OwnedTo(All), Within(Owner(y), k)
        PROVE  Unwritten(y)
    <3>1. k \in Kids(c, All)
      BY <1>7, <2>1 DEF KidsAhead
    <3>2. Owner(y) \in Nat \ {0}
      <4>1. y \in Nat /\ OpenAfter(y) # <<>>
        BY DEF OwnedTo, Owned
      <4>2. OpenAfter(y)[1] \in 1 .. y
        BY <4>1, OpenSetIs
      <4> QED
        BY <4>2 DEF Owner
    <3>3. Within(Owner(y), c)
      BY <2>1, <3>1, <3>2, WithinChild
    <3> QED
      BY <1>9, <3>3 DEF UnwrittenIn
  <2>2. PropsAhead(f)
    BY <1>7, <1>9 DEF PropsAhead, UnwrittenIn, Within
  <2> QED
    BY <2>1, <2>2 DEF FrameAhead, UnwrittenIn
<1>11. FrameAhead(g) /\ KidsAhead(g) \subseteq KidsAhead(Top)
  <2>1. KidsAhead(g) \subseteq KidsAhead(Top)
    <3>1. PICK z \in Nat : z = PlaceOf(g) /\ z < c
      BY <1>8
    <3>2. \A k \in Kids(t, All) : k <= z => k <= c
      BY <1>6, <3>1 DEF Kids
    <3> QED
      BY <1>3, <1>5, <1>7, <1>8, <3>1, <3>2 DEF KidsAhead
  <2>2. PropsAhead(g)
    BY <1>3, <1>5 DEF PropsAhead
  <2>3. \A k \in KidsAhead(Top) : UnwrittenIn(k)
    BY <1>1, <1>2 DEF Ahead, FrameAhead
  <2> QED
    BY <2>1, <2>2, <2>3 DEF FrameAhead
<1>12. \A k : ~Within(t, k) /\ k # c => ~Within(c, k)
  BY <1>4, <1>6, ChildIs DEF Within
<1>13. Apart(f, g)
  <2>1. ASSUME NEW k \in KidsAhead(g) PROVE ~Within(c, k)
    <3>1. k \in Kids(t, All) /\ k <= PlaceOf(g) /\ k \in Nat
      BY <1>3, <1>5, <1>8, <2>1 DEF KidsAhead, Kids
    <3>2. ~Within(t, k) /\ k # c
      BY <1>6, <1>8, <3>1, NotWithin
    <3> QED
      BY <1>12, <3>2
  <2> QED
    BY <1>7, <2>1 DEF Apart
<1>14. ASSUME NEW i \in 2 .. n
       PROVE  /\ Placed(frames[i]) /\ FrameAhead(frames[i])
              /\ Apart(f, frames[i]) /\ Apart(g, frames[i])
  <2>1. i \in 1 .. n /\ 1 < i
    OBVIOUS
  <2>2. PICK h : h = frames[i]
    OBVIOUS
  <2>3. Placed(h) /\ FrameAhead(h) /\ Apart(Top, h) /\ NodeOf(h) = T[i]
    BY <1>1, <1>2, <2>1, <2>2, CallsPlaced DEF Ahead
  <2>4. Apart(g, h)
    BY <1>3, <1>8, <2>3 DEF Apart
  <2>5. c \notin KidsAhead(h)
    <3>1. T[i] # t
      BY <1>1, <1>2, CallsDescend
    <3> QED
      BY <1>4, <2>3, <3>1 DEF KidsAhead, Kids, Child
  <2>6. Apart(f, h)
    BY <1>3, <1>7, <1>12, <2>3, <2>5 DEF Apart
  <2> QED
    BY <2>2, <2>3, <2>4, <2>6
<1>15. ASSUME NEW j \in 1 .. n + 1
       PROVE  /\ Placed(frames'[j]) /\ FrameAhead(frames'[j])
              /\ \A i \in 1 .. n + 1 : i < j => Apart(frames'[i], frames'[j])
  <2>1. CASE j = 1
    BY <1>5, <1>7, <1>10, <2>1
  <2>2. CASE j = 2
    <3>1. \A i \in 1 .. n + 1 : i < j => i = 1
      BY <2>2
    <3> QED
      BY <1>5, <1>8, <1>11, <1>13, <2>2, <3>1
  <2>3. CASE j # 1 /\ j # 2
    <3>1. PICK k : k = j - 1
      OBVIOUS
    <3>2. k \in 2 .. n /\ j = k + 1 /\ k \in 1 .. n
      BY <2>3, <3>1
    <3>3. PICK h : h = frames[k] /\ h = frames'[j]
      BY <1>5, <3>2
    <3>4. Placed(h) /\ FrameAhead(h) /\ Apart(f, h) /\ Apart(g, h)
      BY <1>14, <3>2, <3>3
    <3>5. ASSUME NEW i \in 1 .. n + 1, i < j PROVE Apart(frames'[i], h)
      <4>1. CASE i = 1 \/ i = 2
        BY <1>5, <3>4, <4>1
      <4>2. CASE i # 1 /\ i # 2
        <5>1. PICK l : l = i - 1
          OBVIOUS
        <5>2. l \in 2 .. n /\ i = l + 1 /\ l < k /\ l \in 1 .. n
          BY <3>2, <3>5, <4>2, <5>1
        <5>3. frames'[i] = frames[l] /\ Apart(frames[l], frames[k])
          BY <1>1, <1>5, <3>2, <5>2 DEF Ahead
        <5> QED
          BY <3>3, <5>3
      <4> QED
        BY <4>1, <4>2
    <3> QED
      BY <3>3, <3>4, <3>5
  <2> QED
    BY <2>1, <2>2, <2>3
<1> QED
  BY <1>5, <1>15, AheadFollows

\* A return leaves the calls around it as they were.
LEMMA AheadReturns ==
    ASSUME NEW m \in Nat, NEW N, NEW W, NEW T, NEW X, NEW D, Walk(m, N, W, T, X, D),
           Shape(m, N, W), Ahead, Quiet, UNCHANGED stores, frames' = Tail(frames)
    PROVE  Ahead'
<1>1. PICK n \in Nat : n = Len(frames) /\ 1 \in 1 .. n
  BY FramesAre DEF Walk
<1>2. PICK S : frames \in Seq(S)
  BY DEF Walk, AreFrames
<1>3. Len(frames') = n - 1 /\ \A j \in 1 .. n - 1 : frames'[j] = frames[j + 1]
  BY <1>1, <1>2
<1>4. ASSUME NEW j \in 1 .. n - 1
      PROVE  /\ Placed(frames'[j]) /\ FrameAhead(frames'[j])
             /\ \A i \in 1 .. n - 1 : i < j => Apart(frames'[i], frames'[j])
  <2>1. PICK k \in 1 .. n : k = j + 1
    BY <1>1
  <2>2. PICK h : h = frames[k] /\ h = frames'[j]
    BY <1>3, <2>1
  <2>3. Placed(h) /\ FrameAhead(h)
    BY <1>1, <2>1, <2>2, CallsPlaced DEF Ahead
  <2>4. ASSUME NEW i \in 1 .. n - 1, i < j PROVE Apart(frames'[i], h)
    <3>1. PICK l \in 1 .. n : l = i + 1 /\ l < k
      BY <1>1, <2>1, <2>4
    <3> QED
      BY <1>1, <1>3, <2>1, <2>2, <3>1 DEF Ahead
  <2> QED
    BY <2>2, <2>3, <2>4
<1> QED
  BY <1>3, <1>4, AheadFollows

\* The next lap begins at the first of its list: of the properties nothing has
\* been written on the first, and none is looked at on the third.
LEMMA AheadTurns ==
    ASSUME NEW m \in Nat, NEW N, NEW W, NEW T, NEW X, NEW D, Walk(m, N, W, T, X, D),
           Shape(m, N, W), All \in Nat, Ahead, Quiet, NextLap
    PROVE  Ahead'
<1>1. /\ UNCHANGED <<blob, nodes, properties, stores>> /\ Top.lap # "children"
      /\ 1 \in 1 .. Len(frames) /\ Top = frames[1]
  BY FramesAre DEF NextLap, parse_vars, Walk, Top
<1>2. PICK at : at = IF Top.lap = "first" THEN ThisNode.properties ELSE ThisNode.children
  OBVIOUS
<1>3. PICK g : /\ IsFrame(g) /\ g.node = Top.node /\ g.at = at
               /\ g.lap = IF Top.lap = "first" THEN "second" ELSE "children"
               /\ frames' = [frames EXCEPT ![1] = g]
  <2>1. frames' = [frames EXCEPT ![1].at = at, ![1].lap = IF @ = "first" THEN "second" ELSE "children"]
    BY <1>2 DEF NextLap
  <2> QED
    BY <2>1, FramesAre, ZenonT(60) DEF Walk
<1>4. Placed(Top) /\ NodeOf(g) = NodeOf(Top)
  BY <1>1, <1>3, CallsPlaced DEF NodeOf
<1>5. PICK t \in NodesTo(m) : t = T[1] /\ ThisNode = Deref(nodes, N[t])
  BY TopIs DEF ThisNode
<1>6. /\ Leads(ThisNode.properties, W, Props(t, m)) /\ Leads(ThisNode.children, N, Kids(t, m))
      /\ Props(t, m) \subseteq OwnedTo(m) /\ Kids(t, m) \subseteq NodesTo(m)
  BY <1>5 DEF Shape, NodeLeads, Props, Kids, OwnedTo, NodesTo
<1>7. Placed(g)
  <2>1. CASE Top.lap = "first"
    <3>1. at = NULL \/ \E y \in OwnedTo(m) : at = W[y]
      BY <1>2, <1>6, <2>1 DEF Leads
    <3>2. at = NULL \/ PointsInto(properties, at)
      BY <3>1 DEF Shape, PropertiesAt
    <3> QED
      BY <1>3, <1>4, <2>1, <3>2 DEF Placed
  <2>2. CASE Top.lap # "first"
    <3>1. at = NULL \/ \E c \in NodesTo(m) : at = N[c]
      BY <1>2, <1>6, <2>2 DEF Leads
    <3>2. at = NULL \/ PointsInto(nodes, at)
      BY <3>1 DEF Shape, NodesAt
    <3> QED
      BY <1>3, <1>4, <2>2, <3>2 DEF Placed
  <2> QED
    BY <2>1, <2>2
<1>8. KidsAhead(g) \subseteq KidsAhead(Top)
  BY <1>1, <1>4 DEF KidsAhead
<1>9. \A y : Unwritten(y)' = Unwritten(y)
  BY <1>1, UnwrittenStays
<1>10. PropsAhead(g)'
  <2>1. PropsAhead(Top)
    BY <1>1 DEF Ahead, FrameAhead
  <2>2. NodeOf(g)' = NodeOf(Top)
    BY <1>4, <1>7, PlacesKept
  <2>3. OwnedTo(All)' = OwnedTo(All) /\ \A y : Owner(y)' = Owner(y)
    BY <1>1, BlobStays DEF All
  <2>4. g.lap = "second" => Top.lap = "first"
    BY <1>3
  <2>5. g.lap # "first"
    BY <1>3
  <2> QED
    BY <1>9, <2>1, <2>2, <2>3, <2>4, <2>5 DEF PropsAhead
<1>11. \A y \in OwnedTo(All) : Unwritten(y) => Unwritten(y)' \/ Owner(y) = NodeOf(Top)
  BY <1>9
<1> QED
  BY <1>3, <1>4, <1>7, <1>8, <1>10, <1>11, AheadGoesOn

\* Before the first call there are no arrays.
LEMMA AheadEnters ==
    ASSUME stores' = <<>>, NEW f, frames' = <<f>>
    PROVE  Ahead'
<1>1. \A y : Unwritten(y)'
  BY DEF Unwritten
<1>2. \A g : FrameAhead(g)'
  BY <1>1 DEF FrameAhead, PropsAhead, UnwrittenIn
<1>3. Len(frames') = 1 /\ \A i \in 1 .. 1, j \in 1 .. 1 : ~(i < j)
  OBVIOUS
<1> QED
  BY <1>2, <1>3 DEF Ahead
----------------------------------------------------------------------------
\* What is written of a property.

Numbered(new, k) == new = [j \in 1 .. k |-> new[j]]

LEMMA Written ==
    ASSUME NEW k \in Nat, NEW x, NEW new, Numbered(new, k),
           \A j \in 1 .. k : new[j].token = x, stores' = stores \o new
    PROVE  Adds(x, new) /\ Len(new) = k
<1>1. PICK S : S = {new[j] : j \in 1 .. k}
  OBVIOUS
<1>2. new \in [1 .. k -> S]
  BY <1>1 DEF Numbered
<1>3. new \in Seq(S) /\ Len(new) = k
  BY <1>2
<1> QED
  BY <1>3 DEF Adds

\* The views of compatible, which no array is among.
LEMMA CompatibleWritten ==
    ASSUME NEW m, NEW x \in OwnedTo(m), blob \in Blobs, m \in 0 .. Len(blob.tokens),
           This.token = x, NEW new, new = CompatibleStores(ret'), stores' = stores \o new
    PROVE  Adds(x, new) /\ \A j \in 1 .. Len(new) : new[j].token = x /\ new[j].part = "compatible"
<1>1. PICK k : k = Value(This).nuls + 1
  OBVIOUS
<1>2. k \in Nat
  <2>1. PICK b \in Blobs : b = blob
    OBVIOUS
  <2>2. x \in 1 .. Len(b.tokens) /\ b.tokens[x].kind = "PROP"
    <3>1. x \in 1 .. m /\ b.tokens[x].kind = "PROP" /\ m \in 0 .. Len(b.tokens)
      BY <2>1 DEF OwnedTo, Owned
    <3>2. Len(b.tokens) \in Nat
      BY BlobAssumption
    <3> QED
      BY <3>1, <3>2
  <2>3. Value(This).nuls = b.tokens[x].value.nuls
    BY <2>1 DEF Value
  <2>4. \A t \in 1 .. Len(b.tokens) :
            b.tokens[t].kind = "PROP" => b.tokens[t].value.nuls \in Nat
    BY BlobAssumption
  <2>5. b.tokens[x].value.nuls \in Nat
    BY <2>2, <2>4
  <2> QED
    BY <1>1, <2>3, <2>5
<1>3. PICK base, size : new = [j \in 1 .. k |->
                                  Store("compatible", base, size, STR_VIEW_SZ * (j - 1), STR_VIEW_SZ)]
  BY <1>1 DEF CompatibleStores
<1>4. /\ Numbered(new, k)
      /\ \A j \in 1 .. k : new[j].token = x /\ new[j].part = "compatible"
  BY <1>3 DEF Store, Numbered
<1>5. Adds(x, new) /\ Len(new) = k
  BY <1>2, <1>4, Written
<1> QED
  BY <1>4, <1>5

\* An element of part k, for entry i, as the loop writes it.
Filled(s, x, parts, e, i, k) ==
    LET w == Width(Type, parts[k].cells)
    IN  /\ s.token = x /\ s.part = parts[k].name /\ s.size = 4 * parts[k].room * e
        /\ s.at = w * i /\ s.width = w

\* The elements of an array property of n parts, for e entries.
AllFilled(new, x, parts, n, e) ==
    /\ Len(new) = n * e
    /\ \A j \in 1 .. n * e : \E i \in 0 .. e - 1, k \in 1 .. n :
          j = (n * i) + k /\ Filled(new[j], x, parts, e, i, k)

LEMMA ArraysWritten ==
    ASSUME NEW x, This.token = x, NEW parts, NEW e \in Nat, e = Entries(parts),
           NEW n \in {2, 3}, n = Len(parts), EntrySize(parts) # 0,
           NEW new, new = ArrayStores(parts), stores' = stores \o new
    PROVE  Adds(x, new) /\ AllFilled(new, x, parts, n, e)
<1>1. PICK type, arrays : type = Type /\ arrays = Top.arrays
  OBVIOUS
<1>2. PICK len \in Nat : len = n * e
  OBVIOUS
<1> DEFINE I(j) == (j - 1) \div n
           K(j) == ((j - 1) % n) + 1
           P(j) == parts[K(j)]
           E(j) == Store(P(j).name, arrays[K(j)], 4 * P(j).room * e,
                         Width(type, P(j).cells) * I(j), Width(type, P(j).cells))
<1>3. new = [j \in 1 .. len |-> E(j)]
  BY <1>1, <1>2 DEF ArrayStores
<1>4. ASSUME NEW j \in 1 .. len PROVE I(j) \in 0 .. e - 1 /\ K(j) \in 1 .. n /\ j = (n * I(j)) + K(j)
  <2>1. CASE n = 2
    <3>1. len = 2 * e /\ I(j) = (j - 1) \div 2 /\ K(j) = ((j - 1) % 2) + 1 /\ j \in Nat \ {0}
      BY <1>2, <2>1
    <3>2. PICK i, k : i = (j - 1) \div 2 /\ k = ((j - 1) % 2) + 1
      OBVIOUS
    <3>3. i \in Nat /\ j - 1 = (2 * i) + (k - 1) /\ k \in 1 .. 2
      <4>1. j - 1 \in Nat
        BY <3>1
      <4>2. PICK r \in 0 .. 2 - 1 : r = (j - 1) % 2
        BY <4>1
      <4>3. i \in Nat /\ j - 1 = (2 * i) + r
        BY <3>2, <4>1, <4>2, Division
      <4> QED
        BY <3>2, <4>2, <4>3
    <3>4. i \in 0 .. e - 1 /\ j = (2 * i) + k
      BY <3>1, <3>3
    <3> QED
      BY <2>1, <3>1, <3>2, <3>3, <3>4
  <2>2. CASE n = 3
    <3>1. len = 3 * e /\ I(j) = (j - 1) \div 3 /\ K(j) = ((j - 1) % 3) + 1 /\ j \in Nat \ {0}
      BY <1>2, <2>2
    <3>2. PICK i, k : i = (j - 1) \div 3 /\ k = ((j - 1) % 3) + 1
      OBVIOUS
    <3>3. i \in Nat /\ j - 1 = (3 * i) + (k - 1) /\ k \in 1 .. 3
      <4>1. j - 1 \in Nat
        BY <3>1
      <4>2. PICK r \in 0 .. 3 - 1 : r = (j - 1) % 3
        BY <4>1
      <4>3. i \in Nat /\ j - 1 = (3 * i) + r
        BY <3>2, <4>1, <4>2, Division
      <4> QED
        BY <3>2, <4>2, <4>3
    <3>4. i \in 0 .. e - 1 /\ j = (3 * i) + k
      BY <3>1, <3>3
    <3> QED
      BY <2>2, <3>1, <3>2, <3>3, <3>4
  <2> QED
    BY <2>1, <2>2
<1>5. ASSUME NEW j \in 1 .. len PROVE Filled(new[j], x, parts, e, I(j), K(j))
  <2>1. new[j] = E(j)
    BY <1>3
  <2>2. PICK i, k : i = I(j) /\ k = K(j)
    OBVIOUS
  <2> HIDE DEF I, K
  <2>3. new[j] = Store(parts[k].name, arrays[k], 4 * parts[k].room * e,
                       Width(type, parts[k].cells) * i, Width(type, parts[k].cells))
    BY <2>1, <2>2
  <2>4. Filled(new[j], x, parts, e, i, k)
    BY <1>1, <2>3 DEF Filled, Store
  <2> QED
    BY <2>2, <2>4
<1> HIDE DEF I, K
<1>6. \A j \in 1 .. len : new[j].token = x
  BY <1>5 DEF Filled
<1>7. Numbered(new, len)
  BY <1>3 DEF Numbered
<1>8. Adds(x, new) /\ Len(new) = len
  BY <1>6, <1>7, Written
<1> QED
  BY <1>2, <1>4, <1>5, <1>8 DEF AllFilled

\* An element of no more bytes than the array has for each entry is in it, and
\* those of different entries are apart.
LEMMA EntriesFit ==
    ASSUME NEW w \in Nat, NEW room \in Nat, NEW e \in Nat, NEW i \in 0 .. e - 1
    PROVE  /\ w <= 4 * room => (w * i) + w <= 4 * room * e
           /\ \A h \in Nat : h < i => (w * h) + w <= w * i
<1>1. ASSUME NEW v \in Nat, NEW h \in Nat, NEW k \in Nat, h < k PROVE (v * h) + v <= v * k
  <2>1. PICK r \in Nat : k = h + 1 + r
    <3>1. k - h - 1 \in Nat /\ k = h + 1 + (k - h - 1)
      BY <1>1
    <3> QED
      BY <3>1
  <2>2. v * k = (v * h) + v + (v * r) /\ v * r \in Nat /\ v * h \in Nat
    BY <2>1
  <2> QED
    BY <2>2
<1>2. ASSUME w <= 4 * room PROVE (w * i) + w <= 4 * room * e
  <2>1. PICK v \in Nat : v = 4 * room
    OBVIOUS
  <2>2. (w * i) + w <= w * e /\ w * e \in Nat /\ w * i \in Nat
    BY <1>1
  <2>3. PICK r \in Nat : v = w + r
    <3>1. v - w \in Nat /\ v = w + (v - w)
      BY <1>2, <2>1
    <3> QED
      BY <3>1
  <2>4. v * e = (w * e) + (r * e) /\ r * e \in Nat /\ v * e \in Nat
    BY <2>3
  <2>5. w * e <= v * e
    BY <2>2, <2>4
  <2> QED
    BY <2>1, <2>2, <2>4, <2>5
<1> QED
  BY <1>1, <1>2

\* The bytes of a number are those its array has for it, where it is sized.
LEMMA PartsFit ==
    ASSUME NEW m, NEW N, NEW W, Parsing(m, N, W), NodesTo(m) # {}, OpenAfter(m) = <<>>,
           NEW T, NEW X, NEW D, Walk(m, N, W, T, X, D), Top.lap = "second",
           ThisNode.parent # NULL, NEW x, AtHand(m, W, T, X, x), ForArrays(x),
           NEW parts, parts = Parts, Asserted(parts)
    PROVE  \E n \in {2, 3} :
              /\ n = Len(parts)
              /\ \A k \in 1 .. n :
                    /\ parts[k].room \in Nat /\ Width(Type, parts[k].cells) \in Nat
                    /\ \A l \in 1 .. n : parts[l].name = parts[k].name => l = k
                    /\ \A f : f.token = x /\ f.part = parts[k].name /\ Sized(f)
                              => Width(Type, parts[k].cells) <= 4 * parts[k].room
<1>1. PICK t, u, a, s, c, d :
         /\ t = Owner(x) /\ u = Outside(t)[1]
         /\ a = AddressCells(t) /\ s = SizeCells(t) /\ c = AddressCells(u) /\ d = SizeCells(u)
         /\ a \in Nat /\ s \in Nat /\ c \in Nat /\ d \in Nat
         /\ IF blob.tokens[x].name = "reg"
            THEN /\ Type = "REG"
                 /\ Parts = <<Part("address", c, c), Part("size", d, d)>>
            ELSE /\ Type = "RANGES"
                 /\ Parts = <<Part("cbus", a, a), Part("pbus", c, a), Part("size", s, s)>>
  BY PartsAre
<1>2. PICK type : type = Type
  OBVIOUS
<1>3. \A f : f.token = x =>
         /\ f.part = "address" /\ Sized(f) => c <= 2
         /\ f.part = "pbus" /\ Sized(f) => c <= a
  BY <1>1 DEF Sized
<1>4. \A y \in Nat :
         /\ Width(type, y) \in Nat
         /\ y <= 2 \/ type # "REG" => Width(type, y) <= 4 * y
  BY DEF Width
<1>5. CASE type = "REG"
  <2>1. parts = <<Part("address", c, c), Part("size", d, d)>>
    BY <1>1, <1>2, <1>5
  <2>2. /\ Len(parts) = 2
        /\ parts[1].name = "address" /\ parts[1].cells = c /\ parts[1].room = c
        /\ parts[2].name = "size" /\ parts[2].cells = d /\ parts[2].room = d
    BY <2>1 DEF Part
  <2>3. PICK v, w : /\ v = Width(type, c) /\ v \in Nat /\ (c <= 2 => v <= 4 * c)
                    /\ w = Width(type, d) /\ w \in Nat /\ w <= 4 * d
    BY <1>1, <1>4, <2>2 DEF Asserted
  <2>4. \A k \in 1 .. 2 : k = 1 \/ k = 2
    OBVIOUS
  <2>5. \A k \in 1 .. 2 : parts[k].room \in Nat /\ Width(type, parts[k].cells) \in Nat
    BY <1>1, <2>2, <2>3, <2>4
  <2>6. \A k, l \in 1 .. 2 : parts[l].name = parts[k].name => l = k
    BY <2>2, <2>4
  <2>7. \A k \in 1 .. 2 : \A f :
           f.token = x /\ f.part = parts[k].name /\ Sized(f)
           => Width(type, parts[k].cells) <= 4 * parts[k].room
    BY <1>3, <2>2, <2>3, <2>4
  <2> QED
    BY <1>2, <2>2, <2>5, <2>6, <2>7
<1>6. CASE type # "REG"
  <2>1. parts = <<Part("cbus", a, a), Part("pbus", c, a), Part("size", s, s)>>
    BY <1>1, <1>2, <1>6
  <2>2. /\ Len(parts) = 3
        /\ parts[1].name = "cbus" /\ parts[1].cells = a /\ parts[1].room = a
        /\ parts[2].name = "pbus" /\ parts[2].cells = c /\ parts[2].room = a
        /\ parts[3].name = "size" /\ parts[3].cells = s /\ parts[3].room = s
    BY <2>1 DEF Part
  <2>3. PICK v, w, z : /\ v = Width(type, a) /\ v \in Nat /\ v <= 4 * a
                       /\ w = Width(type, c) /\ w \in Nat /\ (c <= a => w <= 4 * a)
                       /\ z = Width(type, s) /\ z \in Nat /\ z <= 4 * s
    <3>1. PICK w \in Nat : w = Width(type, c) /\ w <= 4 * c
      BY <1>1, <1>4, <1>6
    <3>2. c <= a => w <= 4 * a
      BY <1>1, <3>1
    <3> QED
      BY <1>1, <1>4, <1>6, <3>1, <3>2
  <2>4. \A k \in 1 .. 3 : k = 1 \/ k = 2 \/ k = 3
    OBVIOUS
  <2>5. \A k \in 1 .. 3 : parts[k].room \in Nat /\ Width(type, parts[k].cells) \in Nat
    BY <1>1, <2>2, <2>3, <2>4
  <2>6. \A k, l \in 1 .. 3 : parts[l].name = parts[k].name => l = k
    BY <2>2, <2>4
  <2>7. \A k \in 1 .. 3 : \A f :
           f.token = x /\ f.part = parts[k].name /\ Sized(f)
           => Width(type, parts[k].cells) <= 4 * parts[k].room
    BY <1>3, <2>2, <2>3, <2>4
  <2> QED
    BY <1>2, <2>2, <2>5, <2>6, <2>7
<1> QED
  BY <1>5, <1>6

\* What is written of x is in its arrays, and over nothing else of it.
WellFilled(new, x) ==
    \A j \in 1 .. Len(new) :
        /\ new[j].token = x
        /\ Sized(new[j]) =>
              /\ ForArrays(x) /\ new[j].at + new[j].width <= new[j].size
              /\ \A i \in 1 .. j - 1 : new[i].part = new[j].part
                                       => new[i].at + new[i].width <= new[j].at

LEMMA ArraysWell ==
    ASSUME NEW m, NEW N, NEW W, Parsing(m, N, W), NodesTo(m) # {}, OpenAfter(m) = <<>>,
           NEW T, NEW X, NEW D, Walk(m, N, W, T, X, D), FillArrays, ~NoCells(Parts),
           NEW x, AtHand(m, W, T, X, x)
    PROVE  /\ Top.lap = "second" /\ frames' = Advanced
           /\ \E new : Adds(x, new) /\ WellFilled(new, x)
<1>1. /\ Top.lap = "second" /\ ThisNode.parent # NULL /\ Asserted(Parts)
      /\ Name(This) \in DOMAIN ArrayTypes
      /\ frames' = Advanced /\ stores' = stores \o ArrayStores(Parts)
  BY DEF FillArrays, AtParts, AtArrays, AtProperty, OnLap
<1>2. PICK parts, new, len : /\ parts = Parts /\ new = ArrayStores(parts)
                             /\ len = blob.tokens[x].value.len
  OBVIOUS
<1>3. This.token = x /\ x \in OwnedTo(m) /\ Value(This).len = len /\ ForArrays(x)
  BY <1>1, <1>2, TypesAre DEF AtHand, Name, Value, ForArrays
<1>4. len \in Nat
  BY <1>2, <1>3, BlobAssumption DEF Parsing, OwnedTo, Owned
<1>5. EntrySize(parts) = EntryBytes(x) /\ EntryBytes(x) \in Nat
  BY <1>1, <1>2, <1>3, EntrySizeIs
<1>6. CASE EntrySize(parts) = 0
  <2>1. new = <<>>
    BY <1>2, <1>6 DEF ArrayStores
  <2>2. new \in Seq({}) /\ Len(new) = 0 /\ \A j \in 1 .. 0 : FALSE
    BY <2>1
  <2>3. Adds(x, new)
    BY <1>1, <1>2, <2>2 DEF Adds
  <2> QED
    BY <1>1, <2>2, <2>3 DEF WellFilled
<1>7. CASE EntrySize(parts) # 0
  <2>1. PICK e \in Nat : e = Entries(parts)
    <3>1. PICK z \in Nat \ {0} : z = EntrySize(parts)
      BY <1>5, <1>7
    <3>2. Entries(parts) = len \div z
      BY <1>3, <3>1 DEF Entries
    <3>3. len \div z \in Nat
      BY <1>4, <3>1, Division
    <3> QED
      BY <3>2, <3>3
  <2>2. PICK n \in {2, 3} :
           /\ n = Len(parts)
           /\ \A k \in 1 .. n :
                 /\ parts[k].room \in Nat /\ Width(Type, parts[k].cells) \in Nat
                 /\ \A l \in 1 .. n : parts[l].name = parts[k].name => l = k
                 /\ \A f : f.token = x /\ f.part = parts[k].name /\ Sized(f)
                           => Width(Type, parts[k].cells) <= 4 * parts[k].room
    BY <1>1, <1>2, <1>3, PartsFit
  <2>3. Adds(x, new) /\ AllFilled(new, x, parts, n, e)
    <3>1. stores' = stores \o new /\ new = ArrayStores(parts) /\ n = Len(parts)
      BY <1>1, <1>2, <2>2
    <3> QED
      BY <1>3, <1>7, <2>1, <3>1, ArraysWritten
  <2>4. ASSUME NEW j \in 1 .. n * e
        PROVE  /\ new[j].token = x
               /\ Sized(new[j]) =>
                     /\ new[j].at + new[j].width <= new[j].size
                     /\ \A h \in 1 .. j - 1 : new[h].part = new[j].part
                                              => new[h].at + new[h].width <= new[j].at
    <3>1. PICK i \in 0 .. e - 1, k \in 1 .. n : j = (n * i) + k /\ Filled(new[j], x, parts, e, i, k)
      BY <2>3 DEF AllFilled
    <3>2. PICK f, w, room : f = new[j] /\ w = Width(Type, parts[k].cells) /\ room = parts[k].room
      OBVIOUS
    <3>3. /\ f.token = x /\ f.part = parts[k].name /\ f.size = 4 * room * e /\ f.at = w * i
          /\ f.width = w
      BY <3>1, <3>2 DEF Filled
    <3>4. w \in Nat /\ room \in Nat /\ (Sized(f) => w <= 4 * room)
      BY <2>2, <3>2, <3>3
    <3>5. Sized(f) => f.at + f.width <= f.size
      BY <3>3, <3>4, EntriesFit
    <3>6. ASSUME NEW h \in 1 .. j - 1, new[h].part = f.part PROVE new[h].at + new[h].width <= f.at
      <4>1. h \in 1 .. n * e
        <5>1. PICK z \in Nat : z = n * e
          OBVIOUS
        <5> QED
          BY <5>1
      <4>2. PICK b \in 0 .. e - 1, l \in 1 .. n : h = (n * b) + l /\ Filled(new[h], x, parts, e, b, l)
        BY <2>3, <4>1 DEF AllFilled
      <4>3. l = k
        BY <2>2, <3>3, <3>6, <4>2 DEF Filled
      <4>4. new[h].at = w * b /\ new[h].width = w
        BY <3>2, <4>2, <4>3 DEF Filled
      <4>5. b < i
        <5>1. n = 2 \/ n = 3
          OBVIOUS
        <5>2. (n * b) + k < (n * i) + k
          BY <3>1, <4>2, <4>3
        <5> QED
          BY <5>1, <5>2
      <4> QED
        BY <3>3, <3>4, <4>4, <4>5, EntriesFit
    <3> QED
      BY <3>2, <3>3, <3>5, <3>6
  <2> QED
    BY <1>1, <1>3, <2>3, <2>4 DEF WellFilled, AllFilled
<1> QED
  BY <1>6, <1>7

\* What the innermost call writes, of the property it is at.
LEMMA WritesAre ==
    ASSUME NEW m, NEW N, NEW W, Parsing(m, N, W), NodesTo(m) # {}, OpenAfter(m) = <<>>,
           NEW T, NEW X, NEW D, Walk(m, N, W, T, X, D), RewriteCompatible \/ FillArrays
    PROVE  \/ UNCHANGED <<frames, stores>>
           \/ /\ Top.at # NULL /\ Top.lap # "children" /\ frames' = Advanced
              /\ \E x, new : /\ AtHand(m, W, T, X, x) /\ Adds(x, new)
                             /\ WellFilled(new, x) /\ (ForArrays(x) => Top.lap = "second")
<1>1. Top.at # NULL /\ Top.lap # "children" /\ m \in Nat /\ Shape(m, N, W)
  BY DEF Parsing, RewriteCompatible, FillArrays, AtParts, AtArrays, AtProperty, OnLap
<1>2. PICK x : AtHand(m, W, T, X, x)
  BY <1>1, PropertyAtHand
<1>3. CASE RewriteCompatible
  <2>1. CASE bump_status' = "running"
    <3>1. PICK new : new = CompatibleStores(ret')
      OBVIOUS
    <3>2. frames' = Advanced /\ stores' = stores \o new /\ Name(This) = "compatible"
      BY <1>3, <2>1, <3>1 DEF RewriteCompatible
    <3>3. Adds(x, new) /\ \A j \in 1 .. Len(new) : new[j].token = x /\ new[j].part = "compatible"
      BY <1>2, <3>1, <3>2, CompatibleWritten DEF AtHand, Parsing
    <3>4. ~ForArrays(x)
      BY <1>2, <3>2 DEF AtHand, Name, ForArrays, ArrayNames
    <3>5. \A j \in 1 .. Len(new) : ~Sized(new[j]) /\ new[j].token = x
      BY <3>3 DEF Sized
    <3> QED
      BY <1>1, <1>2, <3>2, <3>3, <3>4, <3>5 DEF WellFilled
  <2>2. CASE bump_status' # "running"
    BY <1>3, <2>2 DEF RewriteCompatible
  <2> QED
    BY <2>1, <2>2
<1>4. CASE FillArrays
  <2>1. CASE NoCells(Parts)
    BY <1>4, <2>1 DEF FillArrays, Abort, rewrite_vars
  <2>2. CASE ~NoCells(Parts)
    BY <1>1, <1>2, <1>4, <2>2, ArraysWell
  <2> QED
    BY <2>1, <2>2
<1> QED
  BY <1>3, <1>4
----------------------------------------------------------------------------
\* The invariant of the arrays, step by step.

\* Which elements are to fit is a matter of the tokens.
LEMMA SizedStays == ASSUME UNCHANGED blob PROVE \A f : Sized(f)' = Sized(f)
<1>1. \A y : AddressCells(y)' = AddressCells(y)
  BY EntryBytesStay
<1>2. \A y : Owner(y)' = Owner(y) /\ Outside(y)' = Outside(y)
  BY BlobStays
<1> QED
  BY <1>1, <1>2 DEF Sized

LEMMA BoundsStay ==
    ASSUME UNCHANGED <<blob, stores>>, ArraysInBounds
    PROVE  ArraysInBounds'
<1>1. NodesFit' = NodesFit
  BY DEF NodesFit, Kinds, Tokens
<1>2. \A f : Sized(f)' = Sized(f)
  BY SizedStays
<1> QED
  BY <1>1, <1>2 DEF ArraysInBounds

\* What has not been written of x now is, and well.
LEMMA BoundsKept ==
    ASSUME UNCHANGED blob, ArraysInBounds, NEW S, stores \in Seq(S), NEW x, Unwritten(x),
           NEW new, NEW R, new \in Seq(R), stores' = stores \o new, WellFilled(new, x)
    PROVE  ArraysInBounds'
<1>1. NodesFit' = NodesFit
  BY DEF NodesFit, Kinds, Tokens
<1>2. \A f : Sized(f)' = Sized(f)
  BY SizedStays
<1>3. PICK n \in Nat, l \in Nat : n = Len(stores) /\ l = Len(new)
  OBVIOUS
<1>4. PICK old, all : old = stores /\ all = stores'
  OBVIOUS
<1>5. /\ Len(all) = n + l
      /\ \A i \in 1 .. n + l : all[i] = IF i <= n THEN old[i] ELSE new[i - n]
  <2>1. PICK Q : Q = S \cup R
    OBVIOUS
  <2>2. old \in Seq(Q) /\ new \in Seq(Q) /\ all = old \o new
    BY <1>4, <2>1
  <2> QED
    BY <1>3, <1>4, <2>2
<1>6. SUFFICES ASSUME NodesFit, NEW i \in 1 .. n + l, Sized(all[i])
               PROVE  /\ all[i].at + all[i].width <= all[i].size
                      /\ \A j \in 1 .. i - 1 :
                            all[j].token = all[i].token /\ all[j].part = all[i].part
                            => all[j].at + all[j].width <= all[i].at
  BY <1>3, <1>1, <1>2, <1>4, <1>5 DEF ArraysInBounds
<1>7. CASE i <= n
  <2>1. i \in 1 .. n /\ all[i] = old[i] /\ \A j \in 1 .. i - 1 : all[j] = old[j]
    BY <1>5, <1>7
  <2> QED
    BY <1>3, <1>4, <1>6, <2>1 DEF ArraysInBounds
<1>8. CASE ~(i <= n)
  <2>1. PICK k \in 1 .. l : i = n + k /\ all[i] = new[k]
    <3>1. i - n \in 1 .. l /\ i = n + (i - n)
      BY <1>8
    <3> QED
      BY <1>5, <1>8, <3>1
  <2>2. /\ new[k].token = x /\ ForArrays(x) /\ new[k].at + new[k].width <= new[k].size
        /\ \A h \in 1 .. k - 1 : new[h].part = new[k].part
                                 => new[h].at + new[h].width <= new[k].at
    BY <1>3, <1>4, <1>6, <2>1 DEF WellFilled
  <2>3. ASSUME NEW j \in 1 .. i - 1, all[j].token = x, all[j].part = new[k].part
        PROVE  all[j].at + all[j].width <= new[k].at
    <3>1. CASE j <= n
      <4>1. j \in 1 .. n /\ old[j].token = x
        BY <1>5, <2>3, <3>1
      <4> QED
        BY <1>3, <1>4, <2>2, <4>1 DEF Unwritten
    <3>2. CASE ~(j <= n)
      <4>1. PICK h \in 1 .. k - 1 : all[j] = new[h]
        <5>1. j - n \in 1 .. k - 1 /\ j \in 1 .. n + l
          BY <2>1, <3>2
        <5> QED
          BY <1>5, <3>2, <5>1
      <4> QED
        BY <2>2, <2>3, <4>1
    <3> QED
      BY <3>1, <3>2
  <2> QED
    BY <2>1, <2>2, <2>3
<1> QED
  BY <1>7, <1>8

\* The steps that write no array.
LEMMA AheadMoves ==
    ASSUME NEW m, NEW N, NEW W, Parsing(m, N, W), NEW T, NEW X, NEW D, Walk(m, N, W, T, X, D),
           Ahead, Quiet, Rewrite, ~RewriteCompatible, ~FillArrays, ~Enter, pc' = "rewrite"
    PROVE  UNCHANGED stores /\ Ahead'
<1>1. m \in Nat /\ Shape(m, N, W) /\ blob \in Blobs /\ All \in Nat /\ m <= All
  BY BlobAssumption DEF Parsing, All
<1>2. \A y : UNCHANGED stores => (Unwritten(y) => Unwritten(y)')
  BY UnwrittenStays DEF Quiet
<1>3. CASE RewriteByName \/ Skip \/ RewriteCells \/ SkipSecond \/ RangesEmpty
  <2>1. /\ Top.at # NULL /\ Top.lap # "children" /\ frames' = Advanced /\ UNCHANGED stores
    BY <1>3 DEF RewriteByName, Skip, RewriteCells, SkipSecond, RangesEmpty, AtArrays, AtProperty,
                OnLap, Fails
  <2>2. PICK x : AtHand(m, W, T, X, x)
    BY <1>1, <2>1, PropertyAtHand
  <2> QED
    BY <1>1, <1>2, <2>1, <2>2, AheadPasses
<1>4. CASE NoParent \/ AssertFails \/ AllocateArray
  <2>1. /\ UNCHANGED stores
        /\ frames' = frames \/ \E x : frames' = [frames EXCEPT ![1].arrays = Append(@, x)]
    BY <1>4 DEF NoParent, AssertFails, AllocateArray, Abort, rewrite_vars
  <2> QED
    BY <1>1, <2>1, AheadStays
<1>5. CASE NextLap
  <2>1. UNCHANGED stores
    BY <1>5 DEF NextLap
  <2> QED
    BY <1>1, <1>5, <2>1, AheadTurns
<1>6. CASE Call
  <2>1. UNCHANGED stores
    BY <1>6 DEF Call
  <2> QED
    BY <1>1, <1>6, <2>1, AheadCalls
<1>7. CASE Return
  <2>1. UNCHANGED stores /\ frames' = Tail(frames)
    BY <1>7 DEF Return
  <2> QED
    BY <1>1, <2>1, AheadReturns
<1> QED
  BY <1>3, <1>4, <1>5, <1>6, <1>7 DEF Rewrite

\* The steps that write arrays: what they write was still ahead.
LEMMA AheadWrites ==
    ASSUME NEW m, NEW N, NEW W, Parsing(m, N, W), NodesTo(m) # {}, OpenAfter(m) = <<>>,
           NEW T, NEW X, NEW D, Walk(m, N, W, T, X, D), Ahead, Quiet, ArraysInBounds,
           NEW S, stores \in Seq(S), RewriteCompatible \/ FillArrays
    PROVE  Ahead' /\ ArraysInBounds' /\ \E R : stores' \in Seq(R)
<1>1. m \in Nat /\ Shape(m, N, W) /\ All \in Nat /\ m <= All /\ blob' = blob
  BY BlobAssumption DEF Parsing, All, Quiet
<1>2. CASE UNCHANGED <<frames, stores>>
  BY <1>1, <1>2, AheadStays, BoundsStay
<1>3. CASE ~UNCHANGED <<frames, stores>>
  <2>1. /\ Top.at # NULL /\ Top.lap # "children" /\ frames' = Advanced
        /\ \E x, new : /\ AtHand(m, W, T, X, x) /\ Adds(x, new)
                       /\ WellFilled(new, x) /\ (ForArrays(x) => Top.lap = "second")
    BY <1>3, WritesAre
  <2>2. PICK x, new : /\ AtHand(m, W, T, X, x) /\ Adds(x, new)
                      /\ WellFilled(new, x) /\ (ForArrays(x) => Top.lap = "second")
    BY <2>1
  <2>3. /\ \E R : stores' \in Seq(R)
        /\ \A y : Unwritten(y) /\ (y # x \/ ~ForArrays(x)) => Unwritten(y)'
    BY <1>1, <2>2, AddedTo
  <2>4. Ahead'
    <3>1. Top.lap = "first" => ~ForArrays(x)
      BY <2>2
    <3> QED
      BY <1>1, <2>1, <2>2, <2>3, <3>1, AheadPasses
  <2>5. Unwritten(x)
    <3>1. CASE ~ForArrays(x)
      BY <3>1 DEF Unwritten
    <3>2. CASE ForArrays(x)
      <4>1. 1 \in 1 .. Len(frames) /\ Top = frames[1]
        BY FramesAre DEF Walk, Top
      <4>2. PropsAhead(Top) /\ NodeOf(Top) = T[1] /\ Top.lap = "second"
        BY <1>1, <2>2, <3>2, <4>1, CallsPlaced DEF Ahead, FrameAhead
      <4>3. PlaceOf(Top) = x /\ x \in OwnedTo(All) /\ Owner(x) = T[1] /\ x <= x
        BY <1>1, <2>1, <2>2 DEF AtHand, PlaceOf, This, Props, OwnedTo
      <4> QED
        BY <4>2, <4>3 DEF PropsAhead
    <3> QED
      BY <3>1, <3>2
  <2>6. ArraysInBounds'
    <3>1. PICK R : new \in Seq(R) /\ stores' = stores \o new
      BY <2>2 DEF Adds
    <3> QED
      BY <1>1, <2>2, <2>5, <3>1, BoundsKept
  <2> QED
    BY <2>3, <2>4, <2>6
<1> QED
  BY <1>2, <1>3

LEMMA ArraysStep ==
    ASSUME NodesFit, NEW m, NEW N, NEW W, RewriteAt(m, N, W), AheadInv, ArraysInBounds, [Next]_vars
    PROVE  AheadInv' /\ ArraysInBounds'
<1>1. Progress(m) /\ Phases(m, N, W) /\ TypesOK(m, W) /\ DividedTo(m, W) /\ Parsing(m, N, W)
  BY BlobAssumption DEF RewriteAt, Parsing, Progress, Built, HasRead
<1>2. Quiet \/ Takes(m + 1)
  BY <1>1, ParserStep
<1>3. UNCHANGED blob
  BY <1>2 DEF Quiet, Takes
<1>4. PICK S : stores \in Seq(S)
  BY DEF AheadInv
<1>5. CASE pc # "rewrite"
  <2>1. UNCHANGED <<frames, stores>> /\ (pc \in {"done", "printed"} => pc' \in {"done", "printed"})
    BY <1>5, OutsideRewrite
  <2>2. pc' \in {"header", "reservations", "tokens", "rewrite"}
        => pc \in {"header", "reservations", "tokens"}
    BY <1>2, <1>5 DEF Quiet, Takes
  <2>3. pc \in {"header", "reservations", "tokens"} => stores = <<>> /\ frames = <<>>
    BY <1>1 DEF AheadInv, Phases, BeforeRewrite
  <2>4. frames' = <<>> => Ahead'
    BY DEF Ahead
  <2>5. AheadInv'
    BY <1>4, <2>1, <2>2, <2>3, <2>4 DEF AheadInv
  <2> QED
    BY <1>3, <2>1, <2>5, BoundsStay
<1>6. CASE pc = "rewrite"
  <2>1. Quiet /\ InRewrite(m, N, W) /\ Ahead /\ NodesTo(m) # {} /\ OpenAfter(m) = <<>>
    BY <1>1, <1>2, <1>6 DEF Takes, Phases, InRewrite, AheadInv
  <2>2. pc' \notin {"header", "reservations", "tokens"}
    BY <1>6, <2>1 DEF Quiet
  <2>3. CASE UNCHANGED vars
    <3>1. UNCHANGED <<pc, frames, stores>>
      BY <2>3 DEF vars, parse_vars, rewrite_vars
    <3>2. Ahead'
      <4>1. CASE frames = <<>>
        BY <3>1, <4>1 DEF Ahead
      <4>2. CASE frames # <<>>
        <5>1. PICK T, X, D : Walk(m, N, W, T, X, D)
          BY <2>1, <4>2 DEF InRewrite
        <5>2. m \in Nat /\ Shape(m, N, W) /\ All \in Nat
          BY <1>1, BlobAssumption DEF Parsing, All
        <5> QED
          BY <2>1, <3>1, <5>1, <5>2, AheadStays
      <4> QED
        BY <4>1, <4>2
    <3>3. AheadInv'
      BY <1>4, <2>2, <3>1, <3>2 DEF AheadInv
    <3> QED
      BY <1>3, <3>1, <3>3, BoundsStay
  <2>4. CASE Rewrite
    <3>1. pc' = "rewrite" => frames' # <<>>
      <4>1. Walking(m, N, W)' => frames' # <<>>
        BY DEF Walking, Walk
      <4>2. Walking(m, N, W)' \/ pc' = "done"
        BY <1>1, <2>1, <2>4, CallsGoOn
      <4> QED
        BY <4>1, <4>2
    <3>2. (pc' = "rewrite" => Ahead') /\ ArraysInBounds' /\ \E R : stores' \in Seq(R)
      <4>1. CASE frames = <<>>
        <5>1. stores = <<>> /\ Enter
          BY <1>6, <2>4, <4>1, RewriteLeaves DEF AheadInv
        <5>2. UNCHANGED stores /\ frames' = <<Frame(root)>>
          BY <5>1 DEF Enter
        <5>3. Ahead'
          BY <5>1, <5>2, AheadEnters
        <5> QED
          BY <1>3, <1>4, <5>2, <5>3, BoundsStay
      <4>2. CASE frames # <<>>
        <5>1. PICK T, X, D : Walk(m, N, W, T, X, D)
          BY <2>1, <4>2 DEF InRewrite
        <5>2. ~Enter
          BY <4>2 DEF Enter
        <5>3. CASE RewriteCompatible \/ FillArrays
          BY <1>1, <1>4, <2>1, <5>1, <5>3, AheadWrites
        <5>4. CASE ~RewriteCompatible /\ ~FillArrays
          <6>1. pc' = "rewrite" => Ahead'
            BY <1>1, <2>1, <2>4, <5>1, <5>2, <5>4, AheadMoves
          <6>2. UNCHANGED stores
            BY <2>4, <5>4 DEF Rewrite, Enter, RewriteByName, Skip, RewriteCells, SkipSecond,
                              RangesEmpty, NoParent, AssertFails, AllocateArray, NextLap, Call,
                              Return, Abort, rewrite_vars
          <6> QED
            BY <1>3, <1>4, <6>1, <6>2, BoundsStay
        <5> QED
          BY <5>3, <5>4
      <4> QED
        BY <4>1, <4>2
    <3>3. AheadInv'
      BY <2>2, <3>1, <3>2 DEF AheadInv
    <3> QED
      BY <3>2, <3>3
  <2>5. ~Parse /\ ~print_device_tree
    BY <1>6 DEF Parse, Header, Reservation, ReservationsEnd, Token, parse_node, EndNode,
                pre_parse_property, Nop, Unknown, End, Reads, print_device_tree
  <2> QED
    BY <2>3, <2>4, <2>5 DEF Next, Spin
<1> QED
  BY <1>5, <1>6

\* The arrays that are ahead of the calls are unwritten, and those written are
\* in bounds.
ArraysInv == (NodesFit => AheadInv) /\ ArraysInBounds

\* Every element of reg and ranges that an array is sized for is written inside
\* the array and over no other element of it, for every blob whose nodes fit in
\* one buffer: the entries are as many as the value holds of the bytes the
\* cells ask for, a number takes no more bytes than its array has for each, and
\* no property is written twice (device_tree.cpp:232-276 and 308-339).
THEOREM ArraysAreInBounds == Spec => []ArraysInBounds
<1>1. RewriteInit => ArraysInv
  <2> SUFFICES ASSUME RewriteInit PROVE ArraysInv
    OBVIOUS
  <2>1. stores = <<>> /\ pc = "header"
    BY DEF RewriteInit, Init
  <2>2. stores \in Seq({}) /\ Len(stores) = 0
    BY <2>1
  <2> QED
    BY <2>1, <2>2 DEF ArraysInv, AheadInv, ArraysInBounds
<1>2. ASSUME ParserInv, RewriteInv, ArraysInv, [Next]_vars PROVE ArraysInv'
  <2>1. PICK k : Progress(k)
    BY <1>2 DEF ParserInv
  <2>2. UNCHANGED blob
    BY <1>2, <2>1, ParserStep DEF Quiet, Takes
  <2>3. NodesFit' = NodesFit
    BY <2>2 DEF NodesFit, Kinds, Tokens
  <2>4. CASE NodesFit
    <3>1. PICK m, N, W : RewriteAt(m, N, W)
      BY <1>2, <2>4 DEF RewriteInv
    <3>2. AheadInv' /\ ArraysInBounds'
      BY <1>2, <2>4, <3>1, ArraysStep DEF ArraysInv
    <3> QED
      BY <3>2 DEF ArraysInv
  <2>5. CASE ~NodesFit
    BY <2>3, <2>5 DEF ArraysInv, ArraysInBounds
  <2> QED
    BY <2>4, <2>5
<1>3. ArraysInv => ArraysInBounds
  BY DEF ArraysInv
<1> QED
  BY <1>1, <1>2, <1>3, ParserInvariant, RewriteInvariant, PTL DEF Spec

----------------------------------------------------------------------------
\* The listing: what is printed from a node on, and where a token stands in it.

\* The node a printed token is of.
Host(y) == IF Opens(y) THEN y ELSE Owner(y)

\* The nodes S with their properties.
TokensIn(S, m) == S \cup {y \in OwnedTo(m) : Owner(y) \in S}

\* The list v has the nodes S and their properties once each, and a node
\* before what is nested in it.
Prints(v, S, m) ==
    /\ v \in Seq(Nat) /\ SetOf(v) = TokensIn(S, m)
    /\ \A i, j \in 1 .. Len(v) : v[i] = v[j] => i = j
    /\ \A i, j \in 1 .. Len(v) : v[i] \in OpenSet(v[j] - 1) => i < j

LEMMA HostIs ==
    ASSUME NEW m \in Nat, NEW S, S \subseteq NodesTo(m), NEW y \in TokensIn(S, m)
    PROVE  Host(y) \in S /\ y \in 1 .. m /\ (Opens(y) => y \in S)
<1>1. CASE y \in S
  BY <1>1 DEF Host, NodesTo
<1>2. CASE y \in OwnedTo(m) /\ Owner(y) \in S
  <2>1. ~Opens(y) /\ y \in 1 .. m
    BY <1>2 DEF OwnedTo, Owned, Opens
  <2> QED
    BY <1>2, <2>1 DEF Host
<1> QED
  BY <1>1, <1>2 DEF TokensIn

\* What is open at a token is around its node.
LEMMA OpenAround ==
    ASSUME NEW m \in Nat, NEW S, S \subseteq NodesTo(m), NEW y \in TokensIn(S, m),
           NEW x \in OpenSet(y - 1)
    PROVE  Opens(x) /\ x \in Nat /\ Within(Host(y), x) /\ x < y
<1>1. y \in 1 .. m /\ y \in Nat \ {0} /\ y - 1 \in Nat
  BY HostIs
<1>2. Opens(x) /\ x \in 1 .. y - 1
  BY <1>1, OpenOnesAre DEF OpenOnes
<1>3. CASE y \in S
  <2>1. Opens(y) /\ Host(y) = y
    BY <1>3 DEF NodesTo, Host
  <2>2. Inside(y, x)
    BY DEF Inside, OpenSet, Outside
  <2> QED
    BY <1>1, <1>2, <2>1, <2>2 DEF Within
<1>4. CASE y \in OwnedTo(m)
  <2>1. Owned(y) /\ ~Opens(y) /\ blob.tokens[y].kind = "PROP" /\ OpenAfter(y) # <<>>
    BY <1>4 DEF OwnedTo, Owned, Opens
  <2>2. OpenAfter(y) = OpenAfter(y - 1)
    <3>1. PICK e \in Nat : e = y - 1 /\ y = e + 1
      BY <1>1
    <3>2. blob.tokens[e + 1].kind \notin {"BEGIN_NODE", "END_NODE"}
      BY <2>1, <3>1
    <3>3. OpenAfter(e + 1) = Past(OpenAfter(e), e + 1) /\ e + 1 # 0
      BY <3>1, OpenStep
    <3>4. OpenAfter(e + 1) = OpenAfter(e)
      BY <3>2, <3>3 DEF Past
    <3> QED
      BY <3>1, <3>4
  <2>3. PICK u : u = OpenAfter(y)[1]
    OBVIOUS
  <2>4. OpenSet(y) = {u} \cup OpenSet(u - 1)
    BY <1>1, <2>1, <2>3, OpenSetIs
  <2>5. x \in {u} \cup OpenSet(u - 1)
    BY <2>2, <2>4 DEF OpenSet
  <2>6. Host(y) = u
    BY <2>1, <2>3 DEF Host, Owner
  <2> QED
    BY <1>1, <1>2, <2>5, <2>6 DEF Within, Inside, OpenSet, Outside
<1> QED
  BY <1>1, <1>2, <1>3, <1>4 DEF TokensIn

\* Two lists behind one another, if nothing of the first is nested in the
\* second.
LEMMA PrintsBoth ==
    ASSUME NEW m \in Nat, NEW S, NEW R, S \subseteq NodesTo(m), R \subseteq NodesTo(m),
           NEW a, NEW b, Prints(a, S, m), Prints(b, R, m),
           \A d \in S, x \in R : ~Within(d, x)
    PROVE  Prints(a \o b, S \cup R, m)
<1>1. PICK v, k, l : v = a \o b /\ k = Len(a) /\ l = Len(b)
  OBVIOUS
<1>2. a \in Seq(Nat) /\ b \in Seq(Nat) /\ k \in Nat /\ l \in Nat
  BY <1>1 DEF Prints
<1>3. /\ v \in Seq(Nat) /\ Len(v) = k + l
      /\ \A i \in 1 .. k : v[i] = a[i]
      /\ \A i \in 1 .. l : v[k + i] = b[i]
  BY <1>1, <1>2
<1>4. ASSUME NEW i \in 1 .. Len(v)
      PROVE  i \in 1 .. k \/ \E j \in 1 .. l : i = k + j /\ v[i] = b[j]
  <2>1. CASE i <= k
    BY <1>2, <1>3, <2>1
  <2>2. CASE i > k
    <3>1. i - k \in 1 .. l /\ i = k + (i - k)
      BY <1>2, <1>3, <2>2
    <3> QED
      BY <1>3, <3>1
  <2> QED
    BY <1>2, <1>3, <2>1, <2>2
<1>5. /\ \A i \in 1 .. k : a[i] \in TokensIn(S, m)
      /\ \A j \in 1 .. l : b[j] \in TokensIn(R, m)
  BY <1>1 DEF Prints, SetOf
<1>6. SetOf(v) = TokensIn(S \cup R, m)
  <2>1. TokensIn(S \cup R, m) = SetOf(a) \cup SetOf(b)
    BY DEF Prints, TokensIn
  <2>2. ASSUME NEW e \in SetOf(v) PROVE e \in SetOf(a) \cup SetOf(b)
    <3>1. PICK i \in 1 .. Len(v) : e = v[i]
      BY <2>2 DEF SetOf
    <3> QED
      BY <1>1, <1>3, <1>4, <3>1 DEF SetOf
  <2>3. ASSUME NEW e \in SetOf(a) PROVE e \in SetOf(v)
    <3>1. PICK i \in 1 .. k : e = a[i]
      BY <1>1, <2>3 DEF SetOf
    <3>2. i \in 1 .. Len(v) /\ v[i] = e
      BY <1>2, <1>3, <3>1
    <3> QED
      BY <3>2 DEF SetOf
  <2>4. ASSUME NEW e \in SetOf(b) PROVE e \in SetOf(v)
    <3>1. PICK i \in 1 .. l : e = b[i]
      BY <1>1, <2>4 DEF SetOf
    <3>2. PICK j : j = k + i
      OBVIOUS
    <3>3. j \in 1 .. Len(v)
      BY <1>2, <1>3, <3>2
    <3>4. v[j] = e
      BY <1>3, <3>1, <3>2
    <3> QED
      BY <3>3, <3>4 DEF SetOf
  <2> QED
    BY <2>1, <2>2, <2>3, <2>4
<1>7. ASSUME NEW i \in 1 .. k, NEW j \in 1 .. l PROVE a[i] # b[j] /\ b[j] \notin OpenSet(a[i] - 1)
  <2>1. Host(a[i]) \in S /\ (b[j] = a[i] => Host(b[j]) \in R)
    BY <1>5, HostIs
  <2>2. a[i] # b[j]
    BY <2>1 DEF Within
  <2>3. ASSUME b[j] \in OpenSet(a[i] - 1) PROVE FALSE
    <3>1. Opens(b[j]) /\ Within(Host(a[i]), b[j])
      BY <1>5, <2>3, OpenAround
    <3>2. b[j] \in R
      BY <1>5, <3>1, HostIs
    <3> QED
      BY <2>1, <3>1, <3>2
  <2> QED
    BY <2>2, <2>3
<1>8. ASSUME NEW i \in 1 .. Len(v), NEW j \in 1 .. Len(v)
      PROVE  (v[i] = v[j] => i = j) /\ (v[i] \in OpenSet(v[j] - 1) => i < j)
  <2>1. CASE i \in 1 .. k /\ j \in 1 .. k
    BY <1>1, <1>3, <2>1 DEF Prints
  <2>2. ASSUME i \in 1 .. k, NEW y \in 1 .. l, j = k + y, v[j] = b[y]
        PROVE  (v[i] = v[j] => i = j) /\ (v[i] \in OpenSet(v[j] - 1) => i < j)
    <3>1. i < j
      BY <1>2, <2>2
    <3>2. v[i] # v[j]
      BY <1>3, <1>7, <2>2
    <3> QED
      BY <3>1, <3>2
  <2>3. ASSUME j \in 1 .. k, NEW x \in 1 .. l, i = k + x, v[i] = b[x]
        PROVE  (v[i] = v[j] => i = j) /\ (v[i] \in OpenSet(v[j] - 1) => i < j)
    BY <1>3, <1>7, <2>3
  <2>4. ASSUME NEW x \in 1 .. l, i = k + x, v[i] = b[x], NEW y \in 1 .. l, j = k + y, v[j] = b[y]
        PROVE  (v[i] = v[j] => i = j) /\ (v[i] \in OpenSet(v[j] - 1) => i < j)
    <3>1. (b[x] = b[y] => x = y) /\ (b[x] \in OpenSet(b[y] - 1) => x < y)
      BY <1>1 DEF Prints
    <3>2. (x = y => i = j) /\ (x < y => i < j)
      BY <1>2, <2>4
    <3> QED
      BY <2>4, <3>1, <3>2
  <2> QED
    BY <1>4, <2>1, <2>2, <2>3, <2>4
<1> QED
  BY <1>1, <1>3, <1>6, <1>8 DEF Prints

\* Nothing is printed for no node.
LEMMA PrintsNothing == ASSUME NEW m PROVE Prints(<<>>, {}, m)
<1>1. PICK e : e = <<>>
  OBVIOUS
<1>2. e \in Seq(Nat) /\ Len(e) = 0
  BY <1>1
<1>3. SetOf(e) = {} /\ TokensIn({}, m) = {}
  BY <1>2 DEF SetOf, TokensIn
<1> QED
  BY <1>1, <1>2, <1>3 DEF Prints

----------------------------------------------------------------------------
\* The nodes that a pointer to a node leads to: that node, the elder ones of
\* its parent, and all that is nested in them.
SpanOf(S, m) == {d \in NodesTo(m) : \E s \in S : Within(d, s)}
FromOn(k) == {k} \cup Elder(k)

\* What a node is nested in comes before it.
LEMMA InsideEarlier ==
    ASSUME NEW d \in Nat \ {0}, NEW c, Inside(d, c)
    PROVE  c \in 1 .. d - 1 /\ c < d /\ Opens(c)
<1>1. d - 1 \in Nat /\ c \in OpenSet(d - 1)
  BY DEF Inside, OpenSet, Outside
<1>2. c \in 1 .. d - 1 /\ Opens(c)
  BY <1>1, OpenOnesAre DEF OpenOnes
<1> QED
  BY <1>2

LEMMA WithinTwice ==
    ASSUME NEW d \in Nat \ {0}, NEW c \in Nat \ {0}, NEW s, Within(d, c), Within(c, s)
    PROVE  Within(d, s)
<1>1. CASE d = c \/ c = s
  BY <1>1 DEF Within
<1>2. CASE Inside(d, c) /\ Inside(c, s)
  <2>1. d - 1 \in Nat /\ c \in OpenSet(d - 1) /\ s \in OpenSet(c - 1)
    BY <1>2 DEF Inside, OpenSet, Outside
  <2>2. OpenSet(c - 1) \subseteq OpenSet(d - 1)
    BY <2>1, OpenOnesAre DEF OpenOnes
  <2> QED
    BY <2>1, <2>2 DEF Within, Inside, OpenSet, Outside
<1> QED
  BY <1>1, <1>2 DEF Within

\* No node is nested in two children of a node.
LEMMA ChildrenApart ==
    ASSUME NEW d \in Nat \ {0}, NEW k \in Nat \ {0}, NEW s \in Nat \ {0}, NEW t,
           Child(k, t), Child(s, t), s < k, Within(d, k)
    PROVE  ~Within(d, s)
<1>1. SUFFICES ASSUME Within(d, s) PROVE FALSE
  OBVIOUS
<1>2. k <= d
  BY InsideEarlier DEF Within
<1>3. Inside(d, s)
  BY <1>1, <1>2 DEF Within
<1>4. Inside(k, s)
  <2>1. CASE d = k
    BY <1>3, <2>1
  <2>2. CASE d # k
    <3>1. PICK e, f : e = d - 1 /\ f = k - 1
      OBVIOUS
    <3>2. e \in Nat /\ f \in Nat /\ f <= e /\ s <= f /\ s \in OpenSet(e)
      BY <1>2, <1>3, <3>1 DEF Inside, OpenSet, Outside
    <3>3. s \in OpenSet(f)
      BY <3>2, OpenBetween
    <3> QED
      BY <3>1, <3>3 DEF Inside, OpenSet, Outside
  <2> QED
    BY <2>1, <2>2
<1>5. t \in 1 .. s - 1 /\ (s = t \/ Inside(t, s))
  BY <1>4, ChildIs
<1>6. t \in Nat \ {0} /\ t < s /\ Inside(t, s)
  BY <1>5
<1>7. s < t
  BY <1>6, InsideEarlier
<1> QED
  BY <1>6, <1>7

\* What is nested in a node is nested in one of its children.
LEMMA BelowIs ==
    ASSUME NEW m \in Nat, NEW k \in NodesTo(m)
    PROVE  SpanOf({k}, m) = {k} \cup SpanOf(Kids(k, m), m)
<1>1. k \in Nat \ {0} /\ k \in 1 .. m
  BY DEF NodesTo
<1>2. ASSUME NEW d \in NodesTo(m), Within(d, k), d # k PROVE d \in SpanOf(Kids(k, m), m)
  <2>1. PICK e : e = d - 1
    OBVIOUS
  <2>2. d \in 1 .. m /\ Opens(d) /\ e \in Nat /\ k \in OpenSet(e)
    BY <1>2, <2>1 DEF Within, Inside, OpenSet, Outside, NodesTo
  <2>3. /\ OpenAfter(e) # <<>>
        /\ k = OpenAfter(e)[1] \/ \E c \in OpenSet(e) : Child(c, k)
    BY <2>2, OpenOnesAre DEF OpenOnes
  <2>4. CASE k = OpenAfter(e)[1]
    <3>1. d \in Kids(k, m)
      BY <2>1, <2>2, <2>3, <2>4 DEF Kids, Child, Outside
    <3> QED
      BY <3>1 DEF SpanOf, Within
  <2>5. ASSUME NEW c \in OpenSet(e), Child(c, k) PROVE d \in SpanOf(Kids(k, m), m)
    <3>1. c \in 1 .. e /\ Opens(c)
      BY <2>2, OpenOnesAre DEF OpenOnes
    <3>2. c \in Kids(k, m)
      BY <2>1, <2>2, <2>5, <3>1 DEF Kids
    <3>3. Within(d, c)
      BY <2>1 DEF Within, Inside, OpenSet, Outside
    <3> QED
      BY <3>2, <3>3 DEF SpanOf
  <2> QED
    BY <2>3, <2>4, <2>5
<1>3. ASSUME NEW d \in SpanOf(Kids(k, m), m) PROVE d \in SpanOf({k}, m)
  <2>1. PICK c \in Kids(k, m) : Within(d, c)
    BY <1>3 DEF SpanOf
  <2>2. d \in NodesTo(m) /\ d \in Nat \ {0}
    BY <1>3 DEF SpanOf, NodesTo
  <2> QED
    BY <2>1, <2>2, WithinChild DEF SpanOf
<1>4. k \in SpanOf({k}, m)
  BY DEF SpanOf, Within
<1>5. ASSUME NEW d \in SpanOf({k}, m) PROVE d \in {k} \cup SpanOf(Kids(k, m), m)
  BY <1>2, <1>5 DEF SpanOf
<1> QED
  BY <1>3, <1>4, <1>5

\* So what a pointer leads to falls into three parts, none of which goes on in
\* the ones behind it.
LEMMA SpanSplits ==
    ASSUME NEW m \in Nat, NEW k \in NodesTo(m)
    PROVE  LET kin == SpanOf(Kids(k, m), m)
               old == SpanOf(Elder(k), m)
           IN  /\ SpanOf(FromOn(k), m) = ({k} \cup kin) \cup old
               /\ \A x \in kin : ~Within(k, x)
               /\ \A d \in {k} \cup kin, x \in old : ~Within(d, x)
<1>1. PICK kin, old : kin = SpanOf(Kids(k, m), m) /\ old = SpanOf(Elder(k), m)
  OBVIOUS
<1>2. k \in Nat \ {0} /\ k \in 1 .. m
  BY DEF NodesTo
<1>3. SpanOf({k}, m) = {k} \cup kin
  BY <1>1, BelowIs
<1>4. SpanOf(FromOn(k), m) = ({k} \cup kin) \cup old
  <2>1. SpanOf(FromOn(k), m) = SpanOf({k}, m) \cup old
    BY <1>1 DEF SpanOf, FromOn
  <2> QED
    BY <1>3, <2>1
<1>5. ASSUME NEW x \in kin PROVE ~Within(k, x)
  <2>1. PICK c \in Kids(k, m) : Within(x, c) /\ x \in Nat \ {0}
    BY <1>1 DEF SpanOf, NodesTo
  <2>2. c \in Nat \ {0} /\ k < c
    BY <2>1, NotWithin DEF Kids
  <2>3. c <= x
    BY <2>1, <2>2, InsideEarlier DEF Within
  <2>4. Within(k, x) => x <= k
    BY <1>2, <2>1, InsideEarlier DEF Within
  <2> QED
    BY <1>2, <2>1, <2>2, <2>3, <2>4
<1>6. ASSUME NEW d \in {k} \cup kin, NEW x \in old, Within(d, x) PROVE FALSE
  <2>1. Within(d, k) /\ d \in Nat \ {0}
    BY <1>3 DEF SpanOf, NodesTo
  <2>2. PICK s \in Elder(k) : Within(x, s) /\ x \in Nat \ {0}
    BY <1>1 DEF SpanOf, NodesTo
  <2>3. Outside(k) # <<>> /\ s \in Kids(Outside(k)[1], k - 1)
    BY <2>2 DEF Elder
  <2>4. PICK t : t = Outside(k)[1]
    OBVIOUS
  <2>5. Child(k, t) /\ Child(s, t) /\ s \in Nat \ {0} /\ s < k
    BY <1>2, <2>3, <2>4 DEF Kids, Child
  <2>6. Within(d, s)
    BY <1>6, <2>1, <2>2, WithinTwice
  <2> QED
    BY <1>2, <2>1, <2>5, <2>6, ChildrenApart
<1> QED
  BY <1>1, <1>4, <1>5, <1>6

\* A pointer to the last of the children up to a token leads to them all.
LEMMA FromLast ==
    ASSUME NEW m \in Nat, NEW N, NEW t, NEW b \in 0 .. m, NEW p, Leads(p, N, Kids(t, b))
    PROVE  \/ p = NULL /\ SpanOf(Kids(t, b), m) = {}
           \/ \E c \in NodesTo(m) : p = N[c] /\ FromOn(c) = Kids(t, b)
<1>1. CASE Kids(t, b) = {}
  BY <1>1 DEF Leads, SpanOf
<1>2. CASE Kids(t, b) # {}
  <2>1. PICK c \in Kids(t, b) : (\A y \in Kids(t, b) : y <= c) /\ p = N[c]
    BY <1>2 DEF Leads
  <2>2. c \in 1 .. b /\ Opens(c) /\ Child(c, t) /\ c \in Nat
    BY <2>1 DEF Kids
  <2>3. Elder(c) = Kids(t, c - 1)
    BY <2>2 DEF Elder, Child
  <2>4. ASSUME NEW y \in Kids(t, b), y # c PROVE y \in Kids(t, c - 1)
    <3>1. y \in 1 .. b /\ y <= c
      BY <2>1, <2>4 DEF Kids
    <3>2. y \in 1 .. c - 1
      BY <2>2, <2>4, <3>1
    <3> QED
      BY <2>4, <3>2 DEF Kids
  <2>5. Kids(t, c - 1) \subseteq Kids(t, b)
    <3>1. 1 .. c - 1 \subseteq 1 .. b
      BY <2>2
    <3> QED
      BY <3>1 DEF Kids
  <2>6. FromOn(c) = Kids(t, b)
    BY <2>1, <2>3, <2>4, <2>5 DEF FromOn
  <2>7. c \in NodesTo(m)
    BY <2>2 DEF NodesTo
  <2> QED
    BY <2>1, <2>6, <2>7
<1> QED
  BY <1>1, <1>2

\* The two pointers of a node that the listing goes on with.
LEMMA PrintsOn ==
    ASSUME NEW m \in Nat, NEW N, NEW W, Shape(m, N, W), NEW k \in NodesTo(m)
    PROVE  /\ LET p == Deref(nodes, N[k]).children
              IN  \/ p = NULL /\ SpanOf(Kids(k, m), m) = {}
                  \/ \E c \in NodesTo(m) : p = N[c] /\ FromOn(c) = Kids(k, m)
           /\ LET p == Deref(nodes, N[k]).next_sibling
              IN  \/ p = NULL /\ SpanOf(Elder(k), m) = {}
                  \/ \E c \in NodesTo(m) : p = N[c] /\ FromOn(c) = Elder(k)
<1>1. PICK p, q : p = Deref(nodes, N[k]).children /\ q = Deref(nodes, N[k]).next_sibling
  OBVIOUS
<1>2. Leads(p, N, Kids(k, m)) /\ Leads(q, N, Elder(k))
  BY <1>1 DEF Shape, NodeLeads
<1>3. m \in 0 .. m /\ k - 1 \in 0 .. m
  BY DEF NodesTo
<1>4. \/ p = NULL /\ SpanOf(Kids(k, m), m) = {}
      \/ \E c \in NodesTo(m) : p = N[c] /\ FromOn(c) = Kids(k, m)
  BY <1>2, <1>3, FromLast
<1>5. \/ q = NULL /\ SpanOf(Elder(k), m) = {}
      \/ \E c \in NodesTo(m) : q = N[c] /\ FromOn(c) = Elder(k)
  <2>1. CASE Outside(k) = <<>>
    BY <1>2, <2>1 DEF Elder, Leads, SpanOf
  <2>2. CASE Outside(k) # <<>>
    <3>1. PICK t, b : t = Outside(k)[1] /\ b = k - 1
      OBVIOUS
    <3>2. Elder(k) = Kids(t, b) /\ b \in 0 .. m
      BY <1>3, <2>2, <3>1 DEF Elder
    <3> QED
      BY <1>2, <3>2, FromLast
  <2> QED
    BY <2>1, <2>2
<1> QED
  BY <1>1, <1>4, <1>5

----------------------------------------------------------------------------
\* What is printed of one node.

\* The list of its properties has each of them, the last that was read first.
LEMMA PropertiesListed ==
    ASSUME NEW m \in Nat, NEW N, NEW W, Shape(m, N, W), NEW k \in NodesTo(m), NEW c,
           IsOwned(Deref(nodes, N[k]), c), NEW v, v = Names(properties, c)
    PROVE  /\ v \in Seq(Nat) /\ SetOf(v) = Props(k, m)
           /\ \A i, j \in 1 .. Len(v) : i < j => v[j] < v[i]
<1> DEFINE S(i) == /\ c[i] = W[v[i]] /\ v[i] \in Props(k, m)
                   /\ \A z \in Props(k, m) : z > v[i] => \E j \in 1 .. i - 1 : v[j] = z
                   /\ \A j \in 1 .. i - 1 : v[j] \in Nat /\ v[i] < v[j]
           R == {n \in Nat : \A i \in 1 .. Len(c) : i <= n => S(i)}
<1>1. /\ c \in Seq(Pointers) /\ Len(c) \in Nat
      /\ \A i \in 1 .. Len(c) :
            /\ PointsInto(properties, c[i])
            /\ Deref(properties, c[i]).next_property = IF i = Len(c) THEN NULL ELSE c[i + 1]
      /\ Deref(nodes, N[k]).properties = IF Len(c) = 0 THEN NULL ELSE c[1]
  BY DEF IsOwned, IsList
<1>2. /\ \A i \in 1 .. Len(c) : c[i] # NULL
      /\ \A y \in OwnedTo(m) : W[y] # NULL /\ Deref(properties, W[y]).token = y
  BY <1>1 DEF PointsInto, NULL, Shape, PropertiesAt
<1>3. /\ \A t : Props(t, m) \subseteq OwnedTo(m)
      /\ \A y \in Props(k, m) : y \in Nat /\ y \in 1 .. m /\ Owner(y) = k
  BY DEF Props, OwnedTo
<1>4. /\ Len(v) = Len(c) /\ DOMAIN v = 1 .. Len(c)
      /\ \A i \in 1 .. Len(c) : v[i] = Deref(properties, c[i]).token
  BY <1>1 DEF Names
<1>5. Leads(Deref(nodes, N[k]).properties, W, Props(k, m))
  BY DEF Shape, NodeLeads
<1>6. ASSUME 1 \in 1 .. Len(c) PROVE S(1)
  <2>1. PICK y \in Props(k, m) : (\A z \in Props(k, m) : z <= y) /\ c[1] = W[y]
    BY <1>1, <1>2, <1>5, <1>6 DEF Leads
  <2>2. v[1] = y
    BY <1>2, <1>3, <1>4, <1>6, <2>1
  <2>3. \A z \in Props(k, m) : ~(z > y)
    BY <1>3, <2>1
  <2> QED
    BY <2>1, <2>2, <2>3
<1>7. ASSUME NEW i \in Nat, i \in 1 .. Len(c), S(i), i + 1 \in 1 .. Len(c) PROVE S(i + 1)
  <2>1. PICK y : y = v[i]
    OBVIOUS
  <2>2. y \in Props(k, m) /\ c[i] = W[y] /\ y \in Nat /\ y \in 1 .. m /\ Owner(y) = k
    BY <1>3, <1>7, <2>1
  <2>3. Deref(properties, W[y]).next_property = c[i + 1]
    BY <1>1, <1>7, <2>2
  <2>4. Leads(c[i + 1], W, Props(k, y - 1))
    BY <1>3, <2>2, <2>3 DEF Shape
  <2>5. PICK x \in Props(k, y - 1) : (\A z \in Props(k, y - 1) : z <= x) /\ c[i + 1] = W[x]
    BY <1>2, <1>7, <2>4 DEF Leads
  <2>6. x \in Props(k, m) /\ x \in Nat /\ x < y
    BY <2>2, <2>5 DEF Props
  <2>7. v[i + 1] = x
    BY <1>2, <1>3, <1>4, <1>7, <2>5, <2>6
  <2>8. ASSUME NEW z \in Props(k, m), z > x PROVE \E j \in 1 .. (i + 1) - 1 : v[j] = z
    <3>1. CASE z < y
      <4>1. z \in Props(k, y - 1)
        BY <1>3, <2>2, <2>8, <3>1 DEF Props
      <4>2. z <= x
        BY <2>5, <4>1
      <4> QED
        BY <1>3, <2>6, <2>8, <4>2
    <3>2. CASE z = y
      BY <1>7, <2>1, <3>2
    <3>3. CASE z > y
      <4>1. PICK j \in 1 .. i - 1 : v[j] = z
        BY <1>7, <2>1, <2>8, <3>3
      <4> QED
        BY <1>7, <4>1
    <3> QED
      BY <1>3, <2>2, <2>8, <3>1, <3>2, <3>3
  <2>9. ASSUME NEW j \in 1 .. (i + 1) - 1 PROVE v[j] \in Nat /\ x < v[j]
    <3>1. CASE j = i
      BY <2>1, <2>2, <2>6, <3>1
    <3>2. CASE j # i
      <4>1. j \in 1 .. i - 1
        BY <1>7, <2>9, <3>2
      <4>2. v[j] \in Nat /\ y < v[j]
        BY <1>7, <2>1, <4>1
      <4> QED
        BY <2>2, <2>6, <4>2
    <3> QED
      BY <3>1, <3>2
  <2> QED
    BY <2>5, <2>6, <2>7, <2>8, <2>9
<1>8. \A n \in Nat : n \in R
  <2>1. 0 \in R
    BY <1>1
  <2>2. ASSUME NEW n \in Nat, n \in R PROVE n + 1 \in R
    <3>1. SUFFICES ASSUME NEW i \in 1 .. Len(c), i <= n + 1 PROVE S(i)
      OBVIOUS
    <3>2. CASE i <= n
      BY <2>2, <3>2
    <3>3. CASE i = 1
      BY <1>6, <3>3
    <3>4. CASE i = n + 1 /\ i # 1
      <4>1. n \in 1 .. Len(c) /\ n + 1 \in 1 .. Len(c)
        BY <1>1, <2>2, <3>4
      <4>2. S(n)
        BY <2>2, <4>1
      <4>3. S(n + 1)
        BY <1>7, <2>2, <4>1, <4>2
      <4> QED
        BY <3>4, <4>3
    <3> QED
      BY <1>1, <2>2, <3>1, <3>2, <3>3, <3>4
  <2> HIDE DEF R
  <2> QED
    BY <2>1, <2>2, SetInduction
<1>9. \A i \in 1 .. Len(c) : S(i)
  <2>1. Len(c) \in R
    BY <1>1, <1>8
  <2> QED
    BY <1>1, <2>1
<1>10. \A i \in 1 .. Len(c) : v[i] \in Props(k, m) /\ v[i] \in Nat
  BY <1>3, <1>9
<1>11. v \in Seq(Nat)
  <2>1. v = [i \in 1 .. Len(c) |-> v[i]]
    BY DEF Names
  <2> QED
    BY <1>1, <1>10, <2>1
<1>12. \A i, j \in 1 .. Len(v) : i < j => v[j] < v[i]
  <2>1. ASSUME NEW i \in 1 .. Len(c), NEW j \in 1 .. Len(c), i < j PROVE v[j] < v[i]
    <3>1. i \in 1 .. j - 1
      BY <1>1, <2>1
    <3> QED
      BY <1>9, <3>1
  <2> QED
    BY <1>4, <2>1
<1>13. ASSUME NEW z \in Props(k, m) PROVE z \in SetOf(v)
  <2>1. CASE Len(c) = 0
    <3>1. Deref(nodes, N[k]).properties = NULL
      BY <1>1, <2>1
    <3> QED
      BY <1>2, <1>3, <1>5, <1>13, <3>1 DEF Leads
  <2>2. CASE Len(c) # 0
    <3>1. PICK l : l = Len(c)
      OBVIOUS
    <3>2. l \in 1 .. Len(c) /\ c[l] = W[v[l]] /\ v[l] \in Props(k, m)
      BY <1>1, <1>9, <2>2, <3>1
    <3>3. PICK y : y = v[l]
      OBVIOUS
    <3>4. y \in OwnedTo(m) /\ y \in Nat /\ y \in 1 .. m /\ Owner(y) = k
          /\ Deref(properties, W[y]).next_property = NULL
      BY <1>1, <1>3, <3>1, <3>2, <3>3
    <3>5. Leads(NULL, W, Props(k, y - 1))
      BY <3>4 DEF Shape
    <3>6. Props(k, y - 1) = {}
      <4>1. Props(k, y - 1) \subseteq Props(k, m)
        BY <3>4 DEF Props
      <4> QED
        BY <1>2, <1>3, <3>5, <4>1 DEF Leads
    <3>7. ~(z < y)
      <4>1. z < y => z \in Props(k, y - 1)
        BY <1>3, <1>13, <3>4 DEF Props
      <4> QED
        BY <3>6, <4>1
    <3>8. CASE z = y
      BY <1>4, <3>2, <3>3, <3>8 DEF SetOf
    <3>9. CASE z > y
      <4>1. PICK j \in 1 .. l - 1 : v[j] = z
        BY <1>9, <1>13, <3>2, <3>3, <3>9
      <4>2. j \in 1 .. Len(v)
        <5>1. Len(v) = l
          BY <1>4, <3>1
        <5>2. l \in Nat
          BY <1>1, <3>1
        <5>3. 1 .. l - 1 \subseteq 1 .. l
          BY <5>2
        <5> QED
          BY <4>1, <5>1, <5>3
      <4>3. v[j] \in SetOf(v)
        BY <4>2 DEF SetOf
      <4> QED
        BY <4>1, <4>3
    <3> QED
      BY <1>3, <1>13, <3>4, <3>7, <3>8, <3>9
  <2> QED
    BY <2>1, <2>2
<1>14. SetOf(v) = Props(k, m)
  BY <1>4, <1>10, <1>13 DEF SetOf
<1> QED
  BY <1>11, <1>12, <1>14

\* A node and its properties, in a line of their own.
LEMMA PrintsLine ==
    ASSUME NEW m \in Nat, m <= Len(blob.tokens), Len(blob.tokens) \in Nat,
           NEW N, NEW W, Shape(m, N, W), TreeOK(m), NEW k \in NodesTo(m)
    PROVE  Prints(Line(N[k]), {k}, m)
<1>1. PointsInto(nodes, N[k]) /\ Deref(nodes, N[k]).token = k /\ N[k] \in Elements
  BY DEF Shape, NodesAt, Elements
<1>2. PICK c : IsOwned(Deref(nodes, N[k]), c) /\ Len(c) <= m
  BY <1>1 DEF TreeOK, Lists
<1>3. Len(c) \in Nat /\ Len(c) <= Len(blob.tokens)
  BY <1>2 DEF IsOwned, IsList
<1>4. Chain(properties, Deref(nodes, N[k]).properties, "next_property") = c
  BY <1>2, <1>3, ChainIs DEF IsOwned
<1>5. PICK v : v = Names(properties, c)
  OBVIOUS
<1>6. Line(N[k]) = <<k>> \o v
  BY <1>1, <1>4, <1>5 DEF Line, TokensOf, Names
<1>7. /\ v \in Seq(Nat) /\ SetOf(v) = Props(k, m)
      /\ \A i, j \in 1 .. Len(v) : i < j => v[j] < v[i]
  BY <1>2, <1>5, PropertiesListed
<1>8. k \in Nat \ {0} /\ k \in 1 .. m /\ Opens(k)
  BY DEF NodesTo
<1>9. PICK w, l : w = <<k>> \o v /\ l = Len(v)
  OBVIOUS
<1>10. /\ w \in Seq(Nat) /\ Len(w) = l + 1 /\ l \in Nat /\ w[1] = k
       /\ \A i \in 2 .. l + 1 : i - 1 \in 1 .. l /\ w[i] = v[i - 1]
  BY <1>7, <1>8, <1>9
<1>11. ASSUME NEW y \in Props(k, m)
       PROVE  ~Opens(y) /\ y \in OwnedTo(m) /\ Owner(y) = k
  BY DEF Props, OwnedTo, Owned, Opens
<1>12. \A i \in 1 .. l : v[i] \in Props(k, m) /\ v[i] \in Nat
  <2>1. \A i \in 1 .. l : v[i] \in Props(k, m)
    BY <1>7, <1>9 DEF SetOf
  <2>2. \A i \in 1 .. l : v[i] \in Nat
    BY <1>7, <1>9
  <2> QED
    BY <2>1, <2>2
<1>13. \A i \in 2 .. l + 1 : w[i] \in Props(k, m)
  BY <1>10, <1>12
<1>14. SetOf(w) = TokensIn({k}, m)
  <2>1. ASSUME NEW e \in SetOf(w) PROVE e \in TokensIn({k}, m)
    <3>1. PICK i \in 1 .. l + 1 : e = w[i]
      BY <1>10, <2>1 DEF SetOf
    <3>2. CASE i = 1
      BY <1>10, <3>1, <3>2 DEF TokensIn
    <3>3. CASE i # 1
      <4>1. e \in Props(k, m)
        BY <1>10, <1>13, <3>1, <3>3
      <4> QED
        BY <1>11, <4>1 DEF TokensIn
    <3> QED
      BY <3>2, <3>3
  <2>2. k \in SetOf(w)
    <3>1. 1 \in 1 .. Len(w)
      BY <1>10
    <3> QED
      BY <1>10, <3>1 DEF SetOf
  <2>3. ASSUME NEW y \in OwnedTo(m), Owner(y) = k PROVE y \in SetOf(w)
    <3>1. y \in SetOf(v)
      BY <1>7, <2>3 DEF Props, OwnedTo
    <3>2. PICK i \in 1 .. l : y = v[i]
      BY <1>9, <3>1 DEF SetOf
    <3>3. i + 1 \in 2 .. l + 1 /\ (i + 1) - 1 = i /\ i + 1 \in 1 .. Len(w)
      BY <1>10, <3>2
    <3>4. w[i + 1] = y
      BY <1>10, <3>2, <3>3
    <3> QED
      BY <3>3, <3>4 DEF SetOf
  <2> QED
    BY <2>1, <2>2, <2>3 DEF TokensIn
<1>15. ASSUME NEW i \in 1 .. Len(w), NEW j \in 1 .. Len(w), w[i] = w[j] PROVE i = j
  <2>1. i \in 1 .. l + 1 /\ j \in 1 .. l + 1
    BY <1>10
  <2>2. CASE i = 1 \/ j = 1
    <3>1. \A x \in 2 .. l + 1 : w[x] # k
      BY <1>8, <1>11, <1>13
    <3> QED
      BY <1>10, <1>15, <2>1, <2>2, <3>1
  <2>3. CASE i # 1 /\ j # 1
    <3>1. PICK x, y : x = i - 1 /\ y = j - 1
      OBVIOUS
    <3>2. x \in 1 .. l /\ y \in 1 .. l /\ v[x] = v[y] /\ (x = y => i = j)
      BY <1>10, <1>15, <2>1, <2>3, <3>1
    <3>3. v[x] \in Nat /\ v[y] \in Nat
      BY <1>12, <3>2
    <3>4. \A a, b \in 1 .. l : a < b => v[b] < v[a]
      BY <1>7, <1>9
    <3>5. ~(x < y) /\ ~(y < x)
      BY <3>2, <3>3, <3>4
    <3>6. x \in Nat /\ y \in Nat
      BY <1>10, <3>2
    <3> QED
      BY <3>2, <3>5, <3>6
  <2> QED
    BY <2>2, <2>3
<1>16. ASSUME NEW i \in 1 .. Len(w), NEW j \in 1 .. Len(w), w[i] \in OpenSet(w[j] - 1)
       PROVE  i < j
  <2>1. w[j] \in TokensIn({k}, m) /\ {k} \subseteq NodesTo(m)
    BY <1>14 DEF SetOf
  <2>2. Opens(w[i]) /\ w[i] < w[j]
    BY <1>16, <2>1, OpenAround
  <2>3. i = 1
    BY <1>10, <1>11, <1>13, <2>2
  <2>4. j # 1
    BY <1>8, <1>10, <2>2, <2>3
  <2> QED
    BY <1>10, <2>3, <2>4
<1>17. Prints(w, {k}, m)
  BY <1>10, <1>14, <1>15, <1>16 DEF Prints
<1> QED
  BY <1>6, <1>9, <1>17

----------------------------------------------------------------------------
\* The recursion of the listing.

\* The listing that follows n links, by those that follow one less.
Printed(before, n) ==
    [q \in Pointers |->
        IF n = 0 \/ q = NULL THEN <<>>
        ELSE Line(q) \o before[Deref(nodes, q).children] \o before[Deref(nodes, q).next_sibling]]

IsPrintout(F, n) == F = [k \in 0 .. n |-> Printed(F[k - 1], k)]

\* There is such a function, for any number of links.
LEMMA PrintoutsExist == \A n \in Nat : \E F : IsPrintout(F, n)
<1> DEFINE S == {n \in Nat : \E F : IsPrintout(F, n)}
<1>1. \A f, g : Printed(f, 0) = Printed(g, 0)
  BY DEF Printed
<1>2. 0 \in S
  <2> DEFINE G == [k \in 0 .. 0 |-> Printed(0, 0)]
  <2>1. \A k \in 0 .. 0 : k = 0
    OBVIOUS
  <2>2. G = [k \in 0 .. 0 |-> Printed(G[k - 1], k)]
    BY <1>1, <2>1
  <2> QED
    BY <2>2 DEF IsPrintout
<1>3. ASSUME NEW n \in Nat, n \in S PROVE n + 1 \in S
  <2>1. PICK F : IsPrintout(F, n)
    BY <1>3
  <2> DEFINE G == [k \in 0 .. n + 1 |-> IF k <= n THEN F[k] ELSE Printed(F[n], n + 1)]
  <2>2. \A k \in 0 .. n : F[k] = Printed(F[k - 1], k)
    BY <2>1 DEF IsPrintout
  <2>3. \A k \in 0 .. n : G[k] = F[k]
    OBVIOUS
  <2>4. G[n + 1] = Printed(F[n], n + 1)
    OBVIOUS
  <2>5. DOMAIN G = 0 .. n + 1 /\ G = [k \in 0 .. n + 1 |-> G[k]]
    OBVIOUS
  <2> HIDE DEF G
  <2>6. ASSUME NEW k \in 0 .. n + 1 PROVE G[k] = Printed(G[k - 1], k)
    <3>1. CASE k = 0
      <4>1. k \in 0 .. n
        BY <3>1
      <4>2. G[k] = Printed(F[k - 1], 0)
        BY <3>1, <4>1, <2>2, <2>3
      <4> QED
        BY <3>1, <4>2, <1>1
    <3>2. CASE k \in 1 .. n
      <4>1. k \in 0 .. n /\ k - 1 \in 0 .. n
        BY <3>2
      <4> QED
        BY <4>1, <2>2, <2>3
    <3>3. CASE k = n + 1
      <4>1. n \in 0 .. n /\ k - 1 = n
        BY <3>3
      <4> QED
        BY <4>1, <3>3, <2>3, <2>4
    <3> QED
      BY <3>1, <3>2, <3>3
  <2>7. IsPrintout(G, n + 1)
    BY <2>5, <2>6 DEF IsPrintout
  <2> QED
    BY <2>7
<1> HIDE DEF S
<1>4. \A n \in Nat : n \in S
  BY <1>2, <1>3, SetInduction
<1> QED
  BY <1>4 DEF S

\* What a pointer leads to, without the node it points to, is less.
LEMMA SpanShrinks ==
    ASSUME NEW m \in Nat, NEW S, NEW k \in SpanOf(S, m), NEW R, R \subseteq SpanOf(S, m), k \notin R
    PROVE  /\ Cardinality(R) \in Nat /\ Cardinality(SpanOf(S, m)) \in Nat
           /\ Cardinality(R) < Cardinality(SpanOf(S, m))
<1>1. PICK Z : Z = SpanOf(S, m)
  OBVIOUS
<1>2. IsFiniteSet(1 .. m) /\ Z \subseteq 1 .. m
  BY <1>1, FS_Interval DEF SpanOf, NodesTo
<1>3. IsFiniteSet(Z)
  BY <1>2, FS_Subset
<1>4. IsFiniteSet(R) /\ Cardinality(R) <= Cardinality(Z) /\ (Cardinality(Z) = Cardinality(R) => Z = R)
  BY <1>1, <1>3, FS_Subset
<1>5. Cardinality(Z) \in Nat /\ Cardinality(R) \in Nat
  BY <1>3, <1>4, FS_CardinalityType
<1>6. Z # R
  BY <1>1
<1> QED
  BY <1>1, <1>4, <1>5, <1>6

\* With as many links as it has nodes to follow, the listing from a node on is
\* that of what its pointer leads to.
LEMMA ListingFrom ==
    ASSUME NEW m \in Nat, m <= Len(blob.tokens), Len(blob.tokens) \in Nat,
           NEW N, NEW W, Shape(m, N, W), TreeOK(m),
           NEW F, IsPrintout(F, Len(blob.tokens)),
           NEW k \in NodesTo(m), Cardinality(SpanOf(FromOn(k), m)) <= Len(blob.tokens)
    PROVE  Prints(F[Len(blob.tokens)][N[k]], SpanOf(FromOn(k), m), m)
<1>1. PICK L \in Nat : L = Len(blob.tokens)
  OBVIOUS
<1> DEFINE S == {n \in Nat : n <= L =>
                    \A c \in NodesTo(m) :
                        Cardinality(SpanOf(FromOn(c), m)) <= n
                        => Prints(F[n][N[c]], SpanOf(FromOn(c), m), m)}
<1>2. \A n \in 0 .. L, q \in Pointers :
         F[n][q] = IF n = 0 \/ q = NULL THEN <<>>
                   ELSE Line(q) \o F[n - 1][Deref(nodes, q).children]
                                \o F[n - 1][Deref(nodes, q).next_sibling]
  <2>1. \A n \in 0 .. L : F[n] = Printed(F[n - 1], n)
    BY <1>1 DEF IsPrintout
  <2> QED
    BY <2>1, ZenonT(60) DEF Printed
<1>3. NULL \in Pointers /\ \A c \in NodesTo(m) : N[c] \in Pointers /\ N[c] # NULL
  BY DEF NULL, Pointers, Shape, NodesAt, PointsInto
<1>4. ASSUME NEW c \in NodesTo(m) PROVE c \in SpanOf(FromOn(c), m)
  BY DEF SpanOf, FromOn, Within
<1>5. 0 \in S
  <2>1. ASSUME NEW c \in NodesTo(m) PROVE ~(Cardinality(SpanOf(FromOn(c), m)) <= 0)
    <3>1. Cardinality({}) \in Nat /\ Cardinality(SpanOf(FromOn(c), m)) \in Nat
          /\ Cardinality({}) < Cardinality(SpanOf(FromOn(c), m))
      BY <1>4, SpanShrinks
    <3> QED
      BY <3>1
  <2> QED
    BY <2>1
<1>6. ASSUME NEW n \in Nat, n \in S PROVE n + 1 \in S
  <2>1. SUFFICES ASSUME n + 1 <= L, NEW c \in NodesTo(m),
                        Cardinality(SpanOf(FromOn(c), m)) <= n + 1
                 PROVE  Prints(F[n + 1][N[c]], SpanOf(FromOn(c), m), m)
    OBVIOUS
  <2>2. PICK p, q, X, Y, Z :
           /\ p = Deref(nodes, N[c]).children /\ q = Deref(nodes, N[c]).next_sibling
           /\ X = SpanOf(Kids(c, m), m) /\ Y = SpanOf(Elder(c), m) /\ Z = SpanOf(FromOn(c), m)
    OBVIOUS
  <2>3. F[n + 1][N[c]] = Line(N[c]) \o F[n][p] \o F[n][q]
    <3>1. n + 1 \in 0 .. L /\ n + 1 # 0 /\ (n + 1) - 1 = n
      BY <2>1
    <3> QED
      BY <1>2, <1>3, <2>2, <3>1
  <2>4. /\ Z = ({c} \cup X) \cup Y
        /\ \A x \in X : ~Within(c, x)
        /\ \A d \in {c} \cup X, x \in Y : ~Within(d, x)
    BY <2>2, SpanSplits
  <2>5. X \subseteq NodesTo(m) /\ Y \subseteq NodesTo(m) /\ {c} \subseteq NodesTo(m)
    BY <2>2 DEF SpanOf
  <2>6. c \notin X /\ c \notin Y
    BY <2>4 DEF Within
  <2>7. /\ Cardinality(X) \in Nat /\ Cardinality(Y) \in Nat /\ Cardinality(Z) \in Nat
        /\ Cardinality(X) < Cardinality(Z) /\ Cardinality(Y) < Cardinality(Z)
    <3>1. c \in SpanOf(FromOn(c), m) /\ X \subseteq Z /\ Y \subseteq Z
      BY <1>4, <2>4
    <3> QED
      BY <2>2, <2>6, <3>1, SpanShrinks
  <2>8. Cardinality(X) <= n /\ Cardinality(Y) <= n
    BY <2>1, <2>2, <2>7
  <2>9. /\ (p = NULL /\ X = {}) \/ (\E y \in NodesTo(m) : p = N[y] /\ FromOn(y) = Kids(c, m))
        /\ (q = NULL /\ Y = {}) \/ (\E y \in NodesTo(m) : q = N[y] /\ FromOn(y) = Elder(c))
    BY <2>2, PrintsOn
  <2>10. F[n][NULL] = <<>>
    <3>1. n \in 0 .. L
      BY <2>1
    <3> QED
      BY <1>2, <1>3, <3>1
  <2>11. \A y \in NodesTo(m) : Cardinality(SpanOf(FromOn(y), m)) <= n
            => Prints(F[n][N[y]], SpanOf(FromOn(y), m), m)
    BY <1>6, <2>1
  <2>12. Prints(F[n][p], X, m)
    BY <2>2, <2>8, <2>9, <2>10, <2>11, PrintsNothing
  <2>13. Prints(F[n][q], Y, m)
    BY <2>2, <2>8, <2>9, <2>10, <2>11, PrintsNothing
  <2>14. Prints(Line(N[c]), {c}, m)
    BY PrintsLine
  <2>15. Prints(Line(N[c]) \o F[n][p], {c} \cup X, m)
    BY <2>4, <2>5, <2>12, <2>14, PrintsBoth
  <2>16. Prints((Line(N[c]) \o F[n][p]) \o F[n][q], ({c} \cup X) \cup Y, m)
    BY <2>4, <2>5, <2>13, <2>15, PrintsBoth
  <2> QED
    BY <2>2, <2>3, <2>4, <2>16
<1> HIDE DEF S
<1>7. L \in S
  BY <1>1, <1>5, <1>6, SetInduction
<1> QED
  BY <1>1, <1>7 DEF S

----------------------------------------------------------------------------
\* What is printed is the tree.

\* The tree is what the root leads to.
LEMMA TreeIs ==
    ASSUME blob \in Blobs, NEW m \in 0 .. Len(blob.tokens), OpenAfter(m) = <<>>, NodesTo(m) # {}
    PROVE  /\ FirstRoot \in NodesTo(m) /\ FromOn(FirstRoot) = {FirstRoot}
           /\ {k \in Kinds("BEGIN_NODE") : InTree(k)} \cup {k \in PropertyTokens : InTree(Owner(k))}
                  = TokensIn(SpanOf({FirstRoot}, m), m)
<1>1. Len(blob.tokens) \in Nat /\ Tokens = 1 .. Len(blob.tokens) /\ m \in Nat
  BY BlobAssumption DEF Tokens
<1>2. PICK r : r = FirstRoot
  OBVIOUS
<1>3. r \in NodesTo(m) /\ Outside(r) = <<>> /\ r \in 1 .. m
  BY <1>2, RootIs DEF NodesTo
<1>4. FromOn(r) = {r}
  BY <1>3 DEF FromOn, Elder
<1>5. \A k : InTree(k) <=> Within(k, r)
  BY <1>2 DEF InTree, Within, Inside
<1>6. ASSUME NEW k \in 1 .. Len(blob.tokens), Within(k, r) PROVE k <= m
  <2>1. CASE k = r
    BY <1>1, <1>3, <2>1
  <2>2. CASE k # r
    <3>1. SUFFICES ASSUME ~(k <= m) PROVE FALSE
      OBVIOUS
    <3>2. PICK e : e = k - 1
      OBVIOUS
    <3>3. e \in Nat /\ m <= e /\ r <= m /\ r \in OpenSet(e)
      BY <1>1, <1>3, <1>6, <2>2, <3>1, <3>2 DEF Within, Inside, OpenSet, Outside
    <3>4. r \in OpenSet(m)
      BY <1>1, <3>3, OpenBetween
    <3> QED
      BY <1>1, <3>4, OpenSetIs
  <2> QED
    BY <2>1, <2>2
<1>7. \A k : k \in NodesTo(m) <=> k \in Kinds("BEGIN_NODE") /\ k <= m
  BY <1>1 DEF NodesTo, Kinds, Opens
<1>8. \A k : k \in Kinds("BEGIN_NODE") => k \in 1 .. Len(blob.tokens)
  BY <1>1 DEF Kinds
<1>9. {k \in Kinds("BEGIN_NODE") : InTree(k)} = SpanOf({r}, m)
  BY <1>5, <1>6, <1>7, <1>8 DEF SpanOf
<1>10. ASSUME NEW y \in PropertyTokens, InTree(Owner(y))
       PROVE  y \in OwnedTo(m) /\ Owner(y) \in SpanOf({r}, m)
  <2>1. y \in 1 .. Len(blob.tokens) /\ Owned(y) /\ y \in Nat
    BY <1>1, <1>10 DEF PropertyTokens, Kinds, Owned
  <2>2. Owner(y) \in 1 .. y /\ Opens(Owner(y))
    BY <2>1, OpenSetIs DEF Owned, Owner
  <2>3. PICK u : u = Owner(y)
    OBVIOUS
  <2>4. u \in 1 .. Len(blob.tokens) /\ Within(u, r) /\ Opens(u)
    BY <1>1, <1>5, <1>10, <2>1, <2>2, <2>3
  <2>5. u \in NodesTo(m) /\ u \in SpanOf({r}, m)
    BY <1>1, <1>6, <2>4 DEF NodesTo, SpanOf
  <2>6. y \in Props(u, m)
    BY <1>10, <2>3, <2>5, NoneToCome
  <2> QED
    BY <2>3, <2>5, <2>6 DEF Props, OwnedTo
<1>11. ASSUME NEW y \in OwnedTo(m), Owner(y) \in SpanOf({r}, m)
       PROVE  y \in PropertyTokens /\ InTree(Owner(y))
  <2>1. y \in 1 .. Len(blob.tokens) /\ Owned(y)
    BY <1>1 DEF OwnedTo
  <2> QED
    BY <1>1, <1>5, <1>11, <2>1 DEF PropertyTokens, Kinds, Owned, SpanOf
<1> QED
  BY <1>2, <1>3, <1>4, <1>9, <1>10, <1>11 DEF TokensIn

\* A list without repetitions is as long as its set is large.
LEMMA AsLongAsLarge ==
    ASSUME NEW v \in Seq(Nat), \A i, j \in 1 .. Len(v) : v[i] = v[j] => i = j
    PROVE  Len(v) = Cardinality(SetOf(v))
<1>1. PICK n \in Nat : n = Len(v)
  OBVIOUS
<1>2. v \in [1 .. n -> SetOf(v)]
  <2>1. v = [i \in 1 .. n |-> v[i]]
    BY <1>1
  <2>2. \A i \in 1 .. n : v[i] \in SetOf(v)
    BY <1>1 DEF SetOf
  <2> QED
    BY <2>1, <2>2
<1>3. v \in Injection(1 .. n, SetOf(v))
  BY <1>1, <1>2 DEF Injection, IsInjective
<1>4. v \in Surjection(1 .. n, SetOf(v))
  <2>1. \A t \in SetOf(v) : \E i \in 1 .. n : v[i] = t
    BY <1>1 DEF SetOf
  <2> QED
    BY <1>2, <2>1 DEF Surjection
<1>5. ExistsBijection(1 .. n, SetOf(v))
  BY <1>3, <1>4 DEF ExistsBijection, Bijection
<1> QED
  BY <1>1, <1>5, FS_CountingElements

\* So the listing from the root has the tree, each token once and in order.
LEMMA ListingIs ==
    ASSUME NEW m, NEW N, NEW W, Progress(m), TreeOK(m), Shape(m, N, W), root = First,
           OpenAfter(m) = <<>>, NodesTo(m) # {}
    PROVE  Prints(Listing(root), SpanOf({FirstRoot}, m), m)
<1>1. blob \in Blobs /\ m \in 0 .. Len(blob.tokens)
  BY DEF Progress, Built, HasRead
<1>2. PICK L \in Nat : L = Len(blob.tokens)
  BY <1>1, BlobAssumption
<1>3. m \in Nat /\ m <= L
  BY <1>1, <1>2
<1> DEFINE F == CHOOSE G : IsPrintout(G, L)
<1>4. Listing(root) = F[L][root]
  BY <1>2 DEF Listing, IsPrintout, Printed
<1>5. IsPrintout(F, L)
  BY PrintoutsExist
<1> HIDE DEF F
<1>6. PICK r : r = FirstRoot
  OBVIOUS
<1>7. r \in NodesTo(m) /\ FromOn(r) = {r} /\ \A k \in NodesTo(m) : r <= k
  BY <1>1, <1>6, RootIs, TreeIs
<1>8. root = N[r]
  BY <1>7 DEF Shape, NodesAt
<1>9. Cardinality(SpanOf({r}, m)) <= L
  <2>1. IsFiniteSet(1 .. m) /\ Cardinality(1 .. m) = m
    BY <1>3, FS_Interval
  <2>2. PICK Z : Z = SpanOf({r}, m)
    OBVIOUS
  <2>3. Z \subseteq 1 .. m
    BY <2>2 DEF SpanOf, NodesTo
  <2>4. IsFiniteSet(Z) /\ Cardinality(Z) <= Cardinality(1 .. m)
    BY <2>1, <2>3, FS_Subset
  <2>5. Cardinality(Z) \in Nat
    BY <2>4, FS_CardinalityType
  <2> QED
    BY <1>3, <2>1, <2>2, <2>4, <2>5
<1>10. Prints(F[L][N[r]], SpanOf(FromOn(r), m), m)
  BY <1>2, <1>3, <1>5, <1>7, <1>9, ListingFrom
<1> QED
  BY <1>4, <1>6, <1>7, <1>8, <1>10

\* What is printed is a tree that was read and rewritten to its end.
AtRoot(m) == root = First /\ OpenAfter(m) = <<>> /\ NodesTo(m) # {}

Successful == pc = "done" /\ result = <<"SUCCESS">>

ListInv ==
    /\ NodesFit /\ Successful => initialized
    /\ NodesFit /\ initialized => \A m : HasRead(m) => AtRoot(m)
    /\ PrintedOnce

Everything == {k \in Kinds("BEGIN_NODE") : InTree(k)}
             \cup {k \in PropertyTokens : InTree(Owner(k))}

IsListing(v) ==
    /\ SetOf(v) = Everything /\ Len(v) = Cardinality(Everything)
    /\ \A i, j \in 1 .. Len(v) : v[i] \in OpenSet(v[j] - 1) => i < j

LEMMA PrintedIs ==
    /\ PrintedOnce <=> (pc = "printed" /\ NodesFit => IsListing(printed))
    /\ PrintedOnce' <=> (pc' = "printed" /\ NodesFit' => IsListing(printed)')
<1>1. PrintedOnce <=> (pc = "printed" /\ NodesFit => IsListing(printed))
  BY DEF PrintedOnce, IsListing, Everything, OpenSet
<1>2. PrintedOnce' <=> (pc' = "printed" /\ NodesFit' => IsListing(printed)')
  BY DEF PrintedOnce, IsListing, Everything, OpenSet
<1> QED
  BY <1>1, <1>2

LEMMA ListingStays ==
    ASSUME UNCHANGED blob
    PROVE  NodesFit' = NodesFit /\ \A v : IsListing(v)' <=> IsListing(v)
<1>1. \A k : OpenAfter(k)' = OpenAfter(k) /\ Owner(k)' = Owner(k) /\ InTree(k)' = InTree(k)
  BY BlobStays
<1>2. PropertyTokens' = PropertyTokens /\ Kinds("BEGIN_NODE")' = Kinds("BEGIN_NODE")
  BY <1>1 DEF PropertyTokens, Kinds, Tokens
<1>3. Everything' = Everything
  BY <1>1, <1>2 DEF Everything
<1>4. \A k : OpenSet(k)' = OpenSet(k)
  BY <1>1 DEF OpenSet
<1>5. ASSUME NEW v PROVE IsListing(v)' <=> IsListing(v)
  BY <1>3, <1>4 DEF IsListing, SetOf
<1> QED
  BY <1>2, <1>5 DEF NodesFit

LEMMA ListingKept ==
    ASSUME ListInv, UNCHANGED <<blob, offset, root, pc, result, initialized, printed>>
    PROVE  ListInv'
<1>1. NodesFit' = NodesFit /\ Successful' = Successful
  BY ListingStays DEF Successful
<1>2. \A m : HasRead(m)' = HasRead(m) /\ AtRoot(m)' = AtRoot(m)
  BY BlobStays DEF HasRead, AtRoot
<1>3. PrintedOnce' <=> (pc' = "printed" /\ NodesFit' => IsListing(printed)')
  BY PrintedIs
<1>4. IsListing(printed)' <=> IsListing(printed)
  <2>1. PICK v : v = printed
    OBVIOUS
  <2>2. IsListing(v)' <=> IsListing(v)
    BY ListingStays
  <2>3. v = printed'
    BY <2>1
  <2> QED
    BY <2>1, <2>2, <2>3
<1>5. PrintedOnce'
  BY <1>1, <1>3, <1>4, PrintedIs DEF ListInv
<1> QED
  BY <1>1, <1>2, <1>5 DEF ListInv

\* print_device_tree has the whole tree before it.
LEMMA PrintsAll ==
    ASSUME NodesFit, NEW m, NEW N, NEW W, RewriteAt(m, N, W), ListInv, print_device_tree
    PROVE  PrintedOnce'
<1>1. Progress(m) /\ TreeOK(m) /\ Shape(m, N, W) /\ blob \in Blobs /\ HasRead(m)
  BY DEF RewriteAt, Progress, Built
<1>2. initialized /\ AtRoot(m) /\ UNCHANGED blob /\ printed' = Listing(root)
  BY <1>1 DEF print_device_tree, ListInv, Successful
<1>3. m \in 0 .. Len(blob.tokens)
  BY <1>1 DEF HasRead
<1>4. PICK v : v = printed'
  OBVIOUS
<1>5. Prints(v, SpanOf({FirstRoot}, m), m)
  BY <1>1, <1>2, <1>4, ListingIs DEF AtRoot
<1>6. Everything = TokensIn(SpanOf({FirstRoot}, m), m)
  BY <1>1, <1>2, <1>3, TreeIs DEF AtRoot, Everything
<1>7. IsListing(v)
  BY <1>5, <1>6, AsLongAsLarge DEF Prints, IsListing
<1>8. IsListing(v)'
  BY <1>2, <1>7, ListingStays
<1>9. IsListing(printed)'
  BY <1>4, <1>8
<1> QED
  BY <1>9, PrintedIs

LEMMA ListingStep ==
    ASSUME NodesFit, NEW m, NEW N, NEW W, RewriteAt(m, N, W), ListInv, [Next]_vars
    PROVE  ListInv'
<1>1. Progress(m) /\ Phases(m, N, W) /\ blob \in Blobs /\ HasRead(m)
  BY DEF RewriteAt, Progress, Built
<1>2. Quiet \/ Takes(m + 1)
  BY <1>1, ParserStep
<1>3. UNCHANGED blob
  BY <1>2 DEF Quiet, Takes
<1>4. AtRoot(m) /\ UNCHANGED <<offset, root>> => \A k : HasRead(k)' => AtRoot(k)'
  <2> SUFFICES ASSUME AtRoot(m), UNCHANGED <<offset, root>>, NEW k, HasRead(k)' PROVE AtRoot(k)'
    OBVIOUS
  <2>1. HasRead(k)
    BY <1>3 DEF HasRead
  <2>2. k = m
    BY <1>1, <2>1, ReadIsOne
  <2> QED
    BY <1>3, <2>2, BlobStays DEF AtRoot
<1>5. CASE UNCHANGED vars
  BY <1>5, ListingKept DEF vars, parse_vars, rewrite_vars
<1>6. CASE Parse /\ UNCHANGED <<rewrite_vars, bump_vars>>
  <2>1. ~initialized /\ ~initialized'
    <3>1. pc \in {"header", "reservations", "tokens"}
      BY <1>6 DEF Parse, Header, Reservation, ReservationsEnd, Token, parse_node, EndNode,
                  pre_parse_property, Nop, Unknown, End, Reads
    <3> QED
      BY <1>1, <1>6, <3>1 DEF Phases, BeforeRewrite, rewrite_vars
  <2>2. pc' # "printed" /\ ~(pc' = "done" /\ result' = <<"SUCCESS">>)
    <3>1. CASE Header \/ Reservation \/ ReservationsEnd
      BY <3>1 DEF Header, Reservation, ReservationsEnd, Stop
    <3>2. CASE Token
      <4>1. PICK k \in Tokens : \/ parse_node(k) \/ EndNode(k) \/ pre_parse_property(k)
                               \/ Nop(k) \/ Unknown(k) \/ End(k)
        BY <3>2 DEF Token
      <4>2. CASE parse_node(k) \/ EndNode(k) \/ Nop(k) \/ Unknown(k)
        BY <4>2 DEF parse_node, EndNode, Nop, Unknown, Reads, Stop
      <4>3. CASE pre_parse_property(k)
        BY <4>3 DEF pre_parse_property, Reads, Stop
      <4>4. CASE End(k)
        BY <4>4 DEF End, Reads, Stop
      <4> QED
        BY <4>1, <4>2, <4>3, <4>4
    <3> QED
      BY <1>6, <3>1, <3>2 DEF Parse
  <2> QED
    BY <2>1, <2>2 DEF ListInv, Successful, PrintedOnce
<1>7. CASE Rewrite
  <2>1. pc = "rewrite" /\ UNCHANGED root /\ (~RewriteCells /\ ~Return => UNCHANGED <<pc, initialized>>)
    BY <1>7, RewriteLeaves
  <2>2. ~initialized /\ AtRoot(m) /\ UNCHANGED offset
    BY <1>1, <1>2, <2>1 DEF Phases, InRewrite, AtRoot, Quiet, Takes
  <2>3. pc' # "printed" /\ (pc' = "done" /\ result' = <<"SUCCESS">> => initialized')
    <3>1. CASE RewriteCells
      BY <2>1, <3>1 DEF RewriteCells, Fails
    <3>2. CASE Return
      BY <2>1, <3>2 DEF Return
    <3>3. CASE ~RewriteCells /\ ~Return
      BY <2>1, <3>3
    <3> QED
      BY <3>1, <3>2, <3>3
  <2> QED
    BY <1>4, <2>1, <2>2, <2>3 DEF ListInv, Successful, PrintedOnce
<1>8. CASE print_device_tree
  <2>1. UNCHANGED <<offset, root, initialized>> /\ pc' = "printed"
    BY <1>8 DEF print_device_tree
  <2>2. initialized => AtRoot(m)
    BY <1>1 DEF ListInv
  <2>3. PrintedOnce'
    BY <1>8, PrintsAll
  <2> QED
    BY <1>4, <2>1, <2>2, <2>3 DEF ListInv, Successful
<1> QED
  BY <1>5, <1>6, <1>7, <1>8 DEF Next, Spin

\* When the tree was initialized, each of its nodes and properties is printed
\* once, and a node before what is nested in it, for every blob whose nodes fit
\* in one buffer: the children of a node are printed after its own properties
\* and before its sibling, and the links of the lists lead to every node of the
\* tree along one way only (device_tree.cpp:562-669).
THEOREM EachIsPrintedOnce == Spec => []PrintedOnce
<1>1. RewriteInit => ListInv
  BY DEF RewriteInit, Init, ListInv, Successful, PrintedOnce
<1>2. ASSUME ParserInv, RewriteInv, ListInv, [Next]_vars PROVE ListInv'
  <2>1. PICK k : Progress(k)
    BY <1>2 DEF ParserInv
  <2>2. UNCHANGED blob
    BY <1>2, <2>1, ParserStep DEF Quiet, Takes
  <2>3. NodesFit' = NodesFit
    BY <2>2 DEF NodesFit, Kinds, Tokens
  <2>4. CASE NodesFit
    BY <1>2, <2>4, ListingStep DEF RewriteInv
  <2>5. CASE ~NodesFit
    BY <2>3, <2>5 DEF ListInv, PrintedOnce
  <2> QED
    BY <2>4, <2>5
<1>3. ListInv => PrintedOnce
  BY DEF ListInv
<1> QED
  BY <1>1, <1>2, <1>3, ParserInvariant, RewriteInvariant, PTL DEF Spec
=============================================================================
