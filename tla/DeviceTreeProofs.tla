-------------------------- MODULE DeviceTreeProofs --------------------------
(***************************************************************************)
(* Proofs about parse_from_blob, for every blob and every amount of        *)
(* memory: the parser keeps in step with the tokens, and the chain of      *)
(* parents of its current node is the nodes that are open; the stacks are  *)
(* the tree the blob nests; the rewrite gives every property its type,     *)
(* with the cells the blob asks for; no stack outgrows its buffer, and no  *)
(* pointer that is kept leads out of the buffers there are.                *)
(***************************************************************************)
EXTENDS DeviceTreeRewrite, WordTheorems, SequenceTheorems

----------------------------------------------------------------------------
\* The blob: its tokens lie behind one another, each in whole words.

SizesOf(b) == [j \in DOMAIN b.tokens |-> EncodedSize(b.tokens[j])]

\* What the stride over a name or a value is, when it is padded to words.
LEMMA PaddedIs ==
    ASSUME NEW n \in Nat, n + 4 <= WORD, 4 < WORD
    PROVE  AlignUp(n, 4) = Padded(n) /\ Padded(n) \in Nat /\ Padded(n) % 4 = 0
<1>1. n \in Word /\ 4 \in Word /\ 1 \in Word
  BY WordAssumption DEF Word
<1>2. Sub(4, 1) = 3
  BY <1>1, SubExact
<1>3. Add(n, 3) = n + 3
  BY <1>1, AddExact, WordAssumption DEF Word
<1>4. AlignUp(n, 4) = (n + 3) - ((n + 3) % 4)
  BY <1>2, <1>3 DEF AlignUp, AlignDown
<1> QED
  BY <1>4 DEF Padded

\* Every token takes some words.
LEMMA TokenSize ==
    ASSUME NEW b \in Blobs, NEW k \in 1 .. Len(b.tokens)
    PROVE  LET t == b.tokens[k]
           IN  /\ EncodedSize(t) \in Nat /\ EncodedSize(t) > 0 /\ EncodedSize(t) % 4 = 0
               /\ t.kind = "BEGIN_NODE" => EncodedSize(t) = 4 + AlignUp(t.len + 1, 4)
               /\ t.kind = "PROP" => EncodedSize(t) = 12 + AlignUp(t.value.len, 4)
               /\ t.kind \notin {"BEGIN_NODE", "PROP"} => EncodedSize(t) = 4
<1> DEFINE t == b.tokens[k]
<1>1. CASE t.kind = "BEGIN_NODE"
  <2>1. t.len + 1 \in Nat /\ (t.len + 1) + 4 <= WORD /\ 4 < WORD
    BY <1>1, BlobAssumption, WordAssumption, SMTT(60)
  <2>2. EncodedSize(t) = 4 + Padded(t.len + 1)
    BY <1>1 DEF EncodedSize
  <2> HIDE DEF t
  <2>3. AlignUp(t.len + 1, 4) = Padded(t.len + 1) /\ Padded(t.len + 1) \in Nat
        /\ Padded(t.len + 1) % 4 = 0
    BY <2>1, PaddedIs
  <2> QED
    BY <1>1, <2>2, <2>3 DEF t
<1>2. CASE t.kind = "PROP"
  <2>1. t.value.len \in Nat /\ t.value.len + 4 <= WORD /\ 4 < WORD
    BY <1>2, BlobAssumption, WordAssumption, SMTT(60)
  <2>2. EncodedSize(t) = 12 + Padded(t.value.len)
    BY <1>2 DEF EncodedSize
  <2> HIDE DEF t
  <2>3. AlignUp(t.value.len, 4) = Padded(t.value.len) /\ Padded(t.value.len) \in Nat
        /\ Padded(t.value.len) % 4 = 0
    BY <2>1, PaddedIs
  <2> QED
    BY <1>2, <2>2, <2>3 DEF t
<1>3. CASE t.kind \notin {"BEGIN_NODE", "PROP"}
  BY <1>3 DEF EncodedSize
<1> QED
  BY <1>1, <1>2, <1>3

\* Where the tokens start.
LEMMA Behind ==
    ASSUME NEW b \in Blobs, NEW m \in 0 .. Len(b.tokens)
    PROVE  /\ SumTo(SizesOf(b), m) \in Nat /\ SumTo(SizesOf(b), m) % 4 = 0
           /\ SumTo(SizesOf(b), 0) = 0
           /\ m < Len(b.tokens) =>
                 SumTo(SizesOf(b), m + 1) = EncodedSize(b.tokens[m + 1]) + SumTo(SizesOf(b), m)
<1> DEFINE L == Len(b.tokens)
           S == {n \in Nat : n <= L => /\ SumTo(SizesOf(b), n) \in Nat
                                       /\ SumTo(SizesOf(b), n) % 4 = 0}
<1>1. L \in Nat /\ \A k \in 1 .. L : SizesOf(b)[k] = EncodedSize(b.tokens[k])
  BY BlobAssumption DEF SizesOf
<1>2. \A k \in 1 .. L : /\ EncodedSize(b.tokens[k]) \in Nat
                        /\ EncodedSize(b.tokens[k]) % 4 = 0
  BY TokenSize
<1> HIDE DEF L
<1>3. \A n \in Nat : /\ SumTo(SizesOf(b), 0) = 0
                     /\ SumTo(SizesOf(b), n + 1) = SizesOf(b)[n + 1] + SumTo(SizesOf(b), n)
  BY SumStep
<1>4. 0 \in S
  BY <1>3
<1>5. ASSUME NEW n \in Nat, n \in S PROVE n + 1 \in S
  <2>1. SUFFICES ASSUME n + 1 <= L
                 PROVE  SumTo(SizesOf(b), n + 1) \in Nat /\ SumTo(SizesOf(b), n + 1) % 4 = 0
    OBVIOUS
  <2>2. n + 1 \in 1 .. L /\ SumTo(SizesOf(b), n) \in Nat /\ SumTo(SizesOf(b), n) % 4 = 0
    BY <1>1, <1>5, <2>1
  <2>3. SumTo(SizesOf(b), n + 1) = EncodedSize(b.tokens[n + 1]) + SumTo(SizesOf(b), n)
    BY <1>1, <1>3, <2>2
  <2>4. PICK x : x = EncodedSize(b.tokens[n + 1])
    OBVIOUS
  <2>5. PICK y : y = SumTo(SizesOf(b), n)
    OBVIOUS
  <2>6. x \in Nat /\ x % 4 = 0 /\ y \in Nat /\ y % 4 = 0
    BY <1>2, <2>2, <2>4, <2>5
  <2>7. x + y \in Nat /\ (x + y) % 4 = 0
    BY <2>6
  <2> QED
    BY <2>3, <2>4, <2>5, <2>7
<1> HIDE DEF S
<1>6. \A n \in Nat : n \in S
  BY <1>4, <1>5, SetInduction
<1>7. m \in Nat /\ m <= L /\ m \in S
  BY <1>1, <1>6 DEF L
<1>8. m < L => m + 1 \in 1 .. L
  BY <1>1, <1>7
<1> QED
  BY <1>1, <1>3, <1>7, <1>8 DEF S, L

\* A token starts behind those before it.
LEMMA StartsGrow ==
    ASSUME NEW b \in Blobs, NEW m \in 0 .. Len(b.tokens), NEW n \in 0 .. Len(b.tokens), m < n
    PROVE  SumTo(SizesOf(b), m) < SumTo(SizesOf(b), n)
<1> DEFINE L == Len(b.tokens)
           at(k) == SumTo(SizesOf(b), k)
           S == {k \in Nat : m < k /\ k <= L => at(m) < at(k)}
<1>1. L \in Nat /\ m \in Nat /\ n \in Nat /\ n <= L
  BY BlobAssumption
<1>2. \A k \in 0 .. L : at(k) \in Nat
  BY Behind
<1>3. \A k \in 0 .. L : k < L => at(k + 1) > at(k)
  <2> SUFFICES ASSUME NEW k \in 0 .. L, k < L PROVE at(k + 1) > at(k)
    OBVIOUS
  <2>1. k + 1 \in 1 .. L
    BY <1>1
  <2>2. EncodedSize(b.tokens[k + 1]) \in Nat /\ EncodedSize(b.tokens[k + 1]) > 0
    BY <2>1, TokenSize
  <2>3. at(k + 1) = EncodedSize(b.tokens[k + 1]) + at(k)
    BY Behind
  <2> HIDE DEF at, L
  <2> QED
    BY <1>2, <2>2, <2>3
<1> HIDE DEF L, at
<1>4. 0 \in S
  BY <1>1
<1>5. ASSUME NEW k \in Nat, k \in S PROVE k + 1 \in S
  <2>1. SUFFICES ASSUME m < k + 1, k + 1 <= L PROVE at(m) < at(k + 1)
    OBVIOUS
  <2>2. k \in 0 .. L /\ k + 1 \in 0 .. L /\ m \in 0 .. L /\ k < L
    BY <1>1, <2>1
  <2>3. at(k) \in Nat /\ at(k + 1) \in Nat /\ at(m) \in Nat /\ at(k + 1) > at(k)
    BY <1>2, <1>3, <2>2
  <2>4. CASE m = k
    BY <2>3, <2>4
  <2>5. CASE m < k
    <3>1. at(m) < at(k)
      BY <1>5, <2>2, <2>5
    <3> QED
      BY <2>3, <3>1
  <2> QED
    BY <1>1, <2>1, <2>4, <2>5
<1> HIDE DEF S
<1>6. n \in S
  BY <1>1, <1>4, <1>5, SetInduction
<1> QED
  BY <1>1, <1>6 DEF S, at
----------------------------------------------------------------------------
\* The stacks.  Their elements are of a set E, which a rewrite may extend.

IsStack(s, E) ==
    /\ s \in [m_size : Nat, m_capacity : Nat, buffers : Seq(Seq(E))]
    /\ s.buffers # <<>> => Len(s.buffers[Len(s.buffers)]) = s.m_size
    /\ s.buffers = <<>> => s.m_size = 0 /\ s.m_capacity = 0

\* The sizes a stack grows to are numbers.
LEMMA GrownSizeTyped ==
    ASSUME NEW s, s.m_capacity \in Nat, NEW size_of \in 1 .. PAGE_SIZE
    PROVE  /\ GrownSize(s, size_of) \in Nat
           /\ GrownSize(s, size_of) \div size_of \in Nat
<1>1. PAGE_SIZE \in Word /\ PAGE_SIZE \in Nat \ {0} /\ size_of \in Nat \ {0} /\ WORD \in Nat \ {0}
  BY DeviceTreeAssumption, WordAssumption DEF Word
<1>2. ASSUME NEW v \in Nat PROVE AlignUp(v, PAGE_SIZE) \in Nat
  <2>1. Add(v, Sub(PAGE_SIZE, 1)) \in Word
    <3>1. Sub(PAGE_SIZE, 1) = PAGE_SIZE - 1
      BY <1>1, SubExact DEF Word
    <3>2. v + (PAGE_SIZE - 1) \in Nat
      BY <1>1
    <3> QED
      BY <1>1, <3>1, <3>2, ModRange DEF Add, Word
  <2> QED
    BY <1>1, <2>1, AlignDownBound DEF AlignUp, Word
<1>3. s.m_capacity * size_of \in Nat
  BY <1>1
<1>4. (AlignUp(s.m_capacity * size_of, PAGE_SIZE) * 3) \div 2 \in Nat
  BY <1>2, <1>3
<1>5. GrownSize(s, size_of) \in Nat
  BY <1>2, <1>4 DEF GrownSize
<1> QED
  BY <1>1, <1>5

\* emplace_back leaves what is in the buffers as it was, and what it returns
\* points to the new element, where nothing pointed before.
LEMMA Emplaced ==
    ASSUME NEW s, NEW E, IsStack(s, E), NEW v \in E, NEW size_of \in 1 .. PAGE_SIZE,
           NEW t, t = EmplaceBack(s, size_of, v)
    PROVE  /\ IsStack(t, E) /\ t.m_size = s.m_size + 1
           /\ PointsInto(t, Last(t)) /\ Deref(t, Last(t)) = v /\ Last(t) \in Pointers
           /\ \A p : PointsInto(s, p) =>
                 PointsInto(t, p) /\ Deref(t, p) = Deref(s, p) /\ p # Last(t)
           /\ ~Full(s) => Len(t.buffers) = Len(s.buffers) /\ t.m_capacity = s.m_capacity
           /\ s.buffers = <<>> => /\ Len(t.buffers) = 1
                                  /\ t.m_capacity = GrownSize(s, size_of) \div size_of
<1> DEFINE g   == IF Full(s) THEN Grown(s, size_of) ELSE s
           n   == Len(g.buffers)
           c   == IF Full(s) THEN GrownSize(s, size_of) \div size_of ELSE s.m_capacity
           old == IF s.buffers = <<>> THEN <<>> ELSE s.buffers[Len(s.buffers)]
           bs  == IF Full(s) THEN Append(s.buffers, old) ELSE s.buffers
<1>1. /\ s = [m_size |-> s.m_size, m_capacity |-> s.m_capacity, buffers |-> s.buffers]
      /\ s.m_size \in Nat /\ s.m_capacity \in Nat /\ s.buffers \in Seq(Seq(E))
      /\ Len(s.buffers) \in Nat
  BY DEF IsStack
<1>2. c \in Nat
  BY <1>1, GrownSizeTyped
<1>3. old \in Seq(E) /\ Len(old) = s.m_size
  <2>1. CASE s.buffers = <<>>
    BY <2>1 DEF IsStack
  <2>2. CASE s.buffers # <<>>
    BY <1>1, <2>2 DEF IsStack
  <2> QED
    BY <2>1, <2>2
<1>4. g = [m_size |-> s.m_size, m_capacity |-> c, buffers |-> bs]
  <2>1. CASE Full(s)
    <3>1. Grown(s, size_of) = [s EXCEPT !.m_capacity = c, !.buffers = bs]
      BY <2>1, <1>1 DEF Grown
    <3> HIDE DEF c, bs
    <3>2. Grown(s, size_of) = [m_size |-> s.m_size, m_capacity |-> c, buffers |-> bs]
      BY <1>1, <3>1
    <3> QED
      BY <2>1, <3>2
  <2>2. CASE ~Full(s)
    BY <2>2, <1>1
  <2> QED
    BY <2>1, <2>2
<1>5. /\ bs \in Seq(Seq(E)) /\ Len(bs) \in Nat \ {0} /\ bs[Len(bs)] = old
      /\ \A b \in 1 .. Len(s.buffers) : b \in 1 .. Len(bs) /\ bs[b] = s.buffers[b]
      /\ ~Full(s) => bs = s.buffers
      /\ s.buffers = <<>> => Len(bs) = 1
  <2>1. s.buffers = <<>> => Full(s)
    BY DEF IsStack, Full
  <2> QED
    BY <1>1, <1>3, <2>1
<1> HIDE DEF c, bs, old
<1>6. n = Len(bs)
  BY <1>4
<1> DEFINE nb == [bs EXCEPT ![Len(bs)] = Append(old, v)]
<1>7. t = [m_size |-> s.m_size + 1, m_capacity |-> c, buffers |-> nb]
  <2>1. t = [g EXCEPT !.m_size = @ + 1, !.buffers[n] = Append(@, v)]
    BY DEF EmplaceBack
  <2> HIDE DEF g, n
  <2>2. t = [m_size |-> s.m_size + 1, m_capacity |-> c, buffers |-> [bs EXCEPT ![n] = Append(@, v)]]
    BY <1>4, <2>1
  <2> QED
    BY <1>5, <1>6, <2>2
<1> HIDE DEF g, n
<1>8. Append(old, v) \in Seq(E) /\ Len(Append(old, v)) = s.m_size + 1
  BY <1>3
<1>9. nb \in Seq(Seq(E)) /\ Len(nb) = Len(bs) /\ nb[Len(bs)] = Append(old, v) /\ nb # <<>>
      /\ \A b \in 1 .. Len(bs) : b # Len(bs) => nb[b] = bs[b]
  BY <1>5, <1>8
<1> HIDE DEF nb
<1>10. t.m_size = s.m_size + 1 /\ t.m_capacity = c /\ t.buffers = nb
  BY <1>7
<1>11. IsStack(t, E)
  BY <1>1, <1>2, <1>7, <1>8, <1>9, SMTT(60) DEF IsStack
<1>12. Last(t) = [buffer |-> Len(bs), index |-> s.m_size + 1]
  BY <1>9, <1>10 DEF Last
<1>13. PointsInto(t, Last(t)) /\ Deref(t, Last(t)) = v /\ Last(t) \in Pointers
  BY <1>1, <1>3, <1>5, <1>8, <1>9, <1>10, <1>12, SMTT(60) DEF PointsInto, Deref, Pointers
<1>14. ASSUME NEW p, PointsInto(s, p)
       PROVE  PointsInto(t, p) /\ Deref(t, p) = Deref(s, p) /\ p # Last(t)
  <2>1. /\ p.buffer \in 1 .. Len(s.buffers) /\ p.index \in 1 .. Len(s.buffers[p.buffer])
        /\ p.buffer \in 1 .. Len(bs) /\ bs[p.buffer] = s.buffers[p.buffer]
    BY <1>5, <1>14 DEF PointsInto
  <2>2. CASE p.buffer # Len(bs)
    BY <2>1, <2>2, <1>9, <1>10, <1>12, SMTT(60) DEF PointsInto, Deref
  <2>3. CASE p.buffer = Len(bs)
    <3>1. p.index \in 1 .. s.m_size /\ Append(old, v)[p.index] = old[p.index]
      BY <1>3, <1>5, <2>1, <2>3
    <3> QED
      BY <2>1, <2>3, <3>1, <1>1, <1>3, <1>5, <1>8, <1>9, <1>10, <1>12, SMTT(60) DEF PointsInto, Deref
  <2> QED
    BY <2>2, <2>3
<1>15. ~Full(s) => Len(t.buffers) = Len(s.buffers) /\ t.m_capacity = s.m_capacity
  BY <1>5, <1>9, <1>10 DEF c
<1>16. s.buffers = <<>> => /\ Len(t.buffers) = 1
                           /\ t.m_capacity = GrownSize(s, size_of) \div size_of
  <2>1. s.buffers = <<>> => Full(s)
    BY DEF IsStack, Full
  <2> QED
    BY <1>5, <1>9, <1>10, <2>1 DEF c
<1> QED
  BY <1>10, <1>11, <1>13, <1>14, <1>15, <1>16

\* An assignment through a pointer changes what it points to.
LEMMA Assigns ==
    ASSUME NEW s, NEW E, IsStack(s, E), NEW v \in E, NEW p, PointsInto(s, p),
           NEW t, t = Assign(s, p, v)
    PROVE  /\ IsStack(t, E) /\ t.m_size = s.m_size /\ t.m_capacity = s.m_capacity
           /\ Len(t.buffers) = Len(s.buffers)
           /\ \A q : PointsInto(t, q) <=> PointsInto(s, q)
           /\ \A q : PointsInto(s, q) =>
                 Deref(t, q) = IF q.buffer = p.buffer /\ q.index = p.index THEN v ELSE Deref(s, q)
<1> DEFINE b  == p.buffer
           nb == [s.buffers EXCEPT ![b] = [s.buffers[b] EXCEPT ![p.index] = v]]
<1>1. /\ s = [m_size |-> s.m_size, m_capacity |-> s.m_capacity, buffers |-> s.buffers]
      /\ s.m_size \in Nat /\ s.m_capacity \in Nat /\ s.buffers \in Seq(Seq(E))
      /\ Len(s.buffers) \in Nat /\ b \in 1 .. Len(s.buffers)
      /\ p.index \in 1 .. Len(s.buffers[b]) /\ s.buffers[b] \in Seq(E)
  BY DEF IsStack, PointsInto
<1>2. t = [s EXCEPT !.buffers[b][p.index] = v]
  BY DEF Assign
<1>3. t = [m_size |-> s.m_size, m_capacity |-> s.m_capacity, buffers |-> nb]
  <2>1. [s EXCEPT !.buffers[b][p.index] = v] = [s EXCEPT !.buffers = nb]
    BY <1>1
  <2> HIDE DEF nb
  <2> QED
    BY <1>1, <1>2, <2>1
<1> DEFINE buf == [s.buffers[b] EXCEPT ![p.index] = v]
<1>4. buf \in Seq(E) /\ Len(buf) = Len(s.buffers[b]) /\ buf[p.index] = v
      /\ \A i \in 1 .. Len(s.buffers[b]) : i # p.index => buf[i] = s.buffers[b][i]
  BY <1>1
<1>5. nb = [s.buffers EXCEPT ![b] = buf]
  OBVIOUS
<1> HIDE DEF buf, nb
<1>6. nb \in Seq(Seq(E)) /\ Len(nb) = Len(s.buffers) /\ nb[b] = buf
      /\ \A k \in 1 .. Len(s.buffers) : k # b => nb[k] = s.buffers[k]
  BY <1>1, <1>4, <1>5
<1>7. t.m_size = s.m_size /\ t.m_capacity = s.m_capacity /\ t.buffers = nb
  BY <1>3
<1>8. \A k \in 1 .. Len(s.buffers) : Len(nb[k]) = Len(s.buffers[k])
  BY <1>4, <1>6
<1>9. IsStack(t, E)
  <2>1. s.buffers # <<>> /\ Len(s.buffers) \in 1 .. Len(s.buffers) /\ nb # <<>>
    BY <1>1, <1>6
  <2>2. Len(nb[Len(nb)]) = s.m_size
    BY <1>6, <1>8, <2>1 DEF IsStack
  <2> QED
    BY <1>1, <1>3, <1>6, <2>1, <2>2 DEF IsStack
<1>10. \A q : PointsInto(t, q) <=> PointsInto(s, q)
  BY <1>6, <1>7, <1>8 DEF PointsInto
<1>11. ASSUME NEW q, PointsInto(s, q)
       PROVE  Deref(t, q) = IF q.buffer = p.buffer /\ q.index = p.index THEN v ELSE Deref(s, q)
  BY <1>4, <1>6, <1>7, <1>11 DEF PointsInto, Deref
<1> QED
  BY <1>6, <1>7, <1>9, <1>10, <1>11

\* One through a pointer that leads nowhere changes nothing.
LEMMA AssignsNowhere ==
    ASSUME NEW s, NEW E, IsStack(s, E), NEW v, NEW p, ~PointsInto(s, p)
    PROVE  Assign(s, p, v) = s
<1>1. /\ s = [m_size |-> s.m_size, m_capacity |-> s.m_capacity, buffers |-> s.buffers]
      /\ s.buffers \in Seq(Seq(E)) /\ Len(s.buffers) \in Nat
      /\ DOMAIN s.buffers = 1 .. Len(s.buffers)
      /\ \A b \in 1 .. Len(s.buffers) : DOMAIN s.buffers[b] = 1 .. Len(s.buffers[b])
                                        /\ s.buffers[b] \in Seq(E)
  BY DEF IsStack
<1>2. Assign(s, p, v) =
        [s EXCEPT !.buffers = [s.buffers EXCEPT ![p.buffer] = [s.buffers[p.buffer] EXCEPT ![p.index] = v]]]
  BY <1>1 DEF Assign
<1>3. [s.buffers EXCEPT ![p.buffer] = [s.buffers[p.buffer] EXCEPT ![p.index] = v]] = s.buffers
  <2>1. CASE p.buffer \notin 1 .. Len(s.buffers)
    BY <1>1, <2>1
  <2>2. CASE p.buffer \in 1 .. Len(s.buffers)
    <3>1. p.index \notin DOMAIN s.buffers[p.buffer]
      BY <1>1, <2>2 DEF PointsInto
    <3>2. [s.buffers[p.buffer] EXCEPT ![p.index] = v] = s.buffers[p.buffer]
      BY <1>1, <2>2, <3>1
    <3> QED
      BY <1>1, <2>2, <3>2
  <2> QED
    BY <2>1, <2>2
<1> QED
  BY <1>1, <1>2, <1>3
----------------------------------------------------------------------------
\* Linked lists.

\* c is the pointers of a list that starts at p.
IsList(s, p, link, c) ==
    /\ c \in Seq(Pointers)
    /\ \A i \in 1 .. Len(c) :
          /\ PointsInto(s, c[i])
          /\ Deref(s, c[i])[link] = IF i = Len(c) THEN NULL ELSE c[i + 1]
    /\ p = IF Len(c) = 0 THEN NULL ELSE c[1]

\* The walk along the links, as Chain of DeviceTree defines it: row k follows
\* k links, the first from the pointer at hand and the others by row k - 1.
Row(before, s, link, k) ==
    [q \in Pointers |-> IF k = 0 \/ q = NULL THEN <<>> ELSE <<q>> \o before[Deref(s, q)[link]]]

IsWalk(F, s, link, n) == F = [k \in 0 .. n |-> Row(F[k - 1], s, link, k)]

\* There is such a walk, however long.
LEMMA WalksExist == ASSUME NEW s, NEW link PROVE \A n \in Nat : \E F : IsWalk(F, s, link, n)
<1> DEFINE S == {n \in Nat : \E F : IsWalk(F, s, link, n)}
<1>1. \A f, g : Row(f, s, link, 0) = Row(g, s, link, 0)
  BY DEF Row
<1>2. 0 \in S
  <2> DEFINE G == [k \in 0 .. 0 |-> Row(0, s, link, 0)]
  <2>1. \A k \in 0 .. 0 : k = 0
    OBVIOUS
  <2>2. G = [k \in 0 .. 0 |-> Row(G[k - 1], s, link, k)]
    BY <1>1, <2>1
  <2> QED
    BY <2>2 DEF IsWalk
<1>3. ASSUME NEW n \in Nat, n \in S PROVE n + 1 \in S
  <2>1. PICK F : IsWalk(F, s, link, n)
    BY <1>3
  <2> DEFINE G == [k \in 0 .. n + 1 |-> IF k <= n THEN F[k] ELSE Row(F[n], s, link, n + 1)]
  <2>2. \A k \in 0 .. n : F[k] = Row(F[k - 1], s, link, k)
    BY <2>1 DEF IsWalk
  <2>3. \A k \in 0 .. n : G[k] = F[k]
    OBVIOUS
  <2>4. G[n + 1] = Row(F[n], s, link, n + 1)
    OBVIOUS
  <2>5. DOMAIN G = 0 .. n + 1 /\ G = [k \in 0 .. n + 1 |-> G[k]]
    OBVIOUS
  <2> HIDE DEF G
  <2>6. ASSUME NEW k \in 0 .. n + 1 PROVE G[k] = Row(G[k - 1], s, link, k)
    <3>1. CASE k = 0
      <4>1. k \in 0 .. n
        BY <3>1
      <4>2. G[k] = Row(F[k - 1], s, link, 0)
        BY <3>1, <4>1, <2>2, <2>3
      <4> QED
        BY <3>1, <4>2, <1>1
    <3>2. CASE k \in 1 .. n
      <4>1. k \in 0 .. n /\ k - 1 \in 0 .. n
        BY <3>2
      <4> QED
        BY <4>1, <2>2, <2>3
    <3>3. CASE k = n + 1
      <4>1. n \in 0 .. n /\ k - 1 = n
        BY <3>3
      <4> QED
        BY <4>1, <3>3, <2>3, <2>4
    <3> QED
      BY <3>1, <3>2, <3>3
  <2>7. IsWalk(G, s, link, n + 1)
    BY <2>5, <2>6 DEF IsWalk
  <2> QED
    BY <2>7
<1> HIDE DEF S
<1>4. \A n \in Nat : n \in S
  BY <1>2, <1>3, SetInduction
<1> QED
  BY <1>4 DEF S

\* What is left of a list from its j-th pointer on.
Suffix(c, j) == [i \in 1 .. Len(c) + 1 - j |-> c[j + i - 1]]

\* The rest of a list from one pointer on is that pointer and the rest behind it.
LEMMA SuffixIs ==
    ASSUME NEW T, NEW c \in Seq(T), NEW j \in 1 .. Len(c)
    PROVE  /\ <<c[j]>> \o Suffix(c, j + 1) = Suffix(c, j)
           /\ Suffix(c, 1) = c /\ Suffix(c, Len(c) + 1) = <<>>
<1>1. Len(c) \in Nat /\ c = [i \in 1 .. Len(c) |-> c[i]]
  OBVIOUS
<1> DEFINE Typed(k) == Suffix(c, k) \in Seq(T) /\ Len(Suffix(c, k)) = Len(c) + 1 - k
<1>0. ASSUME NEW k \in 1 .. Len(c) + 1 PROVE Typed(k)
  <2> DEFINE n == Len(c) + 1 - k
  <2>1. n \in Nat /\ \A i \in 1 .. n : c[k + i - 1] \in T
    BY <1>1
  <2>2. Suffix(c, k) = [i \in 1 .. n |-> c[k + i - 1]]
    BY DEF Suffix
  <2> HIDE DEF n
  <2>3. Suffix(c, k) \in Seq(T) /\ Len(Suffix(c, k)) = n
    BY <2>1, <2>2
  <2> QED
    BY <2>3 DEF n
<1>2. Suffix(c, j) \in Seq(T) /\ Len(Suffix(c, j)) = Len(c) + 1 - j
  BY <1>0, <1>1
<1>3. Suffix(c, j + 1) \in Seq(T) /\ Len(Suffix(c, j + 1)) = Len(c) - j
  BY <1>0, <1>1
<1>4. <<c[j]>> \o Suffix(c, j + 1) \in Seq(T)
      /\ Len(<<c[j]>> \o Suffix(c, j + 1)) = Len(c) + 1 - j
  BY <1>1, <1>3
<1>5. ASSUME NEW i \in 1 .. Len(c) + 1 - j
      PROVE  (<<c[j]>> \o Suffix(c, j + 1))[i] = Suffix(c, j)[i]
  <2>1. CASE i = 1
    BY <2>1, <1>1, <1>3 DEF Suffix
  <2>2. CASE i # 1
    <3>1. i - 1 \in 1 .. Len(c) - j /\ (j + 1) + (i - 1) - 1 = j + i - 1
      BY <1>1, <2>2
    <3>2. (<<c[j]>> \o Suffix(c, j + 1))[i] = Suffix(c, j + 1)[i - 1]
      BY <1>1, <1>3, <2>2, <3>1, SMTT(60)
    <3>3. Suffix(c, j + 1)[i - 1] = c[j + i - 1]
      BY <1>1, <3>1 DEF Suffix
    <3>4. Suffix(c, j)[i] = c[j + i - 1]
      BY DEF Suffix
    <3> QED
      BY <3>2, <3>3, <3>4
  <2> QED
    BY <2>1, <2>2
<1>6. <<c[j]>> \o Suffix(c, j + 1) = Suffix(c, j)
  BY <1>2, <1>4, <1>5, <1>1, SeqEqual
<1>7. Suffix(c, 1) = c
  BY <1>1 DEF Suffix
<1>8. Suffix(c, Len(c) + 1) = <<>>
  BY <1>1 DEF Suffix
<1> QED
  BY <1>6, <1>7, <1>8

\* A list that is no longer than the blob has tokens is what Chain follows.
LEMMA ChainIs ==
    ASSUME NEW s, NEW p, NEW link, NEW c, IsList(s, p, link, c),
           Len(blob.tokens) \in Nat, Len(c) <= Len(blob.tokens)
    PROVE  Chain(s, p, link) = c
<1> DEFINE N     == Len(blob.tokens)
           F     == CHOOSE G : IsWalk(G, s, link, N)
           at(j) == IF j = Len(c) + 1 THEN NULL ELSE c[j]
           S     == {n \in Nat : n <= N =>
                        \A j \in 1 .. Len(c) + 1 :
                            Len(c) + 1 - j <= n => F[n][at(j)] = Suffix(c, j)}
<1>1. Chain(s, p, link) = F[N][p]
  BY DEF Chain, IsWalk, Row
<1>2. IsWalk(F, s, link, N)
  BY WalksExist
<1> HIDE DEF F, N
<1>3. N \in Nat /\ Len(c) \in Nat /\ Len(c) <= N /\ c \in Seq(Pointers)
  BY DEF IsList, N
<1>4. /\ NULL \in Pointers /\ \A j \in 1 .. Len(c) : c[j] \in Pointers /\ c[j] # NULL
      /\ \A j \in 1 .. Len(c) : Deref(s, c[j])[link] = at(j + 1) /\ at(j) = c[j]
      /\ p = at(1)
  <2>1. NULL \in Pointers
    BY DEF NULL, Pointers
  <2>2. \A j \in 1 .. Len(c) : c[j].buffer # 0
    BY DEF IsList, PointsInto
  <2>3. NULL.buffer = 0
    BY DEF NULL
  <2> QED
    BY <1>3, <2>1, <2>2, <2>3 DEF IsList
<1>5. Suffix(c, Len(c) + 1) = <<>> /\ Suffix(c, 1) = c
  BY <1>3 DEF Suffix
<1>6. \A n \in 0 .. N, q \in Pointers :
         F[n][q] = IF n = 0 \/ q = NULL THEN <<>> ELSE <<q>> \o F[n - 1][Deref(s, q)[link]]
  <2>1. \A n \in 0 .. N : F[n] = Row(F[n - 1], s, link, n)
    BY <1>2 DEF IsWalk
  <2> QED
    BY <2>1, ZenonT(60) DEF Row
<1> HIDE DEF at
<1>7. at(Len(c) + 1) = NULL
  BY DEF at
<1>8. 0 \in S
  <2>1. \A j \in 1 .. Len(c) + 1 : Len(c) + 1 - j <= 0 => j = Len(c) + 1
    BY <1>3
  <2>2. F[0][NULL] = <<>>
    <3>1. 0 \in 0 .. N
      BY <1>3
    <3> QED
      BY <3>1, <1>4, <1>6
  <2> QED
    BY <1>5, <1>7, <2>1, <2>2
<1>9. ASSUME NEW n \in Nat, n \in S PROVE n + 1 \in S
  <2>1. SUFFICES ASSUME n + 1 <= N, NEW j \in 1 .. Len(c) + 1, Len(c) + 1 - j <= n + 1
                 PROVE  F[n + 1][at(j)] = Suffix(c, j)
    OBVIOUS
  <2>2. n + 1 \in 0 .. N /\ n + 1 # 0 /\ (n + 1) - 1 = n
    BY <1>3, <2>1
  <2>3. CASE j = Len(c) + 1
    BY <2>2, <2>3, <1>4, <1>5, <1>6, <1>7
  <2>4. CASE j # Len(c) + 1
    <3>1. j \in 1 .. Len(c) /\ j + 1 \in 1 .. Len(c) + 1 /\ Len(c) + 1 - (j + 1) <= n /\ n <= N
      BY <1>3, <2>1, <2>4
    <3>2. F[n][at(j + 1)] = Suffix(c, j + 1)
      BY <1>9, <3>1
    <3>3. F[n + 1][c[j]] = <<c[j]>> \o F[n][at(j + 1)]
      <4>1. c[j] \in Pointers /\ c[j] # NULL /\ Deref(s, c[j])[link] = at(j + 1)
        BY <1>4, <3>1
      <4>2. F[n + 1][c[j]] = <<c[j]>> \o F[(n + 1) - 1][Deref(s, c[j])[link]]
        BY <1>6, <2>2, <4>1
      <4> QED
        BY <2>2, <4>1, <4>2
    <3>4. <<c[j]>> \o Suffix(c, j + 1) = Suffix(c, j)
      BY <1>3, <3>1, SuffixIs
    <3> QED
      BY <1>4, <3>1, <3>2, <3>3, <3>4
  <2> QED
    BY <2>3, <2>4
<1> HIDE DEF S
<1>10. N \in S
  BY <1>3, <1>8, <1>9, SetInduction
<1>11. F[N][at(1)] = Suffix(c, 1)
  BY <1>3, <1>10 DEF S
<1> QED
  BY <1>1, <1>4, <1>5, <1>11
----------------------------------------------------------------------------
\* The nodes that are open after some tokens, as OpenAfter defines them.

\* From those open before token j to those open after it.
Past(before, j) ==
    IF j = 0 THEN <<>>
    ELSE CASE blob.tokens[j].kind = "BEGIN_NODE" -> <<j>> \o before
           [] blob.tokens[j].kind = "END_NODE" /\ before # <<>> -> Tail(before)
           [] OTHER -> before

IsNesting(F, k) == F = [j \in 0 .. k |-> Past(F[j - 1], j)]

\* There is such a function for any number of tokens.
LEMMA NestingsExist == \A n \in Nat : \E F : IsNesting(F, n)
<1> DEFINE S == {n \in Nat : \E F : IsNesting(F, n)}
<1>1. \A f, g : Past(f, 0) = Past(g, 0)
  BY DEF Past
<1>2. 0 \in S
  <2> DEFINE G == [j \in 0 .. 0 |-> Past(0, 0)]
  <2>1. \A j \in 0 .. 0 : j = 0
    OBVIOUS
  <2>2. G = [j \in 0 .. 0 |-> Past(G[j - 1], j)]
    BY <1>1, <2>1
  <2> QED
    BY <2>2 DEF IsNesting
<1>3. ASSUME NEW n \in Nat, n \in S PROVE n + 1 \in S
  <2>1. PICK F : IsNesting(F, n)
    BY <1>3
  <2> DEFINE G == [j \in 0 .. n + 1 |-> IF j <= n THEN F[j] ELSE Past(F[n], n + 1)]
  <2>2. \A j \in 0 .. n : F[j] = Past(F[j - 1], j)
    BY <2>1 DEF IsNesting
  <2>3. \A j \in 0 .. n : G[j] = F[j]
    OBVIOUS
  <2>4. G[n + 1] = Past(F[n], n + 1)
    OBVIOUS
  <2>5. DOMAIN G = 0 .. n + 1 /\ G = [j \in 0 .. n + 1 |-> G[j]]
    OBVIOUS
  <2> HIDE DEF G
  <2>6. ASSUME NEW j \in 0 .. n + 1 PROVE G[j] = Past(G[j - 1], j)
    <3>1. CASE j = 0
      <4>1. j \in 0 .. n
        BY <3>1
      <4>2. G[j] = Past(F[j - 1], 0)
        BY <3>1, <4>1, <2>2, <2>3
      <4> QED
        BY <3>1, <4>2, <1>1
    <3>2. CASE j \in 1 .. n
      <4>1. j \in 0 .. n /\ j - 1 \in 0 .. n
        BY <3>2
      <4> QED
        BY <4>1, <2>2, <2>3
    <3>3. CASE j = n + 1
      <4>1. n \in 0 .. n /\ j - 1 = n
        BY <3>3
      <4> QED
        BY <4>1, <3>3, <2>3, <2>4
    <3> QED
      BY <3>1, <3>2, <3>3
  <2>7. IsNesting(G, n + 1)
    BY <2>5, <2>6 DEF IsNesting
  <2> QED
    BY <2>7
<1> HIDE DEF S
<1>4. \A n \in Nat : n \in S
  BY <1>2, <1>3, SetInduction
<1> QED
  BY <1>4 DEF S

\* Two of them agree on the tokens both speak of.
LEMMA NestingsUnique ==
    ASSUME NEW n \in Nat, NEW m \in Nat, NEW F, NEW G, IsNesting(F, n), IsNesting(G, m), n <= m
    PROVE  F[n] = G[n]
<1> DEFINE S == {j \in Nat : j <= n => F[j] = G[j]}
<1>1. \A j \in 0 .. n : F[j] = Past(F[j - 1], j) /\ G[j] = Past(G[j - 1], j)
  BY DEF IsNesting
<1>2. 0 \in S
  <2>1. F[0] = Past(F[0 - 1], 0) /\ G[0] = Past(G[0 - 1], 0)
    BY <1>1
  <2> QED
    BY <2>1 DEF Past
<1>3. ASSUME NEW j \in Nat, j \in S PROVE j + 1 \in S
  <2>1. SUFFICES ASSUME j + 1 <= n PROVE F[j + 1] = G[j + 1]
    OBVIOUS
  <2>2. j + 1 \in 0 .. n /\ (j + 1) - 1 = j /\ F[j] = G[j]
    BY <1>3, <2>1
  <2> QED
    BY <1>1, <2>2
<1> HIDE DEF S
<1>4. n \in S
  BY <1>2, <1>3, SetInduction
<1> QED
  BY <1>4 DEF S

\* Each token opens a node, closes the innermost one or does neither.
LEMMA OpenStep ==
    ASSUME NEW m \in Nat
    PROVE  OpenAfter(0) = <<>> /\ OpenAfter(m + 1) = Past(OpenAfter(m), m + 1)
<1> DEFINE F(n) == CHOOSE G : IsNesting(G, n)
<1>1. \A n \in Nat : IsNesting(F(n), n) /\ OpenAfter(n) = F(n)[n]
  <2> TAKE n \in Nat
  <2>1. IsNesting(F(n), n)
    BY NestingsExist
  <2>2. OpenAfter(n) = F(n)[n]
    BY DEF OpenAfter, IsNesting, Past
  <2> QED
    BY <2>1, <2>2
<1> HIDE DEF F
<1>2. F(0)[0] = <<>>
  <2>1. F(0)[0] = Past(F(0)[0 - 1], 0)
    BY <1>1 DEF IsNesting
  <2> QED
    BY <2>1 DEF Past
<1>3. F(m)[m] = F(m + 1)[m]
  BY <1>1, NestingsUnique
<1>4. F(m + 1)[m + 1] = Past(F(m + 1)[m], m + 1)
  <2>1. m + 1 \in 0 .. m + 1 /\ (m + 1) - 1 = m /\ m + 1 \in Nat
    OBVIOUS
  <2> QED
    BY <1>1, <2>1 DEF IsNesting
<1> QED
  BY <1>1, <1>2, <1>3, <1>4

----------------------------------------------------------------------------
\* Where the parser is in the blob.

\* It is behind m tokens.
HasRead(m) == m \in 0 .. Len(blob.tokens) /\ offset = SumTo(SizesOf(blob), m)

\* The tokens it has read are those that start before its offset.
LEMMA ReadIs ==
    ASSUME blob \in Blobs, NEW m, HasRead(m)
    PROVE  /\ Read = 1 .. m /\ Cardinality(Read) = m
           /\ IsAligned(offset, 4) /\ offset \in Nat
           /\ \A k \in Tokens : Start(k) = offset <=> k = m + 1
<1> DEFINE at(k) == SumTo(SizesOf(blob), k)
           L     == Len(blob.tokens)
<1>1. L \in Nat /\ Tokens = 1 .. L /\ m \in 0 .. L /\ offset = at(m)
  BY BlobAssumption DEF Tokens, HasRead
<1>2. \A k \in 0 .. L : at(k) \in Nat /\ at(k) % 4 = 0
  BY Behind
<1>3. \A k, j \in 0 .. L : k < j => at(k) < at(j)
  BY StartsGrow
<1>4. \A k \in Tokens : Start(k) = at(k - 1)
  BY DEF Start, SizesOf, Tokens
<1> HIDE DEF at, L
<1>5. \A k \in 1 .. L : k - 1 \in 0 .. L
  BY <1>1
<1>6. ASSUME NEW k \in 1 .. L
      PROVE  (at(k - 1) < at(m) <=> k <= m) /\ (at(k - 1) = at(m) <=> k = m + 1)
  <2>1. at(k - 1) \in Nat /\ at(m) \in Nat
    BY <1>1, <1>2, <1>5
  <2>2. CASE k - 1 < m
    BY <2>1, <2>2, <1>1, <1>3, <1>5
  <2>3. CASE m < k - 1
    BY <2>1, <2>3, <1>1, <1>3, <1>5
  <2>4. CASE k - 1 = m
    BY <2>1, <2>4, <1>1
  <2> QED
    BY <2>2, <2>3, <2>4, <1>1
<1>7. Read = 1 .. m
  BY <1>1, <1>4, <1>6 DEF Read
<1>8. Cardinality(1 .. m) = m
  <2>1. m \in Nat /\ m - 1 + 1 = m
    BY <1>1
  <2> QED
    BY <2>1, FS_Interval
<1>9. \A k \in Tokens : Start(k) = offset <=> k = m + 1
  BY <1>1, <1>4, <1>6
<1> QED
  BY <1>1, <1>2, <1>7, <1>8, <1>9 DEF IsAligned
----------------------------------------------------------------------------
\* The elements of the stacks: records that assignments change field by field.

IsNode(n) ==
    n = [token |-> n.token, address_cells |-> n.address_cells, size_cells |-> n.size_cells,
         properties |-> n.properties, parent |-> n.parent, children |-> n.children,
         next_sibling |-> n.next_sibling]

IsProperty(p) ==
    p = [token |-> p.token, next_property |-> p.next_property, type |-> p.type,
         data |-> p.data]

NodesOK == \E E : IsStack(nodes, E) /\ \A e \in E : IsNode(e)

\* The properties are of the first m tokens.
PropertiesOK(m) ==
    \E E : IsStack(properties, E) /\ \A e \in E : IsProperty(e) /\ e.token \in 1 .. m

\* What a list of nodes is followed by.
SameLinks(n, m) ==
    /\ IsNode(m) /\ m.token = n.token /\ m.parent = n.parent
    /\ m.next_sibling = n.next_sibling

SameCells(n, m) == m.address_cells = n.address_cells /\ m.size_cells = n.size_cells

\* A node with other children.
LEMMA ChildrenChange ==
    ASSUME NEW n, IsNode(n), NEW x
    PROVE  LET m == [n EXCEPT !.children = x]
           IN  SameLinks(n, m) /\ m.properties = n.properties /\ m.children = x /\ SameCells(n, m)
<1>1. PICK a, b, c, d, e, f, g :
         n = [token |-> a, address_cells |-> b, size_cells |-> c, properties |-> d,
              parent |-> e, children |-> f, next_sibling |-> g]
  BY DEF IsNode
<1>2. n.token = a /\ n.parent = e /\ n.children = f /\ n.next_sibling = g /\ n.properties = d
  BY <1>1
<1>3. [n EXCEPT !.children = x] =
        [token |-> a, address_cells |-> b, size_cells |-> c, properties |-> d,
         parent |-> e, children |-> x, next_sibling |-> g]
  BY <1>1
<1> QED
  BY <1>1, <1>2, <1>3 DEF SameLinks, SameCells, IsNode

\* A node with other properties.
LEMMA PropertiesChange ==
    ASSUME NEW n, IsNode(n), NEW x
    PROVE  LET m == [n EXCEPT !.properties = x]
           IN  SameLinks(n, m) /\ m.properties = x /\ m.children = n.children /\ SameCells(n, m)
<1>1. PICK a, b, c, d, e, f, g :
         n = [token |-> a, address_cells |-> b, size_cells |-> c, properties |-> d,
              parent |-> e, children |-> f, next_sibling |-> g]
  BY DEF IsNode
<1>2. n.token = a /\ n.parent = e /\ n.children = f /\ n.next_sibling = g /\ n.properties = d
  BY <1>1
<1>3. [n EXCEPT !.properties = x] =
        [token |-> a, address_cells |-> b, size_cells |-> c, properties |-> x,
         parent |-> e, children |-> f, next_sibling |-> g]
  BY <1>1
<1> QED
  BY <1>1, <1>2, <1>3 DEF SameLinks, SameCells, IsNode

\* A node with other cell counts.
LEMMA AddressCellsChange ==
    ASSUME NEW n, IsNode(n), NEW x
    PROVE  LET m == [n EXCEPT !.address_cells = x]
           IN  /\ SameLinks(n, m) /\ m.properties = n.properties /\ m.children = n.children
               /\ m.address_cells = x /\ m.size_cells = n.size_cells
<1>1. PICK a, b, c, d, e, f, g :
         n = [token |-> a, address_cells |-> b, size_cells |-> c, properties |-> d,
              parent |-> e, children |-> f, next_sibling |-> g]
  BY DEF IsNode
<1>2. n.token = a /\ n.parent = e /\ n.children = f /\ n.next_sibling = g /\ n.properties = d
  BY <1>1
<1>3. [n EXCEPT !.address_cells = x] =
        [token |-> a, address_cells |-> x, size_cells |-> c, properties |-> d,
         parent |-> e, children |-> f, next_sibling |-> g]
  BY <1>1
<1> QED
  BY <1>1, <1>2, <1>3 DEF SameLinks, IsNode

\* The same of the other count.
LEMMA SizeCellsChange ==
    ASSUME NEW n, IsNode(n), NEW x
    PROVE  LET m == [n EXCEPT !.size_cells = x]
           IN  /\ SameLinks(n, m) /\ m.properties = n.properties /\ m.children = n.children
               /\ m.size_cells = x /\ m.address_cells = n.address_cells
<1>1. PICK a, b, c, d, e, f, g :
         n = [token |-> a, address_cells |-> b, size_cells |-> c, properties |-> d,
              parent |-> e, children |-> f, next_sibling |-> g]
  BY DEF IsNode
<1>2. n.token = a /\ n.parent = e /\ n.children = f /\ n.next_sibling = g /\ n.properties = d
  BY <1>1
<1>3. [n EXCEPT !.size_cells = x] =
        [token |-> a, address_cells |-> b, size_cells |-> x, properties |-> d,
         parent |-> e, children |-> f, next_sibling |-> g]
  BY <1>1
<1> QED
  BY <1>1, <1>2, <1>3 DEF SameLinks, IsNode

\* A node with another sibling.
LEMMA SiblingChange ==
    ASSUME NEW n, IsNode(n), NEW x
    PROVE  LET m == [n EXCEPT !.next_sibling = x]
           IN  /\ IsNode(m) /\ m.next_sibling = x /\ m.token = n.token
               /\ m.parent = n.parent /\ m.properties = n.properties
               /\ m.children = n.children /\ SameCells(n, m)
<1>1. PICK a, b, c, d, e, f, g :
         n = [token |-> a, address_cells |-> b, size_cells |-> c, properties |-> d,
              parent |-> e, children |-> f, next_sibling |-> g]
  BY DEF IsNode
<1>2. n.token = a /\ n.parent = e /\ n.children = f /\ n.next_sibling = g /\ n.properties = d
  BY <1>1
<1>3. [n EXCEPT !.next_sibling = x] =
        [token |-> a, address_cells |-> b, size_cells |-> c, properties |-> d,
         parent |-> e, children |-> f, next_sibling |-> x]
  BY <1>1
<1> QED
  BY <1>1, <1>2, <1>3 DEF SameLinks, SameCells, IsNode

\* A pointer that may be followed leads to an element, and is not null.
LEMMA Follows ==
    ASSUME NEW s, NEW E, IsStack(s, E), NEW p, PointsInto(s, p)
    PROVE  Deref(s, p) \in E /\ p # NULL
<1>1. s.buffers \in Seq(Seq(E)) /\ s.buffers[p.buffer] \in Seq(E)
  BY DEF IsStack, PointsInto
<1>2. p.buffer # 0 /\ NULL.buffer = 0
  BY DEF PointsInto, NULL
<1> QED
  BY <1>1, <1>2 DEF PointsInto, Deref

\* A stack over some elements is one over more.
LEMMA Superset ==
    ASSUME NEW s, NEW E, NEW F, IsStack(s, E), E \subseteq F
    PROVE  IsStack(s, F)
<1>1. s.buffers \in Seq(Seq(E))
  BY DEF IsStack
<1>2. \A x : x \in Seq(E) => x \in Seq(F)
  OBVIOUS
<1>3. s.buffers \in Seq(Seq(F))
  BY <1>1, <1>2
<1> QED
  BY <1>3 DEF IsStack

Same(p, q) == p.buffer = q.buffer /\ p.index = q.index

\* A new node at p, opened by token k inside the current one.
Entered(p, k) ==
    /\ p \in Pointers /\ PointsInto(nodes', p) /\ current' = p
    /\ LET n == Deref(nodes', p)
       IN  /\ n.token = k /\ n.parent = current /\ n.children = NULL /\ n.properties = NULL
           /\ n.address_cells = 0 /\ n.size_cells = 0
           /\ n.next_sibling = IF current = NULL THEN NULL ELSE Deref(nodes, current).children
    /\ \A q : PointsInto(nodes, q) =>
          /\ PointsInto(nodes', q) /\ q # p
          /\ SameLinks(Deref(nodes, q), Deref(nodes', q))
          /\ SameCells(Deref(nodes, q), Deref(nodes', q))
          /\ Deref(nodes', q).properties = Deref(nodes, q).properties
          /\ Deref(nodes', q).children = IF current # NULL /\ Same(q, current) THEN p
                                         ELSE Deref(nodes, q).children
    /\ nodes'.m_size = nodes.m_size + 1
    /\ ~Full(nodes) => /\ Len(nodes'.buffers) = Len(nodes.buffers)
                       /\ nodes'.m_capacity = nodes.m_capacity
    /\ nodes.buffers = <<>> => /\ Len(nodes'.buffers) = 1
                               /\ nodes'.m_capacity = FirstCapacity(NODE_SZ)

\* The assignments of parse_node: the new node is linked to the children there
\* are, and becomes the first of them.
LEMMA Entering ==
    ASSUME NodesOK, NEW k, current = NULL \/ PointsInto(nodes, current),
           NEW s, s = EmplaceBack(nodes, NODE_SZ, Node(k)), NEW p, p = Last(s),
           nodes' = IF current = NULL THEN s ELSE Linked(s, p), current' = p
    PROVE  NodesOK' /\ Entered(p, k)
<1> DEFINE v == Node(k)
<1>1. PICK E : IsStack(nodes, E) /\ \A e \in E : IsNode(e)
  BY DEF NodesOK
<1>2. IsNode(v) /\ v.token = k /\ v.parent = current /\ v.children = NULL
      /\ v.properties = NULL /\ v.next_sibling = NULL
      /\ v.address_cells = 0 /\ v.size_cells = 0
  BY DEF Node, IsNode
<1> HIDE DEF v
<1> DEFINE N == Deref(nodes, current)
           w == [v EXCEPT !.next_sibling = N.children]
           z == [N EXCEPT !.children = p]
           F == E \cup {v, w, z}
<1>3. IsStack(nodes, F) /\ v \in F
  BY <1>1, Superset
<1>4. /\ IsStack(s, F) /\ s.m_size = nodes.m_size + 1
      /\ PointsInto(s, p) /\ Deref(s, p) = v /\ p \in Pointers
      /\ \A q : PointsInto(nodes, q) =>
            PointsInto(s, q) /\ Deref(s, q) = Deref(nodes, q) /\ q # p
      /\ ~Full(nodes) => Len(s.buffers) = Len(nodes.buffers) /\ s.m_capacity = nodes.m_capacity
      /\ nodes.buffers = <<>> => /\ Len(s.buffers) = 1
                                 /\ s.m_capacity = GrownSize(nodes, NODE_SZ) \div NODE_SZ
  <2>1. NODE_SZ \in 1 .. PAGE_SIZE
    BY DeviceTreeAssumption
  <2> HIDE DEF F
  <2> QED
    BY <1>3, <2>1, Emplaced DEF v
<1>5. nodes.buffers = <<>> => s.m_capacity = FirstCapacity(NODE_SZ)
  <2>1. nodes.buffers = <<>> => nodes.m_capacity = EmptyStack.m_capacity
    BY <1>1 DEF IsStack, EmptyStack
  <2> QED
    BY <1>4, <2>1 DEF FirstCapacity, GrownSize
<1>6. ASSUME NEW q, PointsInto(nodes, q) PROVE IsNode(Deref(nodes, q))
  BY <1>1, <1>6, Follows
<1>7. CASE current = NULL
  <2>1. nodes' = s
    BY <1>7
  <2>2. \E G : IsStack(s, G) /\ \A e \in G : IsNode(e)
    <3> DEFINE G == E \cup {v}
    <3>1. IsStack(nodes, G) /\ v \in G /\ \A e \in G : IsNode(e)
      BY <1>1, <1>2, Superset
    <3>2. NODE_SZ \in 1 .. PAGE_SIZE
      BY DeviceTreeAssumption
    <3> HIDE DEF G
    <3>3. IsStack(s, G)
      BY <3>1, <3>2, Emplaced DEF v
    <3> QED
      BY <3>1, <3>3
  <2>3. NodesOK'
    BY <2>1, <2>2 DEF NodesOK
  <2>4. Entered(p, k)
    BY <1>2, <1>4, <1>5, <1>6, <1>7, <2>1 DEF Entered, SameLinks, SameCells
  <2> QED
    BY <2>3, <2>4
<1>8. CASE current # NULL
  <2>1. PointsInto(nodes, current) /\ IsNode(N)
    BY <1>6, <1>8
  <2>2. /\ IsNode(w) /\ w.next_sibling = N.children /\ w.token = k /\ w.parent = current
        /\ w.properties = NULL /\ w.children = NULL /\ w.address_cells = 0 /\ w.size_cells = 0
    BY <1>2, SiblingChange DEF SameCells
  <2>3. SameLinks(N, z) /\ z.properties = N.properties /\ z.children = p /\ SameCells(N, z)
    BY <2>1, ChildrenChange
  <2>4. \A e \in F : IsNode(e)
    BY <1>1, <1>2, <2>2, <2>3 DEF SameLinks
  <2>5. w \in F /\ z \in F /\ PointsInto(s, current) /\ current # p
        /\ Deref(s, current) = N
    BY <1>4, <2>1
  <2> DEFINE t == Assign(s, p, [Deref(s, p) EXCEPT !.next_sibling = Deref(s, current).children])
             u == Assign(t, current, [Deref(t, current) EXCEPT !.children = p])
  <2>6. nodes' = u
    BY <1>8 DEF Linked
  <2>7. t = Assign(s, p, w)
    BY <1>4, <2>5
  <2>8. ~Same(current, p) /\ \A q : PointsInto(nodes, q) => ~Same(q, p)
    <3>1. ASSUME NEW q, PointsInto(nodes, q), Same(q, p) PROVE FALSE
      <4>1. PointsInto(nodes, p)
        BY <3>1 DEF PointsInto, Same
      <4> QED
        BY <1>4, <4>1
    <3> QED
      BY <2>1, <3>1
  <2> HIDE DEF F, t, w
  <2>9. /\ IsStack(t, F) /\ t.m_size = s.m_size /\ t.m_capacity = s.m_capacity
        /\ Len(t.buffers) = Len(s.buffers)
        /\ \A q : PointsInto(t, q) <=> PointsInto(s, q)
        /\ \A q : PointsInto(s, q) => Deref(t, q) = IF Same(q, p) THEN w ELSE Deref(s, q)
    <3>1. IsStack(s, F) /\ w \in F /\ PointsInto(s, p) /\ t = Assign(s, p, w)
      BY <1>4, <2>5, <2>7
    <3> QED
      BY <3>1, Assigns DEF Same
  <2>10. Deref(t, current) = N /\ PointsInto(t, current)
    BY <2>5, <2>8, <2>9
  <2>11. u = Assign(t, current, z)
    BY <2>10
  <2> HIDE DEF u, z, N
  <2>12. /\ IsStack(u, F) /\ u.m_size = t.m_size /\ u.m_capacity = t.m_capacity
         /\ Len(u.buffers) = Len(t.buffers)
         /\ \A q : PointsInto(u, q) <=> PointsInto(t, q)
         /\ \A q : PointsInto(t, q) => Deref(u, q) = IF Same(q, current) THEN z ELSE Deref(t, q)
    BY <2>5, <2>9, <2>10, <2>11, Assigns, SMTT(60) DEF Same
  <2>13. NodesOK'
    BY <2>4, <2>6, <2>12 DEF NodesOK
  <2>14. PointsInto(u, p) /\ Deref(u, p) = w
    BY <1>4, <2>8, <2>9, <2>12 DEF Same
  <2>15. ASSUME NEW q, PointsInto(nodes, q)
         PROVE  /\ PointsInto(u, q) /\ q # p
                /\ SameLinks(Deref(nodes, q), Deref(u, q))
                /\ SameCells(Deref(nodes, q), Deref(u, q))
                /\ Deref(u, q).properties = Deref(nodes, q).properties
                /\ Deref(u, q).children = IF Same(q, current) THEN p
                                          ELSE Deref(nodes, q).children
    <3>1. PointsInto(u, q) /\ q # p /\ Deref(t, q) = Deref(nodes, q)
      BY <1>4, <2>8, <2>9, <2>12, <2>15
    <3>2. CASE Same(q, current)
      <4>1. Deref(nodes, q) = N /\ Deref(u, q) = z
        BY <3>2, <2>9, <2>12, <2>15, <1>4 DEF N, Deref, Same
      <4> QED
        BY <3>1, <3>2, <4>1, <2>3
    <3>3. CASE ~Same(q, current)
      <4>1. Deref(u, q) = Deref(nodes, q)
        BY <3>1, <3>3, <1>4, <2>9, <2>12, <2>15
      <4> QED
        BY <3>1, <3>3, <4>1, <1>6, <2>15 DEF SameLinks, SameCells
    <3> QED
      BY <3>2, <3>3
  <2>16. u.m_size = nodes.m_size + 1 /\ u.m_capacity = s.m_capacity
         /\ Len(u.buffers) = Len(s.buffers)
    BY <1>4, <2>9, <2>12
  <2>17. Entered(p, k)
    BY <1>4, <1>5, <1>8, <2>2, <2>6, <2>14, <2>15, <2>16 DEF Entered, N
  <2> QED
    BY <2>13, <2>17
<1> QED
  BY <1>7, <1>8
----------------------------------------------------------------------------
\* What the steps do to the lists.

\* A list goes on as it was while nothing on it changes.
LEMMA ListKept ==
    ASSUME NEW s, NEW t, NEW p, NEW link, NEW c, IsList(s, p, link, c),
           \A q : PointsInto(s, q) => PointsInto(t, q) /\ Deref(t, q)[link] = Deref(s, q)[link]
    PROVE  IsList(t, p, link, c)
BY DEF IsList

\* A new first element.
LEMMA ListPrepended ==
    ASSUME NEW s, NEW p, NEW link, NEW c, IsList(s, p, link, c),
           NEW q \in Pointers, PointsInto(s, q), Deref(s, q)[link] = p
    PROVE  IsList(s, q, link, <<q>> \o c) /\ Len(<<q>> \o c) = Len(c) + 1
<1> DEFINE d == <<q>> \o c
<1>1. c \in Seq(Pointers) /\ Len(c) \in Nat
  BY DEF IsList
<1>2. d \in Seq(Pointers) /\ Len(d) = Len(c) + 1 /\ d[1] = q
      /\ \A i \in 2 .. Len(d) : d[i] = c[i - 1]
  BY <1>1
<1> HIDE DEF d
<1>3. ASSUME NEW i \in 1 .. Len(d)
      PROVE  /\ PointsInto(s, d[i])
             /\ Deref(s, d[i])[link] = IF i = Len(d) THEN NULL ELSE d[i + 1]
  <2>1. CASE i = 1
    <3>1. d[i] = q /\ Deref(s, d[i])[link] = p
      BY <1>2, <2>1
    <3>2. CASE Len(c) = 0
      BY <1>1, <1>2, <2>1, <3>1, <3>2 DEF IsList
    <3>3. CASE Len(c) # 0
      <4>1. 2 \in 2 .. Len(d) /\ d[2] = c[1] /\ p = c[1]
        BY <1>1, <1>2, <3>3 DEF IsList
      <4> QED
        BY <1>1, <1>2, <2>1, <3>1, <3>3, <4>1
    <3> QED
      BY <3>2, <3>3
  <2>2. CASE i # 1
    <3>1. i - 1 \in 1 .. Len(c) /\ i \in 2 .. Len(d) /\ d[i] = c[i - 1] /\ (i - 1) + 1 = i
      BY <1>1, <1>2, <2>2
    <3>2. PointsInto(s, c[i - 1])
          /\ Deref(s, c[i - 1])[link] = IF i - 1 = Len(c) THEN NULL ELSE c[i]
      BY <3>1 DEF IsList
    <3>3. CASE i = Len(d)
      BY <1>1, <1>2, <3>1, <3>2, <3>3
    <3>4. CASE i # Len(d)
      <4>1. i + 1 \in 2 .. Len(d) /\ d[i + 1] = c[i] /\ i - 1 # Len(c)
        BY <1>1, <1>2, <3>1, <3>4
      <4> QED
        BY <3>1, <3>2, <3>4, <4>1
    <3> QED
      BY <3>3, <3>4
  <2> QED
    BY <2>1, <2>2
<1>4. IsList(s, q, link, d)
  BY <1>1, <1>2, <1>3 DEF IsList
<1> QED
  BY <1>2, <1>4 DEF d

\* A list that is not empty has a first element, and a rest that it leads to.
LEMMA ListRest ==
    ASSUME NEW s, NEW p, NEW link, NEW c, IsList(s, p, link, c), p # NULL
    PROVE  /\ Len(c) > 0 /\ c[1] = p /\ p \in Pointers /\ PointsInto(s, p)
           /\ IsList(s, Deref(s, p)[link], link, Tail(c)) /\ Len(Tail(c)) = Len(c) - 1
<1>1. c \in Seq(Pointers) /\ Len(c) \in Nat /\ Len(c) # 0 /\ c[1] = p
  BY DEF IsList
<1>2. 1 \in 1 .. Len(c) /\ p \in Pointers /\ PointsInto(s, p)
      /\ Deref(s, p)[link] = IF 1 = Len(c) THEN NULL ELSE c[2]
  <2>1. 1 \in 1 .. Len(c) /\ c[1] \in Pointers /\ 1 + 1 = 2
    BY <1>1
  <2>2. PointsInto(s, c[1]) /\ Deref(s, c[1])[link] = IF 1 = Len(c) THEN NULL ELSE c[1 + 1]
    BY <2>1 DEF IsList
  <2> QED
    BY <1>1, <2>1, <2>2
<1>3. Tail(c) \in Seq(Pointers) /\ Len(Tail(c)) = Len(c) - 1
      /\ \A i \in 1 .. Len(c) - 1 : Tail(c)[i] = c[i + 1]
  BY <1>1
<1>4. ASSUME NEW i \in 1 .. Len(c) - 1
      PROVE  /\ PointsInto(s, Tail(c)[i])
             /\ Deref(s, Tail(c)[i])[link] = IF i = Len(c) - 1 THEN NULL ELSE Tail(c)[i + 1]
  <2>1. i + 1 \in 1 .. Len(c) /\ Tail(c)[i] = c[i + 1]
    BY <1>1, <1>3
  <2>2. PointsInto(s, c[i + 1])
        /\ Deref(s, c[i + 1])[link] = IF i + 1 = Len(c) THEN NULL ELSE c[(i + 1) + 1]
    BY <2>1 DEF IsList
  <2>3. CASE i = Len(c) - 1
    BY <1>1, <2>1, <2>2, <2>3
  <2>4. CASE i # Len(c) - 1
    <3>1. i + 1 \in 1 .. Len(c) - 1 /\ i + 1 # Len(c)
      BY <1>1, <2>4, SMTT(60)
    <3>2. Tail(c)[i + 1] = c[(i + 1) + 1]
      BY <1>3, <3>1
    <3> QED
      BY <2>1, <2>2, <2>4, <3>1, <3>2
  <2> QED
    BY <2>3, <2>4
<1>5. Deref(s, p)[link] = IF Len(Tail(c)) = 0 THEN NULL ELSE Tail(c)[1]
  <2>1. CASE Len(c) = 1
    BY <1>2, <1>3, <2>1
  <2>2. CASE Len(c) # 1
    BY <1>1, <1>2, <1>3, <2>2
  <2> QED
    BY <2>1, <2>2, SMTT(60)
<1>6. IsList(s, Deref(s, p)[link], link, Tail(c))
  BY <1>3, <1>4, <1>5 DEF IsList
<1> QED
  BY <1>1, <1>2, <1>3, <1>6

\* The empty list.
LEMMA ListEmpty ==
    ASSUME NEW s, NEW link
    PROVE  IsList(s, NULL, link, <<>>) /\ Len(<<>>) = 0
<1>1. <<>> \in Seq(Pointers) /\ Len(<<>>) = 0
  OBVIOUS
<1> QED
  BY <1>1 DEF IsList

\* The tokens of the elements of a list.
Names(s, c) == [i \in 1 .. Len(c) |-> Deref(s, c[i]).token]

\* The tokens on a list with a new first element.
LEMMA NamesPrepended ==
    ASSUME NEW s, NEW c \in Seq(Pointers), NEW q \in Pointers
    PROVE  Names(s, <<q>> \o c) = <<Deref(s, q).token>> \o Names(s, c)
<1> DEFINE d == <<q>> \o c
           T == {Deref(s, x).token : x \in Pointers}
<1>1. Len(c) \in Nat /\ d \in Seq(Pointers) /\ Len(d) = Len(c) + 1 /\ d[1] = q
      /\ \A i \in 2 .. Len(d) : d[i] = c[i - 1]
  OBVIOUS
<1> HIDE DEF d
<1>2. ASSUME NEW x \in Seq(Pointers)
      PROVE  Names(s, x) \in Seq(T) /\ Len(Names(s, x)) = Len(x)
  <2>1. Len(x) \in Nat /\ \A i \in 1 .. Len(x) : Deref(s, x[i]).token \in T
    OBVIOUS
  <2> HIDE DEF T
  <2> QED
    BY <2>1 DEF Names
<1>3. <<Deref(s, q).token>> \o Names(s, c) \in Seq(T)
      /\ Len(<<Deref(s, q).token>> \o Names(s, c)) = Len(c) + 1
  <2>1. Deref(s, q).token \in T /\ Names(s, c) \in Seq(T) /\ Len(Names(s, c)) = Len(c)
    BY <1>2
  <2> HIDE DEF T
  <2> QED
    BY <1>1, <2>1
<1>4. Names(s, d) \in Seq(T) /\ Len(Names(s, d)) = Len(c) + 1
  BY <1>1, <1>2
<1>5. ASSUME NEW i \in 1 .. Len(c) + 1
      PROVE  Names(s, d)[i] = (<<Deref(s, q).token>> \o Names(s, c))[i]
  <2>0. Names(s, c) \in Seq(T) /\ Len(Names(s, c)) = Len(c) /\ Deref(s, q).token \in T
    BY <1>2
  <2> HIDE DEF T
  <2>1. CASE i = 1
    <3>1. Names(s, d)[i] = Deref(s, q).token
      BY <1>1, <2>1 DEF Names
    <3> QED
      BY <3>1, <2>0, <2>1, <1>1
  <2>2. CASE i # 1
    <3>1. i \in 2 .. Len(d) /\ i \in 1 .. Len(d) /\ d[i] = c[i - 1] /\ i - 1 \in 1 .. Len(c)
      BY <1>1, <2>2
    <3>2. Names(s, d)[i] = Deref(s, c[i - 1]).token
      BY <3>1 DEF Names
    <3>3. Names(s, c)[i - 1] = Deref(s, c[i - 1]).token
      BY <3>1 DEF Names
    <3>4. (<<Deref(s, q).token>> \o Names(s, c))[i] = Names(s, c)[i - 1]
      BY <2>0, <2>2, <3>1, <1>1
    <3> QED
      BY <3>2, <3>3, <3>4
  <2> QED
    BY <2>1, <2>2
<1> HIDE DEF T
<1>6. Names(s, d) = <<Deref(s, q).token>> \o Names(s, c)
  BY <1>1, <1>3, <1>4, <1>5, SeqEqual
<1> QED
  BY <1>6 DEF d

\* The tokens on the rest of a list.
LEMMA NamesRest ==
    ASSUME NEW s, NEW c \in Seq(Pointers), Len(c) > 0
    PROVE  Names(s, Tail(c)) = Tail(Names(s, c))
<1>1. Len(c) \in Nat /\ Tail(c) \in Seq(Pointers) /\ Len(Tail(c)) = Len(c) - 1
      /\ \A i \in 1 .. Len(c) - 1 : Tail(c)[i] = c[i + 1]
  OBVIOUS
<1>2. Names(s, Tail(c)) = [i \in 1 .. Len(c) - 1 |-> Deref(s, c[i + 1]).token]
  BY <1>1 DEF Names
<1>3. Len(Names(s, c)) = Len(c)
  BY <1>1, SMTT(60) DEF Names
<1> DEFINE T == {Deref(s, x).token : x \in Pointers}
<1>4. Names(s, c) \in Seq(T) /\ Names(s, Tail(c)) \in Seq(T)
      /\ Len(Names(s, Tail(c))) = Len(c) - 1
  <2>1. \A x \in Seq(Pointers) : Names(s, x) \in Seq(T) /\ Len(Names(s, x)) = Len(x)
    <3> TAKE x \in Seq(Pointers)
    <3>1. Len(x) \in Nat /\ \A i \in 1 .. Len(x) : Deref(s, x[i]).token \in T
      OBVIOUS
    <3> HIDE DEF T
    <3> QED
      BY <3>1 DEF Names
  <2> QED
    BY <1>1, <2>1
<1> HIDE DEF T
<1>5. Tail(Names(s, c)) \in Seq(T) /\ Len(Tail(Names(s, c))) = Len(c) - 1
      /\ \A i \in 1 .. Len(c) - 1 : Tail(Names(s, c))[i] = Names(s, c)[i + 1]
  <2>1. Len(Names(s, c)) > 0
    BY <1>3
  <2> QED
    BY <1>1, <1>3, <1>4, <2>1
<1>6. ASSUME NEW i \in 1 .. Len(c) - 1
      PROVE  Names(s, Tail(c))[i] = Tail(Names(s, c))[i]
  <2>1. i + 1 \in 1 .. Len(c)
    BY <1>1
  <2>2. Names(s, c)[i + 1] = Deref(s, c[i + 1]).token
    BY <2>1 DEF Names
  <2> QED
    BY <1>2, <1>5, <2>2
<1> QED
  BY <1>4, <1>5, <1>6, SeqEqual

\* The names on a list that stays are the same.
LEMMA NamesKept ==
    ASSUME NEW s, NEW t, NEW p, NEW link, NEW c, IsList(s, p, link, c),
           \A q : PointsInto(s, q) => Deref(t, q).token = Deref(s, q).token
    PROVE  Names(t, c) = Names(s, c)
BY DEF IsList, Names
----------------------------------------------------------------------------
\* What the steps do to the nodes and the properties.

\* The shape of a stack: where there is an element.
SameShape(s, t) ==
    /\ t.m_size = s.m_size /\ t.m_capacity = s.m_capacity
    /\ Len(t.buffers) = Len(s.buffers)
    /\ \A q : PointsInto(t, q) <=> PointsInto(s, q)

\* Nodes differ in nothing but their cells, properties in type and data.
NodesSame ==
    /\ SameShape(nodes, nodes')
    /\ \A q : PointsInto(nodes, q) =>
          /\ SameLinks(Deref(nodes, q), Deref(nodes', q))
          /\ Deref(nodes', q).properties = Deref(nodes, q).properties
          /\ Deref(nodes', q).children = Deref(nodes, q).children

PropertiesSame ==
    /\ SameShape(properties, properties')
    /\ \A q : PointsInto(properties, q) =>
          /\ Deref(properties', q).token = Deref(properties, q).token
          /\ Deref(properties', q).next_property = Deref(properties, q).next_property

\* Stacks that stay are of that kind.
LEMMA NothingChanges ==
    /\ NodesOK /\ nodes' = nodes => NodesOK' /\ NodesSame
    /\ \A m : PropertiesOK(m) /\ properties' = properties => PropertiesOK(m)' /\ PropertiesSame
<1>1. ASSUME NodesOK, nodes' = nodes PROVE NodesOK' /\ NodesSame
  <2>1. PICK E : IsStack(nodes, E) /\ \A e \in E : IsNode(e)
    BY <1>1 DEF NodesOK
  <2>2. NodesOK'
    BY <1>1, <2>1 DEF NodesOK
  <2>3. \A q : PointsInto(nodes, q) => IsNode(Deref(nodes, q))
    BY <2>1, Follows
  <2> QED
    BY <1>1, <2>2, <2>3 DEF NodesSame, SameShape, SameLinks
<1>2. ASSUME NEW m, PropertiesOK(m), properties' = properties
      PROVE  PropertiesOK(m)' /\ PropertiesSame
  BY <1>2 DEF PropertiesOK, PropertiesSame, SameShape
<1> QED
  BY <1>1, <1>2

\* What an assignment leaves in a stack, whatever is assigned.
LEMMA AssignedAt ==
    ASSUME NEW s, NEW E, IsStack(s, E), NEW v, NEW p, PointsInto(s, p), NEW q, PointsInto(s, q)
    PROVE  Deref(Assign(s, p, v), q) = IF Same(q, p) THEN v ELSE Deref(s, q)
<1>1. PICK F : F = E \cup {v}
  OBVIOUS
<1>2. IsStack(s, F) /\ v \in F
  BY <1>1, Superset
<1>3. PICK t : t = Assign(s, p, v)
  OBVIOUS
<1> QED
  BY <1>2, <1>3, Assigns DEF Same

\* An assignment of the parser after the tokens changes cells only.
LEMMA CellsAssigned ==
    ASSUME NodesOK, NEW p, NEW v, nodes' = Assign(nodes, p, v),
           PointsInto(nodes, p) =>
               LET n == Deref(nodes, p)
               IN  SameLinks(n, v) /\ v.properties = n.properties /\ v.children = n.children
    PROVE  NodesOK' /\ NodesSame
<1>1. PICK E : IsStack(nodes, E) /\ \A e \in E : IsNode(e)
  BY DEF NodesOK
<1>2. CASE ~PointsInto(nodes, p)
  <2>1. nodes' = nodes
    BY <1>1, <1>2, AssignsNowhere
  <2> QED
    BY <2>1, NothingChanges
<1>3. CASE PointsInto(nodes, p)
  <2> DEFINE F == E \cup {v}
  <2>1. IsStack(nodes, F) /\ v \in F
    BY <1>1, Superset
  <2>2. \A e \in F : IsNode(e)
    BY <1>1, <1>3 DEF SameLinks
  <2> HIDE DEF F
  <2>3. /\ IsStack(nodes', F) /\ SameShape(nodes, nodes')
        /\ \A q : PointsInto(nodes, q) =>
              Deref(nodes', q) = IF Same(q, p) THEN v ELSE Deref(nodes, q)
    BY <1>3, <2>1, Assigns DEF Same, SameShape
  <2>4. NodesOK'
    BY <2>2, <2>3 DEF NodesOK
  <2>5. ASSUME NEW q, PointsInto(nodes, q)
        PROVE  /\ SameLinks(Deref(nodes, q), Deref(nodes', q))
               /\ Deref(nodes', q).properties = Deref(nodes, q).properties
               /\ Deref(nodes', q).children = Deref(nodes, q).children
    <3>1. CASE Same(q, p)
      <4>1. Deref(nodes', q) = v /\ Deref(nodes, q) = Deref(nodes, p)
        BY <2>3, <2>5, <3>1 DEF Deref, Same
      <4> QED
        BY <1>3, <4>1
    <3>2. CASE ~Same(q, p)
      <4>1. Deref(nodes', q) = Deref(nodes, q) /\ IsNode(Deref(nodes, q))
        BY <1>1, <2>3, <2>5, <3>2, Follows
      <4> QED
        BY <4>1 DEF SameLinks
    <3> QED
      BY <3>1, <3>2
  <2> QED
    BY <2>3, <2>4, <2>5 DEF NodesSame
<1> QED
  BY <1>2, <1>3

\* A property with another type and other data.
LEMMA TypeChange ==
    ASSUME NEW p, IsProperty(p), NEW x, NEW y
    PROVE  LET r == [p EXCEPT !.type = x, !.data = y]
           IN  IsProperty(r) /\ r.token = p.token /\ r.next_property = p.next_property
<1>1. PICK a, b, c, d : p = [token |-> a, next_property |-> b, type |-> c, data |-> d]
  BY DEF IsProperty
<1>2. [p EXCEPT !.type = x, !.data = y] = [token |-> a, next_property |-> b, type |-> x, data |-> y]
  <2>1. [p EXCEPT !.type = x] = [token |-> a, next_property |-> b, type |-> x, data |-> d]
    BY <1>1
  <2>2. [p EXCEPT !.type = x, !.data = y] = [[p EXCEPT !.type = x] EXCEPT !.data = y]
    OBVIOUS
  <2>3. [[token |-> a, next_property |-> b, type |-> x, data |-> d] EXCEPT !.data = y] =
          [token |-> a, next_property |-> b, type |-> x, data |-> y]
    OBVIOUS
  <2> QED
    BY <2>1, <2>2, <2>3
<1> QED
  BY <1>1, <1>2 DEF IsProperty

\* The rewrite gives a property a type and data.
LEMMA TypeAssigned ==
    ASSUME NEW m, PropertiesOK(m), NEW p, NEW x, NEW y,
           properties' = Assign(properties, p, [Deref(properties, p) EXCEPT !.type = x, !.data = y])
    PROVE  PropertiesOK(m)' /\ PropertiesSame
<1>1. PICK E : IsStack(properties, E) /\ \A e \in E : IsProperty(e) /\ e.token \in 1 .. m
  BY DEF PropertiesOK
<1> DEFINE v == [Deref(properties, p) EXCEPT !.type = x, !.data = y]
<1>2. properties' = Assign(properties, p, v)
  OBVIOUS
<1>3. CASE ~PointsInto(properties, p)
  <2> HIDE DEF v
  <2>1. properties' = properties
    BY <1>1, <1>2, <1>3, AssignsNowhere
  <2> QED
    BY <2>1, NothingChanges
<1>4. CASE PointsInto(properties, p)
  <2>1. Deref(properties, p) \in E
    BY <1>1, <1>4, Follows
  <2>2. /\ IsProperty(v) /\ v.token = Deref(properties, p).token
        /\ v.next_property = Deref(properties, p).next_property
    BY <1>1, <2>1, TypeChange, ZenonT(60)
  <2> HIDE DEF v
  <2> DEFINE F == E \cup {v}
  <2>3. IsStack(properties, F) /\ v \in F
    BY <1>1, Superset
  <2>4. \A e \in F : IsProperty(e) /\ e.token \in 1 .. m
    BY <1>1, <2>1, <2>2
  <2> HIDE DEF F
  <2>5. /\ IsStack(properties', F) /\ SameShape(properties, properties')
        /\ \A q : PointsInto(properties, q) =>
              Deref(properties', q) = IF Same(q, p) THEN v ELSE Deref(properties, q)
    BY <1>2, <1>4, <2>3, Assigns DEF Same, SameShape
  <2>6. PropertiesOK(m)'
    BY <2>4, <2>5 DEF PropertiesOK
  <2>7. ASSUME NEW q, PointsInto(properties, q)
        PROVE  /\ Deref(properties', q).token = Deref(properties, q).token
               /\ Deref(properties', q).next_property = Deref(properties, q).next_property
    <3>1. CASE Same(q, p)
      <4>1. Deref(properties', q) = v /\ Deref(properties, q) = Deref(properties, p)
        BY <2>5, <2>7, <3>1 DEF Deref, Same
      <4> QED
        BY <2>2, <4>1
    <3>2. CASE ~Same(q, p)
      BY <2>5, <2>7, <3>2
    <3> QED
      BY <3>1, <3>2
  <2> QED
    BY <2>5, <2>6, <2>7 DEF PropertiesSame
<1> QED
  BY <1>3, <1>4

\* The root gets the cells there are by default.
LEMMA RootAssigned ==
    ASSUME NodesOK, NEW p,
           nodes' = Assign(nodes, p, [Deref(nodes, p) EXCEPT !.address_cells = 2, !.size_cells = 1])
    PROVE  /\ NodesOK' /\ NodesSame
           /\ \A q : PointsInto(nodes, q) =>
                 IF Same(q, p)
                 THEN Deref(nodes', q).address_cells = 2 /\ Deref(nodes', q).size_cells = 1
                 ELSE SameCells(Deref(nodes, q), Deref(nodes', q))
<1> DEFINE n == Deref(nodes, p)
           v == [n EXCEPT !.address_cells = 2, !.size_cells = 1]
<1>1. CASE ~PointsInto(nodes, p)
  <2>1. nodes' = nodes
    BY <1>1, AssignsNowhere DEF NodesOK
  <2>2. \A q : PointsInto(nodes, q) => ~Same(q, p)
    BY <1>1 DEF PointsInto, Same
  <2> QED
    BY <2>1, <2>2, NothingChanges DEF SameCells
<1>2. CASE PointsInto(nodes, p)
  <2>1. IsNode(n)
    BY <1>2, Follows DEF NodesOK
  <2> DEFINE u == [n EXCEPT !.address_cells = 2]
  <2>2. SameLinks(n, u) /\ u.properties = n.properties /\ u.children = n.children
        /\ u.address_cells = 2
    <3> HIDE DEF n
    <3> QED
      BY <2>1, AddressCellsChange
  <2>3. v = [u EXCEPT !.size_cells = 1]
    OBVIOUS
  <2> HIDE DEF u
  <2>4. IsNode(u)
    BY <2>2 DEF SameLinks
  <2> DEFINE w == [u EXCEPT !.size_cells = 1]
  <2>5. SameLinks(u, w) /\ w.properties = u.properties /\ w.children = u.children
        /\ w.size_cells = 1 /\ w.address_cells = u.address_cells
    BY <2>4, SizeCellsChange
  <2>6. w = v
    BY <2>3
  <2> HIDE DEF n, v, w
  <2>7. SameLinks(n, v) /\ v.properties = n.properties /\ v.children = n.children
    BY <2>2, <2>5, <2>6 DEF SameLinks
  <2>8. nodes' = Assign(nodes, p, v)
    BY DEF v, n
  <2>9. v.address_cells = 2 /\ v.size_cells = 1
    BY <2>2, <2>5, <2>6
  <2>10. ASSUME NEW q, PointsInto(nodes, q)
         PROVE  Deref(nodes', q) = IF Same(q, p) THEN v ELSE Deref(nodes, q)
    BY <1>2, <2>8, <2>10, AssignedAt DEF NodesOK
  <2> QED
    BY <1>2, <2>7, <2>8, <2>9, <2>10, CellsAssigned DEF n, SameCells
<1> QED
  BY <1>1, <1>2

\* A new property at p, of token k, is the first of the current node's.
Attached(p, k) ==
    /\ p \in Pointers /\ PointsInto(properties', p)
    /\ Deref(properties', p).token = k
    /\ Deref(properties', p).next_property = Deref(nodes, current).properties
    /\ Deref(properties', p).type = "RAW"
    /\ \A q : PointsInto(properties, q) =>
          PointsInto(properties', q) /\ Deref(properties', q) = Deref(properties, q)
    /\ SameShape(nodes, nodes')
    /\ \A q : PointsInto(nodes, q) =>
          /\ SameLinks(Deref(nodes, q), Deref(nodes', q))
          /\ SameCells(Deref(nodes, q), Deref(nodes', q))
          /\ Deref(nodes', q).children = Deref(nodes, q).children
          /\ Deref(nodes', q).properties = IF Same(q, current) THEN p
                                           ELSE Deref(nodes, q).properties

\* The assignments of pre_parse_property.
LEMMA Attaching ==
    ASSUME NodesOK, NEW m \in Nat, PropertiesOK(m), PointsInto(nodes, current),
           NEW n, n = Deref(nodes, current),
           properties' = EmplaceBack(properties, PROPERTY_SZ, Property(m + 1, n.properties)),
           nodes' = Assign(nodes, current, [n EXCEPT !.properties = Last(properties')]),
           current' = current
    PROVE  NodesOK' /\ PropertiesOK(m + 1)' /\ Attached(Last(properties'), m + 1)
<1> DEFINE v == Property(m + 1, n.properties)
<1>1. PICK E : IsStack(properties, E) /\ \A e \in E : IsProperty(e) /\ e.token \in 1 .. m
  BY DEF PropertiesOK
<1>2. IsProperty(v) /\ v.token = m + 1 /\ v.next_property = n.properties /\ v.type = "RAW"
  BY DEF Property, IsProperty
<1>3. PICK t : t = properties'
  OBVIOUS
<1>4. PICK p : p = Last(t)
  OBVIOUS
<1>5. t = EmplaceBack(properties, PROPERTY_SZ, v)
  BY <1>3
<1> HIDE DEF v
<1> DEFINE F == E \cup {v}
<1>6. IsStack(properties, F) /\ v \in F
  BY <1>1, Superset
<1>7. \A e \in F : IsProperty(e) /\ e.token \in 1 .. m + 1
  BY <1>1, <1>2
<1> HIDE DEF F
<1>8. PROPERTY_SZ \in 1 .. PAGE_SIZE
  BY DeviceTreeAssumption
<1>9. /\ IsStack(t, F) /\ PointsInto(t, p) /\ Deref(t, p) = v /\ p \in Pointers
      /\ \A q : PointsInto(properties, q) =>
            PointsInto(t, q) /\ Deref(t, q) = Deref(properties, q)
  BY <1>4, <1>5, <1>6, <1>8, Emplaced
<1>10. PropertiesOK(m + 1)'
  BY <1>3, <1>7, <1>9 DEF PropertiesOK
<1>11. PICK G : IsStack(nodes, G) /\ \A e \in G : IsNode(e)
  BY DEF NodesOK
<1>12. IsNode(n)
  BY <1>11, Follows
<1> DEFINE w == [n EXCEPT !.properties = p]
<1>13. SameLinks(n, w) /\ w.properties = p /\ w.children = n.children /\ SameCells(n, w)
  BY <1>12, PropertiesChange
<1>14. nodes' = Assign(nodes, current, w)
  BY <1>3, <1>4
<1> HIDE DEF w
<1> DEFINE H == G \cup {w}
<1>15. IsStack(nodes, H) /\ w \in H /\ \A e \in H : IsNode(e)
  BY <1>11, <1>13, Superset DEF SameLinks
<1> HIDE DEF H
<1>16. /\ IsStack(nodes', H) /\ SameShape(nodes, nodes')
       /\ \A q : PointsInto(nodes, q) =>
             Deref(nodes', q) = IF Same(q, current) THEN w ELSE Deref(nodes, q)
  <2>1. IsStack(nodes, H) /\ w \in H /\ PointsInto(nodes, current)
    BY <1>15
  <2>2. PICK u : u = Assign(nodes, current, w)
    OBVIOUS
  <2>3. /\ IsStack(u, H) /\ SameShape(nodes, u)
        /\ \A q : PointsInto(nodes, q) =>
              Deref(u, q) = IF Same(q, current) THEN w ELSE Deref(nodes, q)
    BY <2>1, <2>2, Assigns DEF Same, SameShape
  <2>4. nodes' = u
    BY <1>14, <2>2
  <2> QED
    BY <2>3, <2>4
<1>17. NodesOK'
  BY <1>15, <1>16 DEF NodesOK
<1>18. ASSUME NEW q, PointsInto(nodes, q)
       PROVE  /\ SameLinks(Deref(nodes, q), Deref(nodes', q))
              /\ SameCells(Deref(nodes, q), Deref(nodes', q))
              /\ Deref(nodes', q).children = Deref(nodes, q).children
              /\ Deref(nodes', q).properties = IF Same(q, current) THEN p
                                               ELSE Deref(nodes, q).properties
  <2>1. CASE Same(q, current)
    <3>1. Deref(nodes', q) = w /\ Deref(nodes, q) = n
      BY <1>16, <1>18, <2>1 DEF Deref, Same
    <3> QED
      BY <1>13, <2>1, <3>1, SMTT(60)
  <2>2. CASE ~Same(q, current)
    <3>1. Deref(nodes', q) = Deref(nodes, q) /\ IsNode(Deref(nodes, q))
      BY <1>11, <1>16, <1>18, <2>2, Follows
    <3> QED
      BY <2>2, <3>1 DEF SameLinks, SameCells
  <2> QED
    BY <2>1, <2>2
<1>19. Attached(p, m + 1)
  <2>1. Deref(t, p).token = m + 1 /\ Deref(t, p).next_property = Deref(nodes, current).properties
        /\ Deref(t, p).type = "RAW"
    BY <1>2, <1>9
  <2> QED
    BY <1>3, <1>9, <1>16, <1>18, <2>1 DEF Attached
<1> QED
  BY <1>3, <1>4, <1>10, <1>17, <1>19
----------------------------------------------------------------------------
\* The steps.

\* A step that reads no token: it goes back to no earlier phase, and changes
\* nodes and properties when they are rewritten only.
Quiet ==
    /\ UNCHANGED <<blob, offset, current>>
    /\ NodesSame /\ PropertiesSame
    /\ pc # "rewrite" => UNCHANGED <<nodes, properties>>
    /\ pc' = "tokens" => pc \in {"reservations", "tokens"}
    /\ pc' \in {"header", "reservations"} => pc \in {"header", "reservations"}
    /\ pc' = "rewrite" => pc = "rewrite"

\* The root is the first node, and gets the cells there are by default.
Rooted ==
    /\ root' = ElementAt(nodes, 1)
    /\ \A q : PointsInto(nodes, q) =>
          IF Same(q, ElementAt(nodes, 1))
          THEN Deref(nodes', q).address_cells = 2 /\ Deref(nodes', q).size_cells = 1
          ELSE SameCells(Deref(nodes, q), Deref(nodes', q))

\* A step over token k, the one at the offset.
Takes(k) ==
    /\ pc = "tokens" /\ k \in Tokens /\ UNCHANGED blob
    /\ offset' = offset + EncodedSize(blob.tokens[k])
    /\ CASE blob.tokens[k].kind = "BEGIN_NODE" ->
               pc' = pc /\ (\E p : Entered(p, k)) /\ PropertiesSame /\ UNCHANGED properties
         [] blob.tokens[k].kind = "END_NODE" ->
               /\ pc' = pc /\ current # NULL /\ current' = Deref(nodes, current).parent
               /\ NodesSame /\ PropertiesSame /\ UNCHANGED <<nodes, properties>>
         [] blob.tokens[k].kind = "PROP" ->
               /\ pc' = pc /\ current # NULL /\ UNCHANGED current
               /\ \E p : Attached(p, k)
         [] OTHER ->
               /\ pc' = "tokens" => blob.tokens[k].kind # "END"
               /\ pc' \notin {"header", "reservations"}
               /\ UNCHANGED current /\ NodesSame /\ PropertiesSame /\ UNCHANGED properties
               /\ pc' # "rewrite" => UNCHANGED nodes
               /\ pc' = "rewrite" => current = NULL /\ nodes.m_size # 0 /\ Rooted

\* What the parser has built when it is behind m tokens.
Built(m) == blob \in Blobs /\ HasRead(m) /\ NodesOK /\ PropertiesOK(m)

BuiltAfter(m) == NodesOK' /\ PropertiesOK(m)'

\* The properties of m tokens are of m + 1.
LEMMA MoreTokens ==
    ASSUME NEW m \in Nat, PropertiesOK(m) PROVE PropertiesOK(m + 1)
<1>1. PICK E : IsStack(properties, E) /\ \A e \in E : IsProperty(e) /\ e.token \in 1 .. m
  BY DEF PropertiesOK
<1>2. \A e \in E : IsProperty(e) /\ e.token \in 1 .. m + 1
  BY <1>1
<1> QED
  BY <1>1, <1>2 DEF PropertiesOK

\* Where the stacks stay and no token is read.
LEMMA NothingBuilt ==
    ASSUME NEW m, Built(m), UNCHANGED <<blob, offset, current, nodes, properties>>,
           pc' = "tokens" => pc \in {"reservations", "tokens"},
           pc' \in {"header", "reservations"} => pc \in {"header", "reservations"},
           pc' = "rewrite" => pc = "rewrite"
    PROVE  Quiet /\ BuiltAfter(m)
BY NothingChanges DEF Built, BuiltAfter, Quiet

\* A token does what its kind asks for, or stops the kernel.
LEMMA TokenSteps ==
    ASSUME NEW m, Built(m), current = NULL \/ PointsInto(nodes, current), Token
    PROVE  \/ Quiet /\ BuiltAfter(m)
           \/ Takes(m + 1) /\ BuiltAfter(m + 1)
<1>1. m \in Nat /\ m \in 0 .. Len(blob.tokens) /\ Len(blob.tokens) \in Nat
      /\ Tokens = 1 .. Len(blob.tokens)
  BY BlobAssumption DEF Built, HasRead, Tokens
<1>2. \A k \in Tokens : Start(k) = offset <=> k = m + 1
  BY ReadIs DEF Built
<1>3. PropertiesOK(m + 1)
  BY <1>1, MoreTokens DEF Built
<1>4. /\ offset \in Nat
      /\ NodesOK /\ nodes' = nodes => NodesOK' /\ NodesSame
      /\ properties' = properties => PropertiesSame /\ PropertiesOK(m)' /\ PropertiesOK(m + 1)'
  BY <1>3, NothingChanges, ReadIs DEF Built
<1>5. PICK k \in Tokens :
         \/ parse_node(k) \/ EndNode(k) \/ pre_parse_property(k) \/ Nop(k) \/ Unknown(k) \/ End(k)
  BY DEF Token
<1>6. Start(k) = offset /\ pc = "tokens"
  BY <1>5 DEF parse_node, EndNode, pre_parse_property, Nop, Unknown, End, Reads
<1>7. k = m + 1 /\ k \in Tokens
  BY <1>2, <1>6
<1> DEFINE t == blob.tokens[k]
<1>8. /\ EncodedSize(t) \in Nat
      /\ t.kind = "BEGIN_NODE" => EncodedSize(t) = 4 + AlignUp(t.len + 1, 4)
      /\ t.kind = "PROP" => EncodedSize(t) = 12 + AlignUp(t.value.len, 4)
      /\ t.kind \notin {"BEGIN_NODE", "PROP"} => EncodedSize(t) = 4
  <2>1. blob \in Blobs /\ k \in 1 .. Len(blob.tokens)
    BY <1>1, <1>7 DEF Built
  <2> QED
    BY <2>1, TokenSize
<1>9. ASSUME NEW how, Stop(how) PROVE Quiet /\ BuiltAfter(m)
  BY <1>9, NothingBuilt DEF Stop
<1>10. CASE parse_node(k)
  <2>1. t.kind = "BEGIN_NODE"
    BY <1>10 DEF parse_node, Reads
  <2>2. CASE ~Affordable(nodes, NODE_SZ)
    BY <1>9, <1>10, <2>2 DEF parse_node
  <2>3. CASE Affordable(nodes, NODE_SZ)
    <3>1. PICK s : s = EmplaceBack(nodes, NODE_SZ, Node(k))
      OBVIOUS
    <3>2. PICK p : p = Last(s)
      OBVIOUS
    <3>3. /\ nodes' = IF current = NULL THEN s ELSE Linked(s, p)
          /\ current' = p /\ offset' = NameEnd(offset + 4, t.len)
          /\ UNCHANGED <<blob, pc, properties>>
      BY <1>10, <2>3, <3>1, <3>2 DEF parse_node
    <3>4. NodesOK' /\ Entered(p, k)
      BY <3>1, <3>2, <3>3, Entering DEF Built
    <3>5. AlignUp(t.len + 1, 4) = EncodedSize(t) - 4
      <4>1. EncodedSize(t) = 4 + AlignUp(t.len + 1, 4)
        BY <1>8, <2>1
      <4>2. AlignUp(t.len + 1, 4) \in Nat
        <5>1. t.len + 1 \in Nat /\ (t.len + 1) + 4 <= WORD /\ 4 < WORD
          <6>1. blob \in Blobs /\ k \in 1 .. Len(blob.tokens)
            BY <1>1, <1>7 DEF Built
          <6>2. t.len \in Nat /\ t.len + 4 < WORD
            BY <6>1, <2>1, BlobAssumption, Zenon
          <6> HIDE DEF t
          <6> QED
            BY <6>2, WordAssumption, SMTT(60)
        <5> QED
          BY <5>1, PaddedIs
      <4> HIDE DEF t
      <4>3. \A x \in Nat : (4 + x) - 4 = x
        OBVIOUS
      <4> QED
        BY <4>1, <4>2, <4>3, Zenon
    <3>6. offset' = offset + EncodedSize(t)
      <4>1. offset' = (offset + 4) + AlignUp(t.len + 1, 4)
        BY <3>3 DEF NameEnd
      <4> HIDE DEF t
      <4> QED
        BY <1>4, <1>8, <3>5, <4>1
    <3> QED
      BY <1>4, <1>6, <1>7, <2>1, <3>3, <3>4, <3>6 DEF Takes, BuiltAfter
  <2> QED
    BY <2>2, <2>3
<1>11. CASE EndNode(k)
  <2>1. t.kind = "END_NODE"
    BY <1>11 DEF EndNode, Reads
  <2>2. CASE current = NULL
    BY <1>9, <1>11, <2>2 DEF EndNode
  <2>3. CASE current # NULL
    <3>1. current' = Deref(nodes, current).parent /\ offset' = offset + 4
          /\ UNCHANGED <<blob, pc, nodes, properties>>
      BY <1>11, <2>3 DEF EndNode, Outer
    <3>2. EncodedSize(t) = 4
      BY <1>8, <2>1
    <3> QED
      BY <1>4, <1>6, <1>7, <2>1, <2>3, <3>1, <3>2 DEF Takes, Built, BuiltAfter
  <2> QED
    BY <2>2, <2>3
<1>12. CASE pre_parse_property(k)
  <2>1. t.kind = "PROP"
    BY <1>12 DEF pre_parse_property, Reads
  <2>2. CASE ~Affordable(properties, PROPERTY_SZ) \/ current = NULL
    BY <1>9, <1>12, <2>2 DEF pre_parse_property
  <2>3. CASE Affordable(properties, PROPERTY_SZ) /\ current # NULL
    <3>1. PICK n : n = Deref(nodes, current)
      OBVIOUS
    <3>2. /\ properties' = EmplaceBack(properties, PROPERTY_SZ, Property(k, n.properties))
          /\ nodes' = Assign(nodes, current, [n EXCEPT !.properties = Last(properties')])
          /\ offset' = offset + 12 + AlignUp(t.value.len, 4)
          /\ UNCHANGED <<blob, pc, current>>
      BY <1>12, <2>3, <3>1 DEF pre_parse_property
    <3>3. NodesOK' /\ PropertiesOK(m + 1)' /\ Attached(Last(properties'), k)
      BY <1>1, <1>7, <2>3, <3>1, <3>2, Attaching DEF Built
    <3>4. offset' = offset + EncodedSize(t)
      <4>1. EncodedSize(t) = 12 + AlignUp(t.value.len, 4)
        BY <1>8, <2>1
      <4>2. AlignUp(t.value.len, 4) \in Nat
        <5>1. t.value.len \in Nat /\ t.value.len + 4 <= WORD /\ 4 < WORD
          BY <1>1, <1>7, <2>1, BlobAssumption, WordAssumption, SMTT(60) DEF Built
        <5> QED
          BY <5>1, PaddedIs
      <4> HIDE DEF t
      <4> QED
        BY <1>4, <3>2, <4>1, <4>2
    <3> QED
      BY <1>6, <1>7, <2>1, <2>3, <3>2, <3>3, <3>4 DEF Takes, BuiltAfter
  <2> QED
    BY <2>2, <2>3
<1>13. CASE Nop(k)
  <2>1. t.kind = "NOP" /\ offset' = offset + 4
        /\ UNCHANGED <<blob, pc, current, nodes, properties>>
    BY <1>13 DEF Nop, Reads
  <2>2. EncodedSize(t) = 4
    BY <1>8, <2>1
  <2> QED
    BY <1>4, <1>6, <1>7, <2>1, <2>2 DEF Takes, Built, BuiltAfter
<1>14. CASE Unknown(k)
  BY <1>9, <1>14 DEF Unknown
<1>15. CASE End(k)
  <2>1. t.kind = "END"
    BY <1>15 DEF End, Reads
  <2>2. EncodedSize(t) = 4
    BY <1>8, <2>1
  <2>3. CASE current # NULL
    BY <1>9, <1>15, <2>3 DEF End
  <2>4. CASE current = NULL /\ nodes.m_size = 0
    <3>1. pc' = "done" /\ offset' = offset + 4
          /\ UNCHANGED <<blob, current, nodes, properties>>
      BY <1>15, <2>4 DEF End
    <3> QED
      BY <1>4, <1>6, <1>7, <2>1, <2>2, <3>1 DEF Takes, Built, BuiltAfter
  <2>5. CASE current = NULL /\ nodes.m_size # 0
    <3>1. PICK p : p = ElementAt(nodes, 1)
      OBVIOUS
    <3>2. pc' = "rewrite" /\ offset' = offset + 4 /\ root' = p
          /\ nodes' = Assign(nodes, p, [Deref(nodes, p) EXCEPT !.address_cells = 2, !.size_cells = 1])
          /\ UNCHANGED <<blob, current, properties>>
      BY <1>15, <2>5, <3>1 DEF End
    <3>3. NodesOK' /\ NodesSame
      BY <3>2, RootAssigned DEF Built
    <3>4. Rooted
      BY <3>1, <3>2, RootAssigned DEF Built, Rooted
    <3> QED
      BY <1>4, <1>6, <1>7, <2>1, <2>2, <2>5, <3>2, <3>3, <3>4 DEF Takes, BuiltAfter
  <2> QED
    BY <2>3, <2>4, <2>5
<1> QED
  BY <1>5, <1>10, <1>11, <1>12, <1>13, <1>14, <1>15

\* The steps before the tokens, and those after them, read no token.
LEMMA OtherSteps ==
    ASSUME NEW m, Built(m),
           \/ Header \/ Reservation \/ ReservationsEnd
           \/ Rewrite \/ print_device_tree \/ UNCHANGED vars
    PROVE  Quiet /\ BuiltAfter(m)
<1>1. CASE Header
  BY <1>1, NothingBuilt DEF Header
<1>2. CASE Reservation
  BY <1>2, NothingBuilt DEF Reservation, Stop
<1>3. CASE ReservationsEnd
  BY <1>3, NothingBuilt DEF ReservationsEnd
<1>4. CASE Rewrite
  <2>1. ASSUME UNCHANGED <<blob, offset, current, pc, nodes, properties>>
        PROVE  Quiet /\ BuiltAfter(m)
    BY <2>1, NothingBuilt
  <2>2. /\ nodes' = nodes => NodesOK' /\ NodesSame
        /\ properties' = properties => PropertiesSame /\ PropertiesOK(m)'
    BY NothingChanges DEF Built
  <2>3. ASSUME NEW type, NEW data, properties' = Assigned(type, data)
        PROVE  PropertiesOK(m)' /\ PropertiesSame
    BY <2>3, TypeAssigned DEF Assigned, This, Built
  <2>4. ASSUME NEW type, NEW data, properties' = Assigned(type, data),
               UNCHANGED <<blob, offset, current, pc, nodes>>, pc = "rewrite"
        PROVE  Quiet /\ BuiltAfter(m)
    BY <2>2, <2>3, <2>4 DEF Quiet, BuiltAfter
  <2>5. CASE Enter
    BY <2>1, <2>5 DEF Enter, parse_vars
  <2>6. CASE RewriteByName
    BY <2>4, <2>6 DEF RewriteByName, unchanged_parse, AtProperty, OnLap
  <2>7. CASE Skip \/ SkipSecond \/ AllocateArray \/ NextLap \/ Call
    BY <2>1, <2>7 DEF Skip, SkipSecond, AllocateArray, NextLap, Call, parse_vars
  <2>8. CASE RewriteCells
    <3>1. PICK w : w = Value(This).word
      OBVIOUS
    <3>2. PICK type : type = CellTypes[Name(This)]
      OBVIOUS
    <3>3. /\ properties' = Assigned(type, [member |-> type, value |-> w])
          /\ \/ Fails("DT_" \o type \o "_TOO_LARGE")
             \/ /\ nodes' = Assign(nodes, Top.node,
                                  IF type = "ADDRESS_CELLS"
                                  THEN [ThisNode EXCEPT !.address_cells = w]
                                  ELSE [ThisNode EXCEPT !.size_cells = w])
                /\ pc' = pc
          /\ UNCHANGED <<blob, offset, current>> /\ pc = "rewrite"
      BY <2>8, <3>1, <3>2 DEF RewriteCells, unchanged_parse, AtProperty, OnLap
    <3>4. PropertiesOK(m)' /\ PropertiesSame
      BY <2>3, <3>3
    <3>5. CASE Fails("DT_" \o type \o "_TOO_LARGE")
      BY <2>2, <3>3, <3>4, <3>5 DEF Fails, Quiet, BuiltAfter
    <3>6. CASE /\ nodes' = Assign(nodes, Top.node,
                                  IF type = "ADDRESS_CELLS"
                                  THEN [ThisNode EXCEPT !.address_cells = w]
                                  ELSE [ThisNode EXCEPT !.size_cells = w])
               /\ pc' = pc
      <4>1. PICK p : p = Top.node
        OBVIOUS
      <4>2. PICK n : n = Deref(nodes, p)
        OBVIOUS
      <4>3. PICK v : v = IF type = "ADDRESS_CELLS" THEN [n EXCEPT !.address_cells = w]
                                                   ELSE [n EXCEPT !.size_cells = w]
        OBVIOUS
      <4>4. nodes' = Assign(nodes, p, v)
        BY <3>6, <4>1, <4>2, <4>3 DEF ThisNode
      <4>5. PointsInto(nodes, p) =>
               SameLinks(n, v) /\ v.properties = n.properties /\ v.children = n.children
        <5>1. SUFFICES ASSUME PointsInto(nodes, p)
                       PROVE  SameLinks(n, v) /\ v.properties = n.properties
                              /\ v.children = n.children
          OBVIOUS
        <5>2. IsNode(n)
          BY <4>2, <5>1, Follows DEF Built, NodesOK
        <5>3. CASE type = "ADDRESS_CELLS"
          BY <4>3, <5>2, <5>3, AddressCellsChange
        <5>4. CASE type # "ADDRESS_CELLS"
          BY <4>3, <5>2, <5>4, SizeCellsChange
        <5> QED
          BY <5>3, <5>4
      <4>6. NodesOK' /\ NodesSame
        BY <4>2, <4>4, <4>5, CellsAssigned DEF Built
      <4> QED
        BY <3>3, <3>4, <3>6, <4>6 DEF Quiet, BuiltAfter
    <3> QED
      BY <3>3, <3>5, <3>6
  <2>9. CASE RewriteCompatible
    <3>1. UNCHANGED <<blob, offset, current, pc, nodes>> /\ pc = "rewrite"
      BY <2>9 DEF RewriteCompatible, unchanged_parse, AtProperty, OnLap
    <3>2. CASE properties' = properties
      BY <2>1, <3>1, <3>2
    <3>3. CASE properties' # properties
      <4>1. properties' = Assigned("COMPATIBLE", [member |-> "COMPATIBLE", value |-> ret'])
        BY <2>9, <3>3 DEF RewriteCompatible
      <4> QED
        BY <2>4, <3>1, <4>1
    <3> QED
      BY <3>2, <3>3
  <2>10. CASE RangesEmpty
    BY <2>4, <2>10 DEF RangesEmpty, unchanged_parse, AtArrays, AtProperty, OnLap
  <2>11. CASE NoParent \/ AssertFails
    BY <2>1, <2>11 DEF NoParent, AssertFails, Abort, Stop
  <2>12. CASE FillArrays
    <3>1. CASE NoCells(Parts)
      BY <2>1, <2>12, <3>1 DEF FillArrays, Abort, Stop
    <3>2. CASE ~NoCells(Parts)
      BY <2>4, <2>12, <3>2 DEF FillArrays, unchanged_parse, AtParts, AtArrays, AtProperty, OnLap
    <3> QED
      BY <3>1, <3>2
  <2>13. CASE Return
    <3>1. /\ UNCHANGED <<blob, offset, current, nodes, properties>>
          /\ pc' = pc \/ pc' = "done"
      BY <2>13 DEF Return, unchanged_parse
    <3> QED
      BY <3>1, NothingBuilt
  <2> QED
    BY <1>4, <2>5, <2>6, <2>7, <2>8, <2>9, <2>10, <2>11, <2>12, <2>13 DEF Rewrite
<1>5. CASE print_device_tree
  BY <1>5, NothingBuilt DEF print_device_tree
<1>6. CASE UNCHANGED vars
  BY <1>6, NothingBuilt DEF vars, parse_vars
<1> QED
  BY <1>1, <1>2, <1>3, <1>4, <1>5, <1>6

\* Every step reads one token or none.
LEMMA Steps ==
    ASSUME NEW m, Built(m), current = NULL \/ PointsInto(nodes, current), [Next]_vars
    PROVE  \/ Quiet /\ BuiltAfter(m)
           \/ Takes(m + 1) /\ BuiltAfter(m + 1)
BY TokenSteps, OtherSteps DEF Next, Parse, Spin
----------------------------------------------------------------------------
\* The invariant: the parser is behind m tokens and has built what they say.
\* While there are tokens to read the END token is still ahead, so that the
\* next one is in the blob.

InStep(m) ==
    /\ pc = "tokens" => \A k \in 1 .. m : blob.tokens[k].kind # "END"
    /\ pc \in {"header", "reservations"} => m = 0

\* The chain of parents of the current node.  The bound is what makes it one
\* that Chain follows to its end.
OpenPath(m) ==
    \E c : IsList(nodes, current, "parent", c) /\ Len(c) <= m /\ Names(nodes, c) = OpenAfter(m)

Progress(m) == Built(m) /\ InStep(m) /\ OpenPath(m)

ParserInv == \E m : Progress(m)

\* The current node is null or one of the stack's.
LEMMA CurrentLeads ==
    ASSUME NEW m, OpenPath(m)
    PROVE  current \in Pointers /\ (current = NULL \/ PointsInto(nodes, current))
<1>1. PICK c : IsList(nodes, current, "parent", c)
  BY DEF OpenPath
<1>2. CASE current = NULL
  BY <1>2 DEF NULL, Pointers
<1>3. CASE current # NULL
  BY <1>1, <1>3, ListRest
<1> QED
  BY <1>2, <1>3

\* Nothing is open before the first token.
LEMMA ParserInit == RewriteInit => Progress(0)
<1> SUFFICES ASSUME RewriteInit PROVE Progress(0)
  OBVIOUS
<1>1. /\ blob \in Blobs /\ pc = "header" /\ offset = 0 /\ current = NULL
      /\ nodes = EmptyStack /\ properties = EmptyStack
  BY DEF RewriteInit, Init
<1>2. Len(blob.tokens) \in Nat
  BY <1>1, BlobAssumption
<1>3. HasRead(0)
  <2>1. 0 \in 0 .. Len(blob.tokens)
    BY <1>2
  <2>2. SumTo(SizesOf(blob), 0) = 0
    BY <1>1, <2>1, Behind
  <2> QED
    BY <1>1, <2>1, <2>2 DEF HasRead
<1>4. ASSUME NEW E PROVE IsStack(EmptyStack, E)
  <2>1. <<>> \in Seq(Seq(E))
    OBVIOUS
  <2> QED
    BY <2>1 DEF IsStack, EmptyStack
<1>5. NodesOK /\ PropertiesOK(0)
  <2>1. IsStack(nodes, {}) /\ \A e \in {} : IsNode(e)
    BY <1>1, <1>4
  <2>2. IsStack(properties, {}) /\ \A e \in {} : IsProperty(e) /\ e.token \in 1 .. 0
    BY <1>1, <1>4
  <2> QED
    BY <2>1, <2>2 DEF NodesOK, PropertiesOK
<1>6. InStep(0)
  BY <1>1 DEF InStep
<1>7. OpenPath(0)
  <2>1. IsList(nodes, current, "parent", <<>>) /\ Len(<<>>) = 0
    BY <1>1, ListEmpty
  <2>2. OpenAfter(0) = <<>>
    BY OpenStep
  <2>3. Names(nodes, <<>>) = <<>>
    BY DEF Names
  <2> QED
    BY <2>1, <2>2, <2>3 DEF OpenPath
<1> QED
  BY <1>1, <1>3, <1>5, <1>6, <1>7 DEF Progress, Built

\* A step that keeps the links keeps the path.
LEMMA PathKept ==
    ASSUME NEW m, OpenPath(m), UNCHANGED current,
           \A q : PointsInto(nodes, q) =>
               PointsInto(nodes', q) /\ SameLinks(Deref(nodes, q), Deref(nodes', q))
    PROVE  \E c : /\ IsList(nodes', current', "parent", c) /\ Len(c) <= m
                  /\ Names(nodes', c) = OpenAfter(m)
<1>1. PICK c : IsList(nodes, current, "parent", c) /\ Len(c) <= m /\ Names(nodes, c) = OpenAfter(m)
  BY DEF OpenPath
<1>2. \A q : PointsInto(nodes, q) =>
         /\ PointsInto(nodes', q) /\ Deref(nodes', q).token = Deref(nodes, q).token
         /\ Deref(nodes', q)["parent"] = Deref(nodes, q)["parent"]
  BY DEF SameLinks
<1>3. IsList(nodes', current, "parent", c)
  BY <1>1, <1>2, ListKept
<1>4. Names(nodes', c) = Names(nodes, c)
  BY <1>1, <1>2, NamesKept
<1> QED
  BY <1>1, <1>3, <1>4

\* One token further.
LEMMA FurtherOn ==
    ASSUME NEW m, Built(m), Takes(m + 1)
    PROVE  HasRead(m + 1)' /\ m \in Nat /\ OpenAfter(m + 1)' = Past(OpenAfter(m), m + 1)
<1>1. PICK b : b = blob /\ b = blob' /\ b \in Blobs
  BY DEF Built, Takes
<1>2. /\ m \in 0 .. Len(b.tokens) /\ offset = SumTo(SizesOf(b), m) /\ m + 1 \in Tokens
      /\ offset' = offset + EncodedSize(b.tokens[m + 1])
  BY <1>1 DEF Built, HasRead, Takes
<1>3. Len(b.tokens) \in Nat /\ Tokens = 1 .. Len(b.tokens)
  BY <1>1, BlobAssumption DEF Tokens
<1>4. m < Len(b.tokens) /\ m + 1 \in 0 .. Len(b.tokens) /\ m \in Nat
  BY <1>2, <1>3
<1>5. SumTo(SizesOf(b), m + 1) = EncodedSize(b.tokens[m + 1]) + SumTo(SizesOf(b), m)
      /\ SumTo(SizesOf(b), m) \in Nat
  BY <1>1, <1>2, <1>4, Behind
<1>6. EncodedSize(b.tokens[m + 1]) \in Nat
  BY <1>1, <1>2, <1>3, TokenSize
<1>7. offset' = SumTo(SizesOf(b), m + 1)
  BY <1>2, <1>5, <1>6
<1>8. HasRead(m + 1)'
  BY <1>1, <1>4, <1>7 DEF HasRead
<1>9. OpenAfter(m + 1)' = OpenAfter(m + 1)
  BY <1>1 DEF OpenAfter
<1> QED
  BY <1>4, <1>8, <1>9, OpenStep

\* Every step keeps the invariant.
LEMMA ParserStep ==
    ASSUME NEW m, Progress(m), [Next]_vars
    PROVE  \/ Quiet /\ Progress(m)'
           \/ Takes(m + 1) /\ Progress(m + 1)'
<1>1. Built(m) /\ InStep(m) /\ OpenPath(m) /\ current \in Pointers
      /\ (current = NULL \/ PointsInto(nodes, current))
  BY CurrentLeads DEF Progress
<1>2. CASE Quiet /\ BuiltAfter(m)
  <2>1. Built(m)'
    BY <1>1, <1>2 DEF Built, BuiltAfter, Quiet, HasRead
  <2>2. InStep(m)'
    <3>1. m \in 0 .. Len(blob.tokens)
      BY <1>1 DEF Built, HasRead
    <3>2. pc' = "tokens" => pc \in {"reservations", "tokens"}
      BY <1>2 DEF Quiet
    <3>3. pc = "reservations" => m = 0
      BY <1>1 DEF InStep
    <3> QED
      BY <1>1, <1>2, <3>1, <3>2, <3>3 DEF InStep, Quiet
  <2>3. OpenPath(m)'
    <3>1. \E c : IsList(nodes', current', "parent", c) /\ Len(c) <= m
                 /\ Names(nodes', c) = OpenAfter(m)
      BY <1>1, <1>2, PathKept DEF Quiet, NodesSame, SameShape
    <3>2. OpenAfter(m)' = OpenAfter(m)
      BY <1>2 DEF OpenAfter, Quiet
    <3> QED
      BY <3>1, <3>2 DEF OpenPath
  <2> QED
    BY <1>2, <2>1, <2>2, <2>3 DEF Progress
<1>3. CASE Takes(m + 1) /\ BuiltAfter(m + 1)
  <2> DEFINE t == blob.tokens[m + 1]
  <2>1. HasRead(m + 1)' /\ m \in Nat /\ OpenAfter(m + 1)' = Past(OpenAfter(m), m + 1)
        /\ m + 1 # 0
    BY <1>1, <1>3, FurtherOn
  <2>2. Built(m + 1)'
    BY <1>1, <1>3, <2>1 DEF Built, BuiltAfter, Takes
  <2>3. InStep(m + 1)'
    <3>1. pc = "tokens" /\ blob' = blob /\ pc' \notin {"header", "reservations"}
          /\ (pc' = "tokens" => t.kind # "END")
      BY <1>3 DEF Takes
    <3>2. \A k \in 1 .. m : blob.tokens[k].kind # "END"
      BY <1>1, <3>1 DEF InStep
    <3>3. \A k \in 1 .. m + 1 : k \in 1 .. m \/ k = m + 1
      BY <2>1
    <3> QED
      BY <3>1, <3>2, <3>3 DEF InStep
  <2>4. PICK c : IsList(nodes, current, "parent", c) /\ Len(c) <= m
                 /\ Names(nodes, c) = OpenAfter(m)
    BY <1>1 DEF OpenPath
  <2>5. c \in Seq(Pointers) /\ Len(c) \in Nat
    BY <2>4 DEF IsList
  <2>6. CASE t.kind = "BEGIN_NODE"
    <3>1. PICK p : Entered(p, m + 1)
      BY <1>3, <2>6 DEF Takes
    <3>2. \A q : PointsInto(nodes, q) =>
             /\ PointsInto(nodes', q) /\ Deref(nodes', q).token = Deref(nodes, q).token
             /\ Deref(nodes', q)["parent"] = Deref(nodes, q)["parent"]
      BY <3>1 DEF Entered, SameLinks
    <3>3. IsList(nodes', current, "parent", c) /\ Names(nodes', c) = OpenAfter(m)
      BY <2>4, <3>2, ListKept, NamesKept
    <3>4. /\ p \in Pointers /\ PointsInto(nodes', p) /\ current' = p
          /\ Deref(nodes', p).token = m + 1 /\ Deref(nodes', p)["parent"] = current
      BY <3>1 DEF Entered
    <3>5. IsList(nodes', p, "parent", <<p>> \o c) /\ Len(<<p>> \o c) = Len(c) + 1
      BY <3>3, <3>4, ListPrepended
    <3>6. Names(nodes', <<p>> \o c) = <<m + 1>> \o OpenAfter(m)
      BY <2>5, <3>3, <3>4, NamesPrepended
    <3>7. OpenAfter(m + 1)' = <<m + 1>> \o OpenAfter(m)
      BY <2>1, <2>6 DEF Past
    <3>8. Len(<<p>> \o c) <= m + 1
      BY <2>1, <2>4, <2>5, <3>5
    <3>9. OpenPath(m + 1)'
      BY <3>4, <3>5, <3>6, <3>7, <3>8 DEF OpenPath
    <3> QED
      BY <1>3, <2>2, <2>3, <3>9 DEF Progress
  <2>7. CASE t.kind = "END_NODE"
    <3>1. current # NULL /\ current' = Deref(nodes, current)["parent"] /\ NodesSame
      BY <1>3, <2>7 DEF Takes
    <3>2. Len(c) > 0 /\ IsList(nodes, current', "parent", Tail(c)) /\ Len(Tail(c)) = Len(c) - 1
      BY <2>4, <3>1, ListRest
    <3>3. Names(nodes, Tail(c)) = Tail(OpenAfter(m))
      BY <2>4, <2>5, <3>2, NamesRest
    <3>4. \A q : PointsInto(nodes, q) =>
             /\ PointsInto(nodes', q) /\ Deref(nodes', q).token = Deref(nodes, q).token
             /\ Deref(nodes', q)["parent"] = Deref(nodes, q)["parent"]
      BY <3>1 DEF NodesSame, SameShape, SameLinks
    <3>5. IsList(nodes', current', "parent", Tail(c)) /\ Names(nodes', Tail(c)) = Tail(OpenAfter(m))
      BY <3>2, <3>3, <3>4, ListKept, NamesKept
    <3>6. OpenAfter(m + 1)' = Tail(OpenAfter(m))
      <4>1. Len(Names(nodes, c)) = Len(c)
        BY <2>5 DEF Names
      <4>2. OpenAfter(m) # <<>>
        BY <2>4, <3>2, <4>1
      <4> QED
        BY <2>1, <2>7, <4>2 DEF Past
    <3>7. Len(Tail(c)) <= m + 1
      BY <2>1, <2>4, <2>5, <3>2
    <3>8. OpenPath(m + 1)'
      BY <3>5, <3>6, <3>7 DEF OpenPath
    <3> QED
      BY <1>3, <2>2, <2>3, <3>8 DEF Progress
  <2>8. CASE t.kind \notin {"BEGIN_NODE", "END_NODE"}
    <3>1. UNCHANGED current
          /\ \A q : PointsInto(nodes, q) =>
                PointsInto(nodes', q) /\ SameLinks(Deref(nodes, q), Deref(nodes', q))
      BY <1>3, <2>8 DEF Takes, Attached, NodesSame, SameShape
    <3>2. PICK d : IsList(nodes', current', "parent", d) /\ Len(d) <= m
                   /\ Names(nodes', d) = OpenAfter(m)
      BY <1>1, <3>1, PathKept
    <3>3. OpenAfter(m + 1)' = OpenAfter(m)
      BY <2>1, <2>8 DEF Past
    <3>4. Len(d) <= m + 1
      <4>1. Len(d) \in Nat
        BY <3>2 DEF IsList
      <4> QED
        BY <2>1, <3>2, <4>1
    <3>5. OpenPath(m + 1)'
      BY <3>2, <3>3, <3>4 DEF OpenPath
    <3> QED
      BY <1>3, <2>2, <2>3, <3>5 DEF Progress
  <2> QED
    BY <2>6, <2>7, <2>8
<1> QED
  BY <1>1, <1>2, <1>3, Steps

\* Whatever the code does, it does what the invariant says.
THEOREM ParserInvariant == Spec => []ParserInv
<1>1. RewriteInit => ParserInv
  BY ParserInit DEF ParserInv
<1>2. ParserInv /\ [Next]_vars => ParserInv'
  BY ParserStep DEF ParserInv
<1> QED
  BY <1>1, <1>2, PTL DEF Spec

\* The parser stands at the start of a token, aligned, however the lengths
\* of the names and values before it came out (device_tree.cpp:507-511).
THEOREM TokensReadInStep == Spec => []OffsetsInStep
<1>1. ParserInv => OffsetsInStep
  <2> SUFFICES ASSUME NEW m, Progress(m), pc = "tokens"
               PROVE  IsAligned(offset, 4) /\ \E k \in Tokens : Start(k) = offset
    BY DEF ParserInv, OffsetsInStep
  <2>1. blob \in Blobs /\ HasRead(m) /\ InStep(m)
    BY DEF Progress, Built
  <2>2. IsAligned(offset, 4) /\ \A k \in Tokens : Start(k) = offset <=> k = m + 1
    BY <2>1, ReadIs
  <2>3. PICK e \in 1 .. Len(blob.tokens) : blob.tokens[e].kind = "END"
    BY <2>1, BlobAssumption
  <2>4. m \in 0 .. Len(blob.tokens) /\ Len(blob.tokens) \in Nat /\ e \notin 1 .. m
    BY <2>1, <2>3, BlobAssumption DEF HasRead, InStep
  <2>5. m + 1 \in Tokens
    BY <2>1, <2>4, BlobAssumption DEF Tokens
  <2> QED
    BY <2>2, <2>5
<1> QED
  BY <1>1, ParserInvariant, PTL

\* The chain of parents of the current node is the nodes the blob has opened
\* and not closed, also when the stack of the nodes has grown in between and
\* the chain runs through buffers that were given back
\* (device_tree.cpp:172-180 and 517-518, stack.h:85-94).
THEOREM ParentsAreOpenNodes == Spec => []OpenNodes
<1>1. ParserInv => OpenNodes
  <2> SUFFICES ASSUME NEW m, Progress(m)
               PROVE  TokensOf(nodes, current, "parent") = OpenAfter(Cardinality(Read))
    BY DEF ParserInv, OpenNodes
  <2>1. PICK c : IsList(nodes, current, "parent", c) /\ Len(c) <= m
                 /\ Names(nodes, c) = OpenAfter(m)
    BY DEF Progress, OpenPath
  <2>2. m \in 0 .. Len(blob.tokens) /\ Len(blob.tokens) \in Nat /\ Len(c) \in Nat
    BY <2>1, BlobAssumption DEF Progress, Built, HasRead, IsList
  <2>3. Chain(nodes, current, "parent") = c
    BY <2>1, <2>2, ChainIs
  <2>4. Cardinality(Read) = m
    BY ReadIs DEF Progress, Built
  <2> QED
    BY <2>1, <2>3, <2>4 DEF TokensOf, Names
<1> QED
  BY <1>1, ParserInvariant, PTL
----------------------------------------------------------------------------
\* The tree.  While the nodes fit in the first buffer of their stack there is
\* one copy of each, so that what a pointer leads to is what the stack holds.

Elements == {q \in Pointers : PointsInto(nodes, q)}

OneBuffer ==
    /\ Len(nodes.buffers) <= 1
    /\ nodes.buffers # <<>> => nodes.m_capacity = FirstCapacity(NODE_SZ)
    /\ nodes.m_size = Cardinality(Parsed)

\* There is one node for each BEGIN_NODE token that was read, and no other.
NodesByToken ==
    /\ \A q \in Elements : Deref(nodes, q).token \in Parsed
    /\ \A p, q \in Elements : Deref(nodes, p).token = Deref(nodes, q).token => p = q
    /\ \A k \in Parsed : \E q \in Elements : Deref(nodes, q).token = k

\* c is the children of the node n, or its properties, by pointers.
IsChildren(n, c) == IsList(nodes, n.children, "next_sibling", c)
IsOwned(n, c) == IsList(properties, n.properties, "next_property", c)

\* The children and the properties of every node are lists that end.
Lists(m) ==
    \A q \in Elements :
        /\ \E c : IsChildren(Deref(nodes, q), c) /\ Len(c) <= m
        /\ \E c : IsOwned(Deref(nodes, q), c) /\ Len(c) <= m

TreeOK(m) == OneBuffer /\ NodesByToken /\ Lists(m)

TreeInv == \E m : Progress(m) /\ (NodesFit => TreeOK(m))

\* A number that is at most one and not zero.
LEMMA One == ASSUME NEW n \in Nat, n <= 1, n # 0 PROVE n = 1
OBVIOUS

\* With one buffer an element is found by its index.
LEMMA ElementsAre ==
    ASSUME NEW s, NEW E, IsStack(s, E), Len(s.buffers) <= 1, NEW q \in Pointers
    PROVE  PointsInto(s, q) <=> q.buffer = 1 /\ q.index \in 1 .. s.m_size
<1>1. s.buffers \in Seq(Seq(E)) /\ Len(s.buffers) \in Nat
  BY DEF IsStack
<1>2. CASE s.buffers = <<>>
  BY <1>1, <1>2 DEF IsStack, PointsInto
<1>3. CASE s.buffers # <<>>
  <2>0. Len(s.buffers) = 1
    <3>1. Len(s.buffers) # 0
      BY <1>1, <1>3, EmptySeq
    <3> QED
      BY <1>1, <3>1, One
  <2>1. Len(s.buffers) = 1 /\ Len(s.buffers[1]) = s.m_size
    BY <2>0, <1>3 DEF IsStack
  <2>2. \A b : b \in 1 .. 1 <=> b = 1
    OBVIOUS
  <2> QED
    BY <2>1, <2>2 DEF PointsInto
<1> QED
  BY <1>2, <1>3

\* Two pointers to the same place are one.
LEMMA SamePointer ==
    ASSUME NEW p \in Pointers, NEW q \in Pointers
    PROVE  Same(p, q) <=> p = q
BY DEF Pointers, Same

\* The nodes that were read are the BEGIN_NODE tokens up to the m-th.
ParsedAre(m) == Parsed = Kinds("BEGIN_NODE") \cap (1 .. m)

\* They are, in this state and in the next.
LEMMA ParsedIs ==
    ASSUME NEW m
    PROVE  (Built(m) => ParsedAre(m)) /\ (Built(m)' => ParsedAre(m)')
<1>1. Built(m) => ParsedAre(m)
  <2> SUFFICES ASSUME Built(m) PROVE ParsedAre(m)
    OBVIOUS
  <2>1. Read = 1 .. m
    BY ReadIs DEF Built
  <2> QED
    BY <2>1 DEF Parsed, ParsedAre
<1>2. Built(m)' => ParsedAre(m)'
  BY <1>1, PTL
<1> QED
  BY <1>1, <1>2

\* The tokens there are, and those of a kind, are finitely many.
LEMMA KindsFinite ==
    ASSUME blob \in Blobs, NEW kind
    PROVE  IsFiniteSet(Kinds(kind))
<1>1. Tokens = 1 .. Len(blob.tokens) /\ Len(blob.tokens) \in Nat
  BY BlobAssumption DEF Tokens
<1>2. IsFiniteSet(Tokens)
  <2>1. 1 \in Int /\ Len(blob.tokens) \in Int
    BY <1>1
  <2> QED
    BY <1>1, <2>1, FS_Interval
<1>3. Kinds(kind) \subseteq Tokens
  BY DEF Kinds
<1> QED
  BY <1>2, <1>3, FS_Subset

\* The sets of these tokens.
LEMMA NameSets ==
    ASSUME NEW s, NEW c \in Seq(Pointers), NEW q \in Pointers
    PROVE  /\ SetOf(Names(s, c)) = {Deref(s, c[i]).token : i \in 1 .. Len(c)}
           /\ SetOf(Names(s, <<q>> \o c)) = {Deref(s, q).token} \cup SetOf(Names(s, c))
           /\ SetOf(Names(s, <<>>)) = {}
<1>1. ASSUME NEW d \in Seq(Pointers)
      PROVE  SetOf(Names(s, d)) = {Deref(s, d[i]).token : i \in 1 .. Len(d)}
  <2>1. Len(d) \in Nat /\ Len(Names(s, d)) = Len(d)
    BY DEF Names
  <2>2. \A i \in 1 .. Len(d) : Names(s, d)[i] = Deref(s, d[i]).token
    BY DEF Names
  <2> QED
    BY <2>1, <2>2 DEF SetOf
<1>2. PICK d : d = <<q>> \o c
  OBVIOUS
<1>3. d \in Seq(Pointers) /\ Len(c) \in Nat /\ Len(d) = Len(c) + 1 /\ d[1] = q
      /\ \A i \in 1 .. Len(c) : d[i + 1] = c[i]
  BY <1>2
<1>4. {Deref(s, d[i]).token : i \in 1 .. Len(d)}
        = {Deref(s, q).token} \cup {Deref(s, c[i]).token : i \in 1 .. Len(c)}
  <2>1. ASSUME NEW i \in 1 .. Len(d)
        PROVE  Deref(s, d[i]).token
                  \in {Deref(s, q).token} \cup {Deref(s, c[j]).token : j \in 1 .. Len(c)}
    <3>1. CASE i = 1
      BY <1>3, <3>1
    <3>2. CASE i # 1
      <4>1. i - 1 \in 1 .. Len(c) /\ (i - 1) + 1 = i
        BY <1>3, <3>2
      <4>2. d[i] = c[i - 1]
        BY <1>3, <4>1
      <4> QED
        BY <4>1, <4>2
    <3> QED
      BY <3>1, <3>2
  <2>2. 1 \in 1 .. Len(d) /\ \A i \in 1 .. Len(c) : i + 1 \in 1 .. Len(d)
    BY <1>3
  <2>3. \A i \in 1 .. Len(c) : Deref(s, d[i + 1]).token = Deref(s, c[i]).token
    BY <1>3
  <2>4. Deref(s, d[1]).token = Deref(s, q).token
    BY <1>3
  <2>5. ASSUME NEW x \in {Deref(s, q).token} \cup {Deref(s, c[j]).token : j \in 1 .. Len(c)}
        PROVE  \E i \in 1 .. Len(d) : x = Deref(s, d[i]).token
    <3>1. CASE x = Deref(s, q).token
      BY <2>2, <2>4, <3>1
    <3>2. CASE \E j \in 1 .. Len(c) : x = Deref(s, c[j]).token
      BY <2>2, <2>3, <3>2
    <3> QED
      BY <3>1, <3>2
  <2> QED
    BY <2>1, <2>5
<1>5. SetOf(Names(s, <<>>)) = {}
  <2>1. <<>> \in Seq(Pointers) /\ \A i : i \notin 1 .. Len(<<>>)
    OBVIOUS
  <2> QED
    BY <1>1, <2>1
<1> QED
  BY <1>1, <1>2, <1>3, <1>4, <1>5

\* A step that leaves the tree alone.
LEMMA TreeKept ==
    ASSUME NEW m \in Nat, NEW n \in Nat, m <= n, TreeOK(m),
           NodesSame, PropertiesSame, UNCHANGED Parsed
    PROVE  TreeOK(n)'
<1>1. /\ \A q : PointsInto(nodes', q) <=> PointsInto(nodes, q)
      /\ \A q : PointsInto(nodes, q) =>
            /\ Deref(nodes', q).token = Deref(nodes, q).token
            /\ Deref(nodes', q).next_sibling = Deref(nodes, q).next_sibling
            /\ Deref(nodes', q).children = Deref(nodes, q).children
            /\ Deref(nodes', q).properties = Deref(nodes, q).properties
  BY DEF NodesSame, SameShape, SameLinks
<1>2. Elements' = Elements /\ \A q \in Elements : PointsInto(nodes, q)
  BY <1>1 DEF Elements
<1>3. OneBuffer'
  <2>1. nodes.buffers # <<>> => nodes.m_capacity = FirstCapacity(NODE_SZ)
    BY DEF TreeOK, OneBuffer
  <2>2. nodes'.buffers # <<>> => nodes.buffers # <<>>
    BY DEF NodesSame, SameShape
  <2> QED
    BY <2>1, <2>2 DEF TreeOK, OneBuffer, NodesSame, SameShape
<1>4. NodesByToken'
  <2>1. \A q \in Elements : Deref(nodes', q).token = Deref(nodes, q).token
    BY <1>1, <1>2
  <2> QED
    BY <1>2, <2>1 DEF TreeOK, NodesByToken
<1>5. Lists(n)'
  <2>1. ASSUME NEW q \in Elements
        PROVE  /\ \E c : IsList(nodes', Deref(nodes', q).children, "next_sibling", c) /\ Len(c) <= n
               /\ \E c : IsList(properties', Deref(nodes', q).properties, "next_property", c)
                         /\ Len(c) <= n
    <3>1. /\ Deref(nodes', q).children = Deref(nodes, q).children
          /\ Deref(nodes', q).properties = Deref(nodes, q).properties
      BY <1>1, <1>2
    <3>2. PICK c : IsList(nodes, Deref(nodes, q).children, "next_sibling", c) /\ Len(c) <= m
      BY DEF TreeOK, Lists, IsChildren
    <3>3. PICK d : IsList(properties, Deref(nodes, q).properties, "next_property", d) /\ Len(d) <= m
      BY DEF TreeOK, Lists, IsOwned
    <3>4. \A r : PointsInto(nodes, r) =>
             /\ PointsInto(nodes', r)
             /\ Deref(nodes', r)["next_sibling"] = Deref(nodes, r)["next_sibling"]
      BY <1>1
    <3>5. \A r : PointsInto(properties, r) =>
             /\ PointsInto(properties', r)
             /\ Deref(properties', r)["next_property"] = Deref(properties, r)["next_property"]
      BY DEF PropertiesSame, SameShape
    <3>6. IsList(nodes', Deref(nodes, q).children, "next_sibling", c)
      BY <3>2, <3>4, ListKept
    <3>7. IsList(properties', Deref(nodes, q).properties, "next_property", d)
      BY <3>3, <3>5, ListKept
    <3>8. Len(c) <= n /\ Len(d) <= n
      <4>1. Len(c) \in Nat /\ Len(d) \in Nat
        BY <3>2, <3>3 DEF IsList
      <4> QED
        BY <3>2, <3>3, <4>1
    <3> QED
      BY <3>1, <3>6, <3>7, <3>8
  <2> QED
    BY <1>2, <2>1 DEF Lists, IsChildren, IsOwned
<1> QED
  BY <1>3, <1>4, <1>5 DEF TreeOK

\* The buffer has room for the node that comes.
LEMMA RoomForNode ==
    ASSUME blob \in Blobs, NodesFit, OneBuffer, NodesOK,
           NEW k \in Kinds("BEGIN_NODE"), k \notin Parsed, nodes.buffers # <<>>
    PROVE  ~Full(nodes)
<1>1. IsFiniteSet(Kinds("BEGIN_NODE"))
  BY KindsFinite
<1>2. Parsed \cup {k} \subseteq Kinds("BEGIN_NODE")
  BY DEF Parsed
<1>3. IsFiniteSet(Parsed) /\ IsFiniteSet(Parsed \cup {k})
  BY <1>1, <1>2, FS_Subset
<1>4. Cardinality(Parsed \cup {k}) = Cardinality(Parsed) + 1
  BY <1>3, FS_AddElement
<1>5. Cardinality(Parsed \cup {k}) <= Cardinality(Kinds("BEGIN_NODE"))
  BY <1>1, <1>2, FS_Subset
<1>6. /\ Cardinality(Parsed) \in Nat /\ Cardinality(Kinds("BEGIN_NODE")) \in Nat
      /\ FirstCapacity(NODE_SZ) \in Nat
  <2>1. nodes.m_capacity \in Nat /\ nodes.m_capacity = FirstCapacity(NODE_SZ)
    BY DEF NodesOK, IsStack, OneBuffer
  <2> QED
    BY <1>1, <1>3, <2>1, FS_CardinalityType
<1> QED
  BY <1>4, <1>5, <1>6 DEF NodesFit, OneBuffer, Full

\* A new node is the only one of its token, without children or properties,
\* and the first child of the one it is in.
LEMMA TreeOpened ==
    ASSUME NEW m \in Nat, Built(m), NodesFit, TreeOK(m), NodesOK', PropertiesSame,
           current = NULL \/ PointsInto(nodes, current),
           NEW p, Entered(p, m + 1), m + 1 \in Kinds("BEGIN_NODE"), m + 1 \notin Parsed,
           Parsed' = Parsed \cup {m + 1}
    PROVE  TreeOK(m + 1)' /\ Elements' = Elements \cup {p} /\ p \notin Elements
<1>1. PICK E : IsStack(nodes, E) /\ \A e \in E : IsNode(e)
  BY DEF Built, NodesOK
<1>2. PICK F : IsStack(nodes', F)
  BY DEF NodesOK
<1>3. /\ Len(nodes.buffers) <= 1 /\ nodes.m_size = Cardinality(Parsed)
      /\ nodes.buffers # <<>> => nodes.m_capacity = FirstCapacity(NODE_SZ)
  BY DEF TreeOK, OneBuffer
<1>4. /\ p \in Pointers /\ PointsInto(nodes', p) /\ nodes'.m_size = nodes.m_size + 1
      /\ \A q : PointsInto(nodes, q) => PointsInto(nodes', q) /\ q # p
  BY DEF Entered
<1>5. Len(nodes'.buffers) <= 1 /\ nodes'.m_capacity = FirstCapacity(NODE_SZ)
  <2>1. CASE nodes.buffers = <<>>
    <3>1. Len(nodes'.buffers) = 1 /\ nodes'.m_capacity = FirstCapacity(NODE_SZ)
      BY <2>1 DEF Entered
    <3> QED
      BY <3>1
  <2>2. CASE nodes.buffers # <<>>
    <3>1. ~Full(nodes)
      BY <2>2, RoomForNode DEF Built, TreeOK
    <3>2. Len(nodes'.buffers) = Len(nodes.buffers) /\ nodes'.m_capacity = nodes.m_capacity
      BY <3>1 DEF Entered
    <3> QED
      BY <1>3, <2>2, <3>2
  <2> QED
    BY <2>1, <2>2
<1>6. nodes.m_size \in Nat
  BY <1>1 DEF IsStack
<1>7. Elements' = Elements \cup {p} /\ p \notin Elements
  <2>1. p \notin Elements
    BY <1>4 DEF Elements
  <2>2. Elements \cup {p} \subseteq Elements'
    BY <1>4 DEF Elements
  <2>3. ASSUME NEW q \in Pointers, PointsInto(nodes', q), ~PointsInto(nodes, q) PROVE q = p
    <3>1. q.buffer = 1 /\ q.index \in 1 .. nodes.m_size + 1
      BY <1>2, <1>4, <1>5, <2>3, ElementsAre
    <3>2. p.buffer = 1 /\ p.index \in 1 .. nodes.m_size + 1
      BY <1>2, <1>4, <1>5, ElementsAre
    <3>3. q.index \notin 1 .. nodes.m_size
      BY <1>1, <1>3, <2>3, <3>1, ElementsAre
    <3>4. p.index \notin 1 .. nodes.m_size
      <4>1. ~PointsInto(nodes, p)
        BY <1>4
      <4> QED
        BY <1>1, <1>3, <1>4, <3>2, <4>1, ElementsAre
    <3>5. q.index = p.index
      BY <1>6, <3>1, <3>2, <3>3, <3>4
    <3> QED
      BY <1>4, <3>1, <3>2, <3>5, SamePointer DEF Same
  <2> QED
    BY <2>1, <2>2, <2>3 DEF Elements
<1>8. OneBuffer'
  <2>1. IsFiniteSet(Parsed)
    <3>1. IsFiniteSet(Kinds("BEGIN_NODE"))
      BY KindsFinite DEF Built
    <3> QED
      BY <3>1, FS_Subset DEF Parsed
  <2>2. Cardinality(Parsed \cup {m + 1}) = Cardinality(Parsed) + 1
    BY <2>1, FS_AddElement
  <2>3. nodes'.m_size = Cardinality(Parsed')
    BY <1>3, <1>4, <2>2
  <2> QED
    BY <1>5, <2>3 DEF OneBuffer
<1>9. Deref(nodes', p).token = m + 1
      /\ \A q \in Elements : Deref(nodes', q).token = Deref(nodes, q).token
  BY DEF Entered, Elements, SameLinks
<1>10. NodesByToken'
  BY <1>7, <1>9 DEF TreeOK, NodesByToken
<1>11. ASSUME NEW r, PointsInto(nodes, r)
       PROVE  /\ PointsInto(nodes', r)
              /\ Deref(nodes', r)["next_sibling"] = Deref(nodes, r)["next_sibling"]
  BY <1>11 DEF Entered, SameLinks
<1>12. ASSUME NEW r, PointsInto(properties, r)
       PROVE  /\ PointsInto(properties', r)
              /\ Deref(properties', r)["next_property"] = Deref(properties, r)["next_property"]
  BY <1>12 DEF PropertiesSame, SameShape
<1>13. ASSUME NEW q \in Elements
       PROVE  /\ \E c : IsList(nodes', Deref(nodes', q).children, "next_sibling", c)
                        /\ Len(c) <= m + 1
              /\ \E c : IsList(properties', Deref(nodes', q).properties, "next_property", c)
                        /\ Len(c) <= m + 1
  <2>1. PICK c : IsList(nodes, Deref(nodes, q).children, "next_sibling", c) /\ Len(c) <= m
    BY DEF TreeOK, Lists, IsChildren
  <2>2. PICK d : IsList(properties, Deref(nodes, q).properties, "next_property", d) /\ Len(d) <= m
    BY DEF TreeOK, Lists, IsOwned
  <2>3. Len(c) \in Nat /\ Len(d) \in Nat /\ Len(c) <= m + 1 /\ Len(d) <= m + 1
        /\ Len(c) + 1 <= m + 1
    <3>1. Len(c) \in Nat /\ Len(d) \in Nat
      BY <2>1, <2>2 DEF IsList
    <3> QED
      BY <2>1, <2>2, <3>1
  <2>4. IsList(nodes', Deref(nodes, q).children, "next_sibling", c)
    BY <1>11, <2>1, ListKept
  <2>5. IsList(properties', Deref(nodes, q).properties, "next_property", d)
    BY <1>12, <2>2, ListKept
  <2>6. /\ Deref(nodes', q).properties = Deref(nodes, q).properties
        /\ Deref(nodes', q).children = IF current # NULL /\ Same(q, current) THEN p
                                       ELSE Deref(nodes, q).children
    BY DEF Entered, Elements
  <2>7. CASE current # NULL /\ Same(q, current)
    <3>1. Deref(nodes', p)["next_sibling"] = Deref(nodes, q).children
      BY <2>7 DEF Entered, Same, Deref
    <3>2. IsList(nodes', p, "next_sibling", <<p>> \o c) /\ Len(<<p>> \o c) = Len(c) + 1
      BY <1>4, <2>4, <3>1, ListPrepended
    <3> QED
      BY <2>3, <2>5, <2>6, <2>7, <3>2
  <2>8. CASE ~(current # NULL /\ Same(q, current))
    BY <2>3, <2>4, <2>5, <2>6, <2>8
  <2> QED
    BY <2>7, <2>8
<1>14. /\ \E c : IsList(nodes', Deref(nodes', p).children, "next_sibling", c) /\ Len(c) <= m + 1
       /\ \E c : IsList(properties', Deref(nodes', p).properties, "next_property", c)
                 /\ Len(c) <= m + 1
  <2>1. Deref(nodes', p).children = NULL /\ Deref(nodes', p).properties = NULL
    BY DEF Entered
  <2>2. /\ IsList(nodes', NULL, "next_sibling", <<>>) /\ Len(<<>>) <= m + 1
        /\ IsList(properties', NULL, "next_property", <<>>)
    BY ListEmpty
  <2> QED
    BY <2>1, <2>2
<1>15. Lists(m + 1)'
  BY <1>7, <1>13, <1>14 DEF Lists, IsChildren, IsOwned
<1> QED
  BY <1>7, <1>8, <1>10, <1>15 DEF TreeOK

\* A new property is the first of the current node's.
LEMMA TreeAttached ==
    ASSUME NEW m \in Nat, TreeOK(m), NEW p, Attached(p, m + 1), UNCHANGED Parsed
    PROVE  TreeOK(m + 1)' /\ Elements' = Elements
<1>1. /\ \A q : PointsInto(nodes', q) <=> PointsInto(nodes, q)
      /\ \A q : PointsInto(nodes, q) =>
            /\ Deref(nodes', q).token = Deref(nodes, q).token
            /\ Deref(nodes', q).next_sibling = Deref(nodes, q).next_sibling
            /\ Deref(nodes', q).children = Deref(nodes, q).children
            /\ Deref(nodes', q).properties = IF Same(q, current) THEN p
                                             ELSE Deref(nodes, q).properties
  BY DEF Attached, SameShape, SameLinks
<1>2. Elements' = Elements /\ \A q \in Elements : PointsInto(nodes, q)
  BY <1>1 DEF Elements
<1>3. OneBuffer'
  <2>1. nodes.buffers # <<>> => nodes.m_capacity = FirstCapacity(NODE_SZ)
    BY DEF TreeOK, OneBuffer
  <2>2. nodes'.buffers # <<>> => nodes.buffers # <<>>
    BY DEF Attached, SameShape
  <2> QED
    BY <2>1, <2>2 DEF TreeOK, OneBuffer, Attached, SameShape
<1>4. NodesByToken'
  <2>1. \A q \in Elements : Deref(nodes', q).token = Deref(nodes, q).token
    BY <1>1, <1>2
  <2> QED
    BY <1>2, <2>1 DEF TreeOK, NodesByToken
<1>5. ASSUME NEW q \in Elements
      PROVE  /\ \E c : IsList(nodes', Deref(nodes', q).children, "next_sibling", c)
                       /\ Len(c) <= m + 1
             /\ \E c : IsList(properties', Deref(nodes', q).properties, "next_property", c)
                       /\ Len(c) <= m + 1
  <2>1. PICK c : IsList(nodes, Deref(nodes, q).children, "next_sibling", c) /\ Len(c) <= m
    BY DEF TreeOK, Lists, IsChildren
  <2>2. PICK d : IsList(properties, Deref(nodes, q).properties, "next_property", d) /\ Len(d) <= m
    BY DEF TreeOK, Lists, IsOwned
  <2>3. Len(c) <= m + 1 /\ Len(d) <= m + 1 /\ Len(d) + 1 <= m + 1
    <3>1. Len(c) \in Nat /\ Len(d) \in Nat
      BY <2>1, <2>2 DEF IsList
    <3> QED
      BY <2>1, <2>2, <3>1
  <2>4. \A r : PointsInto(nodes, r) =>
           /\ PointsInto(nodes', r)
           /\ Deref(nodes', r)["next_sibling"] = Deref(nodes, r)["next_sibling"]
    BY <1>1
  <2>5. \A r : PointsInto(properties, r) =>
           /\ PointsInto(properties', r)
           /\ Deref(properties', r)["next_property"] = Deref(properties, r)["next_property"]
    BY DEF Attached
  <2>6. IsList(nodes', Deref(nodes', q).children, "next_sibling", c)
    <3>1. IsList(nodes', Deref(nodes, q).children, "next_sibling", c)
      BY <2>1, <2>4, ListKept
    <3> QED
      BY <1>1, <1>2, <3>1
  <2>7. IsList(properties', Deref(nodes, q).properties, "next_property", d)
    BY <2>2, <2>5, ListKept
  <2>8. CASE Same(q, current)
    <3>1. /\ p \in Pointers /\ PointsInto(properties', p)
          /\ Deref(properties', p)["next_property"] = Deref(nodes, q).properties
      BY <2>8 DEF Attached, Same, Deref
    <3>2. IsList(properties', p, "next_property", <<p>> \o d) /\ Len(<<p>> \o d) = Len(d) + 1
      BY <2>7, <3>1, ListPrepended
    <3> QED
      BY <1>1, <1>2, <2>3, <2>6, <2>8, <3>2
  <2>9. CASE ~Same(q, current)
    BY <1>1, <1>2, <2>3, <2>6, <2>7, <2>9
  <2> QED
    BY <2>8, <2>9
<1>6. Lists(m + 1)'
  BY <1>2, <1>5 DEF Lists, IsChildren, IsOwned
<1> QED
  BY <1>2, <1>3, <1>4, <1>6 DEF TreeOK

\* What the mapped variables are, by the lists of the nodes.
TreeAt(m) == Progress(m) /\ NodesFit /\ TreeOK(m)

TreeShown(m) ==
    /\ TreePath = OpenAfter(m)
    /\ TreeChildren = [k \in Parsed |-> TreeChildren[k]]
    /\ TreeOwned = [k \in Parsed |-> TreeOwned[k]]
    /\ \A q \in Elements : \A c :
          /\ IsChildren(Deref(nodes, q), c) /\ Len(c) <= m =>
                TreeChildren[Deref(nodes, q).token] = SetOf(Names(nodes, c))
          /\ IsOwned(Deref(nodes, q), c) /\ Len(c) <= m =>
                TreeOwned[Deref(nodes, q).token] = SetOf(Names(properties, c))

\* They are so, in this state and in the next.
LEMMA TreeIsShown ==
    ASSUME NEW m
    PROVE  (TreeAt(m) => TreeShown(m)) /\ (TreeAt(m)' => TreeShown(m)')
<1>1. TreeAt(m) => TreeShown(m)
  <2> SUFFICES ASSUME TreeAt(m) PROVE TreeShown(m)
    OBVIOUS
  <2>1. Progress(m) /\ NodesFit /\ OneBuffer /\ NodesByToken /\ m \in 0 .. Len(blob.tokens)
        /\ Len(blob.tokens) \in Nat
    BY BlobAssumption DEF TreeAt, TreeOK, Progress, Built, HasRead
  <2>2. ASSUME NEW s, NEW p, NEW link, NEW c, IsList(s, p, link, c), Len(c) <= m
        PROVE  TokensOf(s, p, link) = Names(s, c)
    <3>1. Len(c) <= Len(blob.tokens)
      <4>1. Len(c) \in Nat
        BY <2>2 DEF IsList
      <4> QED
        BY <2>1, <2>2, <4>1
    <3>2. Chain(s, p, link) = c
      BY <2>1, <2>2, <3>1, ChainIs
    <3> QED
      BY <3>2 DEF TokensOf, Names
  <2>3. ASSUME NEW q \in Elements
        PROVE  TheNode(Deref(nodes, q).token) = Deref(nodes, q)
    <3>1. PICK E : IsStack(nodes, E)
      BY <2>1 DEF Progress, Built, NodesOK
    <3>2. Len(nodes.buffers) <= 1 /\ Len(nodes.buffers) \in Nat /\ nodes.m_size \in Nat
      BY <2>1, <3>1 DEF OneBuffer, IsStack
    <3>3. q \in Pointers /\ PointsInto(nodes, q)
      BY DEF Elements
    <3>4. q.buffer = 1 /\ q.index \in 1 .. nodes.m_size
      BY <3>1, <3>2, <3>3, ElementsAre
    <3>5. Len(nodes.buffers) = 1
      <4>1. q.buffer \in 1 .. Len(nodes.buffers)
        BY <3>3 DEF PointsInto
      <4>2. Len(nodes.buffers) # 0
        BY <3>2, <3>4, <4>1
      <4> QED
        BY <3>2, <4>2, One
    <3>6. \A i \in 1 .. nodes.m_size :
             /\ ElementAt(nodes, i) \in Pointers
             /\ ElementAt(nodes, i).buffer = 1 /\ ElementAt(nodes, i).index = i
      BY <3>2, <3>5 DEF ElementAt, Pointers
    <3>7. \A i \in 1 .. nodes.m_size : ElementAt(nodes, i) \in Elements
      <4> TAKE i \in 1 .. nodes.m_size
      <4>1. PICK e : e = ElementAt(nodes, i)
        OBVIOUS
      <4>2. e \in Pointers /\ e.buffer = 1 /\ e.index \in 1 .. nodes.m_size
        BY <3>6, <4>1
      <4>3. PointsInto(nodes, e)
        BY <3>1, <3>2, <4>2, ElementsAre
      <4> QED
        BY <4>1, <4>2, <4>3 DEF Elements
    <3>8. ElementAt(nodes, q.index) = q
      <4>1. PICK e : e = ElementAt(nodes, q.index)
        OBVIOUS
      <4>2. e \in Pointers /\ Same(e, q)
        BY <3>4, <3>6, <4>1 DEF Same
      <4> QED
        BY <3>3, <4>1, <4>2, SamePointer
    <3>9. PICK k : k = Deref(nodes, q).token
      OBVIOUS
    <3>10. NodeAt(k) \in 1 .. nodes.m_size
           /\ Deref(nodes, ElementAt(nodes, NodeAt(k))).token = k
      BY <3>4, <3>8, <3>9 DEF NodeAt
    <3>11. ElementAt(nodes, NodeAt(k)) = q
      BY <2>1, <3>7, <3>9, <3>10 DEF NodesByToken
    <3> QED
      BY <3>9, <3>11 DEF TheNode
  <2>4. TreePath = OpenAfter(m)
    <3>1. PICK c : IsList(nodes, current, "parent", c) /\ Len(c) <= m
                   /\ Names(nodes, c) = OpenAfter(m)
      BY <2>1 DEF Progress, OpenPath
    <3> QED
      BY <2>1, <2>2, <3>1 DEF TreePath
  <2>5. /\ TreeChildren = [k \in Parsed |->
                SetOf(TokensOf(nodes, TheNode(k).children, "next_sibling"))]
        /\ TreeOwned = [k \in Parsed |->
                SetOf(TokensOf(properties, TheNode(k).properties, "next_property"))]
    BY <2>1 DEF TreeChildren, TreeOwned
  <2>6. ASSUME NEW q \in Elements, NEW c
        PROVE  /\ IsChildren(Deref(nodes, q), c) /\ Len(c) <= m =>
                     TreeChildren[Deref(nodes, q).token] = SetOf(Names(nodes, c))
               /\ IsOwned(Deref(nodes, q), c) /\ Len(c) <= m =>
                     TreeOwned[Deref(nodes, q).token] = SetOf(Names(properties, c))
    <3>1. PICK k : k = Deref(nodes, q).token
      OBVIOUS
    <3>2. k \in Parsed /\ TheNode(k) = Deref(nodes, q)
      BY <2>1, <2>3, <3>1 DEF NodesByToken
    <3>3. /\ TreeChildren[k] = SetOf(TokensOf(nodes, Deref(nodes, q).children, "next_sibling"))
          /\ TreeOwned[k] = SetOf(TokensOf(properties, Deref(nodes, q).properties, "next_property"))
      BY <2>5, <3>2
    <3> QED
      BY <2>2, <3>1, <3>3 DEF IsChildren, IsOwned
  <2>7. /\ TreeChildren = [k \in Parsed |-> TreeChildren[k]]
        /\ TreeOwned = [k \in Parsed |-> TreeOwned[k]]
    BY <2>5
  <2> QED
    BY <2>4, <2>6, <2>7 DEF TreeShown
<1>2. TreeAt(m)' => TreeShown(m)'
  BY <1>1, PTL
<1> QED
  BY <1>1, <1>2

\* The innermost open node is the current one.
LEMMA PathHead ==
    ASSUME NEW m, Progress(m), current # NULL
    PROVE  /\ OpenAfter(m) # <<>> /\ OpenAfter(m)[1] = Deref(nodes, current).token
           /\ current \in Elements
<1>1. PICK c : IsList(nodes, current, "parent", c) /\ Names(nodes, c) = OpenAfter(m)
  BY DEF Progress, OpenPath
<1>2. Len(c) > 0 /\ c[1] = current /\ current \in Pointers /\ PointsInto(nodes, current)
      /\ Len(c) \in Nat
  BY <1>1, ListRest DEF IsList
<1>3. Names(nodes, c)[1] = Deref(nodes, current).token
  <2>1. 1 \in 1 .. Len(c)
    BY <1>2
  <2> QED
    BY <1>2, <2>1 DEF Names
<1>4. Names(nodes, c) # <<>>
  <2>1. Len(Names(nodes, c)) = Len(c)
    BY <1>2 DEF Names
  <2> QED
    BY <1>2, <2>1
<1> QED
  BY <1>1, <1>2, <1>3, <1>4 DEF Elements

\* Without a current node none is open.
LEMMA PathEmpty ==
    ASSUME NEW m, Progress(m), current = NULL
    PROVE  OpenAfter(m) = <<>>
<1>1. PICK c : IsList(nodes, current, "parent", c) /\ Names(nodes, c) = OpenAfter(m)
  BY DEF Progress, OpenPath
<1>2. Len(c) = 0
  <2>1. Len(c) # 0 => 1 \in 1 .. Len(c) /\ c[1] = NULL
    BY <1>1 DEF IsList
  <2>2. \A i \in 1 .. Len(c) : c[i].buffer # 0
    BY <1>1 DEF IsList, PointsInto
  <2>3. NULL.buffer = 0
    BY DEF NULL
  <2> QED
    BY <2>1, <2>2, <2>3
<1>3. \A i : i \notin 1 .. Len(c)
  BY <1>2
<1> QED
  BY <1>1, <1>2, <1>3 DEF Names

\* A list of a node that stays, and the tokens on it.
LEMMA ListsKept ==
    ASSUME NEW s, NEW t, NEW p, NEW link, NEW c, IsList(s, p, link, c),
           \A q : PointsInto(s, q) =>
               /\ PointsInto(t, q) /\ Deref(t, q)[link] = Deref(s, q)[link]
               /\ Deref(t, q).token = Deref(s, q).token
    PROVE  IsList(t, p, link, c) /\ Names(t, c) = Names(s, c)
BY ListKept, NamesKept

\* The tree stays where the nodes and the properties do.
LEMMA TreeStutters ==
    ASSUME NEW m \in Nat, NEW n \in Nat, m <= n, TreeAt(m), TreeAt(n)', NodesSame,
           PropertiesSame, UNCHANGED Parsed
    PROVE  UNCHANGED <<TreeChildren, TreeOwned>>
<1>1. TreeShown(m) /\ TreeShown(n)'
  BY TreeIsShown
<1>2. TreeOK(m)
  BY DEF TreeAt
<1>3. /\ Elements' = Elements
      /\ \A q \in Elements : /\ Deref(nodes', q).token = Deref(nodes, q).token
                             /\ Deref(nodes', q).children = Deref(nodes, q).children
                             /\ Deref(nodes', q).properties = Deref(nodes, q).properties
  BY DEF Elements, NodesSame, SameShape, SameLinks
<1>4. ASSUME NEW k \in Parsed
      PROVE  TreeChildren'[k] = TreeChildren[k] /\ TreeOwned'[k] = TreeOwned[k]
  <2>1. PICK q \in Elements : Deref(nodes, q).token = k
    BY <1>2 DEF TreeOK, NodesByToken
  <2>2. PICK c : IsChildren(Deref(nodes, q), c) /\ Len(c) <= m
    BY <1>2 DEF TreeOK, Lists
  <2>3. PICK d : IsOwned(Deref(nodes, q), d) /\ Len(d) <= m
    BY <1>2 DEF TreeOK, Lists
  <2>4. Len(c) <= n /\ Len(d) <= n
    <3>1. Len(c) \in Nat /\ Len(d) \in Nat
      BY <2>2, <2>3 DEF IsList, IsChildren, IsOwned
    <3> QED
      BY <2>2, <2>3, <3>1
  <2>5. \A r : PointsInto(nodes, r) =>
           /\ PointsInto(nodes', r)
           /\ Deref(nodes', r)["next_sibling"] = Deref(nodes, r)["next_sibling"]
           /\ Deref(nodes', r).token = Deref(nodes, r).token
    BY DEF NodesSame, SameShape, SameLinks
  <2>6. \A r : PointsInto(properties, r) =>
           /\ PointsInto(properties', r)
           /\ Deref(properties', r)["next_property"] = Deref(properties, r)["next_property"]
           /\ Deref(properties', r).token = Deref(properties, r).token
    BY DEF PropertiesSame, SameShape
  <2>7. IsList(nodes', Deref(nodes, q).children, "next_sibling", c)
        /\ Names(nodes', c) = Names(nodes, c)
    BY <2>2, <2>5, ListsKept DEF IsChildren
  <2>8. IsList(properties', Deref(nodes, q).properties, "next_property", d)
        /\ Names(properties', d) = Names(properties, d)
    BY <2>3, <2>6, ListsKept DEF IsOwned
  <2>9. TreeChildren[k] = SetOf(Names(nodes, c)) /\ TreeOwned[k] = SetOf(Names(properties, d))
    BY <1>1, <2>1, <2>2, <2>3 DEF TreeShown
  <2>10. /\ TreeChildren'[Deref(nodes', q).token] = SetOf(Names(nodes', c))
         /\ TreeOwned'[Deref(nodes', q).token] = SetOf(Names(properties', d))
    <3>1. q \in Elements'
      BY <1>3
    <3>2. /\ IsList(nodes', Deref(nodes', q).children, "next_sibling", c)
          /\ IsList(properties', Deref(nodes', q).properties, "next_property", d)
      BY <1>3, <2>7, <2>8
    <3> QED
      BY <1>1, <2>4, <3>1, <3>2 DEF TreeShown, IsChildren, IsOwned
  <2> QED
    BY <1>3, <2>1, <2>7, <2>8, <2>9, <2>10
<1>5. /\ TreeChildren = [k \in Parsed |-> TreeChildren[k]]
      /\ TreeOwned = [k \in Parsed |-> TreeOwned[k]]
      /\ TreeChildren' = [k \in Parsed |-> TreeChildren'[k]]
      /\ TreeOwned' = [k \in Parsed |-> TreeOwned'[k]]
  BY <1>1 DEF TreeShown
<1> QED
  BY <1>4, <1>5

\* parse_node does what Open asks for.
LEMMA TreeOpens ==
    ASSUME NEW m \in Nat, TreeAt(m), TreeAt(m + 1)', NEW p, Entered(p, m + 1), PropertiesSame,
           Elements' = Elements \cup {p}, m + 1 \notin Parsed, Parsed' = Parsed \cup {m + 1},
           OpenAfter(m + 1)' = <<m + 1>> \o OpenAfter(m)
    PROVE  Tree!Open(m + 1)
<1> DEFINE k == m + 1
<1>1. TreeShown(m) /\ TreeShown(m + 1)' /\ Progress(m)
  BY TreeIsShown DEF TreeAt
<1>2. TreeOK(m)
  BY DEF TreeAt
<1>3. /\ TreePath = OpenAfter(m) /\ TreePath' = <<k>> \o OpenAfter(m)
      /\ TreeChildren = [y \in Parsed |-> TreeChildren[y]]
      /\ TreeOwned = [y \in Parsed |-> TreeOwned[y]]
      /\ TreeChildren' = [y \in Parsed \cup {k} |-> TreeChildren'[y]]
      /\ TreeOwned' = [y \in Parsed \cup {k} |-> TreeOwned'[y]]
  BY <1>1 DEF TreeShown
<1>4. ASSUME NEW q \in Elements', NEW c, NEW d,
             IsList(nodes', Deref(nodes', q).children, "next_sibling", c), Len(c) <= m + 1,
             IsList(properties', Deref(nodes', q).properties, "next_property", d), Len(d) <= m + 1
      PROVE  /\ TreeChildren'[Deref(nodes', q).token] = SetOf(Names(nodes', c))
             /\ TreeOwned'[Deref(nodes', q).token] = SetOf(Names(properties', d))
  BY <1>1, <1>4 DEF TreeShown, IsChildren, IsOwned
<1>5. TreeChildren'[k] = {} /\ TreeOwned'[k] = {}
  <2>1. /\ p \in Elements' /\ Deref(nodes', p).token = k
        /\ Deref(nodes', p).children = NULL /\ Deref(nodes', p).properties = NULL
    BY DEF Entered
  <2>2. /\ IsList(nodes', NULL, "next_sibling", <<>>) /\ Len(<<>>) <= m + 1
        /\ IsList(properties', NULL, "next_property", <<>>)
    BY ListEmpty
  <2>3. SetOf(Names(nodes', <<>>)) = {} /\ SetOf(Names(properties', <<>>)) = {}
    <3>1. <<>> \in Seq(Pointers) /\ NULL \in Pointers
      BY DEF NULL, Pointers
    <3> QED
      BY <3>1, NameSets
  <2> QED
    BY <1>4, <2>1, <2>2, <2>3
<1>6. ASSUME NEW q \in Elements
      PROVE  /\ Deref(nodes, q).token \in Parsed
             /\ TreeOwned'[Deref(nodes, q).token] = TreeOwned[Deref(nodes, q).token]
             /\ TreeChildren'[Deref(nodes, q).token]
                   = IF current # NULL /\ Same(q, current)
                     THEN TreeChildren[Deref(nodes, q).token] \cup {k}
                     ELSE TreeChildren[Deref(nodes, q).token]
  <2>1. PICK c : IsList(nodes, Deref(nodes, q).children, "next_sibling", c) /\ Len(c) <= m
    BY <1>2 DEF TreeOK, Lists, IsChildren
  <2>2. PICK d : IsList(properties, Deref(nodes, q).properties, "next_property", d) /\ Len(d) <= m
    BY <1>2 DEF TreeOK, Lists, IsOwned
  <2>3. Len(c) <= m + 1 /\ Len(d) <= m + 1 /\ Len(c) + 1 <= m + 1 /\ c \in Seq(Pointers)
    <3>1. Len(c) \in Nat /\ Len(d) \in Nat /\ c \in Seq(Pointers)
      BY <2>1, <2>2 DEF IsList
    <3> QED
      BY <2>1, <2>2, <3>1
  <2>4. \A r : PointsInto(nodes, r) =>
           /\ PointsInto(nodes', r)
           /\ Deref(nodes', r)["next_sibling"] = Deref(nodes, r)["next_sibling"]
           /\ Deref(nodes', r).token = Deref(nodes, r).token
    BY DEF Entered, SameLinks
  <2>5. \A r : PointsInto(properties, r) =>
           /\ PointsInto(properties', r)
           /\ Deref(properties', r)["next_property"] = Deref(properties, r)["next_property"]
           /\ Deref(properties', r).token = Deref(properties, r).token
    BY DEF PropertiesSame, SameShape
  <2>6. IsList(nodes', Deref(nodes, q).children, "next_sibling", c)
        /\ Names(nodes', c) = Names(nodes, c)
    BY <2>1, <2>4, ListsKept
  <2>7. IsList(properties', Deref(nodes, q).properties, "next_property", d)
        /\ Names(properties', d) = Names(properties, d)
    BY <2>2, <2>5, ListsKept, SMTT(60)
  <2>8. /\ Deref(nodes, q).token \in Parsed
        /\ TreeChildren[Deref(nodes, q).token] = SetOf(Names(nodes, c))
        /\ TreeOwned[Deref(nodes, q).token] = SetOf(Names(properties, d))
    BY <1>1, <1>2, <2>1, <2>2 DEF TreeOK, NodesByToken, TreeShown, IsChildren, IsOwned
  <2>9. /\ q \in Elements' /\ PointsInto(nodes, q)
        /\ Deref(nodes', q).token = Deref(nodes, q).token
        /\ Deref(nodes', q).properties = Deref(nodes, q).properties
        /\ Deref(nodes', q).children = IF current # NULL /\ Same(q, current) THEN p
                                       ELSE Deref(nodes, q).children
    BY DEF Entered, Elements, SameLinks
  <2>10. CASE current # NULL /\ Same(q, current)
    <3>1. /\ p \in Pointers /\ PointsInto(nodes', p) /\ Deref(nodes', p).token = k
          /\ Deref(nodes', p)["next_sibling"] = Deref(nodes, q).children
      BY <2>10 DEF Entered, Same, Deref
    <3>2. IsList(nodes', p, "next_sibling", <<p>> \o c) /\ Len(<<p>> \o c) = Len(c) + 1
      BY <2>6, <3>1, ListPrepended
    <3>3. SetOf(Names(nodes', <<p>> \o c)) = {k} \cup SetOf(Names(nodes, c))
      BY <2>3, <2>6, <3>1, NameSets
    <3>4. PICK e : e = <<p>> \o c
      OBVIOUS
    <3>5. IsList(nodes', Deref(nodes', q).children, "next_sibling", e) /\ Len(e) <= m + 1
      BY <2>3, <2>9, <2>10, <3>2, <3>4
    <3>6. IsList(properties', Deref(nodes', q).properties, "next_property", d)
      BY <2>7, <2>9
    <3>7. /\ TreeChildren'[Deref(nodes', q).token] = SetOf(Names(nodes', e))
          /\ TreeOwned'[Deref(nodes', q).token] = SetOf(Names(properties', d))
      BY <1>4, <2>3, <2>9, <3>5, <3>6
    <3>8. TreeChildren'[Deref(nodes, q).token] = TreeChildren[Deref(nodes, q).token] \cup {k}
      BY <2>8, <2>9, <3>3, <3>4, <3>7
    <3> QED
      BY <2>7, <2>8, <2>9, <2>10, <3>7, <3>8, SMTT(60)
  <2>11. CASE ~(current # NULL /\ Same(q, current))
    <3>1. /\ IsList(nodes', Deref(nodes', q).children, "next_sibling", c)
          /\ IsList(properties', Deref(nodes', q).properties, "next_property", d)
      BY <2>6, <2>7, <2>9, <2>11
    <3>2. /\ TreeChildren'[Deref(nodes', q).token] = SetOf(Names(nodes', c))
          /\ TreeOwned'[Deref(nodes', q).token] = SetOf(Names(properties', d))
      BY <1>4, <2>3, <2>9, <3>1
    <3> QED
      BY <2>6, <2>7, <2>8, <2>9, <2>11, <3>2
  <2> QED
    BY <2>10, <2>11
<1>7. TreeOwned' = [y \in Parsed \cup {k} |-> IF y = k THEN {} ELSE TreeOwned[y]]
  <2>1. ASSUME NEW y \in Parsed PROVE TreeOwned'[y] = TreeOwned[y]
    <3>1. PICK q \in Elements : Deref(nodes, q).token = y
      BY <1>2 DEF TreeOK, NodesByToken
    <3> QED
      BY <1>6, <3>1
  <2> HIDE DEF k
  <2> QED
    BY <1>3, <1>5, <2>1
<1>8. CASE current = NULL
  <2>1. TreePath = <<>>
    BY <1>1, <1>3, <1>8, PathEmpty
  <2>2. ASSUME NEW y \in Parsed PROVE TreeChildren'[y] = TreeChildren[y]
    <3>1. PICK q \in Elements : Deref(nodes, q).token = y
      BY <1>2 DEF TreeOK, NodesByToken
    <3> QED
      BY <1>6, <1>8, <3>1
  <2> HIDE DEF k
  <2>3. TreeChildren' = [y \in Parsed \cup {k} |-> IF y = k THEN {} ELSE TreeChildren[y]]
    BY <1>3, <1>5, <2>2
  <2> QED
    BY <1>3, <1>7, <2>1, <2>3 DEF Tree!Open, Tree!Nodes, Tree!Extended, k
<1>9. CASE current # NULL
  <2>1. PICK h : h = OpenAfter(m)[1]
    OBVIOUS
  <2>2. TreePath # <<>> /\ TreePath[1] = h /\ h = Deref(nodes, current).token
        /\ current \in Elements /\ h \in Parsed
    BY <1>1, <1>2, <1>3, <1>9, <2>1, PathHead DEF TreeOK, NodesByToken
  <2>3. ASSUME NEW y \in Parsed
        PROVE  TreeChildren'[y] = IF y = h THEN TreeChildren[y] \cup {k} ELSE TreeChildren[y]
    <3>1. PICK q \in Elements : Deref(nodes, q).token = y
      BY <1>2 DEF TreeOK, NodesByToken
    <3>2. Same(q, current) <=> y = h
      <4>1. Same(q, current) => q = current
        BY <2>2, SamePointer DEF Elements
      <4>2. y = h => q = current
        BY <1>2, <2>2, <3>1 DEF TreeOK, NodesByToken
      <4>3. Same(current, current)
        BY DEF Same
      <4> QED
        BY <2>2, <3>1, <4>1, <4>2, <4>3
    <3> QED
      BY <1>6, <1>9, <3>1, <3>2
  <2> DEFINE f == [y \in Parsed \cup {k} |-> IF y = k THEN {} ELSE TreeChildren[y]]
  <2>4. TreeChildren' = [f EXCEPT ![h] = f[h] \cup {k}]
    <3>1. h # k
      BY <2>2
    <3> HIDE DEF k
    <3>2. f = [y \in Parsed \cup {k} |-> f[y]] /\ f[k] = {} /\ \A y \in Parsed : y # k => f[y] = TreeChildren[y]
      OBVIOUS
    <3>3. \A y \in Parsed : y # k
      BY DEF k
    <3> HIDE DEF f
    <3>4. [f EXCEPT ![h] = f[h] \cup {k}]
             = [y \in Parsed \cup {k} |-> IF y = h THEN f[h] \cup {k} ELSE f[y]]
      BY <2>2, <3>2
    <3>5. \A y \in Parsed \cup {k} :
             TreeChildren'[y] = IF y = h THEN f[h] \cup {k} ELSE f[y]
      BY <1>5, <2>2, <2>3, <3>1, <3>2, <3>3 DEF k
    <3> QED
      BY <1>3, <3>4, <3>5
  <2>5. DOMAIN TreeChildren = Parsed /\ DOMAIN TreeOwned = Parsed
    BY <1>3
  <2>6. f = Tree!Extended(TreeChildren, k)
    BY <2>5 DEF Tree!Extended
  <2>7. TreeOwned' = Tree!Extended(TreeOwned, k)
    BY <1>7, <2>5 DEF Tree!Extended
  <2> HIDE DEF f
  <2>8. TreeChildren' = Tree!Adopted(f, k)
    BY <2>2, <2>4 DEF Tree!Adopted
  <2> QED
    BY <1>3, <2>2, <2>5, <2>6, <2>7, <2>8 DEF Tree!Open, Tree!Nodes
<1> QED
  BY <1>8, <1>9

\* pre_parse_property does what Attach asks for.
LEMMA TreeAttaches ==
    ASSUME NEW m \in Nat, TreeAt(m), TreeAt(m + 1)', NEW p, Attached(p, m + 1),
           current # NULL, UNCHANGED <<Parsed, Elements>>, OpenAfter(m + 1)' = OpenAfter(m)
    PROVE  TreePath # <<>> /\ m + 1 \in TreeOwned'[TreePath[1]] /\ Tree!Attach(m + 1)
<1> DEFINE k == m + 1
<1>1. TreeShown(m) /\ TreeShown(m + 1)' /\ Progress(m)
  BY TreeIsShown DEF TreeAt
<1>2. TreeOK(m)
  BY DEF TreeAt
<1>3. /\ TreePath = OpenAfter(m) /\ TreePath' = TreePath
      /\ TreeChildren = [y \in Parsed |-> TreeChildren[y]]
      /\ TreeOwned = [y \in Parsed |-> TreeOwned[y]]
      /\ TreeChildren' = [y \in Parsed |-> TreeChildren'[y]]
      /\ TreeOwned' = [y \in Parsed |-> TreeOwned'[y]]
  BY <1>1 DEF TreeShown
<1>4. ASSUME NEW q \in Elements', NEW c, NEW d,
             IsList(nodes', Deref(nodes', q).children, "next_sibling", c), Len(c) <= m + 1,
             IsList(properties', Deref(nodes', q).properties, "next_property", d), Len(d) <= m + 1
      PROVE  /\ TreeChildren'[Deref(nodes', q).token] = SetOf(Names(nodes', c))
             /\ TreeOwned'[Deref(nodes', q).token] = SetOf(Names(properties', d))
  BY <1>1, <1>4 DEF TreeShown, IsChildren, IsOwned
<1>5. ASSUME NEW q \in Elements
      PROVE  /\ Deref(nodes, q).token \in Parsed /\ k \notin TreeOwned[Deref(nodes, q).token]
             /\ TreeChildren'[Deref(nodes, q).token] = TreeChildren[Deref(nodes, q).token]
             /\ TreeOwned'[Deref(nodes, q).token]
                   = IF Same(q, current)
                     THEN TreeOwned[Deref(nodes, q).token] \cup {k}
                     ELSE TreeOwned[Deref(nodes, q).token]
  <2>1. PICK c : IsList(nodes, Deref(nodes, q).children, "next_sibling", c) /\ Len(c) <= m
    BY <1>2 DEF TreeOK, Lists, IsChildren
  <2>2. PICK d : IsList(properties, Deref(nodes, q).properties, "next_property", d) /\ Len(d) <= m
    BY <1>2 DEF TreeOK, Lists, IsOwned
  <2>3. Len(c) <= m + 1 /\ Len(d) <= m + 1 /\ Len(d) + 1 <= m + 1 /\ d \in Seq(Pointers)
    <3>1. Len(c) \in Nat /\ Len(d) \in Nat /\ d \in Seq(Pointers)
      BY <2>1, <2>2 DEF IsList
    <3> QED
      BY <2>1, <2>2, <3>1
  <2>4. \A r : PointsInto(nodes, r) =>
           /\ PointsInto(nodes', r)
           /\ Deref(nodes', r)["next_sibling"] = Deref(nodes, r)["next_sibling"]
           /\ Deref(nodes', r).token = Deref(nodes, r).token
    BY DEF Attached, SameShape, SameLinks
  <2>5. \A r : PointsInto(properties, r) =>
           /\ PointsInto(properties', r)
           /\ Deref(properties', r)["next_property"] = Deref(properties, r)["next_property"]
           /\ Deref(properties', r).token = Deref(properties, r).token
    BY DEF Attached
  <2>6. IsList(nodes', Deref(nodes, q).children, "next_sibling", c)
        /\ Names(nodes', c) = Names(nodes, c)
    BY <2>1, <2>4, ListsKept
  <2>7. IsList(properties', Deref(nodes, q).properties, "next_property", d)
        /\ Names(properties', d) = Names(properties, d)
    BY <2>2, <2>5, ListsKept
  <2>8. /\ Deref(nodes, q).token \in Parsed
        /\ TreeChildren[Deref(nodes, q).token] = SetOf(Names(nodes, c))
        /\ TreeOwned[Deref(nodes, q).token] = SetOf(Names(properties, d))
    BY <1>1, <1>2, <2>1, <2>2 DEF TreeOK, NodesByToken, TreeShown, IsChildren, IsOwned
  <2>9. /\ q \in Elements' /\ PointsInto(nodes, q)
        /\ Deref(nodes', q).token = Deref(nodes, q).token
        /\ Deref(nodes', q).children = Deref(nodes, q).children
        /\ Deref(nodes', q).properties = IF Same(q, current) THEN p
                                         ELSE Deref(nodes, q).properties
    BY DEF Attached, Elements, SameLinks
  <2>10. IsList(nodes', Deref(nodes', q).children, "next_sibling", c)
    BY <2>6, <2>9
  <2>11. k \notin SetOf(Names(properties, d))
    <3>1. PICK E : IsStack(properties, E) /\ \A e \in E : e.token \in 1 .. m
      BY <1>1 DEF Progress, Built, PropertiesOK
    <3>2. \A i \in 1 .. Len(d) : PointsInto(properties, d[i])
      BY <2>2 DEF IsList
    <3>3. \A i \in 1 .. Len(d) : Deref(properties, d[i]).token \in 1 .. m
      BY <3>1, <3>2, Follows
    <3>4. SetOf(Names(properties, d)) = {Deref(properties, d[i]).token : i \in 1 .. Len(d)}
      BY <1>1, <2>3, NameSets, CurrentLeads DEF Progress
    <3>5. k \notin 1 .. m
      OBVIOUS
    <3> HIDE DEF k
    <3> QED
      BY <3>3, <3>4, <3>5
  <2>12. CASE Same(q, current)
    <3>1. /\ p \in Pointers /\ PointsInto(properties', p) /\ Deref(properties', p).token = k
          /\ Deref(properties', p)["next_property"] = Deref(nodes, q).properties
      BY <2>12 DEF Attached, Same, Deref
    <3>2. IsList(properties', p, "next_property", <<p>> \o d) /\ Len(<<p>> \o d) = Len(d) + 1
      BY <2>7, <3>1, ListPrepended
    <3>3. SetOf(Names(properties', <<p>> \o d)) = {k} \cup SetOf(Names(properties, d))
      BY <2>3, <2>7, <3>1, NameSets
    <3>4. PICK e : e = <<p>> \o d
      OBVIOUS
    <3>5. IsList(properties', Deref(nodes', q).properties, "next_property", e) /\ Len(e) <= m + 1
      BY <2>3, <2>9, <2>12, <3>2, <3>4
    <3>6. /\ TreeChildren'[Deref(nodes', q).token] = SetOf(Names(nodes', c))
          /\ TreeOwned'[Deref(nodes', q).token] = SetOf(Names(properties', e))
      BY <1>4, <2>3, <2>9, <2>10, <3>5
    <3>7. TreeOwned'[Deref(nodes, q).token] = TreeOwned[Deref(nodes, q).token] \cup {k}
      BY <2>8, <2>9, <3>3, <3>4, <3>6
    <3> QED
      BY <2>6, <2>8, <2>9, <2>11, <2>12, <3>6, <3>7
  <2>13. CASE ~Same(q, current)
    <3>1. IsList(properties', Deref(nodes', q).properties, "next_property", d)
      BY <2>7, <2>9, <2>13
    <3>2. /\ TreeChildren'[Deref(nodes', q).token] = SetOf(Names(nodes', c))
          /\ TreeOwned'[Deref(nodes', q).token] = SetOf(Names(properties', d))
      BY <1>4, <2>3, <2>9, <2>10, <3>1
    <3> QED
      BY <2>6, <2>7, <2>8, <2>9, <2>11, <2>13, <3>2
  <2> QED
    BY <2>12, <2>13
<1>6. PICK h : h = OpenAfter(m)[1]
  OBVIOUS
<1>7. TreePath # <<>> /\ TreePath[1] = h /\ h = Deref(nodes, current).token
      /\ current \in Elements /\ h \in Parsed
  BY <1>1, <1>2, <1>3, <1>6, PathHead DEF TreeOK, NodesByToken
<1> HIDE DEF k
<1>8. ASSUME NEW y \in Parsed
      PROVE  /\ k \notin TreeOwned[y] /\ TreeChildren'[y] = TreeChildren[y]
             /\ TreeOwned'[y] = IF y = h THEN TreeOwned[y] \cup {k} ELSE TreeOwned[y]
  <2>1. PICK q \in Elements : Deref(nodes, q).token = y
    BY <1>2 DEF TreeOK, NodesByToken
  <2>2. Same(q, current) <=> y = h
    <3>1. Same(q, current) => q = current
      BY <1>7, SamePointer DEF Elements
    <3>2. y = h => q = current
      BY <1>2, <1>7, <2>1 DEF TreeOK, NodesByToken
    <3>3. Same(current, current)
      BY DEF Same
    <3> QED
      BY <1>7, <2>1, <3>1, <3>2, <3>3
  <2> QED
    BY <1>5, <2>1, <2>2
<1>9. TreeChildren' = TreeChildren
  BY <1>3, <1>8
<1>10. TreeOwned' = Tree!Adopted(TreeOwned, k)
  <2>1. [TreeOwned EXCEPT ![h] = TreeOwned[h] \cup {k}]
           = [y \in Parsed |-> IF y = h THEN TreeOwned[h] \cup {k} ELSE TreeOwned[y]]
    BY <1>3, <1>7
  <2>2. TreeOwned' = [TreeOwned EXCEPT ![h] = TreeOwned[h] \cup {k}]
    BY <1>3, <1>8, <2>1
  <2> QED
    BY <1>7, <2>2 DEF Tree!Adopted
<1>11. DOMAIN TreeChildren = Parsed
  BY <1>3
<1>12. k \in TreeOwned'[TreePath[1]]
  BY <1>7, <1>8
<1>13. Tree!Attach(k)
  BY <1>3, <1>7, <1>8, <1>9, <1>10, <1>11 DEF Tree!Attach, Tree!Nodes
<1> QED
  BY <1>7, <1>12, <1>13 DEF k

\* Every step is one of the tree, or leaves it alone, and keeps what is known
\* of the nodes.
LEMMA TreeStep ==
    ASSUME NEW m, Progress(m), NodesFit => TreeOK(m), [Next]_vars
    PROVE  TreeInv' /\ [Tree!Next]_(Tree!vars)
<1>1. PICK n : /\ Progress(n)' /\ Built(m) /\ Built(n)' /\ m \in Nat /\ n \in Nat /\ m <= n
               /\ UNCHANGED blob /\ ((Quiet /\ n = m) \/ (Takes(m + 1) /\ n = m + 1))
  <2>1. m \in Nat
    <3>1. blob \in Blobs /\ m \in 0 .. Len(blob.tokens)
      BY DEF Progress, Built, HasRead
    <3> QED
      BY <3>1, BlobAssumption
  <2>2. Quiet \/ Takes(m + 1) => UNCHANGED blob
    BY DEF Quiet, Takes
  <2>3. m + 1 \in Nat /\ m <= m + 1 /\ m <= m
    BY <2>1
  <2> QED
    BY <2>1, <2>2, <2>3, ParserStep DEF Progress
<1>2. /\ Kinds("BEGIN_NODE")' = Kinds("BEGIN_NODE") /\ NodesFit' = NodesFit
  BY <1>1 DEF Kinds, Tokens, NodesFit
<1>3. /\ Parsed = Kinds("BEGIN_NODE") \cap (1 .. m)
      /\ Parsed' = Kinds("BEGIN_NODE") \cap (1 .. n)
  BY <1>1, <1>2, ParsedIs DEF ParsedAre
<1>4. CASE ~NodesFit
  <2>1. UNCHANGED <<TreeChildren, TreeOwned, TreePath>>
    BY <1>2, <1>4 DEF TreeChildren, TreeOwned, TreePath
  <2> QED
    BY <1>1, <1>2, <1>4, <2>1 DEF TreeInv, Tree!vars
<1>5. CASE NodesFit
  <2>1. TreeAt(m)
    BY <1>5 DEF TreeAt
  <2>2. ASSUME TreeOK(n)' PROVE TreeInv' /\ TreeAt(n)'
    BY <1>1, <1>2, <1>5, <2>2 DEF TreeInv, TreeAt
  <2>3. ASSUME NodesSame, PropertiesSame, Parsed' = Parsed
        PROVE  TreeInv' /\ TreeAt(n)' /\ UNCHANGED <<TreeChildren, TreeOwned>>
    <3>1. TreeOK(n)'
      BY <1>1, <2>1, <2>3, TreeKept DEF TreeAt
    <3>2. TreeInv' /\ TreeAt(n)'
      BY <2>2, <3>1
    <3> QED
      BY <1>1, <2>1, <2>3, <3>2, TreeStutters
  <2>4. TreePath = OpenAfter(m) /\ (TreeAt(n)' => TreePath' = OpenAfter(n)')
    BY <2>1, TreeIsShown DEF TreeShown
  <2>5. CASE Quiet /\ n = m
    <3>1. TreeInv' /\ TreeAt(n)' /\ UNCHANGED <<TreeChildren, TreeOwned>>
      BY <1>3, <2>3, <2>5 DEF Quiet
    <3>2. OpenAfter(m)' = OpenAfter(m)
      BY <1>1 DEF OpenAfter
    <3>3. UNCHANGED TreePath
      BY <2>4, <2>5, <3>1, <3>2
    <3> QED
      BY <3>1, <3>3 DEF Tree!vars
  <2>6. CASE Takes(m + 1) /\ n = m + 1
    <3> DEFINE t == blob.tokens[m + 1]
    <3>1. OpenAfter(m + 1)' = Past(OpenAfter(m), m + 1) /\ m + 1 # 0
      BY <1>1, <2>6, FurtherOn
    <3>2. m + 1 \in Tokens /\ m + 1 \notin 1 .. m /\ 1 .. m + 1 = (1 .. m) \cup {m + 1}
      BY <1>1, <2>6 DEF Takes
    <3>3. t.kind # "BEGIN_NODE" => Parsed' = Parsed
      BY <1>3, <2>6, <3>2 DEF Kinds
    <3>4. CASE t.kind = "BEGIN_NODE"
      <4>1. m + 1 \in Kinds("BEGIN_NODE") /\ m + 1 \notin Parsed
            /\ Parsed' = Parsed \cup {m + 1}
        BY <1>3, <2>6, <3>2, <3>4 DEF Kinds
      <4>2. PICK p : Entered(p, m + 1)
        BY <2>6, <3>4 DEF Takes
      <4>3. PropertiesSame /\ NodesOK' /\ TreeOK(m) /\ (current = NULL \/ PointsInto(nodes, current))
        BY <1>1, <2>1, <2>6, <3>4, CurrentLeads DEF Takes, Built, TreeAt, Progress
      <4>4. TreeOK(m + 1)' /\ Elements' = Elements \cup {p}
        BY <1>1, <1>5, <4>1, <4>2, <4>3, TreeOpened
      <4>5. TreeInv' /\ TreeAt(m + 1)'
        BY <2>2, <2>6, <4>4
      <4>6. OpenAfter(m + 1)' = <<m + 1>> \o OpenAfter(m)
        BY <3>1, <3>4 DEF Past
      <4>7. Tree!Open(m + 1)
        BY <1>1, <2>1, <4>1, <4>2, <4>3, <4>4, <4>5, <4>6, TreeOpens
      <4>8. m + 1 \in DOMAIN TreeChildren'
        <5>1. TreeChildren' = [k \in Parsed' |-> TreeChildren'[k]]
          BY <4>5, TreeIsShown DEF TreeShown
        <5> QED
          BY <4>1, <5>1
      <4> QED
        BY <4>5, <4>7, <4>8 DEF Tree!Next
    <3>5. CASE t.kind = "END_NODE"
      <4>1. TreeInv' /\ TreeAt(n)' /\ UNCHANGED <<TreeChildren, TreeOwned>> /\ current # NULL
        BY <2>3, <2>6, <3>3, <3>5 DEF Takes
      <4>2. OpenAfter(m) # <<>>
        BY <1>1, <2>1, <4>1, PathHead DEF Progress, TreeAt
      <4>3. TreePath # <<>> /\ TreePath' = Tail(TreePath)
        BY <2>4, <2>6, <3>1, <3>5, <4>1, <4>2 DEF Past
      <4>4. Tree!Close
        BY <4>1, <4>3 DEF Tree!Close
      <4> QED
        BY <4>1, <4>4 DEF Tree!Next
    <3>6. CASE t.kind = "PROP"
      <4>1. PICK p : Attached(p, m + 1)
        BY <2>6, <3>6 DEF Takes
      <4>2. TreeOK(m + 1)' /\ Elements' = Elements
        BY <1>1, <2>1, <3>3, <3>6, <4>1, TreeAttached DEF TreeAt
      <4>3. TreeInv' /\ TreeAt(m + 1)'
        BY <2>2, <2>6, <4>2
      <4>4. OpenAfter(m + 1)' = OpenAfter(m) /\ current # NULL
        BY <2>6, <3>1, <3>6 DEF Past, Takes
      <4>5. TreePath # <<>> /\ m + 1 \in TreeOwned'[TreePath[1]] /\ Tree!Attach(m + 1)
        BY <1>1, <2>1, <3>3, <3>6, <4>1, <4>2, <4>3, <4>4, TreeAttaches
      <4> QED
        BY <4>3, <4>5 DEF Tree!Next
    <3>7. CASE t.kind \notin {"BEGIN_NODE", "END_NODE", "PROP"}
      <4>1. TreeInv' /\ TreeAt(n)' /\ UNCHANGED <<TreeChildren, TreeOwned>>
        BY <2>3, <2>6, <3>3, <3>7 DEF Takes
      <4>2. OpenAfter(m + 1)' = OpenAfter(m)
        BY <3>1, <3>7 DEF Past
      <4>3. UNCHANGED TreePath
        BY <2>4, <2>6, <4>1, <4>2
      <4> QED
        BY <4>1, <4>3 DEF Tree!vars
    <3> QED
      BY <3>4, <3>5, <3>6, <3>7
  <2> QED
    BY <1>1, <2>5, <2>6
<1> QED
  BY <1>4, <1>5

\* The parser starts with the empty tree.
LEMMA TreeInit == RewriteInit => TreeInv /\ Tree!Init
<1> SUFFICES ASSUME RewriteInit PROVE TreeInv /\ Tree!Init
  OBVIOUS
<1>1. Progress(0)
  BY ParserInit
<1>2. nodes = EmptyStack /\ nodes.buffers = <<>> /\ nodes.m_size = 0
  BY DEF RewriteInit, Init, EmptyStack
<1>3. \A i : i \notin 1 .. 0
  OBVIOUS
<1>4. Parsed = {}
  BY <1>1, <1>3, ParsedIs DEF Progress, ParsedAre
<1>5. Elements = {}
  <2>1. Len(nodes.buffers) = 0
    BY <1>2
  <2> QED
    BY <1>3, <2>1 DEF Elements, PointsInto
<1>6. TreeOK(0)
  <2>1. OneBuffer
    <3>1. Len(nodes.buffers) <= 1 /\ Cardinality({}) = 0
      BY <1>2, FS_EmptySet
    <3> QED
      BY <1>2, <1>4, <3>1 DEF OneBuffer
  <2>2. NodesByToken /\ Lists(0)
    BY <1>4, <1>5 DEF NodesByToken, Lists
  <2> QED
    BY <2>1, <2>2 DEF TreeOK
<1>7. TreeInv
  BY <1>1, <1>6 DEF TreeInv
<1>8. TreeChildren = <<>> /\ TreeOwned = <<>>
  <2>1. ASSUME NEW f, f = [k \in {} |-> f[k]] PROVE f = <<>>
    <3>1. DOMAIN f = {} /\ 1 .. 0 = {} /\ f = [k \in 1 .. 0 |-> f[k]]
      BY <2>1
    <3>2. f \in Seq({}) /\ Len(f) = 0
      BY <3>1
    <3> QED
      BY <3>2
  <2>2. CASE NodesFit
    <3>1. TreeShown(0)
      BY <1>1, <1>6, <2>2, TreeIsShown DEF TreeAt
    <3> QED
      BY <1>4, <2>1, <3>1 DEF TreeShown
  <2>3. CASE ~NodesFit
    BY <2>3 DEF TreeChildren, TreeOwned
  <2> QED
    BY <2>2, <2>3
<1>9. TreePath = <<>>
  <2>1. CASE NodesFit
    <3>1. TreeShown(0)
      BY <1>1, <1>6, <2>1, TreeIsShown DEF TreeAt
    <3> QED
      BY <3>1, OpenStep DEF TreeShown
  <2>2. CASE ~NodesFit
    BY <2>2 DEF TreePath
  <2> QED
    BY <2>1, <2>2
<1> QED
  BY <1>7, <1>8, <1>9 DEF Tree!Init

\* While its nodes fit in one buffer, the parser builds the tree the blob
\* nests: the lists of the nodes are its children and properties in every
\* state, through every growth of the stack of the properties and all that
\* the rewrite does (device_tree.cpp:168-200).
THEOREM ParserImplementsTree == Spec => Implements
<1>1. RewriteInit => TreeInv /\ Tree!Init
  BY TreeInit
<1>2. TreeInv /\ [Next]_vars => TreeInv' /\ [Tree!Next]_(Tree!vars)
  BY TreeStep DEF TreeInv
<1> QED
  BY <1>1, <1>2, PTL DEF Spec, Implements, Tree!Spec
----------------------------------------------------------------------------
\* The nesting of the blob.

\* The token m opens a node.
Opens(m) == blob.tokens[m].kind = "BEGIN_NODE"

\* The innermost node that is open after m tokens is one of them, and around
\* it are the nodes that were open before that.
Innermost(m, u) == u \in 1 .. m /\ Opens(u) /\ OpenAfter(m) = <<u>> \o Outside(u)

NestingIs(m) ==
    OpenAfter(m) \in Seq(Nat) /\ (OpenAfter(m) = <<>> \/ \E u \in Nat : Innermost(m, u))

\* What is behind the first element.
LEMMA TailOf ==
    ASSUME NEW T, NEW u \in T, NEW t \in Seq(T)
    PROVE  LET o == <<u>> \o t
           IN  /\ Tail(o) = t /\ o[1] = u /\ Len(o) = Len(t) + 1 /\ o # <<>>
               /\ \A i \in 1 .. Len(t) : o[i + 1] = t[i]
<1>1. PICK o : o = <<u>> \o t
  OBVIOUS
<1>2. /\ o \in Seq(T) /\ Len(o) = Len(t) + 1 /\ o[1] = u /\ Len(t) \in Nat
      /\ \A i \in 1 .. Len(t) : o[i + 1] = t[i]
  BY <1>1
<1>3. /\ Tail(o) \in Seq(T) /\ Len(Tail(o)) = Len(t) /\ o # <<>>
      /\ \A i \in 1 .. Len(t) : Tail(o)[i] = t[i]
  BY <1>2
<1>4. Tail(o) = t
  BY <1>3
<1> QED
  BY <1>1, <1>2, <1>3, <1>4

\* What a token does to the open nodes.
LEMMA NestingStep ==
    ASSUME NEW m \in Nat
    PROVE  \/ /\ Opens(m + 1) /\ Outside(m + 1) = OpenAfter(m)
              /\ OpenAfter(m + 1) = <<m + 1>> \o OpenAfter(m)
           \/ OpenAfter(m) # <<>> /\ OpenAfter(m + 1) = Tail(OpenAfter(m))
           \/ ~Opens(m + 1) /\ OpenAfter(m + 1) = OpenAfter(m)
<1>1. OpenAfter(m + 1) = Past(OpenAfter(m), m + 1) /\ m + 1 # 0 /\ (m + 1) - 1 = m
  BY OpenStep
<1> QED
  BY <1>1 DEF Past, Opens, Outside

\* The nesting of the first m tokens makes that of one more.
LEMMA NestingFrom ==
    ASSUME NEW m \in Nat, \A k \in 0 .. m : NestingIs(k)
    PROVE  NestingIs(m + 1)
<1>1. m \in 0 .. m /\ m + 1 \in Nat /\ 1 .. m \subseteq 1 .. m + 1 /\ m + 1 \in 1 .. m + 1
  OBVIOUS
<1>2. PICK o : o = OpenAfter(m)
  OBVIOUS
<1>3. o \in Seq(Nat) /\ (o = <<>> \/ \E u \in Nat : Innermost(m, u))
  BY <1>1, <1>2 DEF NestingIs
<1>4. CASE /\ Opens(m + 1) /\ Outside(m + 1) = OpenAfter(m)
           /\ OpenAfter(m + 1) = <<m + 1>> \o OpenAfter(m)
  <2>1. OpenAfter(m + 1) = <<m + 1>> \o o
    BY <1>2, <1>4
  <2>2. <<m + 1>> \o o \in Seq(Nat)
    BY <1>1, <1>3
  <2>3. Innermost(m + 1, m + 1)
    BY <1>1, <1>4 DEF Innermost
  <2> QED
    BY <1>1, <2>1, <2>2, <2>3 DEF NestingIs
<1>5. CASE OpenAfter(m) # <<>> /\ OpenAfter(m + 1) = Tail(OpenAfter(m))
  <2>1. PICK u \in Nat : Innermost(m, u)
    BY <1>2, <1>3, <1>5
  <2>2. u \in 1 .. m /\ Opens(u) /\ o = <<u>> \o Outside(u)
    BY <1>2, <2>1 DEF Innermost
  <2>3. u - 1 \in 0 .. m /\ u - 1 \in Nat
    BY <2>2
  <2>4. NestingIs(u - 1)
    BY <2>3
  <2>5. PICK t : t = OpenAfter(u - 1)
    OBVIOUS
  <2>6. t \in Seq(Nat)
    BY <2>4, <2>5 DEF NestingIs
  <2>7. o = <<u>> \o t
    BY <2>2, <2>5 DEF Outside
  <2>8. Tail(o) = t
    BY <2>1, <2>6, <2>7, TailOf, SMTT(60)
  <2>9. OpenAfter(m + 1) = t
    BY <1>2, <1>5, <2>8
  <2>10. t = <<>> \/ \E v \in Nat : Innermost(m + 1, v)
    <3>1. SUFFICES ASSUME t # <<>> PROVE \E v \in Nat : Innermost(m + 1, v)
      OBVIOUS
    <3>2. PICK v \in Nat : Innermost(u - 1, v)
      BY <2>4, <2>5, <3>1 DEF NestingIs
    <3>3. v \in 1 .. m + 1
      BY <2>2, <3>2 DEF Innermost
    <3>4. Innermost(m + 1, v)
      BY <2>5, <2>9, <3>2, <3>3 DEF Innermost
    <3> QED
      BY <3>4
  <2> QED
    BY <2>6, <2>9, <2>10 DEF NestingIs
<1>6. CASE ~Opens(m + 1) /\ OpenAfter(m + 1) = OpenAfter(m)
  <2>1. \A u : Innermost(m, u) => Innermost(m + 1, u)
    BY <1>1, <1>6 DEF Innermost
  <2> QED
    BY <1>2, <1>3, <1>6, <2>1 DEF NestingIs
<1> QED
  BY <1>4, <1>5, <1>6, NestingStep

\* It is so after any number of tokens.
LEMMA Nesting == ASSUME NEW m \in Nat PROVE NestingIs(m)
<1> DEFINE S == {n \in Nat : \A k \in 0 .. n : NestingIs(k)}
<1>1. 0 \in S
  <2>1. \A k \in 0 .. 0 : k = 0
    OBVIOUS
  <2>2. OpenAfter(0) = <<>>
    BY OpenStep
  <2>3. <<>> \in Seq(Nat)
    OBVIOUS
  <2> QED
    BY <2>1, <2>2, <2>3 DEF NestingIs
<1>2. ASSUME NEW n \in S PROVE n + 1 \in S
  <2>1. NestingIs(n + 1)
    BY <1>2, NestingFrom
  <2>2. \A k \in 0 .. n + 1 : k \in 0 .. n \/ k = n + 1
    OBVIOUS
  <2> QED
    BY <1>2, <2>1, <2>2
<1> HIDE DEF S
<1>3. \A n \in Nat : n \in S
  BY <1>1, <1>2, SetInduction
<1>4. m \in 0 .. m
  OBVIOUS
<1> QED
  BY <1>3, <1>4 DEF S

----------------------------------------------------------------------------
\* The nodes open after m tokens, as a set.
OpenSet(m) == SetOf(OpenAfter(m))
Inside(d, c) == c \in SetOf(Outside(d))

\* The innermost one, and those around it.
LEMMA OpenSetIs ==
    ASSUME NEW m \in Nat
    PROVE  /\ OpenAfter(m) = <<>> => OpenSet(m) = {}
           /\ OpenAfter(m) # <<>> =>
                 LET u == OpenAfter(m)[1]
                 IN  u \in 1 .. m /\ Opens(u) /\ OpenSet(m) = {u} \cup OpenSet(u - 1)
<1>1. NestingIs(m)
  BY Nesting
<1>2. OpenAfter(m) = <<>> => OpenSet(m) = {}
  BY DEF OpenSet, SetOf
<1>3. ASSUME OpenAfter(m) # <<>>
      PROVE  LET u == OpenAfter(m)[1]
             IN  u \in 1 .. m /\ Opens(u) /\ OpenSet(m) = {u} \cup OpenSet(u - 1)
  <2>1. PICK u \in Nat : Innermost(m, u)
    BY <1>1, <1>3 DEF NestingIs
  <2>2. u \in 1 .. m /\ Opens(u) /\ u - 1 \in Nat
    BY <2>1 DEF Innermost
  <2>3. PICK t : t = OpenAfter(u - 1)
    OBVIOUS
  <2>4. t \in Seq(Nat)
    BY <2>2, <2>3, Nesting DEF NestingIs
  <2>5. PICK o : o = OpenAfter(m)
    OBVIOUS
  <2>6. o = <<u>> \o t
    BY <2>1, <2>3, <2>5 DEF Innermost, Outside
  <2>7. /\ o[1] = u /\ Len(o) = Len(t) + 1 /\ Len(t) \in Nat
        /\ \A i \in 1 .. Len(t) : o[i + 1] = t[i]
    BY <2>4, <2>6
  <2>8. SetOf(o) = {u} \cup SetOf(t)
    <3>1. ASSUME NEW e \in SetOf(o) PROVE e \in {u} \cup SetOf(t)
      <4>1. PICK i \in 1 .. Len(o) : e = o[i]
        BY <3>1 DEF SetOf
      <4>2. CASE i = 1
        BY <2>7, <4>1, <4>2
      <4>3. CASE i # 1
        <5>1. i - 1 \in 1 .. Len(t) /\ (i - 1) + 1 = i
          BY <2>7, <4>1, <4>3
        <5>2. e = t[i - 1]
          BY <2>7, <4>1, <5>1
        <5> QED
          BY <5>1, <5>2 DEF SetOf
      <4> QED
        BY <4>2, <4>3
    <3>2. ASSUME NEW e \in {u} \cup SetOf(t) PROVE e \in SetOf(o)
      <4>1. CASE e = u
        <5>1. 1 \in 1 .. Len(o)
          BY <2>7
        <5> QED
          BY <2>7, <4>1, <5>1 DEF SetOf
      <4>2. CASE e \in SetOf(t)
        <5>1. PICK i \in 1 .. Len(t) : e = t[i]
          BY <4>2 DEF SetOf
        <5>2. i + 1 \in 1 .. Len(o) /\ o[i + 1] = e
          BY <2>7, <5>1
        <5> QED
          BY <5>2 DEF SetOf
      <4> QED
        BY <3>2, <4>1, <4>2
    <3> QED
      BY <3>1, <3>2
  <2> QED
    BY <2>2, <2>3, <2>5, <2>7, <2>8 DEF OpenSet
<1> QED
  BY <1>2, <1>3

\* The node t is the parent of c.
Child(c, t) == Outside(c) # <<>> /\ Outside(c)[1] = t

\* An open node was opened by a token before; what is around it is open too,
\* and a child of it is, unless it is the innermost.
OpenOnes(m) ==
    \A j \in OpenSet(m) :
        /\ j \in 1 .. m /\ Opens(j) /\ OpenSet(j - 1) \subseteq OpenSet(m)
        /\ OpenAfter(m) # <<>>
        /\ j = OpenAfter(m)[1] \/ \E c \in OpenSet(m) : Child(c, j)

\* Induction over all the numbers before.
LEMMA Induction ==
    ASSUME NEW S, \A n \in Nat : (\A k \in Nat : k < n => k \in S) => n \in S
    PROVE  \A n \in Nat : n \in S
<1> DEFINE R == {n \in Nat : \A k \in Nat : k < n => k \in S}
<1>1. 0 \in R
  OBVIOUS
<1>2. ASSUME NEW n \in R PROVE n + 1 \in R
  <2>1. n \in S
    BY <1>2
  <2>2. \A k \in Nat : k < n + 1 => k < n \/ k = n
    OBVIOUS
  <2> QED
    BY <1>2, <2>1, <2>2
<1> HIDE DEF R
<1>3. \A n \in Nat : n \in R
  BY <1>1, <1>2, SetInduction
<1>4. ASSUME NEW n \in Nat PROVE n \in S
  <2>1. n + 1 \in R /\ n < n + 1
    BY <1>3
  <2> QED
    BY <2>1 DEF R
<1> QED
  BY <1>4

\* So it is after any number of tokens.
LEMMA OpenOnesAre == \A m \in Nat : OpenOnes(m)
<1> DEFINE S == {m \in Nat : OpenOnes(m)}
<1>1. ASSUME NEW m \in Nat, \A k \in Nat : k < m => OpenOnes(k) PROVE OpenOnes(m)
  <2>1. SUFFICES ASSUME NEW j \in OpenSet(m)
               PROVE  /\ j \in 1 .. m /\ Opens(j) /\ OpenSet(j - 1) \subseteq OpenSet(m)
                      /\ OpenAfter(m) # <<>>
                      /\ j = OpenAfter(m)[1] \/ \E c \in OpenSet(m) : Child(c, j)
    BY DEF OpenOnes
  <2>2. OpenAfter(m) # <<>>
    BY <2>1, OpenSetIs
  <2>3. PICK u : u = OpenAfter(m)[1]
    OBVIOUS
  <2>4. u \in 1 .. m /\ Opens(u) /\ OpenSet(m) = {u} \cup OpenSet(u - 1)
    BY <2>2, <2>3, OpenSetIs
  <2>5. CASE j = u
    BY <2>2, <2>3, <2>4, <2>5
  <2>6. CASE j # u
    <3>1. j \in OpenSet(u - 1) /\ u - 1 \in Nat /\ u - 1 < m
      BY <2>1, <2>4, <2>6
    <3>2. OpenOnes(u - 1)
      BY <1>1, <3>1
    <3>3. /\ j \in 1 .. u - 1 /\ Opens(j) /\ OpenSet(j - 1) \subseteq OpenSet(u - 1)
          /\ OpenAfter(u - 1) # <<>>
          /\ j = OpenAfter(u - 1)[1] \/ \E c \in OpenSet(u - 1) : Child(c, j)
      BY <3>1, <3>2 DEF OpenOnes
    <3>4. j = OpenAfter(u - 1)[1] => Child(u, j)
      BY <3>3 DEF Child, Outside
    <3>5. j \in 1 .. m
      BY <2>4, <3>3
    <3> QED
      BY <2>2, <2>4, <3>3, <3>4, <3>5
  <2> QED
    BY <2>5, <2>6
<1>2. \A m \in Nat : (\A k \in Nat : k < m => k \in S) => m \in S
  BY <1>1
<1> HIDE DEF S
<1>3. \A m \in Nat : m \in S
  BY <1>2, Induction
<1> QED
  BY <1>3 DEF S

\* A node that is open later and was opened before is open all the time.
LEMMA OpenBetween ==
    ASSUME NEW m \in Nat, NEW n \in Nat, m <= n, NEW j \in OpenSet(n), j <= m
    PROVE  j \in OpenSet(m)
<1> DEFINE S == {k \in Nat : j \in OpenSet(m + k) => j \in OpenSet(m)}
<1>1. j \in Nat
  BY OpenOnesAre DEF OpenOnes
<1>2. 0 \in S
  <2>1. m + 0 = m
    OBVIOUS
  <2> QED
    BY <2>1
<1>3. ASSUME NEW k \in S PROVE k + 1 \in S
  <2>1. PICK i : i = m + k
    OBVIOUS
  <2>2. i \in Nat /\ m + (k + 1) = i + 1 /\ j <= i
    BY <1>1, <2>1
  <2>3. ASSUME j \in OpenSet(i + 1) PROVE j \in OpenSet(i)
    <3>1. PICK o : o = OpenAfter(i)
      OBVIOUS
    <3>2. o \in Seq(Nat)
      BY <2>2, <3>1, Nesting DEF NestingIs
    <3>3. CASE /\ Opens(i + 1) /\ Outside(i + 1) = OpenAfter(i)
               /\ OpenAfter(i + 1) = <<i + 1>> \o OpenAfter(i)
      <4>1. OpenAfter(i + 1) # <<>> /\ OpenAfter(i + 1)[1] = i + 1
        BY <2>2, <3>1, <3>2, <3>3, TailOf
      <4>2. OpenSet(i + 1) = {i + 1} \cup OpenSet((i + 1) - 1)
        <5>1. PICK n2 : n2 = i + 1
          OBVIOUS
        <5>2. n2 \in Nat /\ OpenAfter(n2) # <<>> /\ OpenAfter(n2)[1] = n2
          BY <2>2, <4>1, <5>1
        <5>3. OpenSet(n2) = {n2} \cup OpenSet(n2 - 1)
          BY <5>2, OpenSetIs
        <5> QED
          BY <5>1, <5>3
      <4>3. (i + 1) - 1 = i /\ j # i + 1
        BY <1>1, <2>2
      <4> QED
        BY <2>3, <4>2, <4>3
    <3>4. CASE OpenAfter(i) # <<>> /\ OpenAfter(i + 1) = Tail(OpenAfter(i))
      <4>1. PICK l \in 1 .. Len(Tail(o)) : j = Tail(o)[l]
        BY <2>3, <3>1, <3>4 DEF OpenSet, SetOf
      <4>2. l + 1 \in 1 .. Len(o) /\ Tail(o)[l] = o[l + 1]
        BY <3>1, <3>2, <3>4, <4>1
      <4> QED
        BY <3>1, <4>1, <4>2 DEF OpenSet, SetOf
    <3>5. CASE ~Opens(i + 1) /\ OpenAfter(i + 1) = OpenAfter(i)
      BY <2>3, <3>5 DEF OpenSet
    <3> QED
      BY <2>2, <3>3, <3>4, <3>5, NestingStep
  <2> QED
    BY <1>3, <2>1, <2>2, <2>3
<1> HIDE DEF S
<1>4. \A k \in Nat : k \in S
  BY <1>2, <1>3, SetInduction
<1>5. n - m \in Nat /\ m + (n - m) = n
  OBVIOUS
<1> QED
  BY <1>4, <1>5 DEF S

----------------------------------------------------------------------------
\* What that says of nodes inside one another.

\* A child is inside its parent, and what else it is inside of its parent is
\* inside of.
LEMMA ChildIs ==
    ASSUME NEW c \in Nat \ {0}, NEW t, Child(c, t)
    PROVE  /\ t \in 1 .. c - 1 /\ Opens(t) /\ Inside(c, t)
           /\ \A r : Inside(c, r) <=> r = t \/ Inside(t, r)
<1>1. c - 1 \in Nat /\ OpenAfter(c - 1) # <<>> /\ t = OpenAfter(c - 1)[1]
  BY DEF Child, Outside
<1>2. t \in 1 .. c - 1 /\ Opens(t) /\ OpenSet(c - 1) = {t} \cup OpenSet(t - 1)
  BY <1>1, OpenSetIs
<1> QED
  BY <1>2 DEF Inside, OpenSet, Outside
----------------------------------------------------------------------------
\* The lists of the tree, as the tokens order them: the last child that was
\* read is the first of its parent, and so with the properties.

\* A property that has an owner.
Owned(y) == blob.tokens[y].kind = "PROP" /\ OpenAfter(y) # <<>>

\* The nodes and the properties of the first m tokens, and those of a node t.
NodesTo(m) == {k \in 1 .. m : Opens(k)}
OwnedTo(m) == {y \in 1 .. m : Owned(y)}
Kids(t, m) == {k \in 1 .. m : Opens(k) /\ Child(k, t)}
Props(t, m) == {y \in 1 .. m : Owned(y) /\ Owner(y) = t}

\* The children of its parent that a node follows.
Elder(k) == IF Outside(k) = <<>> THEN {} ELSE Kids(Outside(k)[1], k - 1)

\* The pointer p leads to the last of S, where f has the pointers to tokens.
Leads(p, f, S) ==
    \/ S = {} /\ p = NULL
    \/ \E x \in S : (\A y \in S : y <= x) /\ p = f[x]

First == [buffer |-> 1, index |-> 1]

\* N has the pointers to the nodes, the first of them at First, and W those to
\* the properties, to the copies the lists are made of.
NodesAt(m, N) ==
    /\ \A k \in NodesTo(m) :
          /\ N[k] \in Pointers /\ PointsInto(nodes, N[k]) /\ Deref(nodes, N[k]).token = k
          /\ (\A j \in NodesTo(m) : k <= j) => N[k] = First
    /\ \A q \in Elements : \E k \in NodesTo(m) : q = N[k]

PropertiesAt(m, W) ==
    \A y \in OwnedTo(m) :
        W[y] \in Pointers /\ PointsInto(properties, W[y]) /\ Deref(properties, W[y]).token = y

NodeLeads(m, N, W, k) ==
    LET n == Deref(nodes, N[k])
    IN  /\ n.parent = IF Outside(k) = <<>> THEN NULL ELSE N[Outside(k)[1]]
        /\ Leads(n.children, N, Kids(k, m))
        /\ Leads(n.next_sibling, N, Elder(k))
        /\ Leads(n.properties, W, Props(k, m))

\* The lists are those of the blob.
Shape(m, N, W) ==
    /\ NodesAt(m, N) /\ PropertiesAt(m, W)
    /\ \A k \in NodesTo(m) : NodeLeads(m, N, W, k)
    /\ \A y \in OwnedTo(m) :
          Leads(Deref(properties, W[y]).next_property, W, Props(Owner(y), y - 1))

\* What is said of the tokens stays true.
LEMMA BlobStays ==
    ASSUME UNCHANGED blob
    PROVE  /\ \A k : OpenAfter(k)' = OpenAfter(k) /\ Outside(k)' = Outside(k)
                     /\ Opens(k)' = Opens(k) /\ Owned(k)' = Owned(k) /\ Owner(k)' = Owner(k)
                     /\ Elder(k)' = Elder(k)
                     /\ NodesTo(k)' = NodesTo(k) /\ OwnedTo(k)' = OwnedTo(k)
           /\ \A k, t : Child(k, t)' = Child(k, t)
                        /\ Kids(k, t)' = Kids(k, t) /\ Props(k, t)' = Props(k, t)
           /\ Kinds("BEGIN_NODE")' = Kinds("BEGIN_NODE") /\ FirstRoot' = FirstRoot
           /\ \A k : InTree(k)' = InTree(k)
<1>1. \A k : OpenAfter(k)' = OpenAfter(k)
  BY DEF OpenAfter
<1>2. \A k : Outside(k)' = Outside(k) /\ Opens(k)' = Opens(k) /\ Owned(k)' = Owned(k)
             /\ Owner(k)' = Owner(k)
  BY <1>1 DEF Outside, Opens, Owned, Owner
<1>3. \A k : NodesTo(k)' = NodesTo(k) /\ OwnedTo(k)' = OwnedTo(k)
  BY <1>2 DEF NodesTo, OwnedTo
<1>4. \A k, t : Child(k, t)' = Child(k, t)
  BY <1>2 DEF Child
<1>5. \A k, t : Kids(k, t)' = Kids(k, t)
  BY <1>2, <1>4 DEF Kids
<1>6. \A k, t : Props(k, t)' = Props(k, t)
  BY <1>2 DEF Props
<1>7. \A k : Elder(k)' = Elder(k)
  BY <1>2, <1>5 DEF Elder
<1>8. Kinds("BEGIN_NODE")' = Kinds("BEGIN_NODE")
  BY DEF Kinds, Tokens
<1>9. FirstRoot' = FirstRoot
  BY <1>8 DEF FirstRoot
<1>10. \A k : InTree(k)' = InTree(k)
  BY <1>2, <1>9 DEF InTree
<1> QED
  BY <1>1, <1>2, <1>3, <1>4, <1>5, <1>6, <1>7, <1>8, <1>9, <1>10

\* A step that leaves the lists alone, whatever token it reads.
LEMMA ShapeKept ==
    ASSUME NEW m \in Nat, NEW n, NEW N, NEW W, Shape(m, N, W), NodesSame, PropertiesSame,
           UNCHANGED blob, n = m \/ (n = m + 1 /\ ~Opens(m + 1) /\ ~Owned(m + 1))
    PROVE  Shape(n, N, W)'
<1>1. /\ NodesTo(n) = NodesTo(m) /\ OwnedTo(n) = OwnedTo(m)
      /\ \A t : Kids(t, n) = Kids(t, m) /\ Props(t, n) = Props(t, m)
  <2>1. CASE n = m
    BY <2>1
  <2>2. CASE n = m + 1 /\ ~Opens(m + 1) /\ ~Owned(m + 1)
    <3>1. 1 .. m + 1 = (1 .. m) \cup {m + 1}
      OBVIOUS
    <3> QED
      BY <2>2, <3>1 DEF NodesTo, OwnedTo, Kids, Props
  <2> QED
    BY <2>1, <2>2
<1>2. /\ \A q : PointsInto(nodes', q) <=> PointsInto(nodes, q)
      /\ Elements' = Elements
      /\ \A q : PointsInto(nodes, q) =>
            /\ Deref(nodes', q).token = Deref(nodes, q).token
            /\ Deref(nodes', q).parent = Deref(nodes, q).parent
            /\ Deref(nodes', q).next_sibling = Deref(nodes, q).next_sibling
            /\ Deref(nodes', q).children = Deref(nodes, q).children
            /\ Deref(nodes', q).properties = Deref(nodes, q).properties
  BY DEF NodesSame, SameShape, SameLinks, Elements
<1>3. NodesAt(m, N) /\ PropertiesAt(m, W)
  BY DEF Shape
<1>4. NodesAt(n, N)'
  BY <1>1, <1>2, <1>3, BlobStays DEF NodesAt
<1>5. PropertiesAt(n, W)'
  BY <1>1, <1>3, BlobStays DEF PropertiesAt, PropertiesSame, SameShape
<1>6. ASSUME NEW k \in NodesTo(m) PROVE NodeLeads(n, N, W, k)'
  <2>1. NodeLeads(m, N, W, k) /\ PointsInto(nodes, N[k])
    BY <1>3 DEF Shape, NodesAt
  <2> QED
    BY <1>1, <1>2, <2>1, BlobStays DEF NodeLeads, Leads
<1>7. ASSUME NEW y \in OwnedTo(m)
      PROVE  Leads(Deref(properties', W[y]).next_property, W, Props(Owner(y), y - 1))
  <2>1. PointsInto(properties, W[y])
    BY <1>3 DEF PropertiesAt
  <2>2. Deref(properties', W[y]).next_property = Deref(properties, W[y]).next_property
    BY <2>1 DEF PropertiesSame
  <2> QED
    BY <2>2 DEF Shape
<1> QED
  BY <1>1, <1>4, <1>5, <1>6, <1>7, BlobStays DEF Shape

\* A list stays where its pointers do, and one that a new token is put in
\* front of starts there.
LEMMA LeadsFurther ==
    ASSUME NEW p, NEW f, NEW g, NEW S, Leads(p, f, S), \A x \in S : g[x] = f[x]
    PROVE  Leads(p, g, S)
BY DEF Leads

LEMMA LeadsToNew ==
    ASSUME NEW m \in Nat, NEW f, NEW S, S \subseteq 1 .. m
    PROVE  Leads(f[m + 1], f, S \cup {m + 1})
<1>1. \A y \in S \cup {m + 1} : y <= m + 1
  OBVIOUS
<1> QED
  BY <1>1 DEF Leads

\* The current node is the innermost open one.
Current(m, N) == current = IF OpenAfter(m) = <<>> THEN NULL ELSE N[OpenAfter(m)[1]]

\* The innermost open node, the parent of a node and the owner of a property
\* come before.
LEMMA InnermostEarlier ==
    ASSUME NEW m \in Nat, OpenAfter(m) # <<>>
    PROVE  OpenAfter(m)[1] \in NodesTo(m)
BY OpenSetIs DEF NodesTo

LEMMA ParentEarlier ==
    ASSUME NEW m \in Nat, NEW k \in NodesTo(m), Outside(k) # <<>>
    PROVE  Outside(k)[1] \in NodesTo(m) /\ Outside(k)[1] < k
<1>1. k - 1 \in Nat /\ k - 1 < m /\ k \in Nat
  BY DEF NodesTo
<1>2. Outside(k)[1] \in 1 .. k - 1 /\ Opens(Outside(k)[1])
  <2>1. PICK j : j = k - 1
    OBVIOUS
  <2>2. OpenAfter(j)[1] \in NodesTo(j)
    BY <1>1, <2>1, InnermostEarlier DEF Outside
  <2> QED
    BY <2>1, <2>2 DEF Outside, NodesTo
<1> QED
  BY <1>1, <1>2 DEF NodesTo

LEMMA OwnerEarlier ==
    ASSUME NEW m \in Nat, NEW y \in OwnedTo(m)
    PROVE  y \in 1 .. m /\ Owner(y) \in NodesTo(m) /\ Owner(y) < y
<1>1. y \in 1 .. m /\ y \in Nat /\ OpenAfter(y) # <<>> /\ blob.tokens[y].kind = "PROP"
  BY DEF OwnedTo, Owned
<1>2. OpenAfter(y)[1] \in NodesTo(y)
  BY <1>1, InnermostEarlier
<1>3. Owner(y) \in 1 .. y /\ Opens(Owner(y)) /\ ~Opens(y)
  BY <1>1, <1>2 DEF NodesTo, Owner, Opens
<1>4. Owner(y) # y
  BY <1>3
<1> QED
  BY <1>1, <1>3, <1>4 DEF NodesTo

\* What a token that opens a node adds.
LEMMA NewNodeSets ==
    ASSUME NEW m \in Nat, Opens(m + 1)
    PROVE  /\ NodesTo(m + 1) = NodesTo(m) \cup {m + 1} /\ m + 1 \notin NodesTo(m)
           /\ OwnedTo(m + 1) = OwnedTo(m)
           /\ \A t : /\ Props(t, m + 1) = Props(t, m)
                     /\ Child(m + 1, t) => Kids(t, m + 1) = Kids(t, m) \cup {m + 1}
                     /\ ~Child(m + 1, t) => Kids(t, m + 1) = Kids(t, m)
                     /\ Kids(t, m) \subseteq NodesTo(m) /\ Props(t, m) \subseteq OwnedTo(m)
           /\ Kids(m + 1, m + 1) = {} /\ Props(m + 1, m + 1) = {}
           /\ Outside(m + 1) = OpenAfter(m)
<1>1. 1 .. m + 1 = (1 .. m) \cup {m + 1} /\ m + 1 \notin 1 .. m
  OBVIOUS
<1>2. ~Owned(m + 1) /\ blob.tokens[m + 1].kind # "PROP"
  BY DEF Owned, Opens
<1>3. /\ NodesTo(m + 1) = NodesTo(m) \cup {m + 1} /\ m + 1 \notin NodesTo(m)
      /\ OwnedTo(m + 1) = OwnedTo(m)
      /\ \A t : /\ Props(t, m + 1) = Props(t, m)
                /\ Child(m + 1, t) => Kids(t, m + 1) = Kids(t, m) \cup {m + 1}
                /\ ~Child(m + 1, t) => Kids(t, m + 1) = Kids(t, m)
                /\ Kids(t, m) \subseteq NodesTo(m) /\ Props(t, m) \subseteq OwnedTo(m)
  BY <1>1, <1>2 DEF NodesTo, OwnedTo, Props, Kids
<1>4. Kids(m + 1, m + 1) = {}
  <2>1. ASSUME NEW c \in Kids(m + 1, m + 1) PROVE FALSE
    <3>1. c \in 1 .. m + 1 /\ Child(c, m + 1)
      BY <2>1 DEF Kids
    <3>2. PICK t : t = m + 1
      OBVIOUS
    <3>3. t \in 1 .. c - 1
      BY <3>1, <3>2, ChildIs
    <3> QED
      BY <3>1, <3>2, <3>3
  <2> QED
    BY <2>1
<1>5. Props(m + 1, m + 1) = {}
  <2>1. ASSUME NEW y \in Props(m + 1, m + 1) PROVE FALSE
    <3>1. y \in OwnedTo(m + 1) /\ Owner(y) = m + 1 /\ m + 1 \in Nat
      BY <2>1 DEF Props, OwnedTo
    <3>2. PICK n : n = m + 1
      OBVIOUS
    <3>3. y \in 1 .. n /\ Owner(y) < y
      BY <3>1, <3>2, OwnerEarlier
    <3> QED
      BY <3>1, <3>2, <3>3
  <2> QED
    BY <2>1
<1>6. Outside(m + 1) = OpenAfter(m)
  <2>1. (m + 1) - 1 = m
    OBVIOUS
  <2> QED
    BY <2>1 DEF Outside
<1> QED
  BY <1>3, <1>4, <1>5, <1>6

\* parse_node makes the lists of one token more.
LEMMA ShapeOpened ==
    ASSUME NEW m \in Nat, NEW N, NEW W, Shape(m, N, W), Current(m, N), Opens(m + 1),
           NEW p, Entered(p, m + 1), PropertiesSame, UNCHANGED blob,
           Elements' = Elements \cup {p}, p \notin Elements, Elements = {} => p = First,
           NEW M, M = [k \in NodesTo(m + 1) |-> IF k = m + 1 THEN p ELSE N[k]]
    PROVE  Shape(m + 1, M, W)' /\ Current(m + 1, M)'
<1>1. PICK n : n = m + 1
  OBVIOUS
<1>2. /\ NodesTo(n) = NodesTo(m) \cup {n} /\ n \notin NodesTo(m) /\ OwnedTo(n) = OwnedTo(m)
      /\ \A t : /\ Props(t, n) = Props(t, m)
                /\ Child(n, t) => Kids(t, n) = Kids(t, m) \cup {n}
                /\ ~Child(n, t) => Kids(t, n) = Kids(t, m)
                /\ Kids(t, m) \subseteq NodesTo(m) /\ Props(t, m) \subseteq OwnedTo(m)
      /\ Kids(n, n) = {} /\ Props(n, n) = {} /\ Outside(n) = OpenAfter(m) /\ Opens(n)
  BY <1>1, NewNodeSets
<1>3. M[n] = p /\ \A k \in NodesTo(m) : M[k] = N[k]
  BY <1>1, <1>2
<1>4. /\ NodesAt(m, N) /\ PropertiesAt(m, W)
      /\ \A k \in NodesTo(m) : NodeLeads(m, N, W, k)
      /\ \A y \in OwnedTo(m) :
          Leads(Deref(properties, W[y]).next_property, W, Props(Owner(y), y - 1))
  BY DEF Shape
<1>5. /\ p \in Pointers /\ PointsInto(nodes', p) /\ current' = p
      /\ Deref(nodes', p).token = n /\ Deref(nodes', p).parent = current
      /\ Deref(nodes', p).children = NULL /\ Deref(nodes', p).properties = NULL
      /\ Deref(nodes', p).next_sibling =
            IF current = NULL THEN NULL ELSE Deref(nodes, current).children
  BY <1>1 DEF Entered
<1>6. \A q : PointsInto(nodes, q) =>
         /\ PointsInto(nodes', q)
         /\ Deref(nodes', q).token = Deref(nodes, q).token
         /\ Deref(nodes', q).parent = Deref(nodes, q).parent
         /\ Deref(nodes', q).next_sibling = Deref(nodes, q).next_sibling
         /\ Deref(nodes', q).properties = Deref(nodes, q).properties
         /\ Deref(nodes', q).children = IF current # NULL /\ Same(q, current) THEN p
                                        ELSE Deref(nodes, q).children
  BY DEF Entered, SameLinks
<1>7. /\ \A k \in NodesTo(m) : N[k] \in Pointers /\ PointsInto(nodes, N[k])
                               /\ Deref(nodes, N[k]).token = k /\ N[k] # NULL
      /\ \A q \in Elements : \E k \in NodesTo(m) : q = N[k]
      /\ \A k \in NodesTo(m) : (\A j \in NodesTo(m) : k <= j) => N[k] = First
  <2>1. \A q : PointsInto(nodes, q) => q # NULL
    BY DEF PointsInto, NULL
  <2> QED
    BY <1>4, <2>1 DEF NodesAt
<1>8. NodesAt(n, M)'
  <2>1. ASSUME NEW k \in NodesTo(n)
        PROVE  /\ M[k] \in Pointers /\ PointsInto(nodes', M[k]) /\ Deref(nodes', M[k]).token = k
               /\ (\A j \in NodesTo(n) : k <= j) => M[k] = First
    <3>1. CASE k = n
      <4>1. (\A j \in NodesTo(n) : n <= j) => NodesTo(m) = {}
        <5>1. \A j \in NodesTo(m) : ~(n <= j)
          BY <1>1 DEF NodesTo
        <5> QED
          BY <1>2, <5>1
      <4>2. NodesTo(m) = {} => Elements = {}
        BY <1>7
      <4> QED
        BY <1>3, <1>5, <3>1, <4>1, <4>2
    <3>2. CASE k \in NodesTo(m)
      <4>1. PICK q : q = N[k] /\ q = M[k]
        BY <1>3, <3>2
      <4>2. q \in Pointers /\ PointsInto(nodes', q) /\ Deref(nodes', q).token = k
        BY <1>6, <1>7, <3>2, <4>1, ZenonT(60)
      <4>3. (\A j \in NodesTo(n) : k <= j) => q = First
        BY <1>2, <1>7, <3>2, <4>1
      <4> QED
        BY <4>1, <4>2, <4>3
    <3> QED
      BY <1>2, <2>1, <3>1, <3>2
  <2>2. \A q \in Elements' : \E k \in NodesTo(n) : q = M[k]
    BY <1>2, <1>3, <1>7, SMTT(60)
  <2> QED
    BY <2>1, <2>2, BlobStays DEF NodesAt
<1>9. PropertiesAt(n, W)'
  BY <1>2, <1>4, BlobStays DEF PropertiesAt, PropertiesSame, SameShape
<1>10. \A k \in NodesTo(m) : Outside(k) # <<>> =>
          /\ Outside(k)[1] \in NodesTo(m) /\ Elder(k) \subseteq NodesTo(m)
  <2>1. ASSUME NEW k \in NodesTo(m), Outside(k) # <<>>
        PROVE  Outside(k)[1] \in NodesTo(m) /\ Elder(k) \subseteq NodesTo(m)
    <3>1. 1 .. k - 1 \subseteq 1 .. m
      BY DEF NodesTo
    <3>2. Elder(k) \subseteq NodesTo(m)
      BY <2>1, <3>1 DEF Elder, Kids, NodesTo
    <3> QED
      BY <2>1, <3>2, ParentEarlier
  <2> QED
    BY <2>1
<1>11. \A k \in NodesTo(m) : Elder(k) \subseteq NodesTo(m)
  BY <1>10 DEF Elder
<1>12. OpenAfter(m) # <<>> => OpenAfter(m)[1] \in NodesTo(m)
  BY InnermostEarlier
<1>13. ASSUME NEW k \in NodesTo(n)
       PROVE  /\ Deref(nodes', M[k]).parent = IF Outside(k) = <<>> THEN NULL ELSE M[Outside(k)[1]]
              /\ Leads(Deref(nodes', M[k]).children, M, Kids(k, n))
              /\ Leads(Deref(nodes', M[k]).next_sibling, M, Elder(k))
              /\ Leads(Deref(nodes', M[k]).properties, W, Props(k, n))
  <2>1. CASE k = n
    <3>1. Deref(nodes', p).parent = IF Outside(k) = <<>> THEN NULL ELSE M[Outside(k)[1]]
      BY <1>2, <1>3, <1>5, <1>12, <2>1 DEF Current
    <3>2. Leads(Deref(nodes', p).next_sibling, M, Elder(k))
      <4>1. CASE OpenAfter(m) = <<>>
        BY <1>2, <1>5, <2>1, <4>1 DEF Current, Leads, Elder
      <4>2. CASE OpenAfter(m) # <<>>
        <5>1. PICK h \in NodesTo(m) : h = OpenAfter(m)[1] /\ current = N[h] /\ current # NULL
          BY <1>7, <1>12, <4>2 DEF Current
        <5>2. Leads(Deref(nodes, N[h]).children, N, Kids(h, m))
          BY <1>4 DEF NodeLeads
        <5>3. Leads(Deref(nodes, N[h]).children, M, Kids(h, m))
          BY <1>2, <1>3, <5>2, LeadsFurther
        <5>4. Elder(k) = Kids(h, m)
          <6>1. n - 1 = m
            BY <1>1
          <6> QED
            BY <1>2, <2>1, <4>2, <5>1, <6>1 DEF Elder
        <5> QED
          BY <1>5, <5>1, <5>3, <5>4
      <4> QED
        BY <4>1, <4>2
    <3> QED
      BY <1>2, <1>3, <1>5, <2>1, <3>1, <3>2 DEF Leads
  <2>2. CASE k \in NodesTo(m)
    <3>1. PICK q : q = N[k] /\ q = M[k] /\ PointsInto(nodes, q) /\ Deref(nodes, q).token = k
      BY <1>3, <1>7, <2>2
    <3>2. /\ Deref(nodes, q).parent = IF Outside(k) = <<>> THEN NULL ELSE N[Outside(k)[1]]
          /\ Leads(Deref(nodes, q).children, N, Kids(k, m))
          /\ Leads(Deref(nodes, q).next_sibling, N, Elder(k))
          /\ Leads(Deref(nodes, q).properties, W, Props(k, m))
      BY <1>4, <2>2, <3>1 DEF NodeLeads
    <3>3. Deref(nodes', q).parent = IF Outside(k) = <<>> THEN NULL ELSE M[Outside(k)[1]]
      BY <1>3, <1>6, <1>10, <2>2, <3>1, <3>2
    <3>4. Leads(Deref(nodes', q).next_sibling, M, Elder(k))
      BY <1>3, <1>6, <1>11, <2>2, <3>1, <3>2, LeadsFurther
    <3>5. Leads(Deref(nodes', q).properties, W, Props(k, n))
      BY <1>2, <1>6, <3>1, <3>2
    <3>6. Leads(Deref(nodes', q).children, M, Kids(k, n))
      <4>1. CASE Child(n, k)
        <5>1. OpenAfter(m) # <<>> /\ OpenAfter(m)[1] = k
          BY <1>2, <4>1 DEF Child
        <5>2. current = q /\ current # NULL
          BY <1>7, <2>2, <3>1, <5>1 DEF Current
        <5>3. Deref(nodes', q).children = M[n]
          BY <1>3, <1>6, <3>1, <5>2 DEF Same
        <5>4. Kids(k, m) \subseteq 1 .. m
          BY DEF Kids
        <5>5. Leads(M[m + 1], M, Kids(k, m) \cup {m + 1})
          BY <5>4, LeadsToNew
        <5> QED
          BY <1>1, <1>2, <4>1, <5>3, <5>5
      <4>2. CASE ~Child(n, k)
        <5>1. ~(current # NULL /\ Same(q, current))
          <6>1. SUFFICES ASSUME current # NULL, Same(q, current) PROVE FALSE
            OBVIOUS
          <6>2. OpenAfter(m) # <<>> /\ OpenAfter(m)[1] \in NodesTo(m)
                /\ current = N[OpenAfter(m)[1]]
            BY <1>12, <6>1 DEF Current
          <6>3. Deref(nodes, current).token = OpenAfter(m)[1]
            BY <1>7, <6>2
          <6>4. Deref(nodes, current) = Deref(nodes, q)
            BY <6>1 DEF Deref, Same
          <6>5. OpenAfter(m)[1] = k
            BY <3>1, <6>3, <6>4
          <6> QED
            BY <1>2, <4>2, <6>2, <6>5 DEF Child
        <5>2. Deref(nodes', q).children = Deref(nodes, q).children
          BY <1>6, <3>1, <5>1
        <5>3. Leads(Deref(nodes, q).children, M, Kids(k, m))
          BY <1>2, <1>3, <3>2, LeadsFurther
        <5> QED
          BY <1>2, <4>2, <5>2, <5>3
      <4> QED
        BY <4>1, <4>2
    <3> QED
      BY <3>1, <3>3, <3>4, <3>5, <3>6
  <2> QED
    BY <1>2, <1>13, <2>1, <2>2, SMTT(60)
<1>14. \A k \in NodesTo(n) : NodeLeads(n, M, W, k)'
  BY <1>13, BlobStays, SMTT(60) DEF NodeLeads, Leads
<1>15. ASSUME NEW y \in OwnedTo(m)
       PROVE  Leads(Deref(properties', W[y]).next_property, W, Props(Owner(y), y - 1))
  <2>1. PointsInto(properties, W[y])
    BY <1>4 DEF PropertiesAt
  <2>2. Deref(properties', W[y]).next_property = Deref(properties, W[y]).next_property
    BY <2>1 DEF PropertiesSame
  <2> QED
    BY <1>4, <2>2
<1>16. Shape(n, M, W)'
  BY <1>2, <1>8, <1>9, <1>14, <1>15, BlobStays DEF Shape
<1>17. Current(n, M)'
  <2>1. OpenAfter(n)' # <<>> /\ OpenAfter(n)'[1] = n
    <3>1. PICK o : o = OpenAfter(m)
      OBVIOUS
    <3>2. o \in Seq(Nat)
      BY <3>1, Nesting DEF NestingIs
    <3>3. OpenAfter(n) = <<n>> \o o /\ n \in Nat
      <4>1. OpenAfter(m + 1) = Past(OpenAfter(m), m + 1) /\ m + 1 # 0
        BY OpenStep
      <4> QED
        BY <1>1, <3>1, <4>1 DEF Past, Opens
    <3> QED
      BY <3>2, <3>3, TailOf, BlobStays
  <2> QED
    BY <1>3, <1>5, <2>1 DEF Current
<1> QED
  BY <1>1, <1>16, <1>17

\* What a token of a property adds.
LEMMA NewPropertySets ==
    ASSUME NEW m \in Nat, blob.tokens[m + 1].kind = "PROP", OpenAfter(m + 1) = OpenAfter(m),
           OpenAfter(m) # <<>>
    PROVE  /\ NodesTo(m + 1) = NodesTo(m)
           /\ OwnedTo(m + 1) = OwnedTo(m) \cup {m + 1} /\ m + 1 \notin OwnedTo(m)
           /\ Owner(m + 1) = OpenAfter(m)[1]
           /\ \A t : /\ Kids(t, m + 1) = Kids(t, m)
                     /\ t = OpenAfter(m)[1] => Props(t, m + 1) = Props(t, m) \cup {m + 1}
                     /\ t # OpenAfter(m)[1] => Props(t, m + 1) = Props(t, m)
                     /\ Props(t, m) \subseteq OwnedTo(m)
<1>1. 1 .. m + 1 = (1 .. m) \cup {m + 1} /\ m + 1 \notin 1 .. m
  OBVIOUS
<1>2. Owned(m + 1) /\ ~Opens(m + 1) /\ Owner(m + 1) = OpenAfter(m)[1]
  BY DEF Owned, Opens, Owner
<1>3. NodesTo(m + 1) = NodesTo(m) /\ OwnedTo(m + 1) = OwnedTo(m) \cup {m + 1}
      /\ m + 1 \notin OwnedTo(m)
  BY <1>1, <1>2 DEF NodesTo, OwnedTo
<1>4. ASSUME NEW t
      PROVE  /\ Kids(t, m + 1) = Kids(t, m) /\ Props(t, m) \subseteq OwnedTo(m)
             /\ t = OpenAfter(m)[1] => Props(t, m + 1) = Props(t, m) \cup {m + 1}
             /\ t # OpenAfter(m)[1] => Props(t, m + 1) = Props(t, m)
  BY <1>1, <1>2 DEF Kids, Props, OwnedTo
<1> QED
  BY <1>2, <1>3, <1>4

\* pre_parse_property makes the lists of one token more.
LEMMA ShapeAttached ==
    ASSUME NEW m \in Nat, NEW N, NEW W, Shape(m, N, W), Current(m, N), current # NULL,
           blob.tokens[m + 1].kind = "PROP", OpenAfter(m + 1) = OpenAfter(m),
           NEW p, Attached(p, m + 1), UNCHANGED blob,
           NEW V, V = [y \in OwnedTo(m + 1) |-> IF y = m + 1 THEN p ELSE W[y]]
    PROVE  Shape(m + 1, N, V)'
<1>1. PICK n : n = m + 1
  OBVIOUS
<1>2. OpenAfter(m) # <<>> /\ current = N[OpenAfter(m)[1]]
  BY DEF Current
<1>3. PICK h : h = OpenAfter(m)[1]
  OBVIOUS
<1>4. /\ NodesTo(n) = NodesTo(m) /\ OwnedTo(n) = OwnedTo(m) \cup {n} /\ n \notin OwnedTo(m)
      /\ Owner(n) = h
      /\ \A t : /\ Kids(t, n) = Kids(t, m)
                /\ t = h => Props(t, n) = Props(t, m) \cup {n}
                /\ t # h => Props(t, n) = Props(t, m)
                /\ Props(t, m) \subseteq OwnedTo(m)
  BY <1>1, <1>2, <1>3, NewPropertySets
<1>5. h \in NodesTo(m) /\ current = N[h]
  BY <1>2, <1>3, InnermostEarlier
<1>6. V[n] = p /\ \A y \in OwnedTo(m) : V[y] = W[y]
  BY <1>1, <1>4
<1>7. /\ NodesAt(m, N) /\ PropertiesAt(m, W)
      /\ \A k \in NodesTo(m) : NodeLeads(m, N, W, k)
      /\ \A y \in OwnedTo(m) :
          Leads(Deref(properties, W[y]).next_property, W, Props(Owner(y), y - 1))
  BY DEF Shape
<1>8. /\ p \in Pointers /\ PointsInto(properties', p) /\ Deref(properties', p).token = n
      /\ Deref(properties', p).next_property = Deref(nodes, N[h]).properties
      /\ \A q : PointsInto(properties, q) =>
            PointsInto(properties', q) /\ Deref(properties', q) = Deref(properties, q)
  BY <1>1, <1>5 DEF Attached
<1>9. /\ \A q : PointsInto(nodes', q) <=> PointsInto(nodes, q)
      /\ Elements' = Elements
      /\ \A q : PointsInto(nodes, q) =>
         /\ Deref(nodes', q).token = Deref(nodes, q).token
         /\ Deref(nodes', q).parent = Deref(nodes, q).parent
         /\ Deref(nodes', q).next_sibling = Deref(nodes, q).next_sibling
         /\ Deref(nodes', q).children = Deref(nodes, q).children
         /\ Deref(nodes', q).properties = IF Same(q, N[h]) THEN p ELSE Deref(nodes, q).properties
  BY <1>5 DEF Attached, SameShape, SameLinks, Elements
<1>10. \A k \in NodesTo(m) : PointsInto(nodes, N[k]) /\ Deref(nodes, N[k]).token = k
  BY <1>7 DEF NodesAt
<1>11. NodesAt(n, N)'
  BY <1>4, <1>7, <1>9, BlobStays DEF NodesAt
<1>12. PropertiesAt(n, V)'
  <2>1. ASSUME NEW y \in OwnedTo(n)
        PROVE  V[y] \in Pointers /\ PointsInto(properties', V[y])
               /\ Deref(properties', V[y]).token = y
    BY <1>4, <1>6, <1>7, <1>8, <2>1 DEF PropertiesAt
  <2> QED
    BY <2>1, BlobStays DEF PropertiesAt
<1>13. ASSUME NEW k \in NodesTo(m)
       PROVE  /\ Deref(nodes', N[k]).parent = IF Outside(k) = <<>> THEN NULL ELSE N[Outside(k)[1]]
              /\ Leads(Deref(nodes', N[k]).children, N, Kids(k, n))
              /\ Leads(Deref(nodes', N[k]).next_sibling, N, Elder(k))
              /\ Leads(Deref(nodes', N[k]).properties, V, Props(k, n))
  <2>1. PICK q : q = N[k] /\ PointsInto(nodes, q) /\ Deref(nodes, q).token = k
    BY <1>10
  <2>2. /\ Deref(nodes, q).parent = IF Outside(k) = <<>> THEN NULL ELSE N[Outside(k)[1]]
        /\ Leads(Deref(nodes, q).children, N, Kids(k, m))
        /\ Leads(Deref(nodes, q).next_sibling, N, Elder(k))
        /\ Leads(Deref(nodes, q).properties, W, Props(k, m))
    BY <1>7, <2>1 DEF NodeLeads
  <2>3. Leads(Deref(nodes', q).properties, V, Props(k, n))
    <3>1. CASE k = h
      <4>1. Deref(nodes', q).properties = V[n]
        BY <1>6, <1>9, <2>1, <3>1 DEF Same
      <4>2. Props(k, m) \subseteq 1 .. m
        BY DEF Props
      <4>3. Leads(V[m + 1], V, Props(k, m) \cup {m + 1})
        BY <4>2, LeadsToNew
      <4> QED
        BY <1>1, <1>4, <3>1, <4>1, <4>3
    <3>2. CASE k # h
      <4>1. ~Same(q, N[h])
        <5>1. Same(q, N[h]) => Deref(nodes, q) = Deref(nodes, N[h])
          BY DEF Deref, Same
        <5>2. Deref(nodes, N[h]).token = h
          BY <1>5, <1>10
        <5> QED
          BY <2>1, <3>2, <5>1, <5>2
      <4>2. Deref(nodes', q).properties = Deref(nodes, q).properties
        BY <1>9, <2>1, <4>1
      <4>3. Leads(Deref(nodes, q).properties, V, Props(k, m))
        BY <1>4, <1>6, <2>2, LeadsFurther
      <4> QED
        BY <1>4, <3>2, <4>2, <4>3
    <3> QED
      BY <3>1, <3>2
  <2> QED
    BY <1>4, <1>9, <2>1, <2>2, <2>3
<1>14. \A k \in NodesTo(m) : NodeLeads(n, N, V, k)'
  BY <1>13, BlobStays DEF NodeLeads, Leads
<1>15. ASSUME NEW y \in OwnedTo(n)
       PROVE  Leads(Deref(properties', V[y]).next_property, V, Props(Owner(y), y - 1))
  <2>1. CASE y = n
    <3>1. Leads(Deref(nodes, N[h]).properties, W, Props(h, m))
      BY <1>5, <1>7 DEF NodeLeads
    <3>2. Leads(Deref(nodes, N[h]).properties, V, Props(h, m))
      BY <1>4, <1>6, <3>1, LeadsFurther
    <3>3. n - 1 = m
      BY <1>1
    <3> QED
      BY <1>4, <1>6, <1>8, <2>1, <3>2, <3>3
  <2>2. CASE y \in OwnedTo(m)
    <3>1. PICK q : q = W[y] /\ q = V[y] /\ PointsInto(properties, q)
      BY <1>6, <1>7, <2>2 DEF PropertiesAt
    <3>2. Leads(Deref(properties, q).next_property, W, Props(Owner(y), y - 1))
      BY <1>7, <2>2, <3>1
    <3>3. Props(Owner(y), y - 1) \subseteq OwnedTo(m)
      <4>1. 1 .. y - 1 \subseteq 1 .. m
        BY <2>2 DEF OwnedTo
      <4> QED
        BY <4>1 DEF Props, OwnedTo
    <3>4. Leads(Deref(properties, q).next_property, V, Props(Owner(y), y - 1))
      BY <1>6, <3>2, <3>3, LeadsFurther
    <3> QED
      BY <1>8, <3>1, <3>4
  <2> QED
    BY <1>4, <2>1, <2>2
<1>16. Shape(n, N, V)'
  BY <1>4, <1>11, <1>12, <1>14, <1>15, BlobStays DEF Shape
<1> QED
  BY <1>1, <1>16
----------------------------------------------------------------------------
\* What the names and the nesting of the tokens say of the rewrite.

ArrayNames == {"reg", "ranges", "bus-ranges"}
CellNames == {"#address-cells", "#size-cells"}

\* The tables give every name one type, and no other table that of an array.
LEMMA TypesAre ==
    /\ DOMAIN ArrayTypes = ArrayNames /\ DOMAIN CellTypes = CellNames
    /\ DOMAIN FirstLapTypes \cap (ArrayNames \cup CellNames \cup {"compatible"}) = {}
    /\ \A name \in DOMAIN FirstLapTypes :
          ExpectedType(name) = FirstLapTypes[name] /\ FirstLapTypes[name] \notin {"REG", "RANGES"}
    /\ \A name \in CellNames :
          /\ ExpectedType(name) = CellTypes[name]
          /\ CellTypes[name] = IF name = "#address-cells" THEN "ADDRESS_CELLS" ELSE "SIZE_CELLS"
    /\ \A name \in ArrayNames :
          /\ ExpectedType(name) = ArrayTypes[name]
          /\ ArrayTypes[name] = IF name = "reg" THEN "REG" ELSE "RANGES"
    /\ ExpectedType("compatible") = "COMPATIBLE"
    /\ \A name : name \notin DOMAIN FirstLapTypes \cup ArrayNames \cup CellNames \cup {"compatible"}
          => ExpectedType(name) = "RAW"
<1>1. DOMAIN ArrayTypes = ArrayNames /\ DOMAIN CellTypes = CellNames
  BY DEF ArrayTypes, CellTypes, ArrayNames, CellNames
<1>2. DOMAIN FirstLapTypes \cap (ArrayNames \cup CellNames \cup {"compatible"}) = {}
  BY DEF FirstLapTypes, ArrayNames, CellNames
<1>3. ArrayNames \cap CellNames = {} /\ "compatible" \notin ArrayNames \cup CellNames
  BY DEF ArrayNames, CellNames
<1>4. ASSUME NEW name \in DOMAIN FirstLapTypes
      PROVE  FirstLapTypes[name] \notin {"REG", "RANGES"}
  BY DEF FirstLapTypes
<1>5. \A name \in CellNames :
         CellTypes[name] = IF name = "#address-cells" THEN "ADDRESS_CELLS" ELSE "SIZE_CELLS"
  BY DEF CellTypes, CellNames
<1>6. \A name \in ArrayNames : ArrayTypes[name] = IF name = "reg" THEN "REG" ELSE "RANGES"
  BY DEF ArrayTypes, ArrayNames
<1>7. \A name \in DOMAIN FirstLapTypes : ExpectedType(name) = FirstLapTypes[name]
  BY <1>1, <1>2 DEF ExpectedType
<1>8. \A name \in CellNames : ExpectedType(name) = CellTypes[name]
  BY <1>1, <1>2, <1>3 DEF ExpectedType
<1>9. \A name \in ArrayNames : ExpectedType(name) = ArrayTypes[name]
  BY <1>1, <1>2, <1>3 DEF ExpectedType
<1>10. ExpectedType("compatible") = "COMPATIBLE"
  BY <1>1, <1>2, <1>3 DEF ExpectedType
<1>11. \A name : name \notin DOMAIN FirstLapTypes \cup ArrayNames \cup CellNames \cup {"compatible"}
          => ExpectedType(name) = "RAW"
  BY <1>1 DEF ExpectedType
<1> QED
  BY <1>1, <1>2, <1>4, <1>5, <1>6, <1>7, <1>8, <1>9, <1>10, <1>11

\* The least of some numbers.
LEMMA Least ==
    ASSUME NEW S, S \subseteq Nat, S # {}
    PROVE  \E x \in S : \A y \in S : x <= y
<1> DEFINE R == {n \in Nat : n \in S => \E x \in S : \A y \in S : x <= y}
<1>1. ASSUME NEW n \in Nat, \A k \in Nat : k < n => k \in R PROVE n \in R
  <2>1. CASE \A y \in S : n <= y
    BY <2>1
  <2>2. CASE \E y \in S : ~(n <= y)
    <3>1. PICK y \in S : ~(n <= y)
      BY <2>2
    <3>2. y \in Nat /\ y < n
      BY <3>1
    <3> QED
      BY <1>1, <3>2
  <2> QED
    BY <2>1, <2>2
<1> HIDE DEF R
<1>2. \A n \in Nat : n \in R
  BY <1>1, Induction
<1> QED
  BY <1>2 DEF R

\* The first node is one of those read, and is in no other.
LEMMA RootIs ==
    ASSUME blob \in Blobs, NEW m \in 0 .. Len(blob.tokens), NodesTo(m) # {}
    PROVE  /\ FirstRoot \in NodesTo(m) /\ Outside(FirstRoot) = <<>>
           /\ \A k \in NodesTo(m) : FirstRoot <= k
<1>1. Len(blob.tokens) \in Nat /\ Tokens = 1 .. Len(blob.tokens) /\ m \in Nat
  BY BlobAssumption DEF Tokens
<1>2. /\ NodesTo(m) \subseteq Kinds("BEGIN_NODE") /\ Kinds("BEGIN_NODE") \subseteq Nat
      /\ \A j \in Kinds("BEGIN_NODE") : j \in 1 .. Len(blob.tokens) /\ Opens(j)
  BY <1>1 DEF NodesTo, Kinds, Opens
<1>3. PICK x \in Kinds("BEGIN_NODE") : \A y \in Kinds("BEGIN_NODE") : x <= y
  BY <1>2, Least
<1>4. /\ FirstRoot \in Kinds("BEGIN_NODE")
      /\ \A j \in Kinds("BEGIN_NODE") : FirstRoot <= j
  BY <1>3 DEF FirstRoot
<1>5. PICK r : r = FirstRoot
  OBVIOUS
<1>6. r \in NodesTo(m)
  <2>1. PICK k \in NodesTo(m) : TRUE
    OBVIOUS
  <2>2. r <= k /\ k \in 1 .. m /\ r \in 1 .. Len(blob.tokens) /\ Opens(r)
    BY <1>2, <1>4, <1>5, <2>1 DEF NodesTo
  <2> QED
    BY <1>1, <2>2 DEF NodesTo
<1>7. Outside(r) = <<>>
  <2>1. SUFFICES ASSUME Outside(r) # <<>> PROVE FALSE
    OBVIOUS
  <2>2. Outside(r)[1] \in NodesTo(m) /\ Outside(r)[1] < r
    BY <1>1, <1>6, <2>1, ParentEarlier
  <2>3. r <= Outside(r)[1] /\ Outside(r)[1] \in Nat /\ r \in Nat
    BY <1>2, <1>4, <1>5, <1>6, <2>2
  <2> QED
    BY <2>2, <2>3
<1> QED
  BY <1>2, <1>4, <1>5, <1>6, <1>7

\* What holds the root and the children of whatever it holds, holds the tree.
LEMMA ReachesAll ==
    ASSUME blob \in Blobs, NEW m \in 0 .. Len(blob.tokens), NEW D, FirstRoot \in D,
           \A d \in D : Kids(d, m) \subseteq D
    PROVE  \A d \in NodesTo(m) : InTree(d) => d \in D
<1> DEFINE S == {d \in Nat : d \in NodesTo(m) /\ InTree(d) => d \in D}
<1>1. m \in Nat /\ NodesTo(m) \subseteq Nat
  BY BlobAssumption DEF NodesTo
<1>2. ASSUME NEW d \in Nat, \A k \in Nat : k < d => k \in S PROVE d \in S
  <2>1. SUFFICES ASSUME d \in NodesTo(m), InTree(d), d # FirstRoot PROVE d \in D
    OBVIOUS
  <2>2. FirstRoot \in SetOf(Outside(d))
    BY <2>1 DEF InTree
  <2>3. PICK i : i = d - 1
    OBVIOUS
  <2>4. i \in Nat /\ Outside(d) = OpenAfter(i) /\ FirstRoot \in OpenSet(i)
    BY <2>1, <2>2, <2>3 DEF Outside, OpenSet, NodesTo
  <2>5. Outside(d) # <<>>
    BY <2>4, OpenSetIs
  <2>6. PICK t : t = Outside(d)[1]
    OBVIOUS
  <2>7. t \in NodesTo(m) /\ t < d
    BY <1>1, <2>1, <2>5, <2>6, ParentEarlier
  <2>8. OpenSet(i) = {t} \cup OpenSet(t - 1)
    BY <2>4, <2>5, <2>6, OpenSetIs
  <2>9. InTree(t)
    BY <2>4, <2>8 DEF InTree, OpenSet, Outside
  <2>10. t \in D
    BY <1>1, <1>2, <2>7, <2>9
  <2>11. d \in Kids(t, m)
    BY <2>1, <2>5, <2>6 DEF Kids, NodesTo, Child
  <2> QED
    BY <2>10, <2>11
<1> HIDE DEF S
<1>3. \A d \in Nat : d \in S
  BY <1>2, Induction
<1> QED
  BY <1>1, <1>3 DEF S

----------------------------------------------------------------------------
\* The cells that the tokens give.

\* The properties of that name of the node t.
Named(t, name, m) == {y \in Props(t, m) : blob.tokens[y].name = name}

\* The value v is what those behind the token b leave, the last written being
\* the first of them, or the default where there are none.
Counts(v, default, S, b) ==
    /\ S = {} => v = default
    /\ \A y \in S : y > b /\ (\A z \in S : y <= z) => v = blob.tokens[y].value.word

\* Once no node is open, no property of a node is still to be read.
LEMMA NoneToCome ==
    ASSUME blob \in Blobs, NEW m \in 0 .. Len(blob.tokens), OpenAfter(m) = <<>>,
           NEW t \in NodesTo(m)
    PROVE  {k \in PropertyTokens : Owner(k) = t} = Props(t, m)
<1>1. Len(blob.tokens) \in Nat /\ Tokens = 1 .. Len(blob.tokens) /\ m \in Nat
  BY BlobAssumption DEF Tokens
<1>2. \A k : k \in PropertyTokens <=> k \in 1 .. Len(blob.tokens) /\ Owned(k)
  BY <1>1 DEF PropertyTokens, Kinds, Owned
<1>3. ASSUME NEW k \in PropertyTokens, Owner(k) = t PROVE k <= m
  <2>1. k \in Nat /\ Owned(k)
    BY <1>1, <1>2, <1>3
  <2>2. t \in OpenSet(k)
    BY <1>3, <2>1, OpenSetIs DEF Owned, Owner
  <2>3. t <= m /\ OpenSet(m) = {}
    BY <1>1, OpenSetIs DEF NodesTo
  <2> QED
    BY <1>1, <2>1, <2>2, <2>3, OpenBetween
<1> QED
  BY <1>1, <1>2, <1>3 DEF Props

\* So the counts of a node are those the tokens give.
LEMMA GivenIs ==
    ASSUME blob \in Blobs, NEW m \in 0 .. Len(blob.tokens), OpenAfter(m) = <<>>,
           NEW t \in NodesTo(m), NEW v, NEW name, NEW default,
           Counts(v, IF t = FirstRoot THEN default ELSE 0, Named(t, name, m), 0)
    PROVE  v = Given(t, name, default)
<1> DEFINE ks == {k \in PropertyTokens : Owner(k) = t /\ blob.tokens[k].name = name}
<1>1. ks = Named(t, name, m)
  <2>1. {k \in PropertyTokens : Owner(k) = t} = Props(t, m)
    BY NoneToCome
  <2> QED
    BY <2>1 DEF Named
<1>2. ks \subseteq Nat /\ \A k \in ks : k > 0
  BY <1>1 DEF Named, Props
<1>3. CASE ks = {}
  BY <1>1, <1>3 DEF Counts, Given
<1>4. CASE ks # {}
  <2>1. PICK x : x = CHOOSE k \in ks : \A j \in ks : k <= j
    OBVIOUS
  <2>2. x \in ks /\ \A j \in ks : x <= j
    <3>1. \E k \in ks : \A j \in ks : k <= j
      BY <1>2, <1>4, Least
    <3> QED
      BY <2>1, <3>1
  <2>3. v = blob.tokens[x].value.word
    BY <1>1, <1>2, <2>2 DEF Counts
  <2>4. Given(t, name, default) = blob.tokens[x].value.word
    BY <1>4, <2>1 DEF Given
  <2> QED
    BY <2>3, <2>4
<1> QED
  BY <1>3, <1>4

\* The pointers of a list of properties are those to tokens.
LEMMA ListedAre ==
    ASSUME NEW m \in Nat, NEW N, NEW W, Shape(m, N, W), NEW k \in NodesTo(m), NEW c,
           IsOwned(Deref(nodes, N[k]), c)
    PROVE  \A i \in 1 .. Len(c) : \E y \in OwnedTo(m) : c[i] = W[y]
<1> DEFINE S == {i \in Nat : i + 1 \in 1 .. Len(c) => \E y \in OwnedTo(m) : c[i + 1] = W[y]}
<1>1. /\ c \in Seq(Pointers) /\ Len(c) \in Nat
      /\ \A i \in 1 .. Len(c) :
            /\ PointsInto(properties, c[i])
            /\ Deref(properties, c[i]).next_property = IF i = Len(c) THEN NULL ELSE c[i + 1]
      /\ Deref(nodes, N[k]).properties = IF Len(c) = 0 THEN NULL ELSE c[1]
  BY DEF IsOwned, IsList
<1>2. \A i \in 1 .. Len(c) : c[i] # NULL
  BY <1>1 DEF PointsInto, NULL
<1>3. \A t : Props(t, m) \subseteq OwnedTo(m)
  BY DEF Props, OwnedTo
<1>4. 0 \in S
  <2>1. SUFFICES ASSUME 1 \in 1 .. Len(c) PROVE \E y \in OwnedTo(m) : c[1] = W[y]
    OBVIOUS
  <2>2. Leads(c[1], W, Props(k, m)) /\ c[1] # NULL
    BY <1>1, <1>2, <2>1 DEF Shape, NodeLeads
  <2> QED
    BY <1>3, <2>2 DEF Leads
<1>5. ASSUME NEW i \in S PROVE i + 1 \in S
  <2>1. SUFFICES ASSUME (i + 1) + 1 \in 1 .. Len(c)
                 PROVE  \E y \in OwnedTo(m) : c[(i + 1) + 1] = W[y]
    OBVIOUS
  <2>2. i \in Nat /\ i + 1 \in 1 .. Len(c) /\ i + 1 # Len(c)
    BY <1>1, <2>1
  <2>3. PICK y \in OwnedTo(m) : c[i + 1] = W[y]
    BY <1>5, <2>2
  <2>4. c[(i + 1) + 1] # NULL /\ Deref(properties, W[y]).next_property = c[(i + 1) + 1]
    BY <1>1, <1>2, <2>1, <2>2, <2>3
  <2>5. Leads(c[(i + 1) + 1], W, Props(Owner(y), y - 1))
    BY <2>4 DEF Shape
  <2>6. Props(Owner(y), y - 1) \subseteq OwnedTo(m)
    <3>1. 1 .. y - 1 \subseteq 1 .. m
      BY DEF OwnedTo
    <3> QED
      BY <3>1 DEF Props, OwnedTo
  <2> QED
    BY <2>4, <2>5, <2>6 DEF Leads
<1> HIDE DEF S
<1>6. \A i \in Nat : i \in S
  BY <1>4, <1>5, SetInduction
<1>7. \A i \in 1 .. Len(c) : i - 1 \in Nat /\ (i - 1) + 1 = i
  BY <1>1
<1> QED
  BY <1>6, <1>7 DEF S

\* AllProperties are the properties of the tokens.
LEMMA AllPropertiesAre ==
    ASSUME NEW m, Progress(m), TreeOK(m), NEW N, NEW W, Shape(m, N, W), NEW p \in AllProperties
    PROVE  \E y \in OwnedTo(m) : p = Deref(properties, W[y]) /\ p.token = y
<1>1. m \in Nat /\ m <= Len(blob.tokens) /\ Len(blob.tokens) \in Nat
  <2>1. blob \in Blobs /\ m \in 0 .. Len(blob.tokens)
    BY DEF Progress, Built, HasRead
  <2> QED
    BY <2>1, BlobAssumption
<1>2. PICK i \in 1 .. nodes.m_size :
         p \in {Deref(properties, q) :
                   q \in SetOf(Chain(properties, Deref(nodes, ElementAt(nodes, i)).properties,
                                     "next_property"))}
  BY DEF AllProperties
<1>3. PICK e : e = ElementAt(nodes, i)
  OBVIOUS
<1>4. e \in Elements
  <2>1. PICK E : IsStack(nodes, E)
    BY DEF Progress, Built, NodesOK
  <2>2. Len(nodes.buffers) <= 1 /\ Len(nodes.buffers) \in Nat /\ nodes.m_size \in Nat
    BY <2>1 DEF TreeOK, OneBuffer, IsStack
  <2>3. Len(nodes.buffers) # 0
    <3>1. nodes.m_size # 0 /\ nodes.buffers \in Seq(Seq(E))
      BY <1>2, <2>1, <2>2 DEF IsStack
    <3>2. nodes.buffers # <<>>
      BY <2>1, <3>1 DEF IsStack
    <3> QED
      BY <3>1, <3>2, EmptySeq
  <2>4. Len(nodes.buffers) = 1
    BY <2>2, <2>3, One
  <2>5. e \in Pointers /\ e.buffer = 1 /\ e.index = i
    BY <1>2, <1>3, <2>2, <2>4 DEF ElementAt, Pointers
  <2> QED
    BY <1>2, <2>1, <2>2, <2>5, ElementsAre DEF Elements
<1>5. PICK k \in NodesTo(m) : e = N[k]
  BY <1>4 DEF Shape, NodesAt
<1>6. PICK c : IsOwned(Deref(nodes, e), c) /\ Len(c) <= m
  BY <1>4 DEF TreeOK, Lists
<1>7. Len(c) \in Nat /\ Len(c) <= Len(blob.tokens)
  <2>1. Len(c) \in Nat
    BY <1>6 DEF IsOwned, IsList
  <2> QED
    BY <1>1, <1>6, <2>1
<1>8. Chain(properties, Deref(nodes, e).properties, "next_property") = c
  BY <1>1, <1>6, <1>7, ChainIs DEF IsOwned
<1>9. PICK j \in 1 .. Len(c) : p = Deref(properties, c[j])
  BY <1>2, <1>3, <1>8 DEF SetOf
<1>10. PICK y \in OwnedTo(m) : c[j] = W[y]
  BY <1>1, <1>5, <1>6, <1>9, ListedAre
<1>11. Deref(properties, W[y]).token = y
  BY DEF Shape, PropertiesAt
<1> QED
  BY <1>9, <1>10, <1>11
----------------------------------------------------------------------------
\* The rewrite.  A call goes through the properties of its node twice and then
\* through its children; what lies behind a token of the node is dealt with.

TypeGiven(W, y) == Deref(properties, W[y]).type
Expected(y) == ExpectedType(blob.tokens[y].name)
Rewritten(W, y) == TypeGiven(W, y) = Expected(y)
ForArrays(y) == blob.tokens[y].name \in ArrayNames

\* A property is raw or of the type its name asks for.
TypesOK(m, W) == \A y \in OwnedTo(m) : TypeGiven(W, y) \in {"RAW", Expected(y)}

\* An array property has been divided into entries of the size the cells ask for.
Divided(p, y) ==
    p.type \in {"REG", "RANGES"} =>
        \/ p.data.value * EntryBytes(y) = blob.tokens[y].value.len
        \/ p.type = "RANGES" /\ p.data.value = 0 /\ blob.tokens[y].value.len = 0

DividedTo(m, W) == \A y \in OwnedTo(m) : Divided(Deref(properties, W[y]), y)

\* The cells of the node t are what the properties behind b leave.
CellsLeft(m, N, t, b) ==
    LET n == Deref(nodes, N[t])
    IN  /\ Counts(n.address_cells, IF t = FirstRoot THEN 2 ELSE 0,
                  Named(t, "#address-cells", m), b)
        /\ Counts(n.size_cells, IF t = FirstRoot THEN 1 ELSE 0, Named(t, "#size-cells", m), b)

\* A call for the node t with the properties or children up to b ahead, its
\* current child being in up.  D are the nodes that are done.
FrameIs(m, N, W, D, lap, at, t, b, up) ==
    /\ t \in NodesTo(m) /\ b \in 0 .. m
    /\ \/ /\ lap = "first" /\ Leads(at, W, Props(t, b)) /\ CellsLeft(m, N, t, b)
          /\ \A y \in Props(t, m) : y > b /\ ~ForArrays(y) => Rewritten(W, y)
       \/ /\ lap = "second" /\ Leads(at, W, Props(t, b)) /\ CellsLeft(m, N, t, 0)
          /\ \A y \in Props(t, m) : y > b \/ ~ForArrays(y) => Rewritten(W, y)
       \/ /\ lap = "children" /\ Leads(at, N, Kids(t, b)) /\ CellsLeft(m, N, t, 0)
          /\ \A y \in Props(t, m) : Rewritten(W, y)
          /\ \A c \in Kids(t, m) : c > b => c \in D \cup up

\* What is done leaves nothing to do inside it.
Done(m, W, D) ==
    \A d \in D : Kids(d, m) \subseteq D /\ \A y \in Props(d, m) : Rewritten(W, y)

IsFrame(f) == f = [node |-> f.node, lap |-> f.lap, at |-> f.at, arrays |-> f.arrays]
AreFrames(fs) == \E S : fs \in Seq(S) /\ \A f \in S : IsFrame(f)

Called(T, i) == IF i = 1 THEN {} ELSE {T[i - 1]}

CallIs(m, N, W, T, X, D, i) ==
    /\ frames[i].node = N[T[i]] /\ (i # 1 => frames[i].lap = "children")
    /\ IF i = Len(frames) THEN T[i] = FirstRoot ELSE Child(T[i], T[i + 1])
    /\ FrameIs(m, N, W, D, frames[i].lap, frames[i].at, T[i], X[i], Called(T, i))

\* The calls are for the nodes T, from the innermost out to the root.
Walk(m, N, W, T, X, D) ==
    /\ AreFrames(frames) /\ Len(frames) # 0 /\ Done(m, W, D)
    /\ \A i \in 1 .. Len(frames) : CallIs(m, N, W, T, X, D, i)

\* Cells that the properties up to b do not name stay.
LEMMA CountsFurther ==
    ASSUME NEW v, NEW default, NEW S, NEW b, NEW d, Counts(v, default, S, b),
           \A y \in S : y > d => y > b
    PROVE  Counts(v, default, S, d)
BY DEF Counts

\* What is rewritten and the cells of a node stay, and so does a call for it;
\* its child may be done.
LEMMA FrameStays ==
    ASSUME NEW m, NEW N, NEW W, NEW D, NEW lap, NEW at, NEW t, NEW b, NEW up,
           FrameIs(m, N, W, D, lap, at, t, b, up), UNCHANGED blob,
           \A y \in OwnedTo(m) : Rewritten(W, y) => Rewritten(W, y)',
           SameCells(Deref(nodes, N[t]), Deref(nodes', N[t])),
           NEW E, NEW more, D \cup up \subseteq E \cup more
    PROVE  FrameIs(m, N, W, E, lap, at, t, b, more)'
<1>1. Props(t, m) \subseteq OwnedTo(m)
  BY DEF Props, OwnedTo
<1>2. \A name : Named(t, name, m)' = Named(t, name, m)
  BY BlobStays DEF Named
<1>3. \A d : CellsLeft(m, N, t, d) => CellsLeft(m, N, t, d)'
  BY <1>2, BlobStays DEF CellsLeft, Counts, SameCells
<1>4. \A y : ForArrays(y)' = ForArrays(y)
  BY DEF ForArrays
<1>5. \A y \in Props(t, m) : Rewritten(W, y) => Rewritten(W, y)'
  BY <1>1
<1>6. /\ NodesTo(m)' = NodesTo(m)
      /\ \A k : Props(t, k)' = Props(t, k) /\ Kids(t, k)' = Kids(t, k)
  BY BlobStays
<1>7. \A p, f, S : Leads(p, f, S)' = Leads(p, f, S)
  BY DEF Leads
<1> QED
  BY <1>3, <1>4, <1>5, <1>6, <1>7 DEF FrameIs

\* Parents come before their children.
LEMMA CallsDescend ==
    ASSUME NEW m \in Nat, NEW N, NEW W, NEW T, NEW X, NEW D, Walk(m, N, W, T, X, D)
    PROVE  \A i \in 2 .. Len(frames) : T[i] < T[1] /\ T[i] # T[1]
<1> DEFINE S == {i \in Nat : i + 1 \in 1 .. Len(frames) => T[i + 1] <= T[1] /\ (i # 0 => T[i + 1] < T[1])}
<1>1. Len(frames) \in Nat /\ \A i \in 1 .. Len(frames) : T[i] \in 1 .. m
  BY DEF Walk, AreFrames, CallIs, FrameIs, NodesTo
<1>2. 0 \in S
  <2>1. 0 + 1 = 1
    OBVIOUS
  <2>2. 1 \in 1 .. Len(frames) => T[1] \in Nat
    BY <1>1
  <2> QED
    BY <2>1, <2>2
<1>3. ASSUME NEW i \in S PROVE i + 1 \in S
  <2>1. SUFFICES ASSUME (i + 1) + 1 \in 1 .. Len(frames) PROVE T[(i + 1) + 1] < T[1]
    <3>1. ASSUME (i + 1) + 1 \in 1 .. Len(frames), T[(i + 1) + 1] < T[1]
          PROVE  T[(i + 1) + 1] <= T[1]
      <4>1. 1 \in 1 .. Len(frames)
        BY <1>1, <1>3, <3>1
      <4>2. PICK a, c : a = T[1] /\ c = T[(i + 1) + 1]
        OBVIOUS
      <4>3. a \in Nat /\ c \in Nat /\ c < a
        BY <1>1, <3>1, <4>1, <4>2
      <4> QED
        BY <4>2, <4>3
    <3> QED
      BY <3>1
  <2>2. PICK j : j = i + 1
    OBVIOUS
  <2>3. j \in 1 .. Len(frames) /\ j # Len(frames) /\ j + 1 \in 1 .. Len(frames) /\ i \in Nat
        /\ 1 \in 1 .. Len(frames)
    BY <1>1, <2>1, <2>2
  <2>4. T[j] <= T[1]
    BY <1>3, <2>2, <2>3
  <2>5. Child(T[j], T[j + 1])
    BY <2>3 DEF Walk, CallIs
  <2>6. T[j + 1] < T[j]
    <3>1. PICK c \in 1 .. m, t \in 1 .. m : c = T[j] /\ t = T[j + 1]
      BY <1>1, <2>3
    <3>2. t \in 1 .. c - 1
      BY <2>5, <3>1, ChildIs
    <3> QED
      BY <3>1, <3>2
  <2>7. T[j] \in Nat /\ T[j + 1] \in Nat /\ T[1] \in Nat
    BY <1>1, <2>3
  <2>8. PICK a, c, d : a = T[1] /\ c = T[j] /\ d = T[j + 1]
    OBVIOUS
  <2>9. d < a
    BY <2>4, <2>6, <2>7, <2>8
  <2> QED
    BY <2>2, <2>8, <2>9
<1> HIDE DEF S
<1>4. \A i \in Nat : i \in S
  BY <1>2, <1>3, SetInduction
<1>5. ASSUME NEW i \in 2 .. Len(frames) PROVE T[i] < T[1] /\ T[i] # T[1]
  <2>1. i - 1 \in Nat /\ (i - 1) + 1 = i /\ i - 1 # 0 /\ i \in 1 .. Len(frames)
        /\ 1 \in 1 .. Len(frames)
    BY <1>1
  <2>2. T[i] < T[1]
    BY <1>4, <2>1 DEF S
  <2>3. PICK a, c : a = T[1] /\ c = T[i]
    OBVIOUS
  <2>4. a \in Nat /\ c \in Nat /\ c < a
    BY <1>1, <2>1, <2>2, <2>3
  <2> QED
    BY <2>3, <2>4
<1> QED
  BY <1>5

\* A step of the innermost call, which changes the cells of its own node at
\* most.
LEMMA WalkGoesOn ==
    ASSUME NEW m \in Nat, NEW N, NEW W, NEW T, NEW X, NEW D, Walk(m, N, W, T, X, D),
           UNCHANGED blob, NEW g, IsFrame(g), g.node = Top.node,
           frames' = [frames EXCEPT ![1] = g],
           \A y \in OwnedTo(m) : Rewritten(W, y) => Rewritten(W, y)',
           \A t \in NodesTo(m) : t # T[1] => SameCells(Deref(nodes, N[t]), Deref(nodes', N[t])),
           NEW b, FrameIs(m, N, W, D, g.lap, g.at, T[1], b, {})'
    PROVE  \E Y : Walk(m, N, W, T, Y, D)'
<1>1. PICK S : frames \in Seq(S) /\ \A f \in S : IsFrame(f)
  BY DEF Walk, AreFrames
<1>2. Len(frames) \in Nat /\ 1 \in 1 .. Len(frames)
  BY <1>1 DEF Walk
<1>3. PICK R : R = S \cup {g}
  OBVIOUS
<1>4. /\ frames' \in Seq(R) /\ Len(frames') = Len(frames) /\ frames'[1] = g
      /\ \A i \in 1 .. Len(frames) : i # 1 => frames'[i] = frames[i]
  <2>1. frames \in Seq(R) /\ g \in R
    BY <1>1, <1>3
  <2> QED
    BY <1>2, <2>1
<1>5. AreFrames(frames')
  BY <1>1, <1>3, <1>4 DEF AreFrames
<1>6. Done(m, W, D)'
  <2>1. \A d : Props(d, m) \subseteq OwnedTo(m)
    BY DEF Props, OwnedTo
  <2> QED
    BY <2>1, BlobStays DEF Walk, Done
<1>7. PICK Y : Y = [i \in 1 .. Len(frames) |-> IF i = 1 THEN b ELSE X[i]]
  OBVIOUS
<1>8. Y[1] = b /\ \A i \in 1 .. Len(frames) : i # 1 => Y[i] = X[i]
  BY <1>2, <1>7
<1>9. ASSUME NEW i \in 1 .. Len(frames) PROVE CallIs(m, N, W, T, Y, D, i)'
  <2>1. CallIs(m, N, W, T, X, D, i)
    BY DEF Walk
  <2>2. IF i = Len(frames') THEN T[i] = FirstRoot' ELSE Child(T[i], T[i + 1])'
    BY <1>4, <2>1, BlobStays DEF CallIs
  <2>3. CASE i = 1
    <3>1. Called(T, i) = {}
      BY <2>3 DEF Called
    <3> QED
      BY <1>4, <1>8, <2>1, <2>2, <2>3, <3>1 DEF CallIs, Top
  <2>4. CASE i # 1
    <3>1. i \in 2 .. Len(frames)
      BY <1>2, <2>4
    <3>2. T[i] # T[1]
      BY <3>1, CallsDescend
    <3>3. PICK f : f = frames[i] /\ f = frames'[i]
      BY <1>4, <2>4
    <3>4. FrameIs(m, N, W, D, f.lap, f.at, T[i], X[i], Called(T, i))
      BY <2>1, <3>3 DEF CallIs
    <3>5. SameCells(Deref(nodes, N[T[i]]), Deref(nodes', N[T[i]]))
      BY <3>2, <3>4 DEF FrameIs
    <3>6. FrameIs(m, N, W, D, f.lap, f.at, T[i], X[i], Called(T, i))'
      <4>1. PICK lap, at, t, up, d : lap = f.lap /\ at = f.at /\ t = T[i] /\ up = Called(T, i) /\ d = X[i]
        OBVIOUS
      <4>2. FrameIs(m, N, W, D, lap, at, t, d, up) /\ D \cup up \subseteq D \cup up
            /\ SameCells(Deref(nodes, N[t]), Deref(nodes', N[t]))
        BY <3>4, <3>5, <4>1
      <4>3. FrameIs(m, N, W, D, lap, at, t, d, up)'
        BY <4>2, FrameStays
      <4> QED
        BY <4>1, <4>3 DEF FrameIs, Called
    <3> QED
      BY <1>8, <2>1, <2>2, <2>4, <3>3, <3>6 DEF CallIs
  <2> QED
    BY <2>3, <2>4
<1>10. Walk(m, N, W, T, Y, D)'
  BY <1>2, <1>4, <1>5, <1>6, <1>9 DEF Walk
<1> QED
  BY <1>10

\* What stays when no property and no cell changes.
LEMMA NothingRewritten ==
    ASSUME NEW W, NEW N, UNCHANGED <<blob, nodes, properties>>
    PROVE  /\ \A y : Rewritten(W, y)' = Rewritten(W, y)
           /\ \A t : SameCells(Deref(nodes, N[t]), Deref(nodes', N[t]))
           /\ \A m, t, b : CellsLeft(m, N, t, b)' = CellsLeft(m, N, t, b)
<1>1. \A y : Rewritten(W, y)' = Rewritten(W, y)
  BY DEF Rewritten, TypeGiven, Expected
<1>2. \A m, t, name : Named(t, name, m)' = Named(t, name, m)
  BY BlobStays DEF Named
<1>3. \A m, t, b : CellsLeft(m, N, t, b)' = CellsLeft(m, N, t, b)
  BY <1>2, BlobStays DEF CellsLeft, Counts
<1> QED
  BY <1>1, <1>3 DEF SameCells

\* A frame with other fields is a frame.
LEMMA FrameMoved ==
    ASSUME NEW f, IsFrame(f), NEW x, NEW g, g = [f EXCEPT !.at = x]
    PROVE  IsFrame(g) /\ g.node = f.node /\ g.lap = f.lap /\ g.at = x /\ g.arrays = f.arrays
<1>1. PICK a, b, c, d : f = [node |-> a, lap |-> b, at |-> c, arrays |-> d]
  BY DEF IsFrame
<1>2. f.node = a /\ f.lap = b /\ f.arrays = d
  BY <1>1
<1>3. g = [node |-> a, lap |-> b, at |-> x, arrays |-> d]
  BY <1>1
<1> QED
  BY <1>2, <1>3 DEF IsFrame

LEMMA FrameFilled ==
    ASSUME NEW f, IsFrame(f), NEW x, NEW g, g = [f EXCEPT !.arrays = x]
    PROVE  IsFrame(g) /\ g.node = f.node /\ g.lap = f.lap /\ g.at = f.at /\ g.arrays = x
<1>1. PICK a, b, c, d : f = [node |-> a, lap |-> b, at |-> c, arrays |-> d]
  BY DEF IsFrame
<1>2. f.node = a /\ f.lap = b /\ f.at = c
  BY <1>1
<1>3. g = [node |-> a, lap |-> b, at |-> c, arrays |-> x]
  BY <1>1
<1> QED
  BY <1>2, <1>3 DEF IsFrame

LEMMA FrameTurned ==
    ASSUME NEW f, IsFrame(f), NEW x, NEW g, g = [f EXCEPT !.lap = x]
    PROVE  IsFrame(g) /\ g.node = f.node /\ g.lap = x /\ g.at = f.at /\ g.arrays = f.arrays
<1>1. PICK a, b, c, d : f = [node |-> a, lap |-> b, at |-> c, arrays |-> d]
  BY DEF IsFrame
<1>2. f.node = a /\ f.at = c /\ f.arrays = d
  BY <1>1
<1>3. g = [node |-> a, lap |-> x, at |-> c, arrays |-> d]
  BY <1>1, SMTT(60)
<1> QED
  BY <1>2, <1>3 DEF IsFrame

\* The innermost frame moves on, without arrays.
Emptied(fs, x, y) == [fs EXCEPT ![1].at = x, ![1].arrays = y]

\* What the steps make of the innermost frame.
LEMMA FramesAre ==
    ASSUME AreFrames(frames), Len(frames) # 0
    PROVE  /\ IsFrame(Top) /\ Len(frames) \in Nat /\ 1 \in 1 .. Len(frames)
           /\ \E g : /\ IsFrame(g) /\ g.node = Top.node /\ g.lap = Top.lap
                     /\ g.at = This.next_property /\ g.arrays = <<>>
                     /\ Advanced = [frames EXCEPT ![1] = g]
           /\ \A x : \E g : /\ IsFrame(g) /\ g.node = Top.node /\ g.lap = Top.lap /\ g.at = Top.at
                            /\ g.arrays = Append(Top.arrays, x)
                            /\ [frames EXCEPT ![1].arrays = Append(@, x)] = [frames EXCEPT ![1] = g]
           /\ \A x : \E g : /\ IsFrame(g) /\ g.node = Top.node /\ g.lap = Top.lap /\ g.at = x
                            /\ g.arrays = Top.arrays
                            /\ [frames EXCEPT ![1].at = x] = [frames EXCEPT ![1] = g]
           /\ \A x : \E g : /\ IsFrame(g) /\ g.node = Top.node /\ g.at = x /\ g.arrays = Top.arrays
                            /\ g.lap = IF Top.lap = "first" THEN "second" ELSE "children"
                            /\ [frames EXCEPT ![1].at = x,
                                   ![1].lap = IF @ = "first" THEN "second" ELSE "children"]
                                  = [frames EXCEPT ![1] = g]
<1>1. PICK S : frames \in Seq(S) /\ \A f \in S : IsFrame(f)
  BY DEF AreFrames
<1>2. PICK fs : fs = frames
  OBVIOUS
<1>3. fs \in Seq(S) /\ 1 \in DOMAIN fs /\ Len(fs) \in Nat /\ 1 \in 1 .. Len(fs) /\ fs[1] \in S
  BY <1>1, <1>2
<1>4. PICK f : f = fs[1]
  OBVIOUS
<1>5. IsFrame(f) /\ f = Top
  BY <1>1, <1>2, <1>3, <1>4 DEF Top
<1>6. ASSUME NEW x, NEW y
      PROVE  \E g : /\ IsFrame(g) /\ g.node = f.node /\ g.lap = f.lap /\ g.at = x
                    /\ g.arrays = y
                    /\ Emptied(fs, x, y) = [fs EXCEPT ![1] = g]
  <2>1. PICK k : k = [f EXCEPT !.at = x]
    OBVIOUS
  <2>2. PICK g : g = [k EXCEPT !.arrays = y]
    OBVIOUS
  <2>3. IsFrame(k) /\ k.node = f.node /\ k.lap = f.lap /\ k.at = x
    BY <1>5, <2>1, FrameMoved
  <2>4. IsFrame(g) /\ g.node = k.node /\ g.lap = k.lap /\ g.at = k.at /\ g.arrays = y
    <3>1. IsFrame(k) /\ g = [k EXCEPT !.arrays = y]
      BY <2>2, <2>3
    <3> QED
      BY <3>1, FrameFilled, SMTT(60)
  <2>5. PICK h : h = [fs EXCEPT ![1] = k]
    OBVIOUS
  <2>6. h[1] = k /\ \A j : [h EXCEPT ![1] = j] = [fs EXCEPT ![1] = j]
    BY <1>3, <2>5
  <2>7. [fs EXCEPT ![1].at = x] = h
    BY <1>4, <2>1, <2>5
  <2>8. [h EXCEPT ![1].arrays = y] = [h EXCEPT ![1] = g]
    BY <2>2, <2>6
  <2>9. Emptied(fs, x, y) = [h EXCEPT ![1].arrays = y]
    BY <2>7 DEF Emptied
  <2> QED
    BY <2>3, <2>4, <2>6, <2>8, <2>9
<1>7. ASSUME NEW x
      PROVE  \E g : /\ IsFrame(g) /\ g.node = f.node /\ g.at = x /\ g.arrays = f.arrays
                    /\ g.lap = IF f.lap = "first" THEN "second" ELSE "children"
                    /\ [fs EXCEPT ![1].at = x,
                           ![1].lap = IF @ = "first" THEN "second" ELSE "children"]
                          = [fs EXCEPT ![1] = g]
  <2>1. PICK k : k = [f EXCEPT !.at = x]
    OBVIOUS
  <2>2. PICK l : l = IF f.lap = "first" THEN "second" ELSE "children"
    OBVIOUS
  <2>3. PICK g : g = [k EXCEPT !.lap = l]
    OBVIOUS
  <2>4. IsFrame(k) /\ k.node = f.node /\ k.lap = f.lap /\ k.at = x /\ k.arrays = f.arrays
    BY <1>5, <2>1, FrameMoved
  <2>5. IsFrame(g) /\ g.node = k.node /\ g.lap = l /\ g.at = k.at /\ g.arrays = k.arrays
    BY <2>3, <2>4, FrameTurned
  <2>6. PICK h : h = [fs EXCEPT ![1] = k]
    OBVIOUS
  <2>7. h[1] = k /\ \A j : [h EXCEPT ![1] = j] = [fs EXCEPT ![1] = j]
    BY <1>3, <2>6
  <2>8. [fs EXCEPT ![1].at = x] = h
    BY <1>4, <2>1, <2>6
  <2>9. [h EXCEPT ![1].lap = l] = [h EXCEPT ![1] = g]
    BY <2>3, <2>7
  <2>10. [fs EXCEPT ![1].at = x, ![1].lap = IF @ = "first" THEN "second" ELSE "children"]
            = [h EXCEPT ![1].lap = l]
    BY <1>4, <2>2, <2>4, <2>7, <2>8
  <2> QED
    BY <2>2, <2>4, <2>5, <2>7, <2>9, <2>10
<1>8. \A x : [fs EXCEPT ![1].at = x] = [fs EXCEPT ![1] = [f EXCEPT !.at = x]]
  BY <1>4
<1>9. \A x : [fs EXCEPT ![1].arrays = Append(@, x)] =
                [fs EXCEPT ![1] = [f EXCEPT !.arrays = Append(f.arrays, x)]]
  BY <1>4
<1>10. \E g : /\ IsFrame(g) /\ g.node = Top.node /\ g.lap = Top.lap
              /\ g.at = This.next_property /\ g.arrays = <<>>
                     /\ Advanced = [frames EXCEPT ![1] = g]
  <2>1. PICK x : x = This.next_property
    OBVIOUS
  <2>2. Advanced = Emptied(fs, x, <<>>)
    BY <1>2, <2>1 DEF Advanced, Emptied
  <2>3. PICK g : /\ IsFrame(g) /\ g.node = f.node /\ g.lap = f.lap /\ g.at = x
                 /\ g.arrays = <<>>
                 /\ Emptied(fs, x, <<>>) = [fs EXCEPT ![1] = g]
    BY <1>6
  <2> QED
    BY <1>2, <1>5, <2>1, <2>2, <2>3
<1>11. ASSUME NEW x
       PROVE  \E g : /\ IsFrame(g) /\ g.node = Top.node /\ g.lap = Top.lap /\ g.at = Top.at
                     /\ g.arrays = Append(Top.arrays, x)
                     /\ [frames EXCEPT ![1].arrays = Append(@, x)] = [frames EXCEPT ![1] = g]
  <2>1. PICK y : y = Append(f.arrays, x)
    OBVIOUS
  <2>2. PICK g : g = [f EXCEPT !.arrays = y]
    OBVIOUS
  <2>3. IsFrame(g) /\ g.node = f.node /\ g.lap = f.lap /\ g.at = f.at /\ g.arrays = y
    BY <1>5, <2>2, FrameFilled, SMTT(60)
  <2> QED
    BY <1>2, <1>5, <1>9, <2>1, <2>2, <2>3, ZenonT(60)
<1>12. ASSUME NEW x
       PROVE  \E g : /\ IsFrame(g) /\ g.node = Top.node /\ g.lap = Top.lap /\ g.at = x
                     /\ g.arrays = Top.arrays
                     /\ [frames EXCEPT ![1].at = x] = [frames EXCEPT ![1] = g]
  <2>1. PICK g : g = [f EXCEPT !.at = x]
    OBVIOUS
  <2>2. IsFrame(g) /\ g.node = f.node /\ g.lap = f.lap /\ g.at = x /\ g.arrays = f.arrays
    BY <1>5, <2>1, FrameMoved
  <2> QED
    BY <1>2, <1>5, <1>8, <2>1, <2>2, ZenonT(60)
<1>13. ASSUME NEW x
       PROVE  \E g : /\ IsFrame(g) /\ g.node = Top.node /\ g.at = x /\ g.arrays = Top.arrays
                     /\ g.lap = IF Top.lap = "first" THEN "second" ELSE "children"
                     /\ [frames EXCEPT ![1].at = x,
                            ![1].lap = IF @ = "first" THEN "second" ELSE "children"]
                           = [frames EXCEPT ![1] = g]
  <2>1. PICK g : /\ IsFrame(g) /\ g.node = f.node /\ g.at = x /\ g.arrays = f.arrays
                 /\ g.lap = IF f.lap = "first" THEN "second" ELSE "children"
                 /\ [fs EXCEPT ![1].at = x,
                        ![1].lap = IF @ = "first" THEN "second" ELSE "children"]
                       = [fs EXCEPT ![1] = g]
    BY <1>7, Zenon
  <2>2. /\ [frames EXCEPT ![1].at = x,
               ![1].lap = IF @ = "first" THEN "second" ELSE "children"]
           = [fs EXCEPT ![1].at = x,
               ![1].lap = IF @ = "first" THEN "second" ELSE "children"]
        /\ [frames EXCEPT ![1] = g] = [fs EXCEPT ![1] = g]
    BY <1>2
  <2> QED
    BY <1>5, <2>1, <2>2
<1> QED
  BY <1>2, <1>3, <1>5, <1>10, <1>11, <1>12, <1>13

\* The innermost call.
LEMMA TopIs ==
    ASSUME NEW m \in Nat, NEW N, NEW W, NEW T, NEW X, NEW D, Walk(m, N, W, T, X, D)
    PROVE  /\ Top.node = N[T[1]] /\ T[1] \in NodesTo(m)
           /\ FrameIs(m, N, W, D, Top.lap, Top.at, T[1], X[1], {})
<1>1. 1 \in 1 .. Len(frames)
  BY FramesAre DEF Walk
<1>2. Called(T, 1) = {}
  BY DEF Called
<1> QED
  BY <1>1, <1>2 DEF Walk, CallIs, FrameIs, Top

\* x is the token of the property the innermost call is at.
AtHand(m, W, T, X, x) ==
    /\ x \in Props(T[1], m) /\ x \in OwnedTo(m) /\ Top.at = W[x]
    /\ This.token = x /\ Leads(This.next_property, W, Props(T[1], x - 1))
    /\ \A y \in Props(T[1], m) : y > x - 1 => y = x \/ y > X[1]

LEMMA PropertyAtHand ==
    ASSUME NEW m \in Nat, NEW N, NEW W, NEW T, NEW X, NEW D, Walk(m, N, W, T, X, D),
           Shape(m, N, W), Top.at # NULL, Top.lap # "children"
    PROVE  \E x : AtHand(m, W, T, X, x)
<1>1. PICK t, b : t = T[1] /\ b = X[1]
  OBVIOUS
<1>2. Leads(Top.at, W, Props(t, b)) /\ b \in 0 .. m
  BY <1>1, TopIs DEF FrameIs
<1>3. PICK x \in Props(t, b) : (\A y \in Props(t, b) : y <= x) /\ Top.at = W[x]
  BY <1>2 DEF Leads
<1>4. x \in Props(t, m) /\ x \in OwnedTo(m) /\ Owner(x) = t /\ x \in 1 .. m
  BY <1>2, <1>3 DEF Props, OwnedTo
<1>5. This.token = x /\ Leads(This.next_property, W, Props(t, x - 1))
  BY <1>3, <1>4 DEF Shape, PropertiesAt, This
<1>6. \A y \in Props(t, m) : y > x - 1 => y = x \/ y > b
  <2>1. ASSUME NEW y \in Props(t, m), y > x - 1, ~(y > b) PROVE y = x
    <3>1. y \in Props(t, b) /\ y \in Nat
      BY <1>2, <2>1 DEF Props
    <3> QED
      BY <1>3, <1>4, <2>1, <3>1
  <2> QED
    BY <2>1
<1> QED
  BY <1>1, <1>3, <1>4, <1>5, <1>6 DEF AtHand

\* At the end of a lap nothing is ahead.
LEMMA NoneAtHand ==
    ASSUME NEW m \in Nat, NEW N, NEW W, NEW T, NEW X, NEW D, Walk(m, N, W, T, X, D),
           Shape(m, N, W), Top.at = NULL
    PROVE  /\ Top.lap # "children" => \A y \in Props(T[1], m) : y > X[1]
           /\ Top.lap = "children" => \A c \in Kids(T[1], m) : c > X[1]
<1>1. PICK t, b : t = T[1] /\ b = X[1]
  OBVIOUS
<1>2. b \in 0 .. m /\ (Top.lap # "children" => Leads(NULL, W, Props(t, b)))
      /\ (Top.lap = "children" => Leads(NULL, N, Kids(t, b)))
  BY <1>1, TopIs DEF FrameIs
<1>3. /\ Props(t, b) \subseteq OwnedTo(m) /\ Kids(t, b) \subseteq NodesTo(m)
  BY <1>2 DEF Props, Kids, OwnedTo, NodesTo
<1>4. /\ \A y \in OwnedTo(m) : W[y] # NULL
      /\ \A k \in NodesTo(m) : N[k] # NULL
  BY DEF Shape, PropertiesAt, NodesAt, PointsInto, NULL
<1>5. Top.lap # "children" => Props(t, b) = {}
  BY <1>2, <1>3, <1>4 DEF Leads
<1>6. Top.lap = "children" => Kids(t, b) = {}
  BY <1>2, <1>3, <1>4 DEF Leads
<1>7. /\ \A y \in Props(t, m) : y > b \/ y \in Props(t, b)
      /\ \A c \in Kids(t, m) : c > b \/ c \in Kids(t, b)
  BY <1>2 DEF Props, Kids
<1> QED
  BY <1>1, <1>5, <1>6, <1>7

\* The innermost call moves on to the next property.
LEMMA WalkAdvances ==
    ASSUME NEW m \in Nat, NEW N, NEW W, NEW T, NEW X, NEW D, Walk(m, N, W, T, X, D),
           UNCHANGED blob, Top.at # NULL, Top.lap # "children", NEW x, AtHand(m, W, T, X, x),
           frames' = Advanced,
           \A y \in OwnedTo(m) : Rewritten(W, y) => Rewritten(W, y)',
           \A t \in NodesTo(m) : t # T[1] => SameCells(Deref(nodes, N[t]), Deref(nodes', N[t])),
           Top.lap = "second" \/ ~ForArrays(x) => Rewritten(W, x)',
           NEW z, z = (IF Top.lap = "first" THEN x - 1 ELSE 0), CellsLeft(m, N, T[1], z)'
    PROVE  \E Y : Walk(m, N, W, T, Y, D)'
<1>1. PICK g : /\ IsFrame(g) /\ g.node = Top.node /\ g.lap = Top.lap
               /\ g.at = This.next_property /\ Advanced = [frames EXCEPT ![1] = g]
  BY FramesAre DEF Walk
<1>2. PICK t, b, d, lap, at : t = T[1] /\ b = X[1] /\ d = x - 1 /\ lap = g.lap /\ at = g.at
  OBVIOUS
<1>3. /\ t \in NodesTo(m) /\ b \in 0 .. m /\ lap = Top.lap
      /\ FrameIs(m, N, W, D, lap, Top.at, t, b, {})
  BY <1>1, <1>2, TopIs DEF FrameIs
<1>4. /\ x \in Props(t, m) /\ d \in 0 .. m /\ Leads(at, W, Props(t, d))
      /\ \A y \in Props(t, m) : y > d => y = x \/ y > b
      /\ z = (IF lap = "first" THEN d ELSE 0) /\ CellsLeft(m, N, t, z)'
  <2>1. x - 1 \in 0 .. m
    BY DEF AtHand, OwnedTo
  <2> QED
    BY <1>1, <1>2, <1>3, <2>1 DEF AtHand
<1>5. /\ \A y : ForArrays(y)' = ForArrays(y)
      /\ \A p, f, S : Leads(p, f, S)' = Leads(p, f, S)
      /\ \A k : Props(t, k)' = Props(t, k) /\ NodesTo(m)' = NodesTo(m)
  BY BlobStays DEF ForArrays, Leads
<1>6. \A y \in Props(t, m) : Rewritten(W, y) => Rewritten(W, y)'
  BY DEF Props, OwnedTo
<1>7. FrameIs(m, N, W, D, lap, at, t, d, {})'
  <2>1. CASE lap = "first"
    <3>1. \A y \in Props(t, m) : y > b /\ ~ForArrays(y) => Rewritten(W, y)
      BY <1>3, <2>1 DEF FrameIs
    <3>2. \A y \in Props(t, m) : y > d /\ ~ForArrays(y) => Rewritten(W, y)'
      BY <1>3, <1>4, <1>6, <2>1, <3>1
    <3>3. Leads(at, W, Props(t, d))' /\ CellsLeft(m, N, t, d)'
      BY <1>4, <1>5, <2>1
    <3> QED
      BY <1>3, <1>4, <1>5, <2>1, <3>2, <3>3 DEF FrameIs
  <2>2. CASE lap = "second"
    <3>1. \A y \in Props(t, m) : y > b \/ ~ForArrays(y) => Rewritten(W, y)
      BY <1>3, <2>2 DEF FrameIs
    <3>2. \A y \in Props(t, m) : y > d \/ ~ForArrays(y) => Rewritten(W, y)'
      BY <1>3, <1>4, <1>6, <2>2, <3>1
    <3>3. Leads(at, W, Props(t, d))' /\ CellsLeft(m, N, t, 0)'
      BY <1>4, <1>5, <2>2
    <3> QED
      BY <1>3, <1>4, <1>5, <2>2, <3>2, <3>3 DEF FrameIs
  <2>3. lap \in {"first", "second"}
    BY <1>3 DEF FrameIs
  <2> QED
    BY <2>1, <2>2, <2>3
<1>8. frames' = [frames EXCEPT ![1] = g]
  BY <1>1
<1>9. FrameIs(m, N, W, D, g.lap, g.at, T[1], d, {})'
  BY <1>2, <1>7
<1> QED
  BY <1>1, <1>8, <1>9, WalkGoesOn
----------------------------------------------------------------------------
\* What a property is given.

LEMMA TypeIsSet ==
    ASSUME NEW p, IsProperty(p), NEW x, NEW y
    PROVE  LET r == [p EXCEPT !.type = x, !.data = y]
           IN  r.token = p.token /\ r.type = x /\ r.data = y
<1>1. PICK a, b, c, d : p = [token |-> a, next_property |-> b, type |-> c, data |-> d]
  BY DEF IsProperty
<1>2. [p EXCEPT !.type = x, !.data = y] = [token |-> a, next_property |-> b, type |-> x, data |-> y]
  <2>1. [p EXCEPT !.type = x] = [token |-> a, next_property |-> b, type |-> x, data |-> d]
    BY <1>1
  <2>2. [p EXCEPT !.type = x, !.data = y] = [[p EXCEPT !.type = x] EXCEPT !.data = y]
    OBVIOUS
  <2>3. [[token |-> a, next_property |-> b, type |-> x, data |-> d] EXCEPT !.data = y] =
          [token |-> a, next_property |-> b, type |-> x, data |-> y]
    OBVIOUS
  <2> QED
    BY <2>1, <2>2, <2>3
<1> QED
  BY <1>1, <1>2

\* The bytes of an entry are a matter of the tokens.
LEMMA EntryBytesStay ==
    ASSUME UNCHANGED blob
    PROVE  \A y : EntryBytes(y)' = EntryBytes(y) /\ AddressCells(y)' = AddressCells(y)
<1>1. PropertyTokens' = PropertyTokens
  BY BlobStays DEF PropertyTokens, Kinds, Tokens
<1>2. ASSUME NEW n, NEW name, NEW d PROVE Given(n, name, d)' = Given(n, name, d)
  <2>1. PICK ks : ks = {k \in PropertyTokens : Owner(k) = n /\ blob.tokens[k].name = name}
    OBVIOUS
  <2>2. ks = {k \in PropertyTokens : Owner(k) = n /\ blob.tokens[k].name = name}'
    BY <1>1, <2>1, BlobStays
  <2>3. PICK b, r, x : b = blob /\ r = FirstRoot /\ x = CHOOSE k \in ks : \A j \in ks : k <= j
    OBVIOUS
  <2>4. b = blob' /\ r = FirstRoot'
    BY <2>3, BlobStays
  <2>5. Given(n, name, d) = IF ks # {} THEN b.tokens[x].value.word ELSE IF n = r THEN d ELSE 0
    BY <2>1, <2>3 DEF Given
  <2>6. Given(n, name, d)' = IF ks # {} THEN b.tokens[x].value.word ELSE IF n = r THEN d ELSE 0
    BY <2>2, <2>3, <2>4 DEF Given
  <2> QED
    BY <2>5, <2>6
<1>3. \A n : AddressCells(n)' = AddressCells(n) /\ SizeCells(n)' = SizeCells(n)
  BY <1>2 DEF AddressCells, SizeCells
<1>4. \A y : EntryBytes(y)' = EntryBytes(y)
  BY <1>3, BlobStays DEF EntryBytes
<1> QED
  BY <1>3, <1>4

\* The property of the token x alone is given a type and data.
LEMMA OneAssigned ==
    ASSUME NEW m \in Nat, NEW W, PropertiesAt(m, W), PropertiesOK(m), NEW x \in OwnedTo(m),
           Top.at = W[x], NEW type, NEW data, properties' = Assigned(type, data)
    PROVE  /\ Deref(properties', W[x]).type = type /\ Deref(properties', W[x]).data = data
           /\ \A y \in OwnedTo(m) : y # x => Deref(properties', W[y]) = Deref(properties, W[y])
<1>1. PICK E : IsStack(properties, E) /\ \A e \in E : IsProperty(e)
  BY DEF PropertiesOK
<1>2. PICK p : p = W[x]
  OBVIOUS
<1>3. PICK r : r = Deref(properties, p)
  OBVIOUS
<1>4. PICK v : v = [r EXCEPT !.type = type, !.data = data]
  OBVIOUS
<1>5. PointsInto(properties, p) /\ r.token = x
  BY <1>2, <1>3 DEF PropertiesAt
<1>6. IsProperty(r)
  BY <1>1, <1>3, <1>5, Follows
<1>7. v.type = type /\ v.data = data
  BY <1>4, <1>6, TypeIsSet
<1>8. properties' = Assign(properties, p, v)
  BY <1>2, <1>3, <1>4 DEF Assigned, This
<1>9. \A q : PointsInto(properties, q) =>
         Deref(properties', q) = IF Same(q, p) THEN v ELSE Deref(properties, q)
  BY <1>1, <1>5, <1>8, AssignedAt
<1>10. Same(p, p)
  BY DEF Same
<1>11. ASSUME NEW y \in OwnedTo(m), y # x
       PROVE  Deref(properties', W[y]) = Deref(properties, W[y])
  <2>1. PICK q : q = W[y]
    OBVIOUS
  <2>2. PointsInto(properties, q) /\ Deref(properties, q).token = y
    BY <2>1 DEF PropertiesAt
  <2>3. ~Same(q, p)
    BY <1>3, <1>5, <1>11, <2>2 DEF Same, Deref
  <2> QED
    BY <1>9, <2>1, <2>2, <2>3
<1> QED
  BY <1>2, <1>5, <1>7, <1>9, <1>10, <1>11

\* A property that is given the type of its name, and is divided as its cells
\* ask for, leaves everything in order.
LEMMA AssignedWell ==
    ASSUME NEW m \in Nat, NEW W, PropertiesAt(m, W), PropertiesOK(m), NEW x \in OwnedTo(m),
           TypesOK(m, W), DividedTo(m, W), UNCHANGED blob,
           Top.at = W[x], NEW type, NEW data, properties' = Assigned(type, data),
           type = Expected(x), NEW len, len = blob.tokens[x].value.len,
           type \in {"REG", "RANGES"} =>
               \/ data.value * EntryBytes(x) = len
               \/ type = "RANGES" /\ data.value = 0 /\ len = 0
    PROVE  /\ TypesOK(m, W)' /\ DividedTo(m, W)' /\ Rewritten(W, x)'
           /\ \A y \in OwnedTo(m) : Rewritten(W, y) => Rewritten(W, y)'
<1>1. /\ Deref(properties', W[x]).type = type /\ Deref(properties', W[x]).data = data
      /\ \A y \in OwnedTo(m) : y # x => Deref(properties', W[y]) = Deref(properties, W[y])
  BY OneAssigned
<1>2. /\ \A y : Expected(y)' = Expected(y) /\ EntryBytes(y)' = EntryBytes(y)
      /\ OwnedTo(m)' = OwnedTo(m)
  BY BlobStays, EntryBytesStay DEF Expected
<1>3. Rewritten(W, x)'
  BY <1>1, <1>2 DEF Rewritten, TypeGiven
<1>4. ASSUME NEW y \in OwnedTo(m), y # x
      PROVE  /\ TypeGiven(W, y)' = TypeGiven(W, y) /\ Rewritten(W, y)' = Rewritten(W, y)
             /\ Divided(Deref(properties, W[y]), y)' = Divided(Deref(properties, W[y]), y)
  BY <1>1, <1>2, <1>4 DEF TypeGiven, Rewritten, Divided
<1>5. TypesOK(m, W)'
  <2>1. TypeGiven(W, x)' \in {"RAW", Expected(x)}
    BY <1>1 DEF TypeGiven
  <2> QED
    BY <1>2, <1>4, <2>1 DEF TypesOK
<1>6. DividedTo(m, W)'
  <2>1. Divided(Deref(properties, W[x]), x)'
    BY <1>1, <1>2 DEF Divided
  <2> QED
    BY <1>2, <1>4, <2>1 DEF DividedTo
<1> QED
  BY <1>3, <1>4, <1>5, <1>6
----------------------------------------------------------------------------
\* The steps of the innermost call at a property.

\* What the calls are about, and what they are to leave in order.
Parsing(m, N, W) ==
    /\ m \in Nat /\ blob \in Blobs /\ m \in 0 .. Len(blob.tokens)
    /\ NodesOK /\ PropertiesOK(m) /\ Shape(m, N, W)

Walking(m, N, W) ==
    TypesOK(m, W) /\ DividedTo(m, W) /\ \E T, X, D : Walk(m, N, W, T, X, D)

\* Where the properties stay.
LEMMA TypesStay ==
    ASSUME NEW m, NEW W, TypesOK(m, W), DividedTo(m, W), UNCHANGED <<blob, properties>>
    PROVE  TypesOK(m, W)' /\ DividedTo(m, W)'
<1>1. \A y : Expected(y)' = Expected(y) /\ TypeGiven(W, y)' = TypeGiven(W, y)
  BY DEF Expected, TypeGiven
<1>2. OwnedTo(m)' = OwnedTo(m) /\ \A y : EntryBytes(y)' = EntryBytes(y)
  BY BlobStays, EntryBytesStay
<1> QED
  BY <1>1, <1>2 DEF TypesOK, DividedTo, Divided

\* Where the lists and the calls stay.
LEMMA WalkStays ==
    ASSUME NEW m, NEW N, NEW W, Walking(m, N, W), UNCHANGED <<blob, nodes, properties, frames>>
    PROVE  Walking(m, N, W)'
<1>1. PICK T, X, D : Walk(m, N, W, T, X, D)
  BY DEF Walking
<1>2. TypesOK(m, W)' /\ DividedTo(m, W)'
  BY TypesStay DEF Walking
<1>3. /\ \A y : Rewritten(W, y)' = Rewritten(W, y)
      /\ \A t, b : CellsLeft(m, N, t, b)' = CellsLeft(m, N, t, b)
  BY NothingRewritten
<1>4. Done(m, W, D)'
  BY <1>1, <1>3, BlobStays DEF Walk, Done
<1>5. \A y : ForArrays(y)' = ForArrays(y)
  BY DEF ForArrays
<1>6. /\ NodesTo(m)' = NodesTo(m)
      /\ \A k, t : Props(t, k)' = Props(t, k) /\ Kids(t, k)' = Kids(t, k)
                    /\ Child(t, k)' = Child(t, k)
      /\ FirstRoot' = FirstRoot
  BY BlobStays
<1>7. ASSUME NEW i \in 1 .. Len(frames) PROVE CallIs(m, N, W, T, X, D, i)'
  <2>1. PICK f, t, b, up : f = frames[i] /\ t = T[i] /\ b = X[i] /\ up = Called(T, i)
    OBVIOUS
  <2>2. FrameIs(m, N, W, D, f.lap, f.at, t, b, up)
    BY <1>1, <2>1 DEF Walk, CallIs
  <2>3. FrameIs(m, N, W, D, f.lap, f.at, t, b, up)'
    BY <1>3, <1>5, <1>6, <2>2 DEF FrameIs, Leads
  <2>4. f = frames'[i] /\ up = Called(T, i)'
    BY <2>1 DEF Called
  <2> QED
    BY <1>1, <1>6, <2>1, <2>3, <2>4 DEF Walk, CallIs
<1>8. Walk(m, N, W, T, X, D)'
  BY <1>1, <1>4, <1>7 DEF Walk, AreFrames
<1> QED
  BY <1>2, <1>8 DEF Walking

\* A property that names no cells leaves those counted so far.
LEMMA CellsPassed ==
    ASSUME NEW m \in Nat, NEW N, NEW W, NEW T, NEW X, NEW D, Walk(m, N, W, T, X, D),
           UNCHANGED <<blob, nodes>>, Top.lap # "children", NEW x, AtHand(m, W, T, X, x),
           Top.lap = "first" => blob.tokens[x].name \notin CellNames,
           NEW z, z = (IF Top.lap = "first" THEN x - 1 ELSE 0)
    PROVE  CellsLeft(m, N, T[1], z)'
<1>1. PICK t, b : t = T[1] /\ b = X[1]
  OBVIOUS
<1>2. FrameIs(m, N, W, D, Top.lap, Top.at, t, b, {})
  BY <1>1, TopIs
<1>3. CellsLeft(m, N, t, z)
  <2>1. CASE Top.lap = "first"
    <3>1. CellsLeft(m, N, t, b)
      BY <1>2, <2>1 DEF FrameIs
    <3>2. \A y \in Props(t, m) : y > z => y = x \/ y > b
      BY <1>1, <2>1 DEF AtHand
    <3>3. ASSUME NEW name \in CellNames
          PROVE  \A y \in Named(t, name, m) : y > z => y > b
      BY <2>1, <3>2 DEF Named
    <3>4. \A y \in Named(t, "#address-cells", m) : y > z => y > b
      BY <3>3 DEF CellNames
    <3>5. \A y \in Named(t, "#size-cells", m) : y > z => y > b
      BY <3>3 DEF CellNames
    <3> QED
      BY <3>1, <3>4, <3>5, CountsFurther DEF CellsLeft
  <2>2. CASE Top.lap = "second"
    BY <1>2, <2>2 DEF FrameIs
  <2>3. Top.lap \in {"first", "second"}
    BY <1>2 DEF FrameIs
  <2> QED
    BY <2>1, <2>2, <2>3
<1>4. \A name : Named(t, name, m)' = Named(t, name, m)
  BY BlobStays DEF Named
<1>5. CellsLeft(m, N, t, z)'
  BY <1>3, <1>4, BlobStays DEF CellsLeft, Counts
<1> QED
  BY <1>1, <1>5

\* The call is done with a property that gets the type of its name.
LEMMA PropertyTyped ==
    ASSUME NEW m \in Nat, NEW N, NEW W, NEW T, NEW X, NEW D, Walk(m, N, W, T, X, D),
           Parsing(m, N, W), TypesOK(m, W), DividedTo(m, W),
           UNCHANGED <<blob, nodes>>, Top.lap # "children", Top.at # NULL,
           NEW x, AtHand(m, W, T, X, x), frames' = Advanced,
           Top.lap = "first" => blob.tokens[x].name \notin CellNames,
           NEW type, NEW data, properties' = Assigned(type, data), type = Expected(x),
           NEW len, len = blob.tokens[x].value.len,
           type \in {"REG", "RANGES"} =>
               \/ data.value * EntryBytes(x) = len
               \/ type = "RANGES" /\ data.value = 0 /\ len = 0
    PROVE  Walking(m, N, W)'
<1>1. x \in OwnedTo(m) /\ Top.at = W[x] /\ PropertiesAt(m, W) /\ PropertiesOK(m)
  BY DEF AtHand, Parsing, Shape
<1>2. /\ TypesOK(m, W)' /\ DividedTo(m, W)' /\ Rewritten(W, x)'
      /\ \A y \in OwnedTo(m) : Rewritten(W, y) => Rewritten(W, y)'
  BY <1>1, AssignedWell
<1>3. PICK z : z = IF Top.lap = "first" THEN x - 1 ELSE 0
  OBVIOUS
<1>4. CellsLeft(m, N, T[1], z)'
  BY <1>3, CellsPassed
<1>5. \A t \in NodesTo(m) : t # T[1] => SameCells(Deref(nodes, N[t]), Deref(nodes', N[t]))
  BY DEF SameCells
<1>6. \E Y : Walk(m, N, W, T, Y, D)'
  BY <1>2, <1>3, <1>4, <1>5, WalkAdvances
<1> QED
  BY <1>2, <1>6 DEF Walking

\* It passes one that has it, or is left for the second lap.
LEMMA PropertyPassed ==
    ASSUME NEW m \in Nat, NEW N, NEW W, NEW T, NEW X, NEW D, Walk(m, N, W, T, X, D),
           TypesOK(m, W), DividedTo(m, W),
           UNCHANGED <<blob, nodes, properties>>, Top.lap # "children", Top.at # NULL,
           NEW x, AtHand(m, W, T, X, x), frames' = Advanced,
           Top.lap = "first" => blob.tokens[x].name \notin CellNames,
           (Top.lap = "second" \/ ~ForArrays(x)) => Rewritten(W, x)
    PROVE  Walking(m, N, W)'
<1>1. \A y : Rewritten(W, y)' = Rewritten(W, y)
  BY NothingRewritten
<1>2. PICK z : z = IF Top.lap = "first" THEN x - 1 ELSE 0
  OBVIOUS
<1>3. CellsLeft(m, N, T[1], z)'
  BY <1>2, CellsPassed
<1>4. \A t \in NodesTo(m) : t # T[1] => SameCells(Deref(nodes, N[t]), Deref(nodes', N[t]))
  BY DEF SameCells
<1>5. (Top.lap = "second" \/ ~ForArrays(x)) => Rewritten(W, x)'
  BY <1>1
<1>6. \A y \in OwnedTo(m) : Rewritten(W, y) => Rewritten(W, y)'
  BY <1>1
<1>7. \E Y : Walk(m, N, W, T, Y, D)'
  BY <1>2, <1>3, <1>4, <1>5, <1>6, WalkAdvances
<1>8. TypesOK(m, W)' /\ DividedTo(m, W)'
  BY TypesStay
<1> QED
  BY <1>7, <1>8 DEF Walking

\* The properties that need no arrays, and those left for the second lap.
LEMMA NamedStep ==
    ASSUME NEW m, NEW N, NEW W, Parsing(m, N, W), Walking(m, N, W),
           RewriteByName \/ Skip \/ RewriteCompatible \/ SkipSecond \/ RangesEmpty
    PROVE  Walking(m, N, W)'
<1>1. PICK T, X, D : Walk(m, N, W, T, X, D)
  BY DEF Walking
<1>2. /\ m \in Nat /\ Shape(m, N, W) /\ TypesOK(m, W) /\ DividedTo(m, W)
      /\ Top.at # NULL /\ Top.lap # "children" /\ UNCHANGED <<blob, nodes>>
  BY DEF Parsing, Walking, RewriteByName, Skip, RewriteCompatible, SkipSecond, RangesEmpty,
         AtArrays, AtProperty, OnLap, unchanged_parse, parse_vars
<1>3. PICK x : AtHand(m, W, T, X, x)
  BY <1>1, <1>2, PropertyAtHand
<1>4. PICK name, len : name = blob.tokens[x].name /\ len = blob.tokens[x].value.len
  OBVIOUS
<1>5. /\ Name(This) = name /\ Value(This).len = len /\ Expected(x) = ExpectedType(name)
      /\ x \in OwnedTo(m) /\ x \in Props(T[1], m) /\ (ForArrays(x) <=> name \in ArrayNames)
      /\ TypeGiven(W, x) \in {"RAW", Expected(x)}
  BY <1>2, <1>3, <1>4 DEF AtHand, Name, Value, Expected, ForArrays, TypesOK
<1>6. CASE RewriteByName
  <2>1. /\ Top.lap = "first" /\ name \in DOMAIN FirstLapTypes /\ frames' = Advanced
        /\ properties' = Assigned(NameType(name), NameData(This))
    BY <1>5, <1>6 DEF RewriteByName, AtProperty, OnLap
  <2>2. /\ NameType(name) = ExpectedType(name) /\ NameType(name) \notin {"REG", "RANGES"}
        /\ name \notin CellNames
    BY <2>1, TypesAre DEF NameType
  <2>3. PICK type, data : type = NameType(name) /\ data = NameData(This)
    OBVIOUS
  <2>4. /\ type = Expected(x) /\ type \notin {"REG", "RANGES"}
        /\ properties' = Assigned(type, data)
    BY <1>5, <2>1, <2>2, <2>3
  <2> QED
    BY <1>1, <1>2, <1>3, <1>4, <2>1, <2>2, <2>4, PropertyTyped
<1>7. CASE Skip
  <2>1. /\ Top.lap = "first" /\ frames' = Advanced /\ UNCHANGED properties
        /\ name \notin DOMAIN FirstLapTypes \cup DOMAIN CellTypes \cup {"compatible"}
    BY <1>5, <1>7 DEF Skip, AtProperty, OnLap, parse_vars
  <2>2. name \notin CellNames /\ (name \notin ArrayNames => ExpectedType(name) = "RAW")
    BY <2>1, TypesAre
  <2>3. ~ForArrays(x) => Rewritten(W, x)
    BY <1>5, <2>2 DEF Rewritten
  <2>4. (Top.lap = "second" \/ ~ForArrays(x)) => Rewritten(W, x)
    BY <2>1, <2>3
  <2> QED
    BY <1>1, <1>2, <1>3, <1>4, <2>1, <2>2, <2>4, PropertyPassed
<1>8. CASE RewriteCompatible
  <2>1. Top.lap = "first" /\ name = "compatible"
    BY <1>5, <1>8 DEF RewriteCompatible, AtProperty, OnLap
  <2>2. CASE bump_status' = "running"
    <3>1. PICK type, data : type = "COMPATIBLE" /\ data = [member |-> "COMPATIBLE", value |-> ret']
      OBVIOUS
    <3>2. properties' = Assigned(type, data) /\ frames' = Advanced
      BY <1>8, <2>2, <3>1 DEF RewriteCompatible
    <3>3. type = Expected(x) /\ type \notin {"REG", "RANGES"}
      BY <1>5, <2>1, <3>1, TypesAre
    <3>4. name \notin CellNames
      BY <2>1 DEF CellNames
    <3> QED
      BY <1>1, <1>2, <1>3, <1>4, <3>2, <3>3, <3>4, PropertyTyped
  <2>3. CASE bump_status' # "running"
    <3>1. UNCHANGED <<blob, nodes, properties, frames>>
      BY <1>2, <1>8, <2>3 DEF RewriteCompatible
    <3> QED
      BY <1>1, <3>1, WalkStays
  <2> QED
    BY <2>2, <2>3
<1>9. CASE SkipSecond
  <2>1. Top.lap = "second" /\ frames' = Advanced /\ UNCHANGED properties /\ name \notin ArrayNames
    BY <1>5, <1>9, TypesAre DEF SkipSecond, AtProperty, OnLap, parse_vars
  <2>2. FrameIs(m, N, W, D, Top.lap, Top.at, T[1], X[1], {})
    BY <1>1, <1>2, TopIs
  <2>3. \A y \in Props(T[1], m) : ~ForArrays(y) => Rewritten(W, y)
    BY <2>1, <2>2 DEF FrameIs
  <2>4. (Top.lap = "second" \/ ~ForArrays(x)) => Rewritten(W, x)
    BY <1>5, <2>1, <2>3
  <2> QED
    BY <1>1, <1>2, <1>3, <1>4, <2>1, <2>4, PropertyPassed
<1>10. CASE RangesEmpty
  <2>1. PICK type, data : type = "RANGES" /\ data = [member |-> "RANGES", value |-> 0]
    OBVIOUS
  <2>2. /\ Top.lap = "second" /\ frames' = Advanced /\ properties' = Assigned(type, data)
        /\ name \in ArrayNames /\ ArrayTypes[name] = "RANGES" /\ len = 0
    BY <1>5, <1>10, <2>1, TypesAre
       DEF RangesEmpty, AtArrays, AtProperty, OnLap, EmptyRanges, Type
  <2>3. type = Expected(x) /\ data.value = 0
    BY <1>5, <2>1, <2>2, TypesAre
  <2>4. type = "RANGES" /\ data.value = 0 /\ len = 0
    BY <2>1, <2>2, <2>3
  <2> QED
    BY <1>1, <1>2, <1>3, <1>4, <2>2, <2>3, <2>4, PropertyTyped
<1> QED
  BY <1>6, <1>7, <1>8, <1>9, <1>10
----------------------------------------------------------------------------
\* The cells.

\* One node alone is assigned.
LEMMA OneNodeAssigned ==
    ASSUME NEW m \in Nat, NEW N, NodesAt(m, N), NodesOK, NEW t \in NodesTo(m), NEW v,
           nodes' = Assign(nodes, N[t], v)
    PROVE  /\ Deref(nodes', N[t]) = v
           /\ \A k \in NodesTo(m) : k # t => Deref(nodes', N[k]) = Deref(nodes, N[k])
<1>1. PICK E : IsStack(nodes, E)
  BY DEF NodesOK
<1>2. PICK p : p = N[t]
  OBVIOUS
<1>3. PointsInto(nodes, p) /\ Deref(nodes, p).token = t
  BY <1>2 DEF NodesAt
<1>4. \A q : PointsInto(nodes, q) => Deref(nodes', q) = IF Same(q, p) THEN v ELSE Deref(nodes, q)
  BY <1>1, <1>2, <1>3, AssignedAt
<1>5. Same(p, p)
  BY DEF Same
<1>6. ASSUME NEW k \in NodesTo(m), k # t PROVE Deref(nodes', N[k]) = Deref(nodes, N[k])
  <2>1. PICK q : q = N[k]
    OBVIOUS
  <2>2. PointsInto(nodes, q) /\ Deref(nodes, q).token = k
    BY <2>1 DEF NodesAt
  <2>3. ~Same(q, p)
    BY <1>3, <1>6, <2>2 DEF Same, Deref
  <2> QED
    BY <1>4, <2>1, <2>2, <2>3
<1> QED
  BY <1>2, <1>3, <1>4, <1>5, <1>6

\* The word of the property at hand is what the properties from it on leave.
LEMMA CountWritten ==
    ASSUME NEW S, S \subseteq Nat, NEW x \in S, NEW default
    PROVE  Counts(blob.tokens[x].value.word, default, S, x - 1)
<1>1. ASSUME NEW y \in S, y > x - 1, \A z \in S : y <= z PROVE y = x
  BY <1>1
<1> QED
  BY <1>1 DEF Counts

\* The new cells of the node.
LEMMA CellsWritten ==
    ASSUME NEW m \in Nat, NEW N, NEW W, NEW T, NEW X, NEW D, Walk(m, N, W, T, X, D),
           Top.lap = "first", NEW x, AtHand(m, W, T, X, x), UNCHANGED blob,
           NEW name \in CellNames, name = blob.tokens[x].name,
           NEW w, w = blob.tokens[x].value.word, NEW n, n = Deref(nodes, N[T[1]]), IsNode(n),
           Deref(nodes', N[T[1]]) = IF name = "#address-cells" THEN [n EXCEPT !.address_cells = w]
                                                               ELSE [n EXCEPT !.size_cells = w],
           NEW z, z = x - 1
    PROVE  CellsLeft(m, N, T[1], z)'
<1>1. PICK t, b, v : t = T[1] /\ b = X[1] /\ v = Deref(nodes', N[T[1]])
  OBVIOUS
<1>2. FrameIs(m, N, W, D, Top.lap, Top.at, t, b, {})
  BY <1>1, TopIs
<1>3. CellsLeft(m, N, t, b)
  BY <1>2 DEF FrameIs
<1>4. PICK da, ds : /\ da = (IF t = FirstRoot THEN 2 ELSE 0)
                    /\ ds = (IF t = FirstRoot THEN 1 ELSE 0)
  OBVIOUS
<1>5. /\ Counts(n.address_cells, da, Named(t, "#address-cells", m), b)
      /\ Counts(n.size_cells, ds, Named(t, "#size-cells", m), b)
  BY <1>1, <1>3, <1>4 DEF CellsLeft
<1>6. x \in Props(t, m) /\ \A y \in Props(t, m) : y > z => y = x \/ y > b
  BY <1>1 DEF AtHand
<1>7. /\ x \in Named(t, name, m) /\ \A k : Named(t, k, m) \subseteq Nat
      /\ \A k : k # name => \A y \in Named(t, k, m) : y > z => y > b
  BY <1>6 DEF Named, Props
<1>8. /\ Counts(v.address_cells, da, Named(t, "#address-cells", m), z)
      /\ Counts(v.size_cells, ds, Named(t, "#size-cells", m), z)
  <2>1. \A default : Counts(w, default, Named(t, name, m), z)
    BY <1>7, CountWritten
  <2>2. CASE name = "#address-cells"
    <3>1. v.address_cells = w /\ v.size_cells = n.size_cells
      BY <1>1, <2>2, AddressCellsChange
    <3>2. \A y \in Named(t, "#size-cells", m) : y > z => y > b
      BY <1>7, <2>2
    <3>3. Counts(n.size_cells, ds, Named(t, "#size-cells", m), z)
      BY <1>5, <3>2, CountsFurther
    <3> QED
      BY <2>1, <2>2, <3>1, <3>3
  <2>3. CASE name = "#size-cells"
    <3>1. v.size_cells = w /\ v.address_cells = n.address_cells
      BY <1>1, <2>3, SizeCellsChange
    <3>2. \A y \in Named(t, "#address-cells", m) : y > z => y > b
      BY <1>7, <2>3
    <3>3. Counts(n.address_cells, da, Named(t, "#address-cells", m), z)
      BY <1>5, <3>2, CountsFurther
    <3> QED
      BY <2>1, <2>3, <3>1, <3>3
  <2> QED
    BY <2>2, <2>3 DEF CellNames
<1>9. \A k : Named(t, k, m)' = Named(t, k, m)
  BY BlobStays DEF Named
<1>10. CellsLeft(m, N, t, z)'
  <2>1. /\ Counts(v.address_cells, da, Named(t, "#address-cells", m), z)'
        /\ Counts(v.size_cells, ds, Named(t, "#size-cells", m), z)'
    BY <1>8, <1>9 DEF Counts
  <2>2. /\ da = (IF t = FirstRoot' THEN 2 ELSE 0) /\ ds = (IF t = FirstRoot' THEN 1 ELSE 0)
        /\ v = Deref(nodes', N[t])
    BY <1>1, <1>4, BlobStays
  <2> QED
    BY <2>1, <2>2 DEF CellsLeft
<1> QED
  BY <1>1, <1>10

\* A node that no property names the cells of has those there are by default.
Defaults(m, N) == \A t \in NodesTo(m) : CellsLeft(m, N, t, m)

\* The cells of one node are counted, those of the others stay.
LEMMA DefaultsCounted ==
    ASSUME NEW m \in Nat, NEW N, Defaults(m, N), UNCHANGED blob, NEW t, NEW z,
           CellsLeft(m, N, t, z)',
           \A k \in NodesTo(m) : k # t => SameCells(Deref(nodes, N[k]), Deref(nodes', N[k]))
    PROVE  Defaults(m, N)'
<1>1. \A k, name : Named(k, name, m)' = Named(k, name, m) /\ Named(k, name, m) \subseteq 1 .. m
  BY BlobStays DEF Named, Props
<1>2. \A k, name : \A y \in Named(k, name, m) : ~(y > m)
  BY <1>1
<1>3. ASSUME NEW k \in NodesTo(m), k # t PROVE CellsLeft(m, N, k, m)'
  BY <1>1, <1>3, BlobStays DEF Defaults, CellsLeft, Counts, SameCells
<1>4. CellsLeft(m, N, t, m)'
  BY <1>1, <1>2 DEF CellsLeft, Counts
<1> QED
  BY <1>3, <1>4, BlobStays DEF Defaults

\* The counts that are too large end the parse.
LEMMA CellsStep ==
    ASSUME NEW m, NEW N, NEW W, Parsing(m, N, W), Walking(m, N, W), RewriteCells
    PROVE  \/ /\ Walking(m, N, W)' /\ UNCHANGED <<pc, initialized>>
              /\ Defaults(m, N) => Defaults(m, N)'
           \/ TypesOK(m, W)' /\ DividedTo(m, W)' /\ pc' = "done" /\ UNCHANGED initialized
<1>1. PICK T, X, D : Walk(m, N, W, T, X, D)
  BY DEF Walking
<1>2. /\ m \in Nat /\ Shape(m, N, W) /\ TypesOK(m, W) /\ DividedTo(m, W) /\ PropertiesOK(m)
      /\ Top.at # NULL /\ Top.lap = "first" /\ Top.lap # "children"
      /\ UNCHANGED <<blob, initialized>>
  BY DEF Parsing, Walking, RewriteCells, AtProperty, OnLap, unchanged_parse
<1>3. PICK x : AtHand(m, W, T, X, x)
  BY <1>1, <1>2, PropertyAtHand
<1>4. PICK name, len, w : /\ name = blob.tokens[x].name /\ len = blob.tokens[x].value.len
                          /\ w = blob.tokens[x].value.word
  OBVIOUS
<1>5. /\ Name(This) = name /\ Value(This).word = w /\ Expected(x) = ExpectedType(name)
      /\ x \in OwnedTo(m) /\ Top.at = W[x] /\ (ForArrays(x) <=> name \in ArrayNames)
  BY <1>3, <1>4 DEF AtHand, Name, Value, Expected, ForArrays
<1>6. PICK type : type = CellTypes[name]
  OBVIOUS
<1>7. PICK data : data = [member |-> type, value |-> w]
  OBVIOUS
<1>8. PICK n, p : n = ThisNode /\ p = Top.node
  OBVIOUS
<1>9. name \in CellNames /\ properties' = Assigned(type, data)
      /\ \/ pc' = "done"
         \/ /\ frames' = Advanced /\ UNCHANGED pc
            /\ nodes' = Assign(nodes, p,
                            IF type = "ADDRESS_CELLS" THEN [n EXCEPT !.address_cells = w]
                                                      ELSE [n EXCEPT !.size_cells = w])
  <2>1. name \in CellNames /\ properties' = Assigned(type, data)
    BY <1>5, <1>6, <1>7, TypesAre DEF RewriteCells
  <2>2. CASE TooLarge(type, w)
    BY <1>5, <1>6, <2>1, <2>2 DEF RewriteCells, Fails
  <2>3. CASE ~TooLarge(type, w)
    BY <1>5, <1>6, <1>8, <2>1, <2>3 DEF RewriteCells
  <2> QED
    BY <2>1, <2>2, <2>3
<1>10. type = Expected(x) /\ type \notin {"REG", "RANGES"}
       /\ (type = "ADDRESS_CELLS" <=> name = "#address-cells")
  BY <1>5, <1>6, <1>9, TypesAre
<1>11. /\ TypesOK(m, W)' /\ DividedTo(m, W)' /\ Rewritten(W, x)'
       /\ \A y \in OwnedTo(m) : Rewritten(W, y) => Rewritten(W, y)'
  BY <1>2, <1>4, <1>5, <1>9, <1>10, AssignedWell DEF Shape
<1>12. CASE pc' # "done"
  <2>1. PICK v : v = IF name = "#address-cells" THEN [n EXCEPT !.address_cells = w]
                                                ELSE [n EXCEPT !.size_cells = w]
    OBVIOUS
  <2>2. frames' = Advanced /\ UNCHANGED pc /\ nodes' = Assign(nodes, p, v)
    BY <1>9, <1>10, <1>12, <2>1
  <2>3. PICK t : t = T[1]
    OBVIOUS
  <2>4. p = N[t] /\ t \in NodesTo(m) /\ n = Deref(nodes, N[t])
    BY <1>1, <1>2, <1>8, <2>3, TopIs DEF ThisNode
  <2>5. IsNode(n)
    <3>1. PointsInto(nodes, p)
      BY <1>2, <2>4 DEF Shape, NodesAt
    <3> QED
      BY <2>4, <3>1, Follows DEF Parsing, NodesOK
  <2>6. /\ Deref(nodes', N[t]) = v
        /\ \A k \in NodesTo(m) : k # t => Deref(nodes', N[k]) = Deref(nodes, N[k])
    BY <1>2, <2>2, <2>4, OneNodeAssigned, ZenonT(60) DEF Parsing, Shape
  <2>7. \A k \in NodesTo(m) : k # T[1] => SameCells(Deref(nodes, N[k]), Deref(nodes', N[k]))
    BY <2>3, <2>6 DEF SameCells
  <2>8. PICK z : z = x - 1
    OBVIOUS
  <2>9. /\ n = Deref(nodes, N[T[1]])
        /\ Deref(nodes', N[T[1]]) = IF name = "#address-cells" THEN [n EXCEPT !.address_cells = w]
                                                               ELSE [n EXCEPT !.size_cells = w]
    BY <2>1, <2>3, <2>4, <2>6
  <2>10. CellsLeft(m, N, T[1], z)'
    BY <1>1, <1>2, <1>3, <1>4, <1>9, <2>5, <2>8, <2>9, CellsWritten
  <2>11. z = IF Top.lap = "first" THEN x - 1 ELSE 0
    BY <1>2, <2>8
  <2>12. \E Y : Walk(m, N, W, T, Y, D)'
    BY <1>1, <1>2, <1>3, <1>11, <2>2, <2>7, <2>10, <2>11, WalkAdvances
  <2>13. Defaults(m, N) => Defaults(m, N)'
    BY <1>2, <2>7, <2>10, DefaultsCounted
  <2> QED
    BY <1>2, <1>11, <2>2, <2>12, <2>13 DEF Walking
<1>13. CASE pc' = "done"
  BY <1>2, <1>11, <1>13
<1> QED
  BY <1>12, <1>13
----------------------------------------------------------------------------
\* The arrays.

LEMMA GivenTyped ==
    ASSUME blob \in Blobs, NEW t, NEW name, NEW default \in Nat
    PROVE  Given(t, name, default) \in Nat
<1>1. PICK ks : ks = {k \in PropertyTokens : Owner(k) = t /\ blob.tokens[k].name = name}
  OBVIOUS
<1>2. PICK b : b = blob /\ b \in Blobs
  OBVIOUS
<1>3. /\ ks \subseteq Nat
      /\ \A k \in ks : b.tokens[k].value.word \in Nat
  <2>1. ASSUME NEW k \in ks PROVE k \in 1 .. Len(b.tokens) /\ b.tokens[k].kind = "PROP"
    BY <1>1, <1>2, BlobAssumption DEF PropertyTokens, Kinds, Tokens
  <2>2. Len(b.tokens) \in Nat
    BY <1>2, BlobAssumption
  <2> QED
    BY <1>2, <2>1, <2>2, BlobAssumption
<1>4. PICK x : x = CHOOSE k \in ks : \A j \in ks : k <= j
  OBVIOUS
<1>5. ks # {} => x \in ks
  <2>1. SUFFICES ASSUME ks # {} PROVE x \in ks
    OBVIOUS
  <2>2. \E k \in ks : \A j \in ks : k <= j
    BY <1>3, <2>1, Least
  <2> QED
    BY <1>4, <2>2
<1>6. Given(t, name, default) = IF ks # {} THEN b.tokens[x].value.word
                                ELSE IF t = FirstRoot THEN default ELSE 0
  BY <1>1, <1>2, <1>4 DEF Given
<1>7. CASE ks = {}
  <2>1. Given(t, name, default) \in {default, 0}
    BY <1>6, <1>7
  <2> QED
    BY <2>1
<1>8. CASE ks # {}
  <2>1. Given(t, name, default) = b.tokens[x].value.word /\ x \in ks
    BY <1>5, <1>6, <1>8
  <2> QED
    BY <1>3, <2>1
<1> QED
  BY <1>7, <1>8

\* The cells of a node that has been through its first lap.
LEMMA CellsAre ==
    ASSUME blob \in Blobs, NEW m \in 0 .. Len(blob.tokens), OpenAfter(m) = <<>>, NEW N,
           NEW t \in NodesTo(m), CellsLeft(m, N, t, 0)
    PROVE  /\ Deref(nodes, N[t]).address_cells = AddressCells(t) /\ AddressCells(t) \in Nat
           /\ Deref(nodes, N[t]).size_cells = SizeCells(t) /\ SizeCells(t) \in Nat
<1>1. PICK n : n = Deref(nodes, N[t])
  OBVIOUS
<1>2. /\ Counts(n.address_cells, IF t = FirstRoot THEN 2 ELSE 0, Named(t, "#address-cells", m), 0)
      /\ Counts(n.size_cells, IF t = FirstRoot THEN 1 ELSE 0, Named(t, "#size-cells", m), 0)
  BY <1>1 DEF CellsLeft
<1>3. n.address_cells = AddressCells(t)
  BY <1>2, GivenIs DEF AddressCells
<1>4. n.size_cells = SizeCells(t)
  BY <1>2, GivenIs, ZenonT(60) DEF SizeCells
<1>5. AddressCells(t) \in Nat /\ SizeCells(t) \in Nat
  BY GivenTyped DEF AddressCells, SizeCells
<1> QED
  BY <1>1, <1>3, <1>4, <1>5

\* What is divided without rest is the product.
LEMMA Divides ==
    ASSUME NEW a \in Nat, NEW s \in Nat,
           NEW q, q = (IF s = 0 THEN WORD - 1 ELSE a \div s),
           (IF s = 0 THEN a ELSE a % s) = 0
    PROVE  q * s = a
<1>1. CASE s = 0
  <2>1. q \in Int
    BY <1>1, WordAssumption
  <2> QED
    BY <1>1, <2>1
<1>2. CASE s # 0
  <2>1. a = (s * q) + 0 /\ q \in Nat
    BY <1>2, Division
  <2>2. q * s = s * q /\ (s * q) + 0 = s * q
    BY <2>1
  <2> QED
    BY <2>1, <2>2
<1> QED
  BY <1>1, <1>2

\* The node that is around the one of the innermost call, on whose children
\* the next call is.
LEMMA CallerIs ==
    ASSUME NEW m, NEW N, NEW W, Parsing(m, N, W), NodesTo(m) # {},
           NEW T, NEW X, NEW D, Walk(m, N, W, T, X, D), ThisNode.parent # NULL,
           NEW t, t = T[1], NEW u, u = Outside(t)[1]
    PROVE  /\ t \in NodesTo(m) /\ u \in NodesTo(m) /\ ThisNode = Deref(nodes, N[t])
           /\ Parent = Deref(nodes, N[u]) /\ CellsLeft(m, N, u, 0)
<1>1. Top.node = N[t] /\ t \in NodesTo(m) /\ m \in Nat
  BY TopIs DEF Parsing
<1>2. ThisNode = Deref(nodes, N[t])
  BY <1>1 DEF ThisNode
<1>3. ThisNode.parent = IF Outside(t) = <<>> THEN NULL ELSE N[u]
  BY <1>1, <1>2 DEF Parsing, Shape, NodeLeads
<1>4. Outside(t) # <<>> /\ Parent = Deref(nodes, N[u])
  BY <1>3 DEF Parent
<1>5. t # FirstRoot
  BY <1>4, RootIs DEF Parsing
<1>6. Len(frames) \in Nat /\ 1 \in 1 .. Len(frames)
  BY FramesAre DEF Walk
<1>7. CallIs(m, N, W, T, X, D, 1)
  BY <1>6 DEF Walk
<1>8. 1 # Len(frames) /\ Child(T[1], T[1 + 1])
  BY <1>5, <1>7 DEF CallIs
<1>9. 1 + 1 = 2 /\ 2 \in 1 .. Len(frames)
  <2>1. PICK k \in Nat : k = Len(frames)
    BY <1>6
  <2>2. k # 1
    BY <1>8, <2>1
  <2>3. 1 \in 1 .. k
    BY <1>6, <2>1
  <2>4. 2 \in 1 .. k
    BY <2>2, <2>3
  <2>5. 1 + 1 = 2
    OBVIOUS
  <2> QED
    BY <2>1, <2>4, <2>5
<1>10. u = T[2]
  BY <1>8, <1>9 DEF Child
<1>11. CallIs(m, N, W, T, X, D, 2)
  BY <1>9 DEF Walk
<1>12. FrameIs(m, N, W, D, frames[2].lap, frames[2].at, T[2], X[2], Called(T, 2))
       /\ frames[2].lap = "children"
  BY <1>11 DEF CallIs
<1>13. T[2] \in NodesTo(m) /\ CellsLeft(m, N, T[2], 0)
  <2>1. PICK f, b, up : f = frames[2] /\ b = X[2] /\ up = Called(T, 2)
    OBVIOUS
  <2>2. FrameIs(m, N, W, D, f.lap, f.at, T[2], b, up) /\ f.lap = "children"
    BY <1>12, <2>1
  <2> QED
    BY <2>2 DEF FrameIs
<1> QED
  BY <1>1, <1>2, <1>4, <1>10, <1>13

\* The parts of an entry have the cells the tokens ask for.
LEMMA PartsAre ==
    ASSUME NEW m, NEW N, NEW W, Parsing(m, N, W), NodesTo(m) # {}, OpenAfter(m) = <<>>,
           NEW T, NEW X, NEW D, Walk(m, N, W, T, X, D), Top.lap = "second",
           ThisNode.parent # NULL, NEW x, AtHand(m, W, T, X, x), ForArrays(x)
    PROVE  \E t, u, a, s, c, d :
              /\ t = Owner(x) /\ u = Outside(t)[1]
              /\ a = AddressCells(t) /\ s = SizeCells(t) /\ c = AddressCells(u) /\ d = SizeCells(u)
              /\ a \in Nat /\ s \in Nat /\ c \in Nat /\ d \in Nat
              /\ IF blob.tokens[x].name = "reg"
                 THEN /\ Type = "REG"
                      /\ Parts = <<Part("address", c, c), Part("size", d, d)>>
                 ELSE /\ Type = "RANGES"
                      /\ Parts = <<Part("cbus", a, a), Part("pbus", c, a), Part("size", s, s)>>
<1>1. PICK t, u : t = T[1] /\ u = Outside(t)[1]
  OBVIOUS
<1>2. /\ t \in NodesTo(m) /\ u \in NodesTo(m) /\ ThisNode = Deref(nodes, N[t])
      /\ Parent = Deref(nodes, N[u]) /\ CellsLeft(m, N, u, 0)
  BY <1>1, CallerIs
<1>3. CellsLeft(m, N, t, 0)
  <2>1. FrameIs(m, N, W, D, Top.lap, Top.at, t, X[1], {})
    BY <1>1, TopIs DEF Parsing
  <2> QED
    BY <2>1 DEF FrameIs
<1>4. PICK a, s, c, d : a = AddressCells(t) /\ s = SizeCells(t) /\ c = AddressCells(u)
                        /\ d = SizeCells(u)
  OBVIOUS
<1>5. ThisNode.address_cells = a /\ ThisNode.size_cells = s /\ a \in Nat /\ s \in Nat
  BY <1>2, <1>3, <1>4, CellsAre DEF Parsing
<1>6. Parent.address_cells = c /\ Parent.size_cells = d /\ c \in Nat /\ d \in Nat
  BY <1>2, <1>4, CellsAre DEF Parsing
<1>7. PICK name : name = blob.tokens[x].name
  OBVIOUS
<1>8. Name(This) = name /\ Owner(x) = t /\ name \in ArrayNames
  BY <1>1, <1>7 DEF AtHand, Name, Props, ForArrays
<1>9. Type = IF name = "reg" THEN "REG" ELSE "RANGES"
  BY <1>8, TypesAre DEF Type, ArrayTypes, ArrayNames
<1>10. Parts = IF name = "reg" THEN RegParts ELSE RangesParts
  BY <1>9 DEF Parts
<1>11. /\ RegParts = <<Part("address", c, c), Part("size", d, d)>>
       /\ RangesParts = <<Part("cbus", a, a), Part("pbus", c, a), Part("size", s, s)>>
  BY <1>5, <1>6 DEF RegParts, RangesParts
<1> QED
  BY <1>1, <1>4, <1>5, <1>6, <1>7, <1>8, <1>9, <1>10, <1>11

\* The bytes the parts of an entry take are those the tokens ask for.
LEMMA EntrySizeIs ==
    ASSUME NEW m, NEW N, NEW W, Parsing(m, N, W), NodesTo(m) # {}, OpenAfter(m) = <<>>,
           NEW T, NEW X, NEW D, Walk(m, N, W, T, X, D), Top.lap = "second",
           ThisNode.parent # NULL, NEW x, AtHand(m, W, T, X, x), ForArrays(x)
    PROVE  EntrySize(Parts) = EntryBytes(x) /\ EntryBytes(x) \in Nat
<1>1. PICK t, u, a, s, c, d :
         /\ t = Owner(x) /\ u = Outside(t)[1]
         /\ a = AddressCells(t) /\ s = SizeCells(t) /\ c = AddressCells(u) /\ d = SizeCells(u)
         /\ a \in Nat /\ s \in Nat /\ c \in Nat /\ d \in Nat
         /\ IF blob.tokens[x].name = "reg"
            THEN /\ Type = "REG"
                 /\ Parts = <<Part("address", c, c), Part("size", d, d)>>
            ELSE /\ Type = "RANGES"
                 /\ Parts = <<Part("cbus", a, a), Part("pbus", c, a), Part("size", s, s)>>
  BY PartsAre
<1>2. PICK name, parts : name = blob.tokens[x].name /\ parts = Parts
  OBVIOUS
<1>3. EntryBytes(x) = IF name = "reg" THEN 4 * (c + d) ELSE 4 * (a + c + s)
  BY <1>1, <1>2 DEF EntryBytes
<1>4. CASE name = "reg"
  <2>1. parts = <<Part("address", c, c), Part("size", d, d)>>
    BY <1>1, <1>2, <1>4
  <2>2. EntrySize(parts) = 4 * (c + d + 0)
    BY <2>1 DEF EntrySize, Part
  <2>3. c + d + 0 = c + d /\ 4 * (c + d) \in Nat
    BY <1>1
  <2> QED
    BY <1>2, <1>3, <1>4, <2>2, <2>3
<1>5. CASE name # "reg"
  <2>1. parts = <<Part("cbus", a, a), Part("pbus", c, a), Part("size", s, s)>>
    BY <1>1, <1>2, <1>5
  <2>2. EntrySize(parts) = 4 * (a + c + s)
    BY <2>1 DEF EntrySize, Part
  <2>3. 4 * (a + c + s) \in Nat
    BY <1>1
  <2> QED
    BY <1>2, <1>3, <1>5, <2>2, <2>3
<1> QED
  BY <1>4, <1>5

\* The numbers of an array property are as many as its value holds.
LEMMA FillStep ==
    ASSUME NEW m, NEW N, NEW W, Parsing(m, N, W), NodesTo(m) # {}, OpenAfter(m) = <<>>,
           Walking(m, N, W), FillArrays
    PROVE  Walking(m, N, W)'
<1>1. PICK T, X, D : Walk(m, N, W, T, X, D)
  BY DEF Walking
<1>2. /\ m \in Nat /\ Shape(m, N, W) /\ TypesOK(m, W) /\ DividedTo(m, W)
      /\ blob \in Blobs /\ m \in 0 .. Len(blob.tokens)
      /\ Top.at # NULL /\ Top.lap = "second" /\ Top.lap # "children"
      /\ ThisNode.parent # NULL /\ Asserted(Parts) /\ Name(This) \in DOMAIN ArrayTypes
  BY DEF Parsing, Walking, FillArrays, AtParts, AtArrays, AtProperty, OnLap
<1>3. PICK x : AtHand(m, W, T, X, x)
  BY <1>1, <1>2, PropertyAtHand
<1>4. PICK name, len : name = blob.tokens[x].name /\ len = blob.tokens[x].value.len
  OBVIOUS
<1>5. /\ Name(This) = name /\ Value(This).len = len /\ Expected(x) = ExpectedType(name)
      /\ x \in OwnedTo(m) /\ name \in ArrayNames /\ ForArrays(x)
  BY <1>2, <1>3, <1>4, TypesAre DEF AtHand, Name, Value, Expected, ForArrays
<1>6. CASE NoCells(Parts)
  <2>1. UNCHANGED <<blob, nodes, properties, frames>>
    BY <1>6 DEF FillArrays, Abort, Stop, rewrite_vars
  <2> QED
    BY <2>1, WalkStays
<1>7. CASE ~NoCells(Parts)
  <2>1. PICK type, data : type = Type /\ data = [member |-> Type, value |-> Entries(Parts)]
    OBVIOUS
  <2>2. /\ properties' = Assigned(type, data) /\ frames' = Advanced /\ UNCHANGED <<blob, nodes>>
    BY <1>7, <2>1 DEF FillArrays, unchanged_parse
  <2>3. type = Expected(x)
    BY <1>5, <2>1, TypesAre DEF Type
  <2>4. PICK s : s = EntryBytes(x)
    OBVIOUS
  <2>5. EntrySize(Parts) = s /\ s \in Nat
    BY <1>1, <1>2, <1>3, <1>5, <2>4, EntrySizeIs
  <2>6. len \in Nat
    BY <1>2, <1>4, <1>5, BlobAssumption DEF OwnedTo, Owned
  <2>7. /\ Entries(Parts) = IF s = 0 THEN WORD - 1 ELSE len \div s
        /\ (IF s = 0 THEN len ELSE len % s) = 0
    BY <1>2, <1>5, <2>5 DEF Entries, Rest, Asserted
  <2>8. Entries(Parts) * s = len
    BY <2>5, <2>6, <2>7, Divides
  <2>9. data.value * EntryBytes(x) = len
    BY <2>1, <2>4, <2>8
  <2> QED
    BY <1>1, <1>2, <1>3, <1>4, <2>2, <2>3, <2>9, PropertyTyped
<1> QED
  BY <1>6, <1>7

\* A step of the innermost call that changes no list.
LEMMA WalkTurns ==
    ASSUME NEW m \in Nat, NEW N, NEW W, NEW T, NEW X, NEW D, Walk(m, N, W, T, X, D),
           Walking(m, N, W), UNCHANGED <<blob, nodes, properties>>, NEW g, IsFrame(g),
           g.node = Top.node, frames' = [frames EXCEPT ![1] = g],
           NEW b, FrameIs(m, N, W, D, g.lap, g.at, T[1], b, {})
    PROVE  Walking(m, N, W)'
<1>1. /\ \A y : Rewritten(W, y)' = Rewritten(W, y)
      /\ \A t : SameCells(Deref(nodes, N[t]), Deref(nodes', N[t]))
  BY NothingRewritten
<1>2. PICK t, lap, at : t = T[1] /\ lap = g.lap /\ at = g.at
  OBVIOUS
<1>3. FrameIs(m, N, W, D, lap, at, t, b, {}) /\ D \cup {} \subseteq D \cup {}
  BY <1>2
<1>4. FrameIs(m, N, W, D, lap, at, t, b, {})'
  BY <1>1, <1>3, FrameStays
<1>5. FrameIs(m, N, W, D, g.lap, g.at, T[1], b, {})'
  BY <1>2, <1>4
<1>6. \E Y : Walk(m, N, W, T, Y, D)'
  BY <1>1, <1>5, WalkGoesOn
<1>7. TypesOK(m, W)' /\ DividedTo(m, W)'
  BY TypesStay DEF Walking
<1> QED
  BY <1>6, <1>7 DEF Walking

\* Arrays that are allocated change nothing of this.
LEMMA AllocateStep ==
    ASSUME NEW m, NEW N, NEW W, Parsing(m, N, W), Walking(m, N, W), AllocateArray
    PROVE  Walking(m, N, W)'
<1>1. PICK T, X, D : Walk(m, N, W, T, X, D)
  BY DEF Walking
<1>2. m \in Nat /\ UNCHANGED <<blob, nodes, properties>>
  BY DEF Parsing, AllocateArray, parse_vars
<1>3. CASE frames' = frames
  BY <1>2, <1>3, WalkStays
<1>4. CASE frames' # frames
  <2>1. frames' = [frames EXCEPT ![1].arrays = Append(@, ret')]
    BY <1>4 DEF AllocateArray
  <2>2. PICK y : y = ret'
    OBVIOUS
  <2>3. PICK g : /\ IsFrame(g) /\ g.node = Top.node /\ g.lap = Top.lap /\ g.at = Top.at
                 /\ frames' = [frames EXCEPT ![1] = g]
    BY <1>1, <2>1, <2>2, FramesAre, ZenonT(60) DEF Walk
  <2>4. FrameIs(m, N, W, D, g.lap, g.at, T[1], X[1], {})
    BY <1>1, <1>2, <2>3, TopIs
  <2> QED
    BY <1>1, <1>2, <2>3, <2>4, WalkTurns
<1> QED
  BY <1>3, <1>4
----------------------------------------------------------------------------
\* Laps, calls and returns.

\* Behind the last property nothing is counted, and nothing is given.
LEMMA NoneBehind ==
    ASSUME NEW m \in Nat, NEW t
    PROVE  /\ \A y \in Props(t, m) : y \in Nat /\ y > 0 /\ ~(y > m)
           /\ \A c \in Kids(t, m) : c \in Nat /\ ~(c > m)
BY DEF Props, Kids

\* A call begins with all the properties of its node ahead.
LEMMA FrameBegins ==
    ASSUME NEW m \in Nat, NEW N, NEW W, NEW D, Shape(m, N, W), Defaults(m, N),
           NEW c \in NodesTo(m), NEW at, at = Deref(nodes, N[c]).properties
    PROVE  FrameIs(m, N, W, D, "first", at, c, m, {})
<1>1. Leads(at, W, Props(c, m))
  BY DEF Shape, NodeLeads
<1>2. CellsLeft(m, N, c, m) /\ m \in 0 .. m
  BY DEF Defaults
<1> QED
  BY <1>1, <1>2, NoneBehind DEF FrameIs

LEMMA NextLapStep ==
    ASSUME NEW m, NEW N, NEW W, Parsing(m, N, W), Walking(m, N, W), NextLap
    PROVE  Walking(m, N, W)'
<1>1. PICK T, X, D : Walk(m, N, W, T, X, D)
  BY DEF Walking
<1>2. /\ m \in Nat /\ Shape(m, N, W) /\ UNCHANGED <<blob, nodes, properties>>
      /\ Top.at = NULL /\ Top.lap # "children"
  BY DEF Parsing, NextLap, parse_vars
<1>3. PICK at : at = IF Top.lap = "first" THEN ThisNode.properties ELSE ThisNode.children
  OBVIOUS
<1>4. PICK g : /\ IsFrame(g) /\ g.node = Top.node /\ g.at = at
               /\ g.lap = IF Top.lap = "first" THEN "second" ELSE "children"
               /\ frames' = [frames EXCEPT ![1] = g]
  <2>1. frames' = [frames EXCEPT ![1].at = at, ![1].lap = IF @ = "first" THEN "second" ELSE "children"]
    BY <1>3 DEF NextLap
  <2> QED
    BY <1>1, <2>1, FramesAre, ZenonT(60) DEF Walk
<1>5. PICK t, b, lap : t = T[1] /\ b = X[1] /\ lap = Top.lap
  OBVIOUS
<1>6. /\ t \in NodesTo(m) /\ ThisNode = Deref(nodes, N[t])
      /\ FrameIs(m, N, W, D, lap, Top.at, t, b, {})
  BY <1>1, <1>2, <1>5, TopIs DEF ThisNode
<1>7. \A y \in Props(t, m) : y > b
  BY <1>1, <1>2, <1>5, NoneAtHand
<1>8. /\ Leads(ThisNode.properties, W, Props(t, m)) /\ Leads(ThisNode.children, N, Kids(t, m))
  BY <1>2, <1>6 DEF Shape, NodeLeads
<1>9. FrameIs(m, N, W, D, g.lap, g.at, t, m, {})
  <2>0. m \in 0 .. m
    BY <1>2
  <2>1. CASE lap = "first"
    <3>1. CellsLeft(m, N, t, b) /\ \A y \in Props(t, m) : ~ForArrays(y) => Rewritten(W, y)
      BY <1>6, <1>7, <2>1 DEF FrameIs
    <3>2. CellsLeft(m, N, t, 0)
      <4>1. \A name : \A y \in Named(t, name, m) : y > 0 => y > b
        BY <1>7 DEF Named
      <4> QED
        BY <3>1, <4>1, CountsFurther DEF CellsLeft
    <3>3. g.lap = "second" /\ Leads(g.at, W, Props(t, m))
      BY <1>3, <1>4, <1>5, <1>8, <2>1
    <3>4. \A y \in Props(t, m) : y > m \/ ~ForArrays(y) => Rewritten(W, y)
      BY <1>2, <3>1, NoneBehind
    <3> QED
      BY <1>6, <2>0, <3>2, <3>3, <3>4 DEF FrameIs
  <2>2. CASE lap = "second"
    <3>1. CellsLeft(m, N, t, 0) /\ \A y \in Props(t, m) : Rewritten(W, y)
      BY <1>6, <1>7, <2>2 DEF FrameIs
    <3>2. g.lap = "children" /\ Leads(g.at, N, Kids(t, m))
      BY <1>3, <1>4, <1>5, <1>8, <2>2
    <3>3. \A c \in Kids(t, m) : ~(c > m)
      BY <1>2, NoneBehind
    <3> QED
      BY <1>6, <2>0, <3>1, <3>2, <3>3 DEF FrameIs
  <2>3. lap \in {"first", "second"}
    BY <1>2, <1>5, <1>6 DEF FrameIs
  <2> QED
    BY <2>1, <2>2, <2>3
<1>10. FrameIs(m, N, W, D, g.lap, g.at, T[1], m, {})
  BY <1>5, <1>9
<1> QED
  BY <1>1, <1>2, <1>4, <1>10, WalkTurns

\* The first call is for the root.
LEMMA EnterStep ==
    ASSUME NEW m, NEW N, NEW W, Parsing(m, N, W), NodesTo(m) # {}, Defaults(m, N),
           TypesOK(m, W), DividedTo(m, W), root = First, Enter
    PROVE  Walking(m, N, W)'
<1>1. m \in Nat /\ Shape(m, N, W) /\ UNCHANGED <<blob, nodes, properties>>
  BY DEF Parsing, Enter, parse_vars
<1>2. PICK r : r = FirstRoot
  OBVIOUS
<1>3. r \in NodesTo(m) /\ \A k \in NodesTo(m) : r <= k
  BY <1>2, RootIs DEF Parsing
<1>4. N[r] = root
  BY <1>1, <1>3 DEF Shape, NodesAt
<1>5. PICK at : at = Deref(nodes, N[r]).properties
  OBVIOUS
<1>6. PICK f : f = [node |-> N[r], lap |-> "first", at |-> at, arrays |-> <<>>]
  OBVIOUS
<1>7. frames' = <<f>>
  BY <1>4, <1>5, <1>6 DEF Enter, Frame
<1>8. f.node = N[r] /\ f.lap = "first" /\ f.at = at /\ IsFrame(f)
  BY <1>6 DEF IsFrame
<1>9. FrameIs(m, N, W, {}, "first", at, r, m, {})
  BY <1>1, <1>3, <1>5, FrameBegins
<1>10. PICK T, X : T = [i \in {1} |-> r] /\ X = [i \in {1} |-> m]
  OBVIOUS
<1>11. Len(frames') = 1 /\ frames'[1] = f /\ AreFrames(frames') /\ T[1] = r /\ X[1] = m
  <2>1. PICK S, fs : S = {f} /\ fs = <<f>>
    OBVIOUS
  <2>2. fs \in Seq(S) /\ \A g \in S : IsFrame(g)
    BY <1>8, <2>1
  <2>3. AreFrames(fs)
    BY <2>2 DEF AreFrames
  <2>4. T[1] = r /\ X[1] = m
    BY <1>10
  <2>5. Len(<<f>>) = 1 /\ <<f>>[1] = f
    OBVIOUS
  <2> QED
    BY <1>7, <2>1, <2>3, <2>4, <2>5
<1>12. /\ \A y : Rewritten(W, y)' = Rewritten(W, y)
       /\ \A t : SameCells(Deref(nodes, N[t]), Deref(nodes', N[t]))
  BY <1>1, NothingRewritten
<1>13. FrameIs(m, N, W, {}, "first", at, r, m, {})'
  <2>1. {} \cup {} \subseteq {} \cup {}
    OBVIOUS
  <2> QED
    BY <1>1, <1>9, <1>12, <2>1, FrameStays
<1>14. CallIs(m, N, W, T, X, {}, 1)'
  <2>1. Called(T, 1) = {} /\ r = FirstRoot'
    BY <1>1, <1>2, BlobStays DEF Called
  <2> QED
    BY <1>8, <1>11, <1>13, <2>1 DEF CallIs
<1>15. \A i \in 1 .. Len(frames') : i = 1
  BY <1>11
<1>16. Walk(m, N, W, T, X, {})'
  BY <1>11, <1>14, <1>15 DEF Walk, Done
<1>17. TypesOK(m, W)' /\ DividedTo(m, W)'
  BY <1>1, TypesStay
<1> QED
  BY <1>16, <1>17 DEF Walking

\* The child that the innermost call is at.
LEMMA ChildAtHand ==
    ASSUME NEW m \in Nat, NEW N, NEW W, NEW T, NEW X, NEW D, Walk(m, N, W, T, X, D),
           Shape(m, N, W), Top.lap = "children", Top.at # NULL, NEW t, t = T[1]
    PROVE  \E c \in Kids(t, m) :
              /\ Top.at = N[c] /\ c \in NodesTo(m) /\ Child(c, t) /\ c - 1 \in 0 .. m
              /\ FrameIs(m, N, W, D, "children", AfterChild, t, c - 1, {c})
<1>1. PICK b : b = X[1]
  OBVIOUS
<1>2. FrameIs(m, N, W, D, Top.lap, Top.at, t, b, {})
  BY <1>1, TopIs
<1>3. /\ t \in NodesTo(m) /\ b \in 0 .. m /\ Leads(Top.at, N, Kids(t, b)) /\ CellsLeft(m, N, t, 0)
      /\ \A y \in Props(t, m) : Rewritten(W, y)
      /\ \A c \in Kids(t, m) : c > b => c \in D
  BY <1>2 DEF FrameIs
<1>4. PICK c \in Kids(t, b) : (\A k \in Kids(t, b) : k <= c) /\ Top.at = N[c]
  BY <1>3 DEF Leads
<1>5. c \in Kids(t, m) /\ c \in NodesTo(m) /\ Child(c, t) /\ c \in 1 .. m
  BY <1>3, <1>4 DEF Kids, NodesTo
<1>6. PICK d : d = c - 1
  OBVIOUS
<1>7. d \in 0 .. m
  BY <1>5, <1>6
<1>8. Leads(AfterChild, N, Kids(t, d))
  <2>1. Elder(c) = Kids(t, d)
    BY <1>5, <1>6 DEF Elder, Child
  <2>2. NodeLeads(m, N, W, c)
    BY <1>5 DEF Shape
  <2> QED
    BY <1>4, <2>1, <2>2 DEF NodeLeads, AfterChild
<1>9. ASSUME NEW k \in Kids(t, m), k > d PROVE k \in D \cup {c}
  <2>1. CASE k > b
    BY <1>3, <2>1
  <2>2. CASE ~(k > b)
    <3>1. k \in Kids(t, b) /\ k \in Nat
      BY <1>3, <2>2 DEF Kids
    <3>2. k = c
      BY <1>4, <1>5, <1>6, <1>9, <3>1
    <3> QED
      BY <3>2
  <2> QED
    BY <2>1, <2>2
<1>10. FrameIs(m, N, W, D, "children", AfterChild, t, d, {c})
  BY <1>3, <1>7, <1>8, <1>9 DEF FrameIs
<1> QED
  BY <1>4, <1>5, <1>6, <1>7, <1>10

\* A frame that stays where no list changes, in a further call or after one.
LEMMA CallStays ==
    ASSUME NEW m, NEW N, NEW W, NEW D, NEW lap, NEW at, NEW t, NEW b, NEW up,
           FrameIs(m, N, W, D, lap, at, t, b, up), UNCHANGED <<blob, nodes, properties>>,
           NEW E, NEW more, D \cup up \subseteq E \cup more
    PROVE  FrameIs(m, N, W, E, lap, at, t, b, more)'
<1>1. /\ \A y : Rewritten(W, y)' = Rewritten(W, y)
      /\ \A k : SameCells(Deref(nodes, N[k]), Deref(nodes', N[k]))
  BY NothingRewritten
<1> QED
  BY <1>1, FrameStays

\* The frames after a call: the new one, its caller and those around it.
LEMMA CallFrames ==
    ASSUME AreFrames(frames), Len(frames) # 0, Call
    PROVE  \E f, g :
              /\ f.node = Top.at /\ f.lap = "first" /\ f.at = Deref(nodes, Top.at).properties
              /\ g.node = Top.node /\ g.lap = Top.lap /\ g.at = AfterChild
              /\ AreFrames(frames') /\ Len(frames') = Len(frames) + 1
              /\ frames'[1] = f /\ frames'[2] = g
              /\ \A i \in 2 .. Len(frames) : frames'[i + 1] = frames[i]
<1>1. PICK at, after : at = Deref(nodes, Top.at).properties /\ after = AfterChild
  OBVIOUS
<1>2. PICK f : f = [node |-> Top.at, lap |-> "first", at |-> at, arrays |-> <<>>]
  OBVIOUS
<1>3. f.node = Top.at /\ f.lap = "first" /\ f.at = at /\ IsFrame(f)
  BY <1>2 DEF IsFrame
<1>4. PICK g : /\ IsFrame(g) /\ g.node = Top.node /\ g.lap = Top.lap /\ g.at = after
               /\ [frames EXCEPT ![1].at = after] = [frames EXCEPT ![1] = g]
  BY FramesAre, ZenonT(60)
<1>5. frames' = <<f>> \o [frames EXCEPT ![1] = g]
  BY <1>1, <1>2, <1>4 DEF Call, Frame
<1>6. PICK S : frames \in Seq(S) /\ \A h \in S : IsFrame(h)
  BY DEF AreFrames
<1>7. PICK n \in Nat : n = Len(frames) /\ 1 \in 1 .. n
  BY FramesAre
<1>8. PICK R, old, hs, fs : R = S \cup {f, g} /\ old = frames /\ hs = [old EXCEPT ![1] = g]
                            /\ fs = <<f>> \o hs
  OBVIOUS
<1>9. old \in Seq(R) /\ f \in R /\ g \in R /\ Len(old) = n
  BY <1>6, <1>7, <1>8
<1>10. /\ hs \in Seq(R) /\ Len(hs) = n /\ hs[1] = g
       /\ \A i \in 2 .. n : hs[i] = old[i]
  BY <1>7, <1>8, <1>9
<1>11. /\ fs \in Seq(R) /\ Len(fs) = n + 1 /\ fs[1] = f
       /\ \A i \in 1 .. n : fs[i + 1] = hs[i]
  BY <1>8, <1>9, <1>10
<1>12. fs[2] = g
  <2>1. 1 + 1 = 2
    OBVIOUS
  <2> QED
    BY <1>7, <1>10, <1>11, <2>1
<1>13. \A h \in R : IsFrame(h)
  BY <1>3, <1>4, <1>6, <1>8
<1>14. AreFrames(fs)
  BY <1>11, <1>13 DEF AreFrames
<1>15. \A i \in 2 .. n : i \in 1 .. n
  OBVIOUS
<1>16. fs = frames'
  BY <1>5, <1>8
<1>17. \A i \in 2 .. n : fs[i + 1] = old[i]
  BY <1>10, <1>11, <1>15
<1>18. /\ AreFrames(frames') /\ Len(frames') = Len(frames) + 1
       /\ frames'[1] = f /\ frames'[2] = g
       /\ \A i \in 2 .. Len(frames) : frames'[i + 1] = frames[i]
  BY <1>7, <1>8, <1>11, <1>12, <1>14, <1>16, <1>17
<1> QED
  BY <1>1, <1>3, <1>4, <1>18

\* The call for a child.
LEMMA CallStep ==
    ASSUME NEW m, NEW N, NEW W, Parsing(m, N, W), Walking(m, N, W), Defaults(m, N), Call
    PROVE  Walking(m, N, W)'
<1>1. PICK T, X, D : Walk(m, N, W, T, X, D)
  BY DEF Walking
<1>2. /\ m \in Nat /\ Shape(m, N, W) /\ UNCHANGED <<blob, nodes, properties>>
      /\ Top.at # NULL /\ Top.lap = "children"
  BY DEF Parsing, Call, OnLap, parse_vars
<1>3. PICK t, after : t = T[1] /\ after = AfterChild
  OBVIOUS
<1>4. PICK c \in Kids(t, m) :
         /\ Top.at = N[c] /\ c \in NodesTo(m) /\ Child(c, t) /\ c - 1 \in 0 .. m
         /\ FrameIs(m, N, W, D, "children", after, t, c - 1, {c})
  BY <1>1, <1>2, <1>3, ChildAtHand
<1>5. PICK at : at = Deref(nodes, N[c]).properties
  OBVIOUS
<1>6. AreFrames(frames) /\ Len(frames) # 0
  BY <1>1 DEF Walk
<1>7. PICK f, g :
         /\ f.node = N[c] /\ f.lap = "first" /\ f.at = at
         /\ g.node = Top.node /\ g.lap = Top.lap /\ g.at = after
         /\ AreFrames(frames') /\ Len(frames') = Len(frames) + 1
         /\ frames'[1] = f /\ frames'[2] = g
         /\ \A i \in 2 .. Len(frames) : frames'[i + 1] = frames[i]
  BY <1>3, <1>4, <1>5, <1>6, CallFrames
<1>8. PICK n \in Nat : n = Len(frames) /\ 1 \in 1 .. n
  BY <1>6, FramesAre
<1>9. /\ AreFrames(frames') /\ Len(frames') = n + 1 /\ frames'[1] = f /\ frames'[2] = g
      /\ \A i \in 2 .. n : frames'[i + 1] = frames[i]
  BY <1>7, <1>8
<1>10. PICK U, Y : /\ U = [i \in 1 .. n + 1 |-> IF i = 1 THEN c ELSE T[i - 1]]
                   /\ Y = [i \in 1 .. n + 1 |-> IF i = 1 THEN m ELSE IF i = 2 THEN c - 1 ELSE X[i - 1]]
  OBVIOUS
<1>11. /\ U[1] = c /\ U[2] = t /\ Y[1] = m /\ Y[2] = c - 1
       /\ \A i \in 2 .. n : U[i + 1] = T[i] /\ Y[i + 1] = X[i]
  <2>1. 1 \in 1 .. n + 1 /\ 2 \in 1 .. n + 1 /\ 2 - 1 = 1
    BY <1>8
  <2>2. \A i \in 2 .. n : i + 1 \in 1 .. n + 1 /\ i + 1 # 1 /\ i + 1 # 2 /\ (i + 1) - 1 = i
    OBVIOUS
  <2>3. U[1] = c /\ U[2] = t /\ Y[1] = m /\ Y[2] = c - 1
    BY <1>3, <1>10, <2>1
  <2> QED
    BY <1>10, <2>2, <2>3
<1>12. CallIs(m, N, W, U, Y, D, 1)'
  <2>1. FrameIs(m, N, W, D, "first", at, c, m, {})
    BY <1>2, <1>4, <1>5, FrameBegins
  <2>2. FrameIs(m, N, W, D, "first", at, c, m, {})'
    <3>1. D \cup {} \subseteq D \cup {}
      OBVIOUS
    <3> QED
      BY <1>2, <2>1, <3>1, CallStays
  <2>3. 1 # n + 1 /\ 1 + 1 = 2
    BY <1>8
  <2>4. Child(c, t)' /\ Called(U, 1) = {}
    BY <1>2, <1>4, BlobStays DEF Called
  <2> QED
    BY <1>7, <1>9, <1>11, <2>2, <2>3, <2>4 DEF CallIs
<1>13. CallIs(m, N, W, T, X, D, 1)
  BY <1>1, <1>8 DEF Walk
<1>14. CallIs(m, N, W, U, Y, D, 2)'
  <2>1. FrameIs(m, N, W, D, "children", after, t, c - 1, {c})'
    <3>1. PICK d : d = c - 1
      OBVIOUS
    <3>2. FrameIs(m, N, W, D, "children", after, t, d, {c}) /\ D \cup {c} \subseteq D \cup {c}
      BY <1>4, <3>1
    <3>3. FrameIs(m, N, W, D, "children", after, t, d, {c})'
      BY <1>2, <3>2, CallStays
    <3> QED
      BY <3>1, <3>3
  <2>2. Called(U, 2) = {c}
    <3>1. 2 # 1 /\ 2 - 1 = 1
      OBVIOUS
    <3> QED
      BY <1>11, <3>1 DEF Called
  <2>3. g.node = N[t] /\ g.lap = "children" /\ g.at = after
    BY <1>2, <1>3, <1>7, <1>13 DEF CallIs, Top
  <2>4. IF 2 = n + 1 THEN t = FirstRoot' ELSE Child(t, U[2 + 1])'
    <3>1. IF 1 = n THEN t = FirstRoot ELSE Child(t, T[1 + 1])
      BY <1>3, <1>8, <1>13 DEF CallIs
    <3>2. CASE 1 = n
      BY <1>2, <3>1, <3>2, BlobStays
    <3>3. CASE 1 # n
      <4>1. 2 \in 2 .. n /\ 1 + 1 = 2 /\ 2 # n + 1
        BY <1>8, <3>3
      <4>2. U[2 + 1] = T[2] /\ Child(t, T[2])
        BY <1>11, <3>1, <3>3, <4>1
      <4> QED
        BY <1>2, <4>1, <4>2, BlobStays
    <3> QED
      BY <3>2, <3>3
  <2> QED
    BY <1>9, <1>11, <2>1, <2>2, <2>3, <2>4 DEF CallIs
<1>15. ASSUME NEW i \in 2 .. n PROVE CallIs(m, N, W, U, Y, D, i + 1)'
  <2>1. CallIs(m, N, W, T, X, D, i) /\ i # 1
    BY <1>1, <1>8 DEF Walk
  <2>2. PICK h, k, b, up : h = frames[i] /\ k = T[i] /\ b = X[i] /\ up = Called(T, i)
    OBVIOUS
  <2>3. /\ h.node = N[k] /\ h.lap = "children" /\ FrameIs(m, N, W, D, h.lap, h.at, k, b, up)
        /\ IF i = n THEN k = FirstRoot ELSE Child(k, T[i + 1])
    BY <1>8, <2>1, <2>2 DEF CallIs
  <2>4. FrameIs(m, N, W, D, h.lap, h.at, k, b, up)'
    <3>1. PICK x, y : x = h.lap /\ y = h.at
      OBVIOUS
    <3>2. FrameIs(m, N, W, D, x, y, k, b, up) /\ D \cup up \subseteq D \cup up
      BY <2>3, <3>1
    <3>3. FrameIs(m, N, W, D, x, y, k, b, up)'
      BY <1>2, <3>2, CallStays
    <3> QED
      BY <3>1, <3>3
  <2>5. PICK j : j = i + 1
    OBVIOUS
  <2>6. frames'[j] = h /\ U[j] = k /\ Y[j] = b /\ j # 1
    BY <1>9, <1>11, <2>2, <2>5
  <2>7. Called(U, j) = up
    <3>1. up = {T[i - 1]}
      BY <2>1, <2>2 DEF Called
    <3>2. Called(U, j) = {U[i]}
      <4>1. j - 1 = i
        BY <2>5
      <4> QED
        BY <2>6, <4>1 DEF Called
    <3>3. U[i] = T[i - 1]
      <4>1. i \in 1 .. n + 1 /\ i # 1
        BY <1>8
      <4> QED
        BY <1>10, <4>1
    <3> QED
      BY <3>1, <3>2, <3>3
  <2>8. IF j = n + 1 THEN k = FirstRoot' ELSE Child(k, U[j + 1])'
    <3>1. CASE i = n
      BY <1>2, <2>3, <2>5, <3>1, BlobStays
    <3>2. CASE i # n
      <4>1. j \in 2 .. n /\ j # n + 1
        BY <1>8, <2>5, <3>2
      <4>2. U[j + 1] = T[j] /\ Child(k, T[j])
        BY <1>11, <2>3, <2>5, <3>2, <4>1
      <4> QED
        BY <1>2, <4>1, <4>2, BlobStays
    <3> QED
      BY <3>1, <3>2
  <2>9. CallIs(m, N, W, U, Y, D, j)'
    BY <1>9, <2>3, <2>4, <2>6, <2>7, <2>8 DEF CallIs
  <2> QED
    BY <2>5, <2>9
<1>16. ASSUME NEW j \in 1 .. Len(frames') PROVE CallIs(m, N, W, U, Y, D, j)'
  <2>1. CASE j \in {1, 2}
    BY <1>12, <1>14, <2>1
  <2>2. CASE j \notin {1, 2}
    <3>1. PICK i : i = j - 1
      OBVIOUS
    <3>2. i \in 2 .. n /\ i + 1 = j
      BY <1>8, <1>9, <2>2, <3>1
    <3> QED
      BY <1>15, <3>2
  <2> QED
    BY <2>1, <2>2
<1>17. Done(m, W, D)' /\ Len(frames') # 0
  <2>1. \A y : Rewritten(W, y)' = Rewritten(W, y)
    BY <1>2, NothingRewritten
  <2>2. Done(m, W, D)'
    BY <1>1, <1>2, <2>1, BlobStays DEF Walk, Done
  <2>3. Len(frames') # 0
    BY <1>8, <1>9
  <2> QED
    BY <2>2, <2>3
<1>21. Walk(m, N, W, U, Y, D)'
  BY <1>9, <1>16, <1>17 DEF Walk
<1>22. TypesOK(m, W)' /\ DividedTo(m, W)'
  BY <1>2, TypesStay DEF Walking
<1> QED
  BY <1>21, <1>22 DEF Walking

\* What a call leaves is done.
LEMMA CallDone ==
    ASSUME NEW m \in Nat, NEW N, NEW W, NEW T, NEW X, NEW D, Walk(m, N, W, T, X, D),
           Shape(m, N, W), Top.lap = "children", Top.at = NULL, NEW t, t = T[1]
    PROVE  Done(m, W, D \cup {t})
<1>1. FrameIs(m, N, W, D, Top.lap, Top.at, t, X[1], {})
  BY TopIs
<1>2. \A c \in Kids(t, m) : c > X[1]
  BY NoneAtHand
<1>3. PICK b : b = X[1]
  OBVIOUS
<1>4. /\ \A y \in Props(t, m) : Rewritten(W, y)
      /\ \A c \in Kids(t, m) : c \in D
  BY <1>1, <1>2, <1>3 DEF FrameIs
<1> QED
  BY <1>4 DEF Walk, Done

\* What is done holds the tree when the call for the root is left.
LEMMA AllDone ==
    ASSUME NEW m, NEW N, NEW W, Parsing(m, N, W), NEW D, Done(m, W, D), FirstRoot \in D
    PROVE  \A d \in NodesTo(m) : InTree(d) => \A y \in Props(d, m) : Rewritten(W, y)
<1>1. \A d \in NodesTo(m) : InTree(d) => d \in D
  BY ReachesAll DEF Parsing, Done
<1> QED
  BY <1>1 DEF Done

\* Every property of the tree has the type of its name.
AllRewritten(m, W) ==
    \A d \in NodesTo(m) : InTree(d) => \A y \in Props(d, m) : Rewritten(W, y)

\* The return from a call, and from that for the root.
LEMMA ReturnStep ==
    ASSUME NEW m, NEW N, NEW W, Parsing(m, N, W), Walking(m, N, W), Return
    PROVE  /\ TypesOK(m, W)' /\ DividedTo(m, W)'
           /\ \/ Walking(m, N, W)' /\ UNCHANGED <<pc, initialized>>
              \/ pc' = "done" /\ AllRewritten(m, W)'
<1>1. PICK T, X, D : Walk(m, N, W, T, X, D)
  BY DEF Walking
<1>2. /\ m \in Nat /\ Shape(m, N, W) /\ UNCHANGED <<blob, nodes, properties>>
      /\ Top.at = NULL /\ Top.lap = "children" /\ frames' = Tail(frames)
  BY DEF Parsing, Return, OnLap, unchanged_parse
<1>3. PICK t, E : t = T[1] /\ E = D \cup {t}
  OBVIOUS
<1>4. Done(m, W, E)
  BY <1>1, <1>2, <1>3, CallDone
<1>5. TypesOK(m, W)' /\ DividedTo(m, W)'
  BY <1>2, TypesStay DEF Walking
<1>6. PICK S : frames \in Seq(S) /\ \A h \in S : IsFrame(h)
  BY <1>1 DEF Walk, AreFrames
<1>7. PICK n \in Nat : n = Len(frames) /\ 1 \in 1 .. n
  BY <1>1, FramesAre DEF Walk
<1>8. \A y : Rewritten(W, y)' = Rewritten(W, y)
  BY <1>2, NothingRewritten
<1>9. CallIs(m, N, W, T, X, D, 1)
  BY <1>1, <1>7 DEF Walk
<1>10. CASE n = 1
  <2>1. t = FirstRoot /\ FirstRoot \in E
    BY <1>3, <1>7, <1>9, <1>10 DEF CallIs
  <2>2. \A d \in NodesTo(m) : InTree(d) => \A y \in Props(d, m) : Rewritten(W, y)
    BY <1>4, <2>1, AllDone
  <2>3. AllRewritten(m, W)'
    BY <1>2, <1>8, <2>2, BlobStays DEF AllRewritten
  <2>4. pc' = "done"
    BY <1>7, <1>10 DEF Return
  <2> QED
    BY <1>5, <2>3, <2>4
<1>11. CASE n # 1
  <2>1. /\ AreFrames(frames') /\ Len(frames') = n - 1
        /\ \A i \in 1 .. n - 1 : frames'[i] = frames[i + 1]
    <3>1. PICK old, fs : old = frames /\ fs = Tail(old)
      OBVIOUS
    <3>2. old \in Seq(S) /\ Len(old) = n /\ old # <<>>
      BY <1>6, <1>7, <3>1
    <3>3. fs \in Seq(S) /\ Len(fs) = n - 1 /\ \A i \in 1 .. n - 1 : fs[i] = old[i + 1]
      BY <1>7, <3>1, <3>2, HeadTailProperties
    <3>4. AreFrames(fs)
      BY <1>6, <3>3 DEF AreFrames
    <3>5. fs = frames'
      BY <1>2, <3>1
    <3> QED
      BY <3>1, <3>3, <3>4, <3>5
  <2>2. PICK U, Y : U = [i \in 1 .. n - 1 |-> T[i + 1]] /\ Y = [i \in 1 .. n - 1 |-> X[i + 1]]
    OBVIOUS
  <2>3. \A i \in 1 .. n - 1 : U[i] = T[i + 1] /\ Y[i] = X[i + 1]
    BY <2>2
  <2>4. ASSUME NEW i \in 1 .. n - 1 PROVE CallIs(m, N, W, U, Y, E, i)'
    <3>1. PICK j : j = i + 1
      OBVIOUS
    <3>2. j \in 1 .. n /\ j # 1 /\ j - 1 = i /\ (i = n - 1 <=> j = n) /\ i \in Nat
      BY <1>7, <3>1
    <3>3. CallIs(m, N, W, T, X, D, j)
      BY <1>1, <1>7, <3>2 DEF Walk
    <3>4. PICK h, k, b, up, more :
             h = frames[j] /\ k = T[j] /\ b = X[j] /\ up = Called(T, j) /\ more = Called(U, i)
      OBVIOUS
    <3>5. /\ h.node = N[k] /\ h.lap = "children" /\ FrameIs(m, N, W, D, h.lap, h.at, k, b, up)
          /\ IF j = n THEN k = FirstRoot ELSE Child(k, T[j + 1])
      BY <1>7, <3>2, <3>3, <3>4 DEF CallIs
    <3>6. frames'[i] = h /\ U[i] = k /\ Y[i] = b
      BY <2>1, <2>3, <3>1, <3>4
    <3>7. D \cup up \subseteq E \cup more
      <4>1. up = {T[i]}
        BY <3>2, <3>4 DEF Called
      <4>2. CASE i = 1
        BY <1>3, <4>1, <4>2
      <4>3. CASE i # 1
        <5>1. i - 1 \in 1 .. n - 1 /\ (i - 1) + 1 = i
          BY <3>2, <4>3
        <5>2. more = {U[i - 1]}
          BY <3>4, <4>3 DEF Called
        <5>3. U[i - 1] = T[i]
          <6>1. PICK l : l = i - 1
            OBVIOUS
          <6>2. l \in 1 .. n - 1 /\ l + 1 = i
            BY <5>1, <6>1
          <6>3. U[l] = T[i]
            BY <2>3, <6>2
          <6> QED
            BY <6>1, <6>3
        <5> QED
          BY <1>3, <4>1, <5>2, <5>3
      <4> QED
        BY <4>2, <4>3
    <3>8. FrameIs(m, N, W, E, h.lap, h.at, k, b, more)'
      <4>1. PICK x, y : x = h.lap /\ y = h.at
        OBVIOUS
      <4>2. FrameIs(m, N, W, D, x, y, k, b, up)
        BY <3>5, <4>1
      <4>3. FrameIs(m, N, W, E, x, y, k, b, more)'
        BY <1>2, <3>7, <4>2, CallStays
      <4> QED
        BY <4>1, <4>3
    <3>9. IF i = n - 1 THEN k = FirstRoot' ELSE Child(k, U[i + 1])'
      <4>1. CASE j = n
        BY <1>2, <3>2, <3>5, <4>1, BlobStays
      <4>2. CASE j # n
        <5>1. j \in 1 .. n - 1 /\ i # n - 1
          BY <1>7, <3>2, <4>2
        <5>2. U[j] = T[j + 1] /\ Child(k, T[j + 1])
          BY <2>3, <3>5, <4>2, <5>1
        <5> QED
          BY <1>2, <3>1, <5>1, <5>2, BlobStays
      <4> QED
        BY <4>1, <4>2
    <3> QED
      BY <2>1, <3>4, <3>5, <3>6, <3>8, <3>9 DEF CallIs, Called
  <2>5. Done(m, W, E)'
    BY <1>2, <1>4, <1>8, BlobStays DEF Done
  <2>6. Walk(m, N, W, U, Y, E)'
    <3>1. Len(frames') # 0
      BY <1>7, <1>11, <2>1
    <3>2. ASSUME NEW i \in 1 .. Len(frames') PROVE CallIs(m, N, W, U, Y, E, i)'
      BY <2>1, <2>4
    <3> QED
      BY <2>1, <2>5, <3>1, <3>2 DEF Walk
  <2>7. UNCHANGED <<pc, initialized>>
    BY <1>7, <1>11 DEF Return
  <2> QED
    BY <1>5, <2>6, <2>7 DEF Walking
<1> QED
  BY <1>10, <1>11
----------------------------------------------------------------------------
\* The invariant of the whole: what the parser has built is the blob's, and
\* what a phase has left behind is what the next one starts from.

\* Nothing is rewritten, and no node has cells.
Fresh(m, N, W) ==
    /\ \A y \in OwnedTo(m) : TypeGiven(W, y) = "RAW"
    /\ \A k \in NodesTo(m) :
          Deref(nodes, N[k]).address_cells = 0 /\ Deref(nodes, N[k]).size_cells = 0

BeforeRewrite(m, N, W) == frames = <<>> /\ ~initialized /\ Current(m, N) /\ Fresh(m, N, W)

InRewrite(m, N, W) ==
    /\ ~initialized /\ OpenAfter(m) = <<>> /\ NodesTo(m) # {} /\ root = First
    /\ Defaults(m, N)
    /\ frames = <<>> \/ \E T, X, D : Walk(m, N, W, T, X, D)

Phases(m, N, W) ==
    /\ pc \in {"header", "reservations", "tokens"} => BeforeRewrite(m, N, W)
    /\ pc = "rewrite" => InRewrite(m, N, W)
    /\ initialized => AllRewritten(m, W) /\ pc \in {"done", "printed"}

RewriteAt(m, N, W) ==
    /\ Progress(m) /\ TreeOK(m) /\ Shape(m, N, W)
    /\ TypesOK(m, W) /\ DividedTo(m, W) /\ Phases(m, N, W)

RewriteInv == NodesFit => \E m, N, W : RewriteAt(m, N, W)

\* Which steps leave the calls alone, and the root.
LEMMA OutsideRewrite ==
    ASSUME [Next]_vars, pc # "rewrite"
    PROVE  /\ UNCHANGED <<frames, initialized, stores>>
           /\ pc \in {"done", "printed"} => pc' \in {"done", "printed"}
<1>1. ~Rewrite
  BY DEF Rewrite, Enter, RewriteByName, Skip, RewriteCells, RewriteCompatible, SkipSecond,
         RangesEmpty, NoParent, AssertFails, AllocateArray, FillArrays, NextLap, Call, Return,
         AtParts, AtArrays, AtProperty, OnLap
<1>2. CASE Parse /\ UNCHANGED <<rewrite_vars, bump_vars>>
  <2>1. pc \notin {"done", "printed"}
    BY <1>2 DEF Parse, Header, Reservation, ReservationsEnd, Token, parse_node, EndNode,
                pre_parse_property, Nop, Unknown, End, Reads
  <2> QED
    BY <1>2, <2>1 DEF rewrite_vars
<1>3. CASE print_device_tree
  BY <1>3 DEF print_device_tree
<1>4. CASE UNCHANGED vars
  BY <1>4 DEF vars, rewrite_vars, parse_vars
<1> QED
  BY <1>1, <1>2, <1>3, <1>4 DEF Next, Spin

LEMMA RewriteLeaves ==
    ASSUME Rewrite
    PROVE  /\ pc = "rewrite" /\ UNCHANGED <<blob, root>>
           /\ ~RewriteCells => UNCHANGED nodes
           /\ ~RewriteCells /\ ~Return => UNCHANGED <<pc, initialized>>
           /\ Enter <=> frames = <<>>
<1>1. CASE Enter
  BY <1>1 DEF Enter, parse_vars
<1>2. CASE RewriteByName \/ RewriteCells \/ RewriteCompatible \/ RangesEmpty \/ Return
  BY <1>2 DEF RewriteByName, RewriteCells, RewriteCompatible, RangesEmpty, Return,
              AtArrays, AtProperty, OnLap, unchanged_parse, Enter
<1>3. CASE Skip \/ SkipSecond \/ AllocateArray \/ NextLap \/ Call
  BY <1>3 DEF Skip, SkipSecond, AllocateArray, NextLap, Call, AtParts, AtArrays, AtProperty,
              OnLap, parse_vars, Enter
<1>4. CASE NoParent \/ AssertFails
  BY <1>4 DEF NoParent, AssertFails, Abort, Stop, AtParts, AtArrays, AtProperty, OnLap,
              rewrite_vars, Enter
<1>5. CASE FillArrays
  BY <1>5 DEF FillArrays, Abort, Stop, AtParts, AtArrays, AtProperty, OnLap, rewrite_vars,
              unchanged_parse, Enter
<1> QED
  BY <1>1, <1>2, <1>3, <1>4, <1>5 DEF Rewrite

\* Where the nodes stay, so do their cells.
LEMMA DefaultsStay ==
    ASSUME NEW m, NEW N, Defaults(m, N), UNCHANGED <<blob, nodes>>
    PROVE  Defaults(m, N)'
<1>1. /\ NodesTo(m)' = NodesTo(m) /\ FirstRoot' = FirstRoot
      /\ \A t, name : Named(t, name, m)' = Named(t, name, m)
  BY BlobStays DEF Named
<1>2. ASSUME NEW t \in NodesTo(m) PROVE CellsLeft(m, N, t, m)'
  <2>1. CellsLeft(m, N, t, m)
    BY DEF Defaults
  <2> QED
    BY <1>1, <2>1 DEF CellsLeft, Counts
<1> QED
  BY <1>1, <1>2 DEF Defaults

\* A step in a call, or into the first.
LEMMA CallsGoOn ==
    ASSUME NEW m, NEW N, NEW W, Parsing(m, N, W), TypesOK(m, W), DividedTo(m, W),
           InRewrite(m, N, W), Rewrite
    PROVE  \/ Walking(m, N, W)' /\ Defaults(m, N)' /\ UNCHANGED <<pc, initialized>>
           \/ TypesOK(m, W)' /\ DividedTo(m, W)' /\ pc' = "done"
              /\ (initialized' => initialized \/ AllRewritten(m, W)')
<1>1. /\ UNCHANGED <<blob, root>> /\ (Enter <=> frames = <<>>)
      /\ ~RewriteCells => UNCHANGED nodes
      /\ ~RewriteCells /\ ~Return => UNCHANGED <<pc, initialized>>
  BY RewriteLeaves
<1>2. /\ NodesTo(m) # {} /\ OpenAfter(m) = <<>> /\ root = First /\ Defaults(m, N)
  BY DEF InRewrite
<1>3. ~RewriteCells => Defaults(m, N)'
  BY <1>1, <1>2, DefaultsStay
<1>4. CASE Enter
  <2>1. Walking(m, N, W)'
    BY <1>2, <1>4, EnterStep
  <2>2. ~RewriteCells /\ ~Return
    BY <1>4 DEF Enter, RewriteCells, Return, AtProperty, OnLap
  <2> QED
    BY <1>1, <1>3, <2>1, <2>2
<1>5. CASE ~Enter
  <2>1. Walking(m, N, W)
    BY <1>1, <1>5 DEF InRewrite, Walking
  <2>2. CASE RewriteByName \/ Skip \/ RewriteCompatible \/ SkipSecond \/ RangesEmpty
    <3>1. Walking(m, N, W)'
      BY <2>1, <2>2, NamedStep
    <3>2. ~RewriteCells /\ ~Return
      BY <2>2, TypesAre DEF RewriteByName, Skip, RewriteCompatible, SkipSecond, RangesEmpty,
             RewriteCells, Return, AtArrays, AtProperty, OnLap, CellNames
    <3> QED
      BY <1>1, <1>3, <3>1, <3>2
  <2>3. CASE RewriteCells
    BY <1>2, <2>1, <2>3, CellsStep
  <2>4. CASE NoParent \/ AssertFails
    <3>1. UNCHANGED <<blob, nodes, properties, frames>> /\ UNCHANGED <<pc, initialized>>
      BY <2>4 DEF NoParent, AssertFails, Abort, Stop, rewrite_vars
    <3>2. Walking(m, N, W)'
      BY <2>1, <3>1, WalkStays
    <3>3. Defaults(m, N)'
      BY <1>2, <3>1, DefaultsStay
    <3> QED
      BY <3>1, <3>2, <3>3
  <2>5. CASE AllocateArray \/ FillArrays \/ NextLap \/ Call
    <3>1. Walking(m, N, W)'
      BY <1>2, <2>1, <2>5, AllocateStep, FillStep, NextLapStep, CallStep
    <3>2. UNCHANGED <<pc, initialized, nodes>>
      BY <2>5 DEF AllocateArray, FillArrays, NextLap, Call, Abort, Stop, parse_vars, rewrite_vars
    <3>3. Defaults(m, N)'
      BY <1>1, <1>2, <3>2, DefaultsStay
    <3> QED
      BY <3>1, <3>2, <3>3
  <2>6. CASE Return
    <3>1. ~RewriteCells
      BY <2>6 DEF Return, RewriteCells, AtProperty, OnLap
    <3>2. Defaults(m, N)'
      BY <1>3, <3>1
    <3> QED
      BY <2>1, <2>6, <3>2, ReturnStep
  <2> QED
    BY <1>5, <2>2, <2>3, <2>4, <2>5, <2>6 DEF Rewrite
<1> QED
  BY <1>4, <1>5

\* What is raw is neither mistyped nor divided.
Raw(n, W) == \A y \in OwnedTo(n) : TypeGiven(W, y) = "RAW"

LEMMA RawIsWell ==
    ASSUME NEW n, NEW W
    PROVE  /\ Raw(n, W) => TypesOK(n, W) /\ DividedTo(n, W)
           /\ Raw(n, W)' => TypesOK(n, W)' /\ DividedTo(n, W)'
<1>1. Raw(n, W) => TypesOK(n, W) /\ DividedTo(n, W)
  BY DEF Raw, TypesOK, DividedTo, Divided, TypeGiven
<1>2. Raw(n, W)' => TypesOK(n, W)' /\ DividedTo(n, W)'
  BY <1>1, PTL
<1> QED
  BY <1>1, <1>2

\* A step over a token of the structure block that is not the last.
LEMMA ReadOn ==
    ASSUME NEW n, NEW N, NEW W, Progress(n)', TreeOK(n)', Shape(n, N, W)',
           frames' = <<>>, ~initialized', Current(n, N)', Fresh(n, N, W)',
           pc' # "rewrite"
    PROVE  RewriteAt(n, N, W)'
<1>1. TypesOK(n, W)' /\ DividedTo(n, W)'
  BY RawIsWell DEF Fresh, Raw
<1>2. Phases(n, N, W)'
  BY DEF Phases, BeforeRewrite
<1> QED
  BY <1>1, <1>2 DEF RewriteAt

\* What was expected of the properties is still.
LEMMA RewrittenStays ==
    ASSUME NEW m, NEW W, AllRewritten(m, W), UNCHANGED <<blob, properties>>
    PROVE  AllRewritten(m, W)'
<1>1. /\ NodesTo(m)' = NodesTo(m) /\ \A d : InTree(d)' = InTree(d)
      /\ \A t : Props(t, m)' = Props(t, m)
  BY BlobStays
<1>2. \A y : Rewritten(W, y)' = Rewritten(W, y)
  BY DEF Rewritten, TypeGiven, Expected, ExpectedType, FirstLapTypes, CellTypes, ArrayTypes
<1> QED
  BY <1>1, <1>2 DEF AllRewritten

\* A step that reads no token.
LEMMA QuietStep ==
    ASSUME NEW m \in Nat, NEW N, NEW W, RewriteAt(m, N, W), [Next]_vars, Quiet, Progress(m)',
           TreeOK(m)'
    PROVE  RewriteAt(m, N, W)'
<1>1. /\ Shape(m, N, W) /\ TypesOK(m, W) /\ DividedTo(m, W) /\ Phases(m, N, W) /\ Progress(m)
  BY DEF RewriteAt
<1>2. UNCHANGED <<blob, current>> /\ NodesSame /\ PropertiesSame
  BY DEF Quiet
<1>3. Shape(m, N, W)'
  BY <1>1, <1>2, ShapeKept
<1>4. CASE pc # "rewrite"
  <2>1. /\ UNCHANGED <<frames, initialized, nodes, properties>>
        /\ pc \in {"done", "printed"} => pc' \in {"done", "printed"}
    BY <1>4, OutsideRewrite DEF Quiet
  <2>2. TypesOK(m, W)' /\ DividedTo(m, W)'
    BY <1>1, <1>2, <2>1, TypesStay
  <2>3. AllRewritten(m, W) => AllRewritten(m, W)'
    BY <1>2, <2>1, RewrittenStays
  <2>4. BeforeRewrite(m, N, W) => BeforeRewrite(m, N, W)'
    <3>1. /\ NodesTo(m)' = NodesTo(m) /\ OwnedTo(m)' = OwnedTo(m)
          /\ OpenAfter(m)' = OpenAfter(m)
      BY <1>2, BlobStays
    <3> QED
      BY <1>2, <2>1, <3>1 DEF BeforeRewrite, Fresh, TypeGiven, Current
  <2>5. /\ pc' \in {"header", "reservations", "tokens"} => pc \in {"header", "reservations", "tokens"}
        /\ pc' # "rewrite"
    BY <1>4 DEF Quiet
  <2>6. Phases(m, N, W)'
    BY <1>1, <2>1, <2>3, <2>4, <2>5 DEF Phases
  <2> QED
    BY <1>3, <2>2, <2>6 DEF RewriteAt
<1>5. CASE pc = "rewrite"
  <2>1. InRewrite(m, N, W) /\ ~initialized
    BY <1>1, <1>5 DEF Phases, InRewrite
  <2>2. Parsing(m, N, W)
    BY <1>1, BlobAssumption DEF Parsing, Progress, Built, HasRead
  <2>3. /\ NodesTo(m)' = NodesTo(m) /\ OpenAfter(m)' = OpenAfter(m)
    BY <1>2, BlobStays
  <2>4. ASSUME Walking(m, N, W)', Defaults(m, N)', UNCHANGED <<pc, initialized, root>>
        PROVE  RewriteAt(m, N, W)'
    <3>1. InRewrite(m, N, W)' /\ TypesOK(m, W)' /\ DividedTo(m, W)'
      BY <2>1, <2>3, <2>4 DEF InRewrite, Walking
    <3>2. Phases(m, N, W)'
      BY <1>5, <2>1, <2>4, <3>1 DEF Phases
    <3> QED
      BY <1>3, <3>1, <3>2 DEF RewriteAt
  <2>5. CASE Rewrite
    <3>1. UNCHANGED root
      BY <2>5, RewriteLeaves
    <3>2. CASE Walking(m, N, W)' /\ Defaults(m, N)' /\ UNCHANGED <<pc, initialized>>
      BY <2>4, <3>1, <3>2
    <3>3. CASE /\ TypesOK(m, W)' /\ DividedTo(m, W)' /\ pc' = "done"
               /\ (initialized' => initialized \/ AllRewritten(m, W)')
      <4>1. Phases(m, N, W)'
        BY <2>1, <3>3 DEF Phases
      <4> QED
        BY <1>3, <3>3, <4>1 DEF RewriteAt
    <3> QED
      BY <1>1, <2>1, <2>2, <2>5, <3>2, <3>3, CallsGoOn
  <2>6. CASE UNCHANGED vars
    <3>1. UNCHANGED <<pc, initialized, root, blob, nodes, properties, frames>>
      BY <2>6 DEF vars, parse_vars, rewrite_vars
    <3>2. TypesOK(m, W)' /\ DividedTo(m, W)' /\ Defaults(m, N)'
      BY <1>1, <2>1, <3>1, TypesStay, DefaultsStay DEF InRewrite
    <3>3. InRewrite(m, N, W)'
      <4>1. CASE frames = <<>>
        BY <2>1, <2>3, <3>1, <3>2, <4>1 DEF InRewrite
      <4>2. CASE frames # <<>>
        <5>1. Walking(m, N, W)
          BY <1>1, <2>1, <4>2 DEF InRewrite, Walking
        <5>2. Walking(m, N, W)'
          BY <3>1, <5>1, WalkStays
        <5> QED
          BY <2>1, <2>3, <3>1, <3>2, <5>2 DEF InRewrite, Walking
      <4> QED
        BY <4>1, <4>2
    <3>4. Phases(m, N, W)'
      BY <1>5, <2>1, <3>1, <3>3 DEF Phases
    <3> QED
      BY <1>3, <3>2, <3>4 DEF RewriteAt
  <2>7. ~Parse /\ ~print_device_tree
    BY <1>5 DEF Parse, Header, Reservation, ReservationsEnd, Token, parse_node, EndNode,
                pre_parse_property, Nop, Unknown, End, Reads, print_device_tree
  <2> QED
    BY <2>5, <2>6, <2>7 DEF Next, Spin
<1> QED
  BY <1>4, <1>5

\* The first node is at the start of the only buffer.
LEMMA FirstElement ==
    ASSUME NEW m, TreeOK(m), TreeOK(m + 1)', NodesOK', NEW p, Entered(p, m + 1), Elements = {}
    PROVE  p = First
<1>1. Parsed = {} /\ nodes.m_size = 0
  <2>1. Parsed = {}
    BY DEF TreeOK, NodesByToken
  <2> QED
    BY <2>1, FS_EmptySet DEF TreeOK, OneBuffer
<1>2. PICK F : IsStack(nodes', F)
  BY DEF NodesOK
<1>3. Len(nodes'.buffers) <= 1 /\ nodes'.m_size = 1 /\ p \in Pointers /\ PointsInto(nodes', p)
  BY <1>1 DEF TreeOK, OneBuffer, Entered
<1>4. p.buffer = 1 /\ p.index \in 1 .. 1
  BY <1>2, <1>3, ElementsAre
<1> QED
  BY <1>3, <1>4 DEF First, Pointers

\* parse_node.
LEMMA NodeRead ==
    ASSUME NEW m \in Nat, NEW N, NEW W, NodesFit, RewriteAt(m, N, W), [Next]_vars, Takes(m + 1),
           Progress(m + 1)', TreeOK(m + 1)', Opens(m + 1)
    PROVE  \E M : RewriteAt(m + 1, M, W)'
<1>1. /\ Shape(m, N, W) /\ TreeOK(m) /\ Progress(m) /\ Built(m) /\ Built(m + 1)'
      /\ BeforeRewrite(m, N, W) /\ pc = "tokens" /\ m + 1 \in Tokens
      /\ UNCHANGED <<blob, properties>> /\ PropertiesSame /\ pc' = "tokens"
  BY DEF RewriteAt, Phases, Takes, Opens, Progress
<1>2. PICK p : Entered(p, m + 1)
  BY DEF Takes, Opens
<1>3. UNCHANGED <<frames, initialized>>
  BY <1>1, OutsideRewrite
<1>4. /\ m + 1 \in Kinds("BEGIN_NODE") /\ m + 1 \notin Parsed /\ Parsed' = Parsed \cup {m + 1}
  <2>1. Kinds("BEGIN_NODE")' = Kinds("BEGIN_NODE")
    BY <1>1 DEF Kinds, Tokens
  <2>2. /\ Parsed = Kinds("BEGIN_NODE") \cap (1 .. m)
        /\ Parsed' = Kinds("BEGIN_NODE") \cap (1 .. m + 1)
    BY <1>1, <2>1, ParsedIs DEF ParsedAre
  <2>3. m + 1 \in Kinds("BEGIN_NODE") /\ m + 1 \notin 1 .. m /\ 1 .. m + 1 = (1 .. m) \cup {m + 1}
    BY <1>1 DEF Kinds, Opens
  <2> QED
    BY <2>2, <2>3
<1>5. NodesOK' /\ (current = NULL \/ PointsInto(nodes, current))
  BY <1>1, CurrentLeads DEF Progress, Built
<1>6. Elements' = Elements \cup {p} /\ p \notin Elements
  BY <1>1, <1>2, <1>4, <1>5, TreeOpened
<1>7. Elements = {} => p = First
  BY <1>1, <1>2, <1>5, FirstElement
<1>8. PICK M : M = [k \in NodesTo(m + 1) |-> IF k = m + 1 THEN p ELSE N[k]]
  OBVIOUS
<1>9. Current(m, N) /\ Fresh(m, N, W) /\ frames = <<>> /\ ~initialized
  BY <1>1 DEF BeforeRewrite
<1>10. Shape(m + 1, M, W)' /\ Current(m + 1, M)'
  BY <1>1, <1>2, <1>6, <1>7, <1>8, <1>9, ShapeOpened
<1>11. /\ NodesTo(m + 1) = NodesTo(m) \cup {m + 1} /\ m + 1 \notin NodesTo(m)
       /\ OwnedTo(m + 1) = OwnedTo(m)
       /\ NodesTo(m + 1)' = NodesTo(m + 1) /\ OwnedTo(m + 1)' = OwnedTo(m + 1)
  BY <1>1, NewNodeSets, BlobStays
<1>12. Fresh(m + 1, M, W)'
  <2>1. \A y \in OwnedTo(m + 1)' : TypeGiven(W, y)' = "RAW"
    BY <1>1, <1>9, <1>11 DEF Fresh, TypeGiven
  <2>2. ASSUME NEW k \in NodesTo(m + 1)'
        PROVE  Deref(nodes', M[k]).address_cells = 0 /\ Deref(nodes', M[k]).size_cells = 0
    <3>1. CASE k = m + 1
      BY <1>2, <1>8, <1>11, <3>1 DEF Entered
    <3>2. CASE k # m + 1
      <4>1. k \in NodesTo(m) /\ M[k] = N[k]
        BY <1>8, <1>11, <3>2
      <4>2. PointsInto(nodes, N[k])
        BY <1>1, <4>1 DEF Shape, NodesAt
      <4>3. SameCells(Deref(nodes, N[k]), Deref(nodes', N[k]))
        BY <1>2, <4>2 DEF Entered
      <4> QED
        BY <1>9, <4>1, <4>3 DEF Fresh, SameCells
    <3> QED
      BY <3>1, <3>2
  <2> QED
    BY <2>1, <2>2 DEF Fresh
<1> QED
  BY <1>1, <1>3, <1>9, <1>10, <1>12, ReadOn

\* pre_parse_property.
LEMMA PropertyRead ==
    ASSUME NEW m \in Nat, NEW N, NEW W, RewriteAt(m, N, W), [Next]_vars, Takes(m + 1),
           Progress(m + 1)', TreeOK(m + 1)', blob.tokens[m + 1].kind = "PROP"
    PROVE  \E V : RewriteAt(m + 1, N, V)'
<1>1. /\ Shape(m, N, W) /\ Progress(m) /\ Built(m)
      /\ BeforeRewrite(m, N, W) /\ pc = "tokens" /\ m + 1 \in Tokens
      /\ UNCHANGED <<blob, current>> /\ pc' = "tokens" /\ current # NULL
  BY DEF RewriteAt, Phases, Takes, Progress
<1>2. PICK p : Attached(p, m + 1)
  BY DEF Takes
<1>3. UNCHANGED <<frames, initialized>>
  BY <1>1, OutsideRewrite
<1>4. Current(m, N) /\ Fresh(m, N, W) /\ frames = <<>> /\ ~initialized
  BY <1>1 DEF BeforeRewrite
<1>5. OpenAfter(m + 1)' = OpenAfter(m) /\ OpenAfter(m + 1)' = OpenAfter(m + 1)
  <2>1. OpenAfter(m + 1)' = Past(OpenAfter(m), m + 1) /\ m + 1 # 0
    BY <1>1, FurtherOn
  <2> QED
    BY <1>1, <2>1, BlobStays DEF Past
<1>6. OpenAfter(m + 1) = OpenAfter(m) /\ OpenAfter(m) # <<>>
  BY <1>1, <1>4, <1>5 DEF Current
<1>7. PICK V : V = [y \in OwnedTo(m + 1) |-> IF y = m + 1 THEN p ELSE W[y]]
  OBVIOUS
<1>8. Shape(m + 1, N, V)'
  BY <1>1, <1>2, <1>4, <1>6, <1>7, ShapeAttached
<1>9. /\ NodesTo(m + 1) = NodesTo(m)
      /\ OwnedTo(m + 1) = OwnedTo(m) \cup {m + 1} /\ m + 1 \notin OwnedTo(m)
      /\ NodesTo(m + 1)' = NodesTo(m + 1) /\ OwnedTo(m + 1)' = OwnedTo(m + 1)
  BY <1>1, <1>6, NewPropertySets, BlobStays
<1>10. Current(m + 1, N)'
  BY <1>1, <1>4, <1>5 DEF Current
<1>11. Fresh(m + 1, N, V)'
  <2>1. ASSUME NEW y \in OwnedTo(m + 1)' PROVE Deref(properties', V[y]).type = "RAW"
    <3>1. CASE y = m + 1
      BY <1>2, <1>7, <1>9, <3>1 DEF Attached
    <3>2. CASE y # m + 1
      <4>1. y \in OwnedTo(m) /\ V[y] = W[y]
        BY <1>7, <1>9, <3>2
      <4>2. PointsInto(properties, W[y])
        BY <1>1, <4>1 DEF Shape, PropertiesAt
      <4>3. Deref(properties', W[y]) = Deref(properties, W[y])
        BY <1>2, <4>2 DEF Attached
      <4> QED
        BY <1>4, <4>1, <4>3 DEF Fresh, TypeGiven
    <3> QED
      BY <3>1, <3>2
  <2>2. ASSUME NEW k \in NodesTo(m + 1)'
        PROVE  Deref(nodes', N[k]).address_cells = 0 /\ Deref(nodes', N[k]).size_cells = 0
    <3>1. k \in NodesTo(m) /\ PointsInto(nodes, N[k])
      BY <1>1, <1>9 DEF Shape, NodesAt
    <3>2. SameCells(Deref(nodes, N[k]), Deref(nodes', N[k]))
      BY <1>2, <3>1 DEF Attached
    <3> QED
      BY <1>4, <3>1, <3>2 DEF Fresh, SameCells
  <2> QED
    BY <2>1, <2>2 DEF Fresh, TypeGiven
<1> QED
  BY <1>1, <1>3, <1>4, <1>8, <1>10, <1>11, ReadOn

\* The parent of the innermost open node is the next one out.
LEMMA OuterIs ==
    ASSUME NEW m \in Nat, NEW N, NEW W, Shape(m, N, W), Current(m, N), OpenAfter(m) # <<>>,
           NEW o, o = Tail(OpenAfter(m))
    PROVE  Deref(nodes, current).parent = IF o = <<>> THEN NULL ELSE N[o[1]]
<1>1. PICK u \in Nat : Innermost(m, u)
  BY Nesting DEF NestingIs
<1>2. u \in 1 .. m /\ Opens(u) /\ OpenAfter(m) = <<u>> \o Outside(u)
  BY <1>1 DEF Innermost
<1>3. Outside(u) \in Seq(Nat)
  <2>1. u - 1 \in Nat
    BY <1>2
  <2> QED
    BY <2>1, Nesting DEF NestingIs, Outside
<1>4. o = Outside(u) /\ OpenAfter(m)[1] = u
  BY <1>2, <1>3, TailOf, SMTT(60)
<1>5. current = N[u] /\ NodeLeads(m, N, W, u)
  BY <1>2, <1>4 DEF Current, Shape, NodesTo
<1> QED
  BY <1>4, <1>5 DEF NodeLeads

\* The end of a node.
LEMMA EndRead ==
    ASSUME NEW m \in Nat, NEW N, NEW W, RewriteAt(m, N, W), [Next]_vars, Takes(m + 1),
           Progress(m + 1)', TreeOK(m + 1)', blob.tokens[m + 1].kind = "END_NODE"
    PROVE  RewriteAt(m + 1, N, W)'
<1>1. /\ Shape(m, N, W) /\ Progress(m) /\ Built(m)
      /\ BeforeRewrite(m, N, W) /\ pc = "tokens" /\ m + 1 \in Tokens
      /\ UNCHANGED <<blob, nodes, properties>> /\ NodesSame /\ PropertiesSame /\ pc' = "tokens"
      /\ current # NULL /\ current' = Deref(nodes, current).parent
  BY DEF RewriteAt, Phases, Takes, Progress
<1>2. UNCHANGED <<frames, initialized>>
  BY <1>1, OutsideRewrite
<1>3. Current(m, N) /\ Fresh(m, N, W) /\ frames = <<>> /\ ~initialized
  BY <1>1 DEF BeforeRewrite
<1>4. OpenAfter(m) # <<>>
  BY <1>1, <1>3 DEF Current
<1>5. PICK o : o = Tail(OpenAfter(m))
  OBVIOUS
<1>6. OpenAfter(m + 1)' = o
  <2>1. OpenAfter(m + 1)' = Past(OpenAfter(m), m + 1) /\ m + 1 # 0
    BY <1>1, FurtherOn
  <2> QED
    BY <1>4, <1>5, <2>1 DEF Past
<1>7. Current(m + 1, N)'
  <2>1. current' = IF o = <<>> THEN NULL ELSE N[o[1]]
    BY <1>1, <1>3, <1>4, <1>5, OuterIs
  <2> QED
    BY <1>6, <2>1 DEF Current
<1>8. ~Opens(m + 1) /\ ~Owned(m + 1)
  BY DEF Opens, Owned
<1>9. Shape(m + 1, N, W)'
  BY <1>1, <1>8, ShapeKept
<1>10. /\ NodesTo(m + 1)' = NodesTo(m) /\ OwnedTo(m + 1)' = OwnedTo(m)
  <2>1. NodesTo(m + 1) = NodesTo(m) /\ OwnedTo(m + 1) = OwnedTo(m)
    BY <1>8 DEF NodesTo, OwnedTo
  <2> QED
    BY <1>1, <2>1, BlobStays
<1>11. Fresh(m + 1, N, W)'
  BY <1>1, <1>3, <1>10 DEF Fresh, TypeGiven
<1> QED
  BY <1>1, <1>2, <1>3, <1>7, <1>9, <1>11, ReadOn

\* The root that the last token takes, and the cells it gets.
LEMMA RootTaken ==
    ASSUME NEW m \in Nat, NEW N, NEW W, RewriteAt(m, N, W), Fresh(m, N, W), UNCHANGED blob,
           nodes.m_size # 0, Rooted, NodesTo(m + 1) = NodesTo(m)
    PROVE  NodesTo(m) # {} /\ root' = First /\ Defaults(m + 1, N)'
<1>1. /\ Shape(m, N, W) /\ Built(m) /\ OneBuffer /\ blob \in Blobs /\ m \in 0 .. Len(blob.tokens)
  BY DEF RewriteAt, Progress, TreeOK, Built, HasRead
<1>2. NodesTo(m) # {}
  <2>1. Parsed = Kinds("BEGIN_NODE") \cap (1 .. m)
    BY <1>1, ParsedIs DEF ParsedAre
  <2>2. Parsed # {}
    BY <1>1, FS_EmptySet DEF OneBuffer
  <2>3. PICK k : k \in Parsed
    BY <2>2
  <2>4. k \in NodesTo(m)
    BY <2>1, <2>3 DEF Kinds, NodesTo, Opens
  <2> QED
    BY <2>4
<1>3. /\ FirstRoot \in NodesTo(m) /\ \A k \in NodesTo(m) : FirstRoot <= k
  BY <1>1, <1>2, RootIs
<1>4. N[FirstRoot] = First /\ PointsInto(nodes, First)
  BY <1>1, <1>3 DEF Shape, NodesAt
<1>5. ElementAt(nodes, 1) = First
  <2>1. Len(nodes.buffers) = 1
    <3>1. PICK E : IsStack(nodes, E)
      BY <1>1 DEF Built, NodesOK
    <3>2. Len(nodes.buffers) \in Nat
      BY <3>1 DEF IsStack
    <3>3. Len(nodes.buffers) <= 1 /\ First.buffer \in 1 .. Len(nodes.buffers)
      BY <1>1, <1>4 DEF OneBuffer, PointsInto
    <3>4. Len(nodes.buffers) # 0
      BY <3>3
    <3> QED
      BY <3>2, <3>3, <3>4, One
  <2> QED
    BY <2>1 DEF ElementAt, First
<1>6. root' = First
  BY <1>5 DEF Rooted
<1>7. ASSUME NEW t \in NodesTo(m)
      PROVE  LET n == Deref(nodes', N[t])
             IN  /\ n.address_cells = (IF t = FirstRoot THEN 2 ELSE 0)
                 /\ n.size_cells = (IF t = FirstRoot THEN 1 ELSE 0)
  <2>1. PointsInto(nodes, N[t]) /\ N[t] \in Pointers /\ Deref(nodes, N[t]).token = t
        /\ Deref(nodes, First).token = FirstRoot /\ First \in Pointers
    BY <1>1, <1>3, <1>4 DEF Shape, NodesAt
  <2>2. Same(N[t], First) <=> t = FirstRoot
    BY <1>4, <2>1, SamePointer
  <2>3. IF t = FirstRoot
        THEN Deref(nodes', N[t]).address_cells = 2 /\ Deref(nodes', N[t]).size_cells = 1
        ELSE SameCells(Deref(nodes, N[t]), Deref(nodes', N[t]))
    BY <1>5, <2>1, <2>2 DEF Rooted
  <2> QED
    BY <2>3 DEF Fresh, SameCells
<1>8. ASSUME NEW t \in NodesTo(m) PROVE CellsLeft(m + 1, N, t, m + 1)'
  <2>1. \A y \in Props(t, m + 1) : ~(y > m + 1)
    BY DEF Props
  <2>2. /\ FirstRoot' = FirstRoot /\ Props(t, m + 1)' = Props(t, m + 1)
    BY BlobStays
  <2>3. \A name : \A y \in Named(t, name, m + 1)' : ~(y > m + 1)
    BY <2>1, <2>2 DEF Named
  <2> QED
    BY <1>7, <2>2, <2>3 DEF CellsLeft, Counts
<1>9. NodesTo(m + 1)' = NodesTo(m)
  BY BlobStays
<1>10. Defaults(m + 1, N)'
  BY <1>8, <1>9 DEF Defaults
<1> QED
  BY <1>2, <1>6, <1>10

\* The other tokens.
LEMMA OtherRead ==
    ASSUME NEW m \in Nat, NEW N, NEW W, RewriteAt(m, N, W), [Next]_vars, Takes(m + 1),
           Progress(m + 1)', TreeOK(m + 1)',
           blob.tokens[m + 1].kind \notin {"BEGIN_NODE", "END_NODE", "PROP"}
    PROVE  RewriteAt(m + 1, N, W)'
<1>1. /\ Shape(m, N, W) /\ Progress(m) /\ Built(m)
      /\ BeforeRewrite(m, N, W) /\ pc = "tokens" /\ m + 1 \in Tokens
      /\ UNCHANGED <<blob, current, properties>> /\ NodesSame /\ PropertiesSame
      /\ pc' \notin {"header", "reservations"}
      /\ pc' # "rewrite" => UNCHANGED nodes
      /\ pc' = "rewrite" => current = NULL /\ nodes.m_size # 0 /\ Rooted
  BY DEF RewriteAt, Phases, Takes, Progress
<1>2. UNCHANGED <<frames, initialized>>
  BY <1>1, OutsideRewrite
<1>3. Current(m, N) /\ Fresh(m, N, W) /\ frames = <<>> /\ ~initialized
  BY <1>1 DEF BeforeRewrite
<1>4. ~Opens(m + 1) /\ ~Owned(m + 1)
  BY DEF Opens, Owned
<1>5. Shape(m + 1, N, W)'
  BY <1>1, <1>4, ShapeKept
<1>6. /\ NodesTo(m + 1) = NodesTo(m) /\ OwnedTo(m + 1) = OwnedTo(m)
      /\ NodesTo(m + 1)' = NodesTo(m) /\ OwnedTo(m + 1)' = OwnedTo(m)
  <2>1. NodesTo(m + 1) = NodesTo(m) /\ OwnedTo(m + 1) = OwnedTo(m)
    BY <1>4 DEF NodesTo, OwnedTo
  <2> QED
    BY <1>1, <2>1, BlobStays
<1>7. OpenAfter(m + 1)' = OpenAfter(m)
  <2>1. OpenAfter(m + 1)' = Past(OpenAfter(m), m + 1) /\ m + 1 # 0
    BY <1>1, FurtherOn
  <2> QED
    BY <2>1 DEF Past
<1>8. CASE pc' # "rewrite"
  <2>1. Current(m + 1, N)' /\ Fresh(m + 1, N, W)'
    BY <1>1, <1>3, <1>6, <1>7, <1>8 DEF Current, Fresh, TypeGiven
  <2> QED
    BY <1>2, <1>3, <1>5, <1>8, <2>1, ReadOn
<1>9. CASE pc' = "rewrite"
  <2>1. OpenAfter(m) = <<>>
    BY <1>1, <1>9, PathEmpty
  <2>2. NodesTo(m) # {} /\ root' = First /\ Defaults(m + 1, N)'
    BY <1>1, <1>3, <1>6, <1>9, RootTaken
  <2>3. InRewrite(m + 1, N, W)'
    BY <1>2, <1>3, <1>6, <1>7, <2>1, <2>2 DEF InRewrite
  <2>4. Raw(m + 1, W)'
    BY <1>1, <1>3, <1>6 DEF Raw, Fresh, TypeGiven
  <2>5. TypesOK(m + 1, W)' /\ DividedTo(m + 1, W)'
    BY <2>4, RawIsWell
  <2>6. Phases(m + 1, N, W)'
    BY <1>2, <1>3, <1>9, <2>3 DEF Phases
  <2> QED
    BY <1>5, <2>5, <2>6 DEF RewriteAt
<1> QED
  BY <1>8, <1>9

\* The offset tells how many tokens were read.
LEMMA ReadOnce ==
    ASSUME NEW b \in Blobs, NEW m \in 0 .. Len(b.tokens), NEW n \in 0 .. Len(b.tokens),
           SumTo(SizesOf(b), m) = SumTo(SizesOf(b), n)
    PROVE  m = n
<1>1. /\ m < n => SumTo(SizesOf(b), m) < SumTo(SizesOf(b), n)
      /\ n < m => SumTo(SizesOf(b), n) < SumTo(SizesOf(b), m)
  BY StartsGrow
<1>2. SumTo(SizesOf(b), m) \in Nat /\ SumTo(SizesOf(b), n) \in Nat
  BY Behind
<1>3. Len(b.tokens) \in Nat
  BY BlobAssumption
<1> QED
  BY <1>1, <1>2, <1>3

LEMMA ReadIsOne ==
    ASSUME NEW m, NEW n
    PROVE  /\ blob \in Blobs /\ HasRead(m) /\ HasRead(n) => m = n
           /\ (blob \in Blobs /\ HasRead(m) /\ HasRead(n))' => m = n
<1>1. ASSUME NEW b \in Blobs, m \in 0 .. Len(b.tokens), n \in 0 .. Len(b.tokens),
             SumTo(SizesOf(b), m) = SumTo(SizesOf(b), n)
      PROVE  m = n
  BY <1>1, ReadOnce
<1>2. blob \in Blobs /\ HasRead(m) /\ HasRead(n) => m = n
  BY <1>1 DEF HasRead
<1>3. (blob \in Blobs /\ HasRead(m) /\ HasRead(n))' => m = n
  BY <1>1 DEF HasRead
<1> QED
  BY <1>2, <1>3

\* The tree is that of the tokens read by then.
LEMMA TreeGrows ==
    ASSUME NEW m, Progress(m), NodesFit, TreeOK(m), [Next]_vars, NEW n, Progress(n)',
           UNCHANGED blob
    PROVE  TreeOK(n)'
<1>1. TreeInv'
  BY TreeStep
<1>2. NodesFit' = NodesFit
  BY DEF NodesFit, Kinds, Tokens
<1>3. PICK k : Progress(k)' /\ TreeOK(k)'
  BY <1>1, <1>2 DEF TreeInv
<1>4. (blob \in Blobs /\ HasRead(k) /\ HasRead(n))'
  BY <1>3 DEF Progress, Built
<1>5. k = n
  BY <1>4, ReadIsOne
<1> QED
  BY <1>3, <1>5

LEMMA RewriteStep ==
    ASSUME NodesFit, NEW m, NEW N, NEW W, RewriteAt(m, N, W), [Next]_vars
    PROVE  UNCHANGED blob /\ \E n, M, V : RewriteAt(n, M, V)'
<1>1. Progress(m) /\ TreeOK(m) /\ m \in Nat
  <2>1. Progress(m) /\ TreeOK(m) /\ blob \in Blobs /\ m \in 0 .. Len(blob.tokens)
    BY DEF RewriteAt, Progress, Built, HasRead
  <2> QED
    BY <2>1, BlobAssumption
<1>2. CASE Quiet /\ Progress(m)'
  <2>1. UNCHANGED blob
    BY <1>2 DEF Quiet
  <2>2. TreeOK(m)'
    BY <1>1, <1>2, <2>1, TreeGrows
  <2>3. RewriteAt(m, N, W)'
    BY <1>1, <1>2, <2>2, QuietStep
  <2> QED
    BY <2>1, <2>3
<1>3. CASE Takes(m + 1) /\ Progress(m + 1)'
  <2>1. UNCHANGED blob
    BY <1>3 DEF Takes
  <2>2. PICK n : n = m + 1
    OBVIOUS
  <2>3. TreeOK(n)'
    BY <1>1, <1>3, <2>1, <2>2, TreeGrows
  <2>4. TreeOK(m + 1)'
    BY <2>2, <2>3
  <2>5. CASE Opens(m + 1)
    <3>1. \E M : RewriteAt(m + 1, M, W)'
      BY <1>1, <1>3, <2>4, <2>5, NodeRead
    <3> QED
      BY <2>1, <3>1
  <2>6. CASE blob.tokens[m + 1].kind = "PROP"
    <3>1. \E V : RewriteAt(m + 1, N, V)'
      BY <1>1, <1>3, <2>4, <2>6, PropertyRead
    <3> QED
      BY <2>1, <3>1
  <2>7. CASE blob.tokens[m + 1].kind = "END_NODE"
    <3>1. RewriteAt(m + 1, N, W)'
      BY <1>1, <1>3, <2>4, <2>7, EndRead
    <3> QED
      BY <2>1, <3>1
  <2>8. CASE blob.tokens[m + 1].kind \notin {"BEGIN_NODE", "END_NODE", "PROP"}
    <3>1. RewriteAt(m + 1, N, W)'
      BY <1>1, <1>3, <2>4, <2>8, OtherRead
    <3> QED
      BY <2>1, <3>1
  <2> QED
    BY <2>5, <2>6, <2>7, <2>8 DEF Opens
<1> QED
  BY <1>1, <1>2, <1>3, ParserStep

LEMMA RewriteBegins == RewriteInit => RewriteInv
<1> SUFFICES ASSUME RewriteInit, NodesFit PROVE \E m, N, W : RewriteAt(m, N, W)
  BY DEF RewriteInv
<1>1. /\ frames = <<>> /\ initialized = FALSE /\ pc = "header" /\ current = NULL
      /\ nodes = EmptyStack
  BY DEF RewriteInit, Init
<1>2. Progress(0)
  BY ParserInit
<1>3. TreeOK(0)
  <2>1. PICK k : Progress(k) /\ TreeOK(k)
    BY TreeInit DEF TreeInv
  <2>2. k = 0
    BY <1>2, <2>1, ReadIsOne DEF Progress, Built
  <2> QED
    BY <2>1, <2>2
<1>4. NodesTo(0) = {} /\ OwnedTo(0) = {} /\ OpenAfter(0) = <<>> /\ Elements = {}
  <2>1. \A i : i \notin 1 .. 0
    OBVIOUS
  <2>2. Len(nodes.buffers) = 0
    BY <1>1 DEF EmptyStack
  <2> QED
    BY <2>1, <2>2, OpenStep DEF NodesTo, OwnedTo, Elements, PointsInto
<1>5. Shape(0, <<>>, <<>>)
  BY <1>4 DEF Shape, NodesAt, PropertiesAt
<1>6. Fresh(0, <<>>, <<>>) /\ Current(0, <<>>) /\ Raw(0, <<>>)
  BY <1>1, <1>4 DEF Fresh, Current, Raw
<1>7. TypesOK(0, <<>>) /\ DividedTo(0, <<>>)
  BY <1>6, RawIsWell
<1>8. RewriteAt(0, <<>>, <<>>)
  BY <1>1, <1>2, <1>3, <1>5, <1>6, <1>7 DEF RewriteAt, Phases, BeforeRewrite
<1> QED
  BY <1>8

\* The parser and the rewrite keep to the blob from the first step to the last.
THEOREM RewriteInvariant == Spec => []RewriteInv
<1>1. RewriteInit => RewriteInv
  BY RewriteBegins
<1>2. ASSUME ParserInv, RewriteInv, [Next]_vars PROVE RewriteInv'
  <2>1. PICK m : Progress(m)
    BY <1>2 DEF ParserInv
  <2>2. UNCHANGED blob
    BY <1>2, <2>1, ParserStep DEF Quiet, Takes
  <2>3. NodesFit' = NodesFit
    BY <2>2 DEF NodesFit, Kinds, Tokens
  <2>4. ASSUME NodesFit PROVE \E n, M, V : RewriteAt(n, M, V)'
    <3>1. PICK k, N, W : RewriteAt(k, N, W)
      BY <1>2, <2>4 DEF RewriteInv
    <3> QED
      BY <1>2, <2>4, <3>1, RewriteStep
  <2> QED
    BY <2>3, <2>4 DEF RewriteInv
<1> QED
  BY <1>1, <1>2, ParserInvariant, PTL DEF Spec

\* A blob that parses leaves no property of its tree unevaluated, for every
\* blob whose nodes fit in one buffer: both laps of every call see every
\* property of the node, every child of every node gets a call, and each name
\* its type (device_tree.cpp:352-468).
THEOREM TypesByName == Spec => []EveryPropertyRewritten
<1>1. RewriteInv => EveryPropertyRewritten
  <2> SUFFICES ASSUME RewriteInv, initialized, NodesFit, NEW p \in AllProperties,
                      InTree(Owner(p.token))
               PROVE  p.type = ExpectedType(blob.tokens[p.token].name)
    BY DEF EveryPropertyRewritten
  <2>1. PICK m, N, W : RewriteAt(m, N, W)
    BY DEF RewriteInv
  <2>2. Progress(m) /\ TreeOK(m) /\ Shape(m, N, W) /\ AllRewritten(m, W)
    BY <2>1 DEF RewriteAt, Phases
  <2>3. PICK y \in OwnedTo(m) : p = Deref(properties, W[y]) /\ p.token = y
    BY <2>2, AllPropertiesAre
  <2>4. m \in Nat
    <3>1. blob \in Blobs /\ m \in 0 .. Len(blob.tokens)
      BY <2>2 DEF Progress, Built, HasRead
    <3> QED
      BY <3>1, BlobAssumption
  <2>5. Owner(y) \in NodesTo(m) /\ y \in Props(Owner(y), m)
    BY <2>4, OwnerEarlier DEF Props, OwnedTo
  <2>6. Rewritten(W, y)
    BY <2>2, <2>3, <2>5 DEF AllRewritten
  <2> QED
    BY <2>3, <2>6 DEF Rewritten, TypeGiven, Expected
<1> QED
  BY <1>1, RewriteInvariant, PTL

\* Every reg and ranges is divided by the cells of the node the blob has it in
\* and of the node around that, for every blob whose nodes fit in one buffer:
\* wherever the cells stand in a list, the first lap has read them before the
\* second needs them, and a parent has been through both before its children
\* are called (device_tree.cpp:352-470).
THEOREM CellsAreInherited == Spec => []CellsInherited
<1>1. RewriteInv => CellsInherited
  <2> SUFFICES ASSUME RewriteInv, NodesFit, NEW p \in AllProperties, p.type \in {"REG", "RANGES"}
               PROVE  \/ p.data.value * EntryBytes(p.token) = Value(p).len
                      \/ p.type = "RANGES" /\ p.data.value = 0 /\ Value(p).len = 0
    BY DEF CellsInherited
  <2>1. PICK m, N, W : RewriteAt(m, N, W)
    BY DEF RewriteInv
  <2>2. Progress(m) /\ TreeOK(m) /\ Shape(m, N, W) /\ DividedTo(m, W)
    BY <2>1 DEF RewriteAt
  <2>3. PICK y \in OwnedTo(m) : p = Deref(properties, W[y]) /\ p.token = y
    BY <2>2, AllPropertiesAre
  <2>4. Divided(p, y)
    BY <2>2, <2>3 DEF DividedTo
  <2> QED
    BY <2>3, <2>4 DEF Divided, Value
<1> QED
  BY <1>1, RewriteInvariant, PTL
----------------------------------------------------------------------------
\* The types: no stack outgrows its buffer, and no pointer that is kept leads
\* out of the buffers there are.

\* A stack of elements of z bytes has room for those it holds.
SizesFit(s, z) == s.m_size <= s.m_capacity /\ s.m_capacity * z <= Memory

\* Of two multiples the larger is larger by a whole one.
LEMMA NextMultiple ==
    ASSUME NEW p \in Nat \ {0}, NEW a \in Nat, NEW b \in Nat, a % p = 0, b % p = 0, a < b
    PROVE  a + p <= b
<1>1. PICK x \in Nat, y \in Nat : a = p * x /\ b = p * y
  <2>1. /\ a \div p \in Nat /\ a = (p * (a \div p)) + (a % p)
        /\ b \div p \in Nat /\ b = (p * (b \div p)) + (b % p)
    BY Division
  <2>2. PICK x, y : x = a \div p /\ y = b \div p
    OBVIOUS
  <2>3. x \in Nat /\ y \in Nat /\ a = (p * x) + 0 /\ b = (p * y) + 0
    BY <2>1, <2>2
  <2>4. p * x \in Nat /\ p * y \in Nat
    BY <2>3
  <2>5. a = p * x /\ b = p * y
    BY <2>3, <2>4
  <2> QED
    BY <2>3, <2>5
<1>2. x < y
  BY <1>1
<1>3. y = x + (y - x) /\ y - x \in Nat /\ y - x >= 1
  BY <1>2
<1>4. PICK d \in Nat : y = x + d /\ d >= 1
  BY <1>3
<1>5. p * y = p * x + p * d /\ p * d >= p
  BY <1>4
<1> QED
  BY <1>1, <1>5

\* What a full stack grows to has room for one element more.
LEMMA GrownEnough ==
    ASSUME NEW s, s.m_capacity \in Nat, NEW z \in 1 .. PAGE_SIZE, s.m_capacity * z <= Memory,
           NEW n, n = GrownSize(s, z)
    PROVE  /\ n \in Nat /\ n \div z \in Nat /\ (n \div z) * z <= n
           /\ s.m_capacity + 1 <= n \div z
<1>1. PAGE_SIZE \in Word \ {0} /\ PAGE_SIZE \in Nat \ {0} /\ z \in Nat \ {0} /\ WORD \in Nat
      /\ Memory \in Nat /\ 2 * (Memory + 2 * PAGE_SIZE) <= WORD
  BY DeviceTreeAssumption, WordAssumption DEF Word
<1>2. PICK c : c = s.m_capacity * z
  OBVIOUS
<1>3. c \in Nat /\ c <= Memory
  BY <1>1, <1>2
<1>4. PICK u : u = AlignUp(c, PAGE_SIZE)
  OBVIOUS
<1>5. u \in Nat /\ c <= u /\ u < c + PAGE_SIZE /\ u % PAGE_SIZE = 0
  <2>1. c \in Word /\ c + PAGE_SIZE <= WORD
    BY <1>1, <1>3 DEF Word
  <2> QED
    BY <1>1, <1>4, <2>1, AlignUpWord, AlignUpBound, AlignUpAligned DEF Word, IsAligned
<1>6. PICK v : v = 1 + (u * 3) \div 2
  OBVIOUS
<1>7. v \in Nat /\ u < v /\ v <= 1 + u + u
  BY <1>5, <1>6
<1>8. v \in Word /\ v + PAGE_SIZE <= WORD
  <2>1. 2 * v <= 2 + 3 * u
    BY <1>5, <1>6
  <2> QED
    BY <1>1, <1>3, <1>5, <1>7, <2>1 DEF Word
<1>9. n = AlignUp(v, PAGE_SIZE)
  BY <1>2, <1>4, <1>6 DEF GrownSize
<1>10. n \in Nat /\ v <= n /\ n % PAGE_SIZE = 0
  BY <1>1, <1>8, <1>9, AlignUpWord, AlignUpBound, AlignUpAligned DEF Word, IsAligned
<1>11. u + PAGE_SIZE <= n
  BY <1>1, <1>5, <1>7, <1>10, NextMultiple
<1>12. c + z <= n
  BY <1>1, <1>3, <1>5, <1>10, <1>11
<1>13. n \div z \in Nat /\ n = (z * (n \div z)) + (n % z)
  BY <1>1, <1>10, Division, ZenonT(60)
<1>14. PICK q, r : q = n \div z /\ r = n % z
  OBVIOUS
<1>15. q \in Nat /\ r \in Nat /\ r < z /\ n = (z * q) + r /\ z * q = q * z /\ z * q \in Nat
  <2>1. r \in 0 .. z - 1
    BY <1>1, <1>10, <1>14, ModRange
  <2>2. q \in Nat /\ n = (z * q) + r
    BY <1>13, <1>14
  <2>3. z * q = q * z /\ z * q \in Nat
    BY <1>1, <2>2
  <2> QED
    BY <1>1, <2>1, <2>2, <2>3
<1>16. s.m_capacity + 1 <= q
  <2>1. SUFFICES ASSUME q <= s.m_capacity PROVE FALSE
    BY <1>15
  <2>2. PICK k \in Nat : k = s.m_capacity
    OBVIOUS
  <2>3. z * q <= z * k
    BY <1>1, <1>15, <2>1, <2>2
  <2>4. z * k = c
    BY <1>1, <1>2, <2>2
  <2> QED
    BY <1>1, <1>3, <1>12, <1>15, <2>3, <2>4
<1> QED
  BY <1>10, <1>14, <1>15, <1>16
----------------------------------------------------------------------------
\* A pointer that is kept is null or leads into a buffer there is, and the
\* elements of a stack are good when theirs do.
LeadsInto(s, p) == p \in Pointers /\ (p = NULL \/ PointsInto(s, p))
Wider(s, t) == \A q : PointsInto(s, q) => PointsInto(t, q)

NodeType(b) ==
    [token : DOMAIN b.tokens, address_cells : 0 .. 3, size_cells : 0 .. 2,
     properties : Pointers, parent : Pointers, children : Pointers, next_sibling : Pointers]

GoodNodes(b, ns, ps) ==
    {n \in NodeType(b) : /\ LeadsInto(ns, n.parent) /\ LeadsInto(ns, n.children)
                         /\ LeadsInto(ns, n.next_sibling) /\ LeadsInto(ps, n.properties)}

PropertyType(b) ==
    [token : {k \in DOMAIN b.tokens : b.tokens[k].kind = "PROP"}, next_property : Pointers,
     type : PropertyTypes, data : [member : PropertyTypes \cup {"raw"}, value : Nat]]

GoodProperties(b, ps) == {p \in PropertyType(b) : LeadsInto(ps, p.next_property)}

FrameType ==
    [node : Pointers, lap : {"first", "second", "children"}, at : Pointers, arrays : Seq(Nat)]

GoodFrames(ns, ps) ==
    {f \in FrameType : /\ PointsInto(ns, f.node)
                       /\ LeadsInto(IF f.lap = "children" THEN ns ELSE ps, f.at)}

\* A good node and a good property, field by field.
LEMMA NodeFields ==
    ASSUME NEW b, NEW ns, NEW ps, NEW n
    PROVE  n \in GoodNodes(b, ns, ps) <=>
               /\ IsNode(n) /\ n.token \in DOMAIN b.tokens
               /\ n.address_cells \in 0 .. 3 /\ n.size_cells \in 0 .. 2
               /\ LeadsInto(ns, n.parent) /\ LeadsInto(ns, n.children)
               /\ LeadsInto(ns, n.next_sibling) /\ LeadsInto(ps, n.properties)
BY DEF GoodNodes, NodeType, IsNode, LeadsInto

LEMMA PropertyFields ==
    ASSUME NEW b, NEW ps, NEW p
    PROVE  p \in GoodProperties(b, ps) <=>
               /\ IsProperty(p) /\ p.token \in DOMAIN b.tokens /\ b.tokens[p.token].kind = "PROP"
               /\ p.type \in PropertyTypes
               /\ p.data \in [member : PropertyTypes \cup {"raw"}, value : Nat]
               /\ LeadsInto(ps, p.next_property)
BY DEF GoodProperties, PropertyType, IsProperty, LeadsInto

LEMMA FrameFields ==
    ASSUME NEW ns, NEW ps, NEW f
    PROVE  f \in GoodFrames(ns, ps) <=>
               /\ IsFrame(f) /\ f.node \in Pointers /\ f.lap \in {"first", "second", "children"}
               /\ f.arrays \in Seq(Nat)
               /\ PointsInto(ns, f.node)
               /\ LeadsInto(IF f.lap = "children" THEN ns ELSE ps, f.at)
BY DEF GoodFrames, FrameType, IsFrame, LeadsInto

\* What is good stays good when there is more to lead into.
LEMMA GoodWiden ==
    ASSUME NEW b, NEW ns, NEW ms, NEW ps, NEW qs, Wider(ns, ms), Wider(ps, qs)
    PROVE  /\ \A p : (LeadsInto(ns, p) => LeadsInto(ms, p)) /\ (LeadsInto(ps, p) => LeadsInto(qs, p))
           /\ GoodNodes(b, ns, ps) \subseteq GoodNodes(b, ms, qs)
           /\ GoodProperties(b, ps) \subseteq GoodProperties(b, qs)
           /\ GoodFrames(ns, ps) \subseteq GoodFrames(ms, qs)
<1>1. \A p : (LeadsInto(ns, p) => LeadsInto(ms, p)) /\ (LeadsInto(ps, p) => LeadsInto(qs, p))
  BY DEF LeadsInto, Wider
<1>2. GoodNodes(b, ns, ps) \subseteq GoodNodes(b, ms, qs)
  BY <1>1 DEF GoodNodes
<1>3. GoodProperties(b, ps) \subseteq GoodProperties(b, qs)
  BY <1>1 DEF GoodProperties
<1>4. GoodFrames(ns, ps) \subseteq GoodFrames(ms, qs)
  BY <1>1 DEF GoodFrames, Wider
<1> QED
  BY <1>1, <1>2, <1>3, <1>4

\* A stack that is granted what it asks for still fits in its buffer.
LEMMA Pushed ==
    ASSUME NEW s, NEW E, IsStack(s, E), NEW z \in 1 .. PAGE_SIZE, SizesFit(s, z), NEW v \in E,
           granted \in Nat, granted + Wanted(s, z) <= Memory, NEW t, t = EmplaceBack(s, z, v)
    PROVE  /\ IsStack(t, E) /\ SizesFit(t, z) /\ Wider(s, t)
           /\ PointsInto(t, Last(t)) /\ Last(t) \in Pointers /\ Deref(t, Last(t)) = v
           /\ \A q : PointsInto(s, q) => Deref(t, q) = Deref(s, q) /\ q # Last(t)
           /\ granted + Wanted(s, z) \in 0 .. Memory
<1>1. /\ IsStack(t, E) /\ t.m_size = s.m_size + 1
      /\ PointsInto(t, Last(t)) /\ Deref(t, Last(t)) = v /\ Last(t) \in Pointers
      /\ \A p : PointsInto(s, p) =>
            PointsInto(t, p) /\ Deref(t, p) = Deref(s, p) /\ p # Last(t)
      /\ ~Full(s) => t.m_capacity = s.m_capacity
  BY Emplaced
<1>2. /\ s.m_size \in Nat /\ s.m_capacity \in Nat /\ t.m_size \in Nat /\ t.m_capacity \in Nat
      /\ s.m_size <= s.m_capacity /\ s.m_capacity * z <= Memory /\ Memory \in Nat
  BY <1>1, DeviceTreeAssumption DEF IsStack, SizesFit
<1>3. PICK n : n = GrownSize(s, z)
  OBVIOUS
<1>4. /\ n \in Nat /\ n \div z \in Nat /\ (n \div z) * z <= n
      /\ s.m_capacity + 1 <= n \div z
  BY <1>2, <1>3, GrownEnough
<1>5. Wanted(s, z) = IF Full(s) THEN n ELSE 0
  BY <1>3 DEF Wanted
<1>6. Full(s) => t.m_capacity = n \div z
  <2>1. Full(s) => t.m_capacity = Grown(s, z).m_capacity
    BY DEF EmplaceBack, IsStack, Grown
  <2>2. Grown(s, z).m_capacity = n \div z
    BY <1>3 DEF IsStack, Grown
  <2> QED
    BY <2>1, <2>2
<1>7. SizesFit(t, z)
  <2>1. CASE Full(s)
    <3>1. n <= Memory
      BY <1>2, <1>4, <1>5, <2>1
    <3>2. PICK q : q = n \div z
      OBVIOUS
    <3>3. t.m_capacity = q /\ q \in Nat /\ q * z <= n /\ s.m_capacity + 1 <= q
      BY <1>4, <1>6, <2>1, <3>2
    <3>4. q * z \in Nat
      BY <3>3
    <3>5. t.m_size <= q
      BY <1>1, <1>2, <3>3
    <3> QED
      BY <1>2, <1>4, <3>1, <3>3, <3>4, <3>5 DEF SizesFit
  <2>2. CASE ~Full(s)
    <3>1. t.m_size <= t.m_capacity
      BY <1>1, <1>2, <2>2 DEF Full
    <3> QED
      BY <1>1, <1>2, <2>2, <3>1 DEF SizesFit
  <2> QED
    BY <2>1, <2>2
<1>8. granted + Wanted(s, z) \in 0 .. Memory
  BY <1>2, <1>4, <1>5
<1> QED
  BY <1>1, <1>7, <1>8 DEF Wider

\* An assignment leaves the size and the shape of a stack.
LEMMA Put ==
    ASSUME NEW s, NEW E, IsStack(s, E), NEW z, SizesFit(s, z), NEW p, PointsInto(s, p),
           NEW v \in E, NEW t, t = Assign(s, p, v)
    PROVE  IsStack(t, E) /\ SizesFit(t, z) /\ \A q : PointsInto(t, q) <=> PointsInto(s, q)
BY Assigns DEF SizesFit
----------------------------------------------------------------------------
\* The invariant behind the types.
Nodes == GoodNodes(blob, nodes, properties)
Properties == GoodProperties(blob, properties)
Frames == GoodFrames(nodes, properties)
Regions == [address : Nat, size : Nat]

StacksOK ==
    /\ IsStack(reserved_regions, Regions) /\ SizesFit(reserved_regions, RESERVED_SZ)
    /\ IsStack(nodes, Nodes) /\ SizesFit(nodes, NODE_SZ)
    /\ IsStack(properties, Properties) /\ SizesFit(properties, PROPERTY_SZ)
    /\ granted \in 0 .. Memory

PlacesOK ==
    /\ LeadsInto(nodes, current) /\ LeadsInto(nodes, root)
    /\ pc = "rewrite" => root # NULL
    /\ frames \in Seq(Frames)

PhaseOK ==
    /\ pc \in {"header", "reservations", "tokens", "rewrite", "done", "printed"}
    /\ status \in {"running", "panic", "fault", "unreachable"}

ChainOK == chain \in Seq([base : Nat, end : Nat, curr : Nat]) /\ ret \in Nat

TypeInv == blob \in Blobs /\ PhaseOK /\ StacksOK /\ PlacesOK /\ ChainOK

\* Nodes and properties that are kept lead, and are led to, as they did.
LEMMA PlacesStay ==
    ASSUME PlacesOK, Wider(nodes, nodes'), Wider(properties, properties')
    PROVE  /\ LeadsInto(nodes', current) /\ LeadsInto(nodes', root)
           /\ frames \in Seq(Frames')
<1>1. Frames \subseteq Frames'
  BY GoodWiden DEF Frames
<1>2. frames \in Seq(Frames')
  BY <1>1 DEF PlacesOK
<1>3. LeadsInto(nodes', current) /\ LeadsInto(nodes', root)
  BY GoodWiden DEF PlacesOK
<1> QED
  BY <1>2, <1>3

LEMMA TypeInit == RewriteInit => TypeInv
<1> SUFFICES ASSUME RewriteInit PROVE TypeInv
  OBVIOUS
<1>1. \A E : IsStack(EmptyStack, E)
  BY DEF IsStack, EmptyStack
<1>2. \A z \in Nat : SizesFit(EmptyStack, z)
  BY DeviceTreeAssumption DEF SizesFit, EmptyStack
<1>3. {NODE_SZ, PROPERTY_SZ, RESERVED_SZ} \subseteq Nat
  BY DeviceTreeAssumption
<1>4. StacksOK
  BY <1>1, <1>2, <1>3, DeviceTreeAssumption DEF StacksOK, RewriteInit, Init
<1>5. NULL \in Pointers
  BY DEF NULL, Pointers
<1>6. PlacesOK
  BY <1>5 DEF PlacesOK, RewriteInit, Init, LeadsInto
<1>7. ChainOK
  BY DEF ChainOK, RewriteInit, B!Init, B!nullptr
<1> QED
  BY <1>4, <1>6, <1>7 DEF TypeInv, PhaseOK, RewriteInit, Init

\* The steps that leave the stacks as they are.
LEMMA StacksStay ==
    ASSUME TypeInv, UNCHANGED <<blob, reserved_regions, nodes, properties, granted>>
    PROVE  StacksOK' /\ Frames' = Frames
BY DEF TypeInv, StacksOK, Nodes, Properties, Frames

LEMMA StopKeeps ==
    ASSUME TypeInv, NEW how \in {"panic", "fault", "unreachable"}, Stop(how),
           UNCHANGED <<frames, chain, ret>>
    PROVE  TypeInv'
<1>1. /\ UNCHANGED <<blob, pc, offset, current, reserved_regions, nodes, properties, root,
                     granted>>
      /\ status' = how
  BY DEF Stop
<1>2. StacksOK' /\ Frames' = Frames
  BY <1>1, StacksStay
<1> QED
  BY <1>1, <1>2 DEF TypeInv, PhaseOK, PlacesOK, ChainOK

\* A new node, linked to the current one.
LEMMA NodePushed ==
    ASSUME TypeInv, NEW k \in Tokens, granted + Wanted(nodes, NODE_SZ) <= Memory,
           NEW s, s = EmplaceBack(nodes, NODE_SZ, Node(k)), NEW p, p = Last(s),
           nodes' = IF current = NULL THEN s ELSE Linked(s, p),
           granted' = granted + Wanted(nodes, NODE_SZ),
           UNCHANGED <<blob, reserved_regions, properties>>
    PROVE  StacksOK' /\ Wider(nodes, nodes') /\ PointsInto(nodes', p) /\ p \in Pointers
<1> DEFINE G(t) == GoodNodes(blob, t, properties)
           v == Node(k)
<1>1. /\ IsStack(nodes, G(nodes)) /\ SizesFit(nodes, NODE_SZ) /\ granted \in 0 .. Memory
      /\ LeadsInto(nodes, current)
      /\ IsStack(reserved_regions, Regions) /\ SizesFit(reserved_regions, RESERVED_SZ)
      /\ IsStack(properties, Properties) /\ SizesFit(properties, PROPERTY_SZ)
  BY DEF TypeInv, StacksOK, PlacesOK, Nodes
<1>2. NODE_SZ \in 1 .. PAGE_SIZE /\ Memory \in Nat /\ granted \in Nat
  BY <1>1, DeviceTreeAssumption
<1>3. NULL \in Pointers /\ \A t : LeadsInto(t, NULL)
  BY DEF NULL, Pointers, LeadsInto
<1>4. v \in G(nodes)
  <2>1. IsNode(v) /\ v.token = k /\ v.address_cells = 0 /\ v.size_cells = 0
        /\ v.properties = NULL /\ v.parent = current /\ v.children = NULL
        /\ v.next_sibling = NULL
    BY DEF Node, IsNode
  <2> HIDE DEF v
  <2> QED
    BY <1>1, <1>3, <2>1, NodeFields DEF Tokens
<1> HIDE DEF v, G
<1>5. /\ IsStack(s, G(nodes)) /\ SizesFit(s, NODE_SZ) /\ Wider(nodes, s)
      /\ PointsInto(s, p) /\ p \in Pointers /\ Deref(s, p) = v
      /\ \A q : PointsInto(nodes, q) => Deref(s, q) = Deref(nodes, q) /\ q # p
      /\ granted' \in 0 .. Memory
  BY <1>1, <1>2, <1>4, Pushed DEF v
<1>6. G(nodes) \subseteq G(s) /\ \A q : LeadsInto(nodes, q) => LeadsInto(s, q)
  BY <1>5, GoodWiden DEF G, Wider
<1>7. IsStack(s, G(s)) /\ v \in G(s)
  BY <1>4, <1>5, <1>6, Superset
<1>8. ASSUME NEW t, IsStack(t, G(s)), SizesFit(t, NODE_SZ),
             \A q : PointsInto(t, q) <=> PointsInto(s, q), nodes' = t
      PROVE  StacksOK' /\ Wider(nodes, nodes') /\ PointsInto(nodes', p)
  <2>1. G(s) \subseteq G(t)
    BY <1>8, GoodWiden DEF G, Wider
  <2>2. IsStack(t, G(t))
    BY <1>8, <2>1, Superset
  <2>3. G(t) = Nodes' /\ Properties' = Properties
    BY <1>8 DEF G, Nodes, Properties
  <2>4. StacksOK'
    BY <1>1, <1>5, <1>8, <2>2, <2>3 DEF StacksOK
  <2> QED
    BY <1>5, <1>8, <2>4 DEF Wider
<1>9. CASE current = NULL
  BY <1>5, <1>7, <1>8, <1>9
<1>10. CASE current # NULL
  <2>1. PointsInto(nodes, current) /\ PointsInto(s, current)
        /\ Deref(s, current) = Deref(nodes, current) /\ Deref(nodes, current) \in G(nodes)
        /\ Deref(nodes, current) \in G(s)
    BY <1>1, <1>5, <1>6, <1>10, Follows DEF LeadsInto, Wider
  <2> DEFINE N == Deref(s, current)
             w == [v EXCEPT !.next_sibling = N.children]
             t == Assign(s, p, [Deref(s, p) EXCEPT !.next_sibling = Deref(s, current).children])
             M == Deref(t, current)
             z == [M EXCEPT !.children = p]
             u == Assign(t, current, z)
  <2>2. nodes' = u
    BY <1>10 DEF Linked
  <2>3. t = Assign(s, p, w)
    BY <1>5
  <2>4. LeadsInto(s, N.children)
    BY <2>1, NodeFields DEF G
  <2> HIDE DEF N
  <2>5. w \in G(s)
    <3>1. /\ IsNode(w) /\ w.next_sibling = N.children /\ w.token = v.token
          /\ w.parent = v.parent /\ w.properties = v.properties
          /\ w.children = v.children /\ SameCells(v, w)
      BY <1>7, SiblingChange, NodeFields DEF G
    <3> HIDE DEF w
    <3> QED
      BY <1>7, <2>4, <3>1, NodeFields DEF G, SameCells
  <2> HIDE DEF w, t
  <2>6. IsStack(t, G(s)) /\ SizesFit(t, NODE_SZ) /\ \A q : PointsInto(t, q) <=> PointsInto(s, q)
    BY <1>5, <1>7, <2>3, <2>5, Put
  <2>7. M \in G(s)
    BY <2>1, <2>6, Follows
  <2> HIDE DEF M
  <2>8. z \in G(s)
    <3>1. SameLinks(M, z) /\ z.properties = M.properties /\ z.children = p /\ SameCells(M, z)
      BY <2>7, ChildrenChange, NodeFields DEF G
    <3>2. LeadsInto(s, p)
      BY <1>5 DEF LeadsInto
    <3> HIDE DEF z
    <3> QED
      BY <2>7, <3>1, <3>2, NodeFields DEF G, SameCells, SameLinks
  <2> HIDE DEF z
  <2>9. IsStack(u, G(s)) /\ SizesFit(u, NODE_SZ) /\ \A q : PointsInto(u, q) <=> PointsInto(t, q)
    BY <2>1, <2>6, <2>8, Put
  <2> HIDE DEF u
  <2> QED
    BY <1>5, <1>8, <2>2, <2>6, <2>9
<1> QED
  BY <1>5, <1>9, <1>10

\* A new property, linked to the current node.
LEMMA PropertyPushed ==
    ASSUME TypeInv, NEW k \in Tokens, blob.tokens[k].kind = "PROP", current # NULL,
           granted + Wanted(properties, PROPERTY_SZ) <= Memory,
           NEW n, n = Deref(nodes, current),
           NEW s, s = EmplaceBack(properties, PROPERTY_SZ, Property(k, n.properties)),
           properties' = s, nodes' = Assign(nodes, current, [n EXCEPT !.properties = Last(s)]),
           granted' = granted + Wanted(properties, PROPERTY_SZ),
           UNCHANGED <<blob, reserved_regions>>
    PROVE  StacksOK' /\ Wider(nodes, nodes') /\ Wider(properties, properties')
<1> DEFINE P(t) == GoodProperties(blob, t)
           v == Property(k, n.properties)
           p == Last(s)
           w == [n EXCEPT !.properties = p]
<1>1. /\ IsStack(properties, P(properties)) /\ SizesFit(properties, PROPERTY_SZ)
      /\ granted \in 0 .. Memory
      /\ IsStack(reserved_regions, Regions) /\ SizesFit(reserved_regions, RESERVED_SZ)
      /\ IsStack(nodes, Nodes) /\ SizesFit(nodes, NODE_SZ) /\ PointsInto(nodes, current)
  BY DEF TypeInv, StacksOK, PlacesOK, Properties, LeadsInto
<1>2. PROPERTY_SZ \in 1 .. PAGE_SIZE /\ Memory \in Nat /\ granted \in Nat
  BY <1>1, DeviceTreeAssumption
<1>3. n \in Nodes
  BY <1>1, Follows
<1>4. v \in P(properties)
  <2>1. /\ IsProperty(v) /\ v.token = k /\ v.next_property = n.properties /\ v.type = "RAW"
        /\ v.data = [member |-> "raw", value |-> blob.tokens[k].value.len]
    BY DEF Property, IsProperty
  <2>2. blob.tokens[k].value.len \in Nat
    BY BlobAssumption DEF TypeInv, Tokens
  <2>3. LeadsInto(properties, n.properties)
    BY <1>3, NodeFields DEF Nodes
  <2> HIDE DEF v
  <2>4. v.type \in PropertyTypes /\ v.data \in [member : PropertyTypes \cup {"raw"}, value : Nat]
    BY <2>1, <2>2 DEF PropertyTypes
  <2> QED
    BY <2>1, <2>3, <2>4, PropertyFields DEF Tokens
<1> HIDE DEF v, P
<1>5. /\ IsStack(s, P(properties)) /\ SizesFit(s, PROPERTY_SZ) /\ Wider(properties, s)
      /\ PointsInto(s, p) /\ p \in Pointers
      /\ granted' \in 0 .. Memory
  BY <1>1, <1>2, <1>4, Pushed DEF v
<1> HIDE DEF p
<1>6. P(properties) \subseteq P(s)
  BY <1>5 DEF P, GoodProperties, LeadsInto, Wider
<1>7. IsStack(s, P(s))
  BY <1>5, <1>6, Superset
<1> DEFINE E == GoodNodes(blob, nodes, s)
<1>8. Nodes \subseteq E
  BY <1>5, GoodWiden DEF Nodes, Wider
<1>9. w \in E
  <2>1. SameLinks(n, w) /\ w.properties = p /\ w.children = n.children /\ SameCells(n, w)
    BY <1>3, PropertiesChange, NodeFields DEF Nodes
  <2>2. LeadsInto(s, p) /\ n \in E
    BY <1>3, <1>5, <1>8 DEF LeadsInto
  <2> HIDE DEF w
  <2> QED
    BY <2>1, <2>2, NodeFields DEF SameCells, SameLinks
<1>10. IsStack(nodes, E)
  BY <1>1, <1>8, Superset
<1>11. nodes' = Assign(nodes, current, w)
  BY DEF p
<1> HIDE DEF E, w
<1>12. IsStack(nodes', E) /\ SizesFit(nodes', NODE_SZ)
       /\ \A q : PointsInto(nodes', q) <=> PointsInto(nodes, q)
  <2>1. PICK t : t = Assign(nodes, current, w)
    OBVIOUS
  <2>2. IsStack(t, E) /\ SizesFit(t, NODE_SZ) /\ \A q : PointsInto(t, q) <=> PointsInto(nodes, q)
    BY <1>1, <1>9, <1>10, <2>1, Put
  <2> QED
    BY <1>11, <2>1, <2>2
<1>13. IsStack(nodes', Nodes')
  <2>1. E \subseteq Nodes'
    BY <1>12, GoodWiden DEF E, Nodes, Wider
  <2> QED
    BY <1>12, <2>1, Superset
<1>14. IsStack(properties', Properties') /\ SizesFit(properties', PROPERTY_SZ)
  BY <1>5, <1>7 DEF P, Properties
<1>15. IsStack(reserved_regions', Regions) /\ SizesFit(reserved_regions', RESERVED_SZ)
  BY <1>1
<1> QED
  BY <1>5, <1>12, <1>13, <1>14, <1>15 DEF StacksOK, Wider

\* Elements of the stacks are assigned good ones.
NodePut == \E p, v : PointsInto(nodes, p) /\ v \in Nodes /\ nodes' = Assign(nodes, p, v)

PropertyPut ==
    \E p, v : /\ PointsInto(properties, p) /\ v \in Properties
              /\ properties' = Assign(properties, p, v)

LEMMA ElementsPut ==
    ASSUME TypeInv, NodePut \/ UNCHANGED nodes, PropertyPut \/ UNCHANGED properties,
           UNCHANGED <<blob, reserved_regions, granted>>
    PROVE  /\ StacksOK' /\ Frames' = Frames
           /\ \A q : PointsInto(nodes', q) <=> PointsInto(nodes, q)
<1>1. /\ IsStack(nodes, Nodes) /\ SizesFit(nodes, NODE_SZ)
      /\ IsStack(properties, Properties) /\ SizesFit(properties, PROPERTY_SZ)
  BY DEF TypeInv, StacksOK
<1>2. /\ IsStack(nodes', Nodes) /\ SizesFit(nodes', NODE_SZ)
      /\ \A q : PointsInto(nodes', q) <=> PointsInto(nodes, q)
  <2>1. CASE NodePut
    <3>1. PICK p, v : PointsInto(nodes, p) /\ v \in Nodes /\ nodes' = Assign(nodes, p, v)
      BY <2>1 DEF NodePut
    <3>2. PICK t : t = Assign(nodes, p, v)
      OBVIOUS
    <3>3. /\ IsStack(t, Nodes) /\ SizesFit(t, NODE_SZ)
          /\ \A q : PointsInto(t, q) <=> PointsInto(nodes, q)
      BY <1>1, <3>1, <3>2, Put
    <3>4. nodes' = t
      BY <3>1, <3>2
    <3> QED
      BY <3>3, <3>4
  <2>2. CASE UNCHANGED nodes
    BY <1>1, <2>2
  <2> QED
    BY <2>1, <2>2
<1>3. /\ IsStack(properties', Properties) /\ SizesFit(properties', PROPERTY_SZ)
      /\ \A q : PointsInto(properties', q) <=> PointsInto(properties, q)
  <2>1. CASE PropertyPut
    <3>1. PICK p, v : /\ PointsInto(properties, p) /\ v \in Properties
                      /\ properties' = Assign(properties, p, v)
      BY <2>1 DEF PropertyPut
    <3>2. PICK t : t = Assign(properties, p, v)
      OBVIOUS
    <3>3. /\ IsStack(t, Properties) /\ SizesFit(t, PROPERTY_SZ)
          /\ \A q : PointsInto(t, q) <=> PointsInto(properties, q)
      BY <1>1, <3>1, <3>2, Put
    <3>4. properties' = t
      BY <3>1, <3>2
    <3> QED
      BY <3>3, <3>4
  <2>2. CASE UNCHANGED properties
    BY <1>1, <2>2
  <2> QED
    BY <2>1, <2>2
<1>4. PICK s, t : s = nodes' /\ t = properties'
  OBVIOUS
<1>5. \A q : (LeadsInto(s, q) <=> LeadsInto(nodes, q)) /\ (LeadsInto(t, q) <=> LeadsInto(properties, q))
  BY <1>2, <1>3, <1>4 DEF LeadsInto
<1>6. Nodes' = Nodes /\ Properties' = Properties /\ Frames' = Frames
  <2>1. GoodNodes(blob, s, t) = Nodes
    BY <1>5 DEF Nodes, GoodNodes
  <2>2. GoodProperties(blob, t) = Properties
    BY <1>5 DEF Properties, GoodProperties
  <2>3. GoodFrames(s, t) = Frames
    BY <1>2, <1>4, <1>5 DEF Frames, GoodFrames
  <2> QED
    BY <1>4, <2>1, <2>2, <2>3 DEF Nodes, Properties, Frames
<1> QED
  BY <1>2, <1>3, <1>6 DEF TypeInv, StacksOK

\* A step that changes no stack.
LEMMA NothingPushed ==
    ASSUME TypeInv, PhaseOK',
           UNCHANGED <<blob, reserved_regions, nodes, properties, granted, root, frames, chain, ret>>,
           LeadsInto(nodes, current'), pc' = "rewrite" => pc = "rewrite"
    PROVE  TypeInv'
<1>1. StacksOK' /\ Frames' = Frames
  BY StacksStay
<1> QED
  BY <1>1 DEF TypeInv, PlacesOK, ChainOK

\* The steps before the tokens.
LEMMA TypesBeforeTokens ==
    ASSUME TypeInv, Header \/ Reservation \/ ReservationsEnd, UNCHANGED <<frames, chain, ret>>
    PROVE  TypeInv'
<1>1. LeadsInto(nodes, current) /\ PhaseOK
  BY DEF TypeInv, PlacesOK
<1>2. CASE Header
  <2>1. /\ UNCHANGED <<blob, current, reserved_regions, nodes, properties, granted, root, status>>
        /\ pc' \in {"reservations", "done"}
    BY <1>2 DEF Header
  <2>2. PhaseOK'
    BY <1>1, <2>1 DEF PhaseOK
  <2>3. pc' # "rewrite"
    BY <2>1
  <2> QED
    BY <1>1, <2>1, <2>2, <2>3, NothingPushed
<1>3. CASE ReservationsEnd
  <2>1. /\ UNCHANGED <<blob, current, reserved_regions, nodes, properties, granted, root, status>>
        /\ pc' = "tokens"
    BY <1>3 DEF ReservationsEnd
  <2>2. PhaseOK'
    BY <1>1, <2>1 DEF PhaseOK
  <2> QED
    BY <1>1, <2>1, <2>2, NothingPushed
<1>4. CASE Reservation
  <2>1. CASE ~Affordable(reserved_regions, RESERVED_SZ)
    BY <1>4, <2>1, StopKeeps DEF Reservation
  <2>2. CASE Affordable(reserved_regions, RESERVED_SZ)
    <3>1. /\ reserved_regions' = EmplaceBack(reserved_regions, RESERVED_SZ, blob.reserved[1])
          /\ granted' = granted + Wanted(reserved_regions, RESERVED_SZ)
          /\ granted + Wanted(reserved_regions, RESERVED_SZ) <= Memory
          /\ UNCHANGED <<blob, pc, current, nodes, properties, root, status>>
      BY <1>4, <2>2 DEF Reservation, Affordable, Grant
    <3>2. blob.reserved[1] \in Regions
      BY <1>4, BlobAssumption DEF Reservation, ReservedEntry, TypeInv, Regions
    <3>3. /\ IsStack(reserved_regions, Regions) /\ SizesFit(reserved_regions, RESERVED_SZ)
          /\ granted \in Nat /\ RESERVED_SZ \in 1 .. PAGE_SIZE
      BY DeviceTreeAssumption DEF TypeInv, StacksOK
    <3>4. PICK t : t = EmplaceBack(reserved_regions, RESERVED_SZ, blob.reserved[1])
      OBVIOUS
    <3>5. /\ IsStack(t, Regions) /\ SizesFit(t, RESERVED_SZ)
          /\ granted + Wanted(reserved_regions, RESERVED_SZ) \in 0 .. Memory
      BY <3>1, <3>2, <3>3, <3>4, Pushed
    <3>6. StacksOK' /\ Frames' = Frames
      BY <3>1, <3>4, <3>5 DEF TypeInv, StacksOK, Nodes, Properties, Frames
    <3> QED
      BY <3>1, <3>6 DEF TypeInv, PhaseOK, PlacesOK, ChainOK
  <2> QED
    BY <2>1, <2>2
<1> QED
  BY <1>2, <1>3, <1>4

\* The tokens.
LEMMA TypesWhileTokens ==
    ASSUME TypeInv, Token, UNCHANGED <<frames, chain, ret>>
    PROVE  TypeInv'
<1>1. PICK k \in Tokens :
         \/ parse_node(k) \/ EndNode(k) \/ pre_parse_property(k) \/ Nop(k) \/ Unknown(k) \/ End(k)
  BY DEF Token
<1>2. pc = "tokens" /\ LeadsInto(nodes, current) /\ PhaseOK
  BY <1>1 DEF parse_node, EndNode, pre_parse_property, Nop, Unknown, End, Reads, TypeInv, PlacesOK
<1>3. CASE parse_node(k)
  <2>1. CASE ~Affordable(nodes, NODE_SZ)
    BY <1>3, <2>1, StopKeeps DEF parse_node
  <2>2. CASE Affordable(nodes, NODE_SZ)
    <3>1. PICK s : s = EmplaceBack(nodes, NODE_SZ, Node(k))
      OBVIOUS
    <3>2. PICK p : p = Last(s)
      OBVIOUS
    <3>3. /\ nodes' = IF current = NULL THEN s ELSE Linked(s, p)
          /\ current' = p /\ granted' = granted + Wanted(nodes, NODE_SZ)
          /\ granted + Wanted(nodes, NODE_SZ) <= Memory
          /\ UNCHANGED <<blob, pc, reserved_regions, properties, root, status>>
      BY <1>3, <2>2, <3>1, <3>2 DEF parse_node, Affordable, Grant
    <3>4. StacksOK' /\ Wider(nodes, nodes') /\ PointsInto(nodes', p) /\ p \in Pointers
      BY <3>1, <3>2, <3>3, NodePushed
    <3>5. Wider(properties, properties')
      BY <3>3 DEF Wider
    <3>6. LeadsInto(nodes', root) /\ frames \in Seq(Frames')
      BY <3>4, <3>5, PlacesStay DEF TypeInv
    <3>7. PlacesOK'
      BY <1>2, <3>3, <3>4, <3>6 DEF PlacesOK, LeadsInto
    <3> QED
      BY <3>3, <3>4, <3>7 DEF TypeInv, PhaseOK, ChainOK
  <2> QED
    BY <2>1, <2>2
<1>4. CASE EndNode(k)
  <2>1. CASE current = NULL
    BY <1>4, <2>1, StopKeeps DEF EndNode
  <2>2. CASE current # NULL
    <3>1. /\ current' = Deref(nodes, current).parent
          /\ UNCHANGED <<blob, pc, reserved_regions, nodes, properties, root, granted, status>>
      BY <1>4, <2>2 DEF EndNode, Outer
    <3>2. Deref(nodes, current) \in Nodes
      BY <1>2, <2>2, Follows DEF TypeInv, StacksOK, LeadsInto
    <3>3. LeadsInto(nodes, current')
      BY <3>1, <3>2, NodeFields DEF Nodes
    <3>4. PhaseOK'
      BY <1>2, <3>1 DEF PhaseOK
    <3> QED
      BY <3>1, <3>3, <3>4, NothingPushed
  <2> QED
    BY <2>1, <2>2
<1>5. CASE pre_parse_property(k)
  <2>1. CASE ~Affordable(properties, PROPERTY_SZ) \/ current = NULL
    BY <1>5, <2>1, StopKeeps DEF pre_parse_property
  <2>2. CASE Affordable(properties, PROPERTY_SZ) /\ current # NULL
    <3>1. PICK n : n = Deref(nodes, current)
      OBVIOUS
    <3>2. PICK s : s = EmplaceBack(properties, PROPERTY_SZ, Property(k, n.properties))
      OBVIOUS
    <3>3. /\ properties' = s
          /\ nodes' = Assign(nodes, current, [n EXCEPT !.properties = Last(s)])
          /\ granted' = granted + Wanted(properties, PROPERTY_SZ)
          /\ granted + Wanted(properties, PROPERTY_SZ) <= Memory
          /\ UNCHANGED <<blob, pc, current, reserved_regions, root, status>>
          /\ blob.tokens[k].kind = "PROP"
      BY <1>5, <2>2, <3>1, <3>2 DEF pre_parse_property, Affordable, Grant, Reads
    <3>4. StacksOK' /\ Wider(nodes, nodes') /\ Wider(properties, properties')
      BY <2>2, <3>1, <3>2, <3>3, PropertyPushed
    <3>5. LeadsInto(nodes', current) /\ LeadsInto(nodes', root) /\ frames \in Seq(Frames')
      BY <3>4, PlacesStay DEF TypeInv
    <3>6. PlacesOK'
      BY <1>2, <3>3, <3>5 DEF PlacesOK
    <3> QED
      BY <3>3, <3>4, <3>6 DEF TypeInv, PhaseOK, ChainOK
  <2> QED
    BY <2>1, <2>2
<1>6. CASE Nop(k)
  <2>1. UNCHANGED <<blob, pc, current, reserved_regions, nodes, properties, root, granted, status>>
    BY <1>6 DEF Nop
  <2>2. PhaseOK'
    BY <1>2, <2>1 DEF PhaseOK
  <2> QED
    BY <1>2, <2>1, <2>2, NothingPushed
<1>7. CASE Unknown(k)
  BY <1>7, StopKeeps DEF Unknown
<1>8. CASE End(k)
  <2>1. CASE current # NULL
    BY <1>8, <2>1, StopKeeps DEF End
  <2>2. CASE current = NULL /\ nodes.m_size = 0
    <3>1. /\ UNCHANGED <<blob, current, reserved_regions, nodes, properties, root, granted, status>>
          /\ pc' = "done"
      BY <1>8, <2>2 DEF End
    <3>2. PhaseOK'
      BY <1>2, <3>1 DEF PhaseOK
    <3> QED
      BY <1>2, <3>1, <3>2, NothingPushed
  <2>3. CASE current = NULL /\ nodes.m_size # 0
    <3>1. PICK p : p = ElementAt(nodes, 1)
      OBVIOUS
    <3>2. PICK v : v = [Deref(nodes, p) EXCEPT !.address_cells = 2, !.size_cells = 1]
      OBVIOUS
    <3>3. /\ root' = p /\ pc' = "rewrite" /\ nodes' = Assign(nodes, p, v)
          /\ UNCHANGED <<blob, current, reserved_regions, properties, granted, status>>
      BY <1>8, <2>3, <3>1, <3>2 DEF End
    <3>4. PointsInto(nodes, p) /\ p \in Pointers /\ p # NULL
      <4>1. /\ nodes.m_size \in Nat /\ nodes.buffers \in Seq(Seq(Nodes)) /\ nodes.buffers # <<>>
            /\ Len(nodes.buffers[Len(nodes.buffers)]) = nodes.m_size
        BY <2>3 DEF TypeInv, StacksOK, IsStack
      <4>2. Len(nodes.buffers) \in Nat \ {0}
        BY <4>1
      <4> QED
        BY <2>3, <3>1, <4>1, <4>2, SMTT(60) DEF ElementAt, PointsInto, Pointers, NULL
    <3>5. v \in Nodes
      <4>1. Deref(nodes, p) \in Nodes
        BY <3>4, Follows DEF TypeInv, StacksOK
      <4>2. PICK n : n = Deref(nodes, p)
        OBVIOUS
      <4>3. v = [token |-> n.token, address_cells |-> 2, size_cells |-> 1,
                 properties |-> n.properties, parent |-> n.parent, children |-> n.children,
                 next_sibling |-> n.next_sibling]
        <5>1. IsNode(n)
          BY <4>1, <4>2, NodeFields DEF Nodes
        <5>2. v = [n EXCEPT !.address_cells = 2, !.size_cells = 1]
          BY <3>2, <4>2
        <5> QED
          BY <5>1, <5>2 DEF IsNode
      <4>4. /\ IsNode(v) /\ v.token = n.token /\ v.address_cells = 2 /\ v.size_cells = 1
            /\ v.properties = n.properties /\ v.parent = n.parent /\ v.children = n.children
            /\ v.next_sibling = n.next_sibling
        BY <4>3 DEF IsNode
      <4> QED
        BY <4>1, <4>2, <4>4, NodeFields DEF Nodes
    <3>6. StacksOK' /\ Frames' = Frames /\ \A q : PointsInto(nodes', q) <=> PointsInto(nodes, q)
      BY <3>3, <3>4, <3>5, ElementsPut DEF NodePut
    <3>7. PlacesOK'
      BY <1>2, <3>3, <3>4, <3>6 DEF TypeInv, PlacesOK, LeadsInto
    <3> QED
      BY <1>2, <3>3, <3>6, <3>7 DEF TypeInv, PhaseOK, ChainOK
  <2> QED
    BY <2>1, <2>2, <2>3
<1> QED
  BY <1>1, <1>3, <1>4, <1>5, <1>6, <1>7, <1>8
----------------------------------------------------------------------------
\* The bump allocator answers with a number, and its regions are numbers.

Extents == [base : Nat, end : Nat, curr : Nat]

LEMMA Masked ==
    ASSUME NEW v \in Nat, NEW a \in Nat
    PROVE  B!MaskUp(v, a) \in Nat
<1>1. B!MaskUp(v, a) = MaskUp(v, a)
  BY DEF B!MaskUp, MaskUp, B!Add, Add, B!Sub, Sub, B!And, And
<1>2. WORD \in Nat \ {0} /\ a + WORD - 1 \in Nat
  BY WordAssumption
<1>3. PICK s : s = Sub(a, 1)
  OBVIOUS
<1>4. s \in Nat
  BY <1>2, <1>3, ModRange DEF Sub
<1>5. PICK x : x = Add(v, s)
  OBVIOUS
<1>6. x \in Nat
  BY <1>2, <1>4, <1>5, ModRange DEF Add
<1>7. And[x][s] \in Nat /\ And[x][s] <= x
  BY <1>4, <1>6, AndBound
<1>8. MaskUp(v, a) = x - And[x][s]
  BY <1>3, <1>5 DEF MaskUp
<1> QED
  BY <1>1, <1>6, <1>7, <1>8

LEMMA Rounded ==
    ASSUME NEW v \in Nat, NEW a \in Nat \ {0}
    PROVE  AlignUp(v, a) \in Nat
<1>1. WORD \in Nat \ {0} /\ a + WORD - 1 \in Nat
  BY WordAssumption
<1>2. PICK s : s = Sub(a, 1)
  OBVIOUS
<1>3. s \in Nat
  BY <1>1, <1>2, ModRange DEF Sub
<1>4. PICK x : x = Add(v, s)
  OBVIOUS
<1>5. x \in Nat
  BY <1>1, <1>3, <1>4, ModRange DEF Add
<1>6. x % a \in Nat /\ x % a <= x
  BY <1>5, ModRange
<1>7. AlignUp(v, a) = x - (x % a)
  BY <1>2, <1>4 DEF AlignUp, AlignDown
<1> QED
  BY <1>5, <1>6, <1>7

LEMMA RegionBases == B!PageBases \subseteq Nat
<1> SUFFICES ASSUME NEW pa \in B!PageBases PROVE pa \in Nat
  OBVIOUS
<1>1. PICK m \in BumpMemory : pa \in {m.base + k * PAGE_SIZE : k \in 0 .. m.size \div PAGE_SIZE}
  BY DEF B!PageBases
<1>2. PICK k \in 0 .. m.size \div PAGE_SIZE : pa = m.base + k * PAGE_SIZE
  BY <1>1
<1>3. PAGE_SIZE \in Nat /\ m.base \in Nat
  BY RewriteAssumption, DeviceTreeAssumption, WordAssumption DEF Word
<1>4. k \in Nat
  <2>1. PAGE_SIZE \in Nat \ {0} /\ m.size \in Nat
    BY RewriteAssumption, DeviceTreeAssumption, WordAssumption DEF Word
  <2> QED
    BY <2>1, Division
<1>5. k * PAGE_SIZE \in Nat
  BY <1>3, <1>4
<1> QED
  BY <1>2, <1>3, <1>5

LEMMA RegionSized ==
    ASSUME NEW d \in Nat PROVE B!RegionSize(d) \in Nat
<1>1. PAGE_SIZE \in Nat \ {0}
  BY RewriteAssumption, DeviceTreeAssumption, WordAssumption DEF Word
<1>2. B!RegionSize(d) = AlignUp(d, PAGE_SIZE) + PAGE_SIZE
  BY DEF B!RegionSize, B!AlignUp, AlignUp, B!AlignDown, AlignDown, B!Add, Add, B!Sub, Sub
<1> QED
  BY <1>1, <1>2, Rounded

LEMMA RegionTyped ==
    ASSUME NEW pa \in Nat, NEW n \in Nat PROVE B!NewRegion(pa, n) \in Extents
<1>1. HEADER_SZ \in Nat
  BY RewriteAssumption
<1> QED
  BY <1>1 DEF B!NewRegion, Extents

LEMMA Taken ==
    ASSUME NEW c \in Seq(Extents), c # <<>>, NEW size \in Nat, NEW alignment \in Nat,
           B!Take(c, size, alignment)
    PROVE  chain' \in Seq(Extents) /\ ret' \in Nat
<1>1. Len(c) \in 1 .. Len(c) /\ B!Current(c) \in Extents
  BY DEF B!Current
<1>2. B!Current(c).curr \in Nat
  BY <1>1 DEF Extents
<1>3. PICK base : base = B!MaskUp(B!Current(c).curr, alignment)
  OBVIOUS
<1>4. base \in Nat
  BY <1>2, <1>3, Masked
<1>5. chain' = [c EXCEPT ![Len(c)].curr = base + size] /\ ret' = base
  BY <1>3 DEF B!Take
<1>6. [c[Len(c)] EXCEPT !.curr = base + size] \in Extents
  BY <1>1, <1>4, SMTT(60) DEF Extents, B!Current
<1>7. chain' = [c EXCEPT ![Len(c)] = [c[Len(c)] EXCEPT !.curr = base + size]]
  BY <1>1, <1>5
<1> QED
  BY <1>1, <1>4, <1>5, <1>6, <1>7

\* What is missing in the last region, when something is.
LEMMA Missing ==
    ASSUME NEW c \in Seq(Extents), c # <<>>, NEW size \in Nat, NEW alignment \in Nat,
           ~B!Fits(c, size, alignment)
    PROVE  B!Shortfall(c, size, alignment) \in Nat
<1>1. Len(c) \in 1 .. Len(c) /\ B!Current(c) \in Extents
  BY DEF B!Current
<1>2. B!Current(c).curr \in Nat /\ B!Current(c).end \in Nat
  BY <1>1 DEF Extents
<1>3. B!MaskUp(B!Current(c).curr, alignment) \in Nat
  BY <1>2, Masked
<1> QED
  BY <1>2, <1>3 DEF B!Shortfall, B!Fits

LEMMA Allocated ==
    ASSUME ChainOK, NEW size \in Nat, NEW alignment \in Nat, B!alloc_aligned(size, alignment)
    PROVE  ChainOK'
<1>1. chain \in Seq(Extents) /\ ret \in Nat
  BY DEF ChainOK, Extents
<1>2. SUFFICES chain' \in Seq(Extents) /\ ret' \in Nat
  BY DEF ChainOK, Extents
<1>3. PAGE_SIZE \in Nat /\ B!PageBases \subseteq Nat
  BY RegionBases, DeviceTreeAssumption DEF Word
<1>4. CASE B!ReturnNull
  BY <1>1, <1>4 DEF B!ReturnNull, B!nullptr
<1>5. CASE B!FirstRegion(size, alignment)
  <2>1. PICK pa \in B!PageBases :
           B!Take(<<B!NewRegion(pa, PAGE_SIZE)>>, size, alignment)
    BY <1>5 DEF B!FirstRegion
  <2>2. B!NewRegion(pa, PAGE_SIZE) \in Extents
    BY <1>3, RegionTyped
  <2>3. PICK c : c = <<B!NewRegion(pa, PAGE_SIZE)>>
    OBVIOUS
  <2>4. c \in Seq(Extents) /\ c # <<>> /\ B!Take(c, size, alignment)
    BY <2>1, <2>2, <2>3
  <2> QED
    BY <2>4, Taken
<1>6. CASE B!TwoRegions(size, alignment)
  <2>1. PICK pa \in B!PageBases, qa \in B!PageBases \cup {0} :
           LET c == <<B!NewRegion(pa, PAGE_SIZE)>>
               n == B!RegionSize(B!Shortfall(c, size, alignment))
           IN  /\ ~B!Fits(c, size, alignment)
               /\ B!Take(Append(c, B!NewRegion(qa, n)), size, alignment)
    BY <1>6 DEF B!TwoRegions
  <2>2. PICK c : c = <<B!NewRegion(pa, PAGE_SIZE)>>
    OBVIOUS
  <2>3. PICK n : n = B!RegionSize(B!Shortfall(c, size, alignment))
    OBVIOUS
  <2>4. ~B!Fits(c, size, alignment) /\ B!Take(Append(c, B!NewRegion(qa, n)), size, alignment)
    BY <2>1, <2>2, <2>3
  <2>5. c \in Seq(Extents) /\ c # <<>>
    BY <1>3, <2>2, RegionTyped
  <2>6. n \in Nat
    BY <2>3, <2>4, <2>5, Missing, RegionSized
  <2>7. Append(c, B!NewRegion(qa, n)) \in Seq(Extents) /\ Append(c, B!NewRegion(qa, n)) # <<>>
    BY <1>3, <2>5, <2>6, RegionTyped
  <2> QED
    BY <2>4, <2>7, Taken
<1>7. CASE B!NoRegion
  BY <1>1, <1>7 DEF B!NoRegion
<1>8. CASE chain # <<>> /\ B!Bump(chain, size, alignment)
  <2>1. CASE B!Take(chain, size, alignment)
    BY <1>1, <1>8, <2>1, Taken
  <2>2. CASE ~B!Fits(chain, size, alignment)
    <3>1. PICK n : n = B!RegionSize(B!Shortfall(chain, size, alignment))
      OBVIOUS
    <3>2. PICK pa \in B!PageBases \cup {0} :
             B!Take(Append(chain, B!NewRegion(pa, n)), size, alignment)
      BY <1>8, <2>2, <3>1 DEF B!Bump
    <3>3. n \in Nat
      BY <1>1, <1>8, <2>2, <3>1, Missing, RegionSized
    <3>4. /\ Append(chain, B!NewRegion(pa, n)) \in Seq(Extents)
          /\ Append(chain, B!NewRegion(pa, n)) # <<>>
      <4>1. B!NewRegion(pa, n) \in Extents
        BY <1>3, <3>3, RegionTyped
      <4> QED
        BY <1>1, <4>1
    <3> QED
      BY <3>2, <3>4, Taken
  <2> QED
    BY <1>8, <2>1, <2>2 DEF B!Bump
<1> QED
  BY <1>4, <1>5, <1>6, <1>7, <1>8 DEF B!alloc_aligned
----------------------------------------------------------------------------
\* The types while the properties are rewritten.

DataType == [member : PropertyTypes \cup {"raw"}, value : Nat]

LEMMA TopReplaced ==
    ASSUME NEW F, frames \in Seq(F), frames # <<>>, NEW g \in F
    PROVE  [frames EXCEPT ![1] = g] \in Seq(F)
OBVIOUS

\* The innermost call, and the node it is for.
LEMMA TopTyped ==
    ASSUME TypeInv, frames # <<>>
    PROVE  /\ frames \in Seq(Frames) /\ AreFrames(frames) /\ Len(frames) # 0 /\ Len(frames) \in Nat
           /\ Top \in Frames /\ Top.node \in Pointers /\ PointsInto(nodes, Top.node)
           /\ Top.arrays \in Seq(Nat) /\ Top.lap \in {"first", "second", "children"}
           /\ LeadsInto(IF Top.lap = "children" THEN nodes ELSE properties, Top.at)
           /\ ThisNode \in Nodes
<1>1. frames \in Seq(Frames)
  BY DEF TypeInv, PlacesOK
<1>2. Top \in Frames /\ Len(frames) # 0 /\ Len(frames) \in Nat
  BY <1>1 DEF Top
<1>3. \A f \in Frames : IsFrame(f)
  BY FrameFields DEF Frames
<1>4. AreFrames(frames)
  BY <1>1, <1>3 DEF AreFrames
<1>5. /\ Top.node \in Pointers /\ PointsInto(nodes, Top.node)
      /\ Top.arrays \in Seq(Nat) /\ Top.lap \in {"first", "second", "children"}
      /\ LeadsInto(IF Top.lap = "children" THEN nodes ELSE properties, Top.at)
  BY <1>2, FrameFields DEF Frames
<1>6. ThisNode \in Nodes
  BY <1>5, Follows DEF ThisNode, TypeInv, StacksOK
<1> QED
  BY <1>1, <1>2, <1>4, <1>5, <1>6

\* The property a call is at, and where it goes on.
LEMMA ThisTyped ==
    ASSUME TypeInv, frames # <<>>, Top.at # NULL, Top.lap # "children"
    PROVE  /\ This \in Properties /\ PointsInto(properties, Top.at)
           /\ Value(This).len \in Nat /\ Value(This).word \in Nat /\ Value(This).nuls \in Nat
           /\ Advanced \in Seq(Frames)
<1>1. PointsInto(properties, Top.at)
  BY TopTyped DEF LeadsInto
<1>2. This \in Properties
  BY <1>1, Follows DEF This, TypeInv, StacksOK
<1>3. /\ This.token \in DOMAIN blob.tokens /\ blob.tokens[This.token].kind = "PROP"
      /\ LeadsInto(properties, This.next_property)
  BY <1>2, PropertyFields DEF Properties
<1>4. Value(This).len \in Nat /\ Value(This).word \in Nat /\ Value(This).nuls \in Nat
  BY <1>3, BlobAssumption DEF Value, TypeInv
<1>5. PICK g : /\ IsFrame(g) /\ g.node = Top.node /\ g.lap = Top.lap
               /\ g.at = This.next_property /\ g.arrays = <<>>
               /\ Advanced = [frames EXCEPT ![1] = g]
  BY TopTyped, FramesAre
<1>6. g \in Frames
  <2>1. <<>> \in Seq(Nat)
    OBVIOUS
  <2> QED
    BY <1>3, <1>5, <2>1, TopTyped, FrameFields DEF Frames
<1>7. Advanced \in Seq(Frames)
  BY <1>5, <1>6, TopReplaced, TopTyped
<1> QED
  BY <1>1, <1>2, <1>4, <1>7

\* A property is given a type and data.
LEMMA TypeGivenWell ==
    ASSUME TypeInv, frames # <<>>, Top.at # NULL, Top.lap # "children",
           NEW type \in PropertyTypes, NEW data \in DataType, properties' = Assigned(type, data)
    PROVE  PropertyPut
<1>1. This \in Properties /\ PointsInto(properties, Top.at)
  BY ThisTyped
<1>2. PICK r : r = This
  OBVIOUS
<1>3. PICK v : v = [r EXCEPT !.type = type, !.data = data]
  OBVIOUS
<1>4. IsProperty(r) /\ r \in Properties
  BY <1>1, <1>2, PropertyFields DEF Properties
<1>5. /\ IsProperty(v) /\ v.token = r.token /\ v.next_property = r.next_property
      /\ v.type = type /\ v.data = data
  <2>1. IsProperty(v) /\ v.token = r.token /\ v.next_property = r.next_property
    BY <1>3, <1>4, TypeChange, ZenonT(60)
  <2>2. v.type = type /\ v.data = data
    BY <1>3, <1>4, TypeIsSet
  <2> QED
    BY <2>1, <2>2
<1>6. v \in Properties
  BY <1>4, <1>5, PropertyFields DEF Properties, DataType
<1>7. properties' = Assign(properties, Top.at, v)
  BY <1>2, <1>3 DEF Assigned
<1> QED
  BY <1>1, <1>6, <1>7 DEF PropertyPut

\* A step of the rewrite that keeps the shape of the stacks.
LEMMA RewriteKeeps ==
    ASSUME TypeInv, NodePut \/ UNCHANGED nodes, PropertyPut \/ UNCHANGED properties,
           UNCHANGED <<blob, reserved_regions, granted, current, root, status>>,
           frames' \in Seq(Frames), pc' = pc \/ pc' = "done", ChainOK'
    PROVE  TypeInv'
<1>1. StacksOK' /\ Frames' = Frames /\ \A q : PointsInto(nodes', q) <=> PointsInto(nodes, q)
  BY ElementsPut
<1>2. PhaseOK'
  BY DEF TypeInv, PhaseOK
<1>3. PlacesOK'
  BY <1>1 DEF TypeInv, PlacesOK, LeadsInto
<1> QED
  BY <1>1, <1>2, <1>3 DEF TypeInv

\* What a name asks for.
LEMMA NamedTypes ==
    /\ \A name \in DOMAIN FirstLapTypes : FirstLapTypes[name] \in PropertyTypes
    /\ \A name \in DOMAIN CellTypes : CellTypes[name] \in {"ADDRESS_CELLS", "SIZE_CELLS"}
    /\ \A name \in DOMAIN ArrayTypes : ArrayTypes[name] \in {"REG", "RANGES"}
    /\ {"ADDRESS_CELLS", "SIZE_CELLS", "REG", "RANGES", "COMPATIBLE"} \subseteq PropertyTypes
<1>1. ASSUME NEW name \in DOMAIN FirstLapTypes PROVE FirstLapTypes[name] \in PropertyTypes
  BY DEF FirstLapTypes, PropertyTypes
<1>2. \A name \in DOMAIN CellTypes : CellTypes[name] \in {"ADDRESS_CELLS", "SIZE_CELLS"}
  BY DEF CellTypes
<1>3. \A name \in DOMAIN ArrayTypes : ArrayTypes[name] \in {"REG", "RANGES"}
  BY DEF ArrayTypes
<1>4. {"ADDRESS_CELLS", "SIZE_CELLS", "REG", "RANGES", "COMPATIBLE"} \subseteq PropertyTypes
  BY DEF PropertyTypes
<1> QED
  BY <1>1, <1>2, <1>3, <1>4

LEMMA NamedData ==
    ASSUME TypeInv, frames # <<>>, Top.at # NULL, Top.lap # "children",
           Name(This) \in DOMAIN FirstLapTypes
    PROVE  NameType(Name(This)) \in PropertyTypes /\ NameData(This) \in DataType
<1>1. NameType(Name(This)) \in PropertyTypes
  BY NamedTypes DEF NameType
<1>2. PICK type : type = NameType(Name(This))
  OBVIOUS
<1>3. \A n \in Nat : [member |-> type, value |-> n] \in DataType
  BY <1>1, <1>2 DEF DataType
<1>4. This.data \in DataType /\ Value(This).len \in Nat /\ Value(This).word \in Nat
  BY ThisTyped, PropertyFields DEF Properties, DataType
<1>5. \/ \E n \in {0, 1, Value(This).len, Value(This).word} :
            NameData(This) = [member |-> type, value |-> n]
      \/ NameData(This) = This.data
  BY <1>2 DEF NameData
<1> QED
  BY <1>1, <1>3, <1>4, <1>5

\* The parts of an array are numbers.
LEMMA PartsTyped ==
    ASSUME TypeInv, AtParts
    PROVE  /\ \A k \in 1 .. Len(Parts) : Parts[k].room \in Nat
           /\ Entries(Parts) \in Nat
<1>1. /\ frames # <<>> /\ Top.at # NULL /\ Top.lap # "children" /\ ThisNode.parent # NULL
  BY DEF AtParts, AtArrays, AtProperty, OnLap
<1>2. ThisNode \in Nodes /\ Value(This).len \in Nat
  BY <1>1, TopTyped, ThisTyped
<1>3. PointsInto(nodes, ThisNode.parent)
  BY <1>1, <1>2, NodeFields DEF Nodes, LeadsInto
<1>4. Parent \in Nodes
  BY <1>3, Follows DEF Parent, TypeInv, StacksOK
<1>5. /\ ThisNode.address_cells \in Nat /\ ThisNode.size_cells \in Nat
      /\ Parent.address_cells \in Nat /\ Parent.size_cells \in Nat
  BY <1>2, <1>4, NodeFields DEF Nodes
<1>6. PICK a, b, c, d : /\ a = ThisNode.address_cells /\ b = ThisNode.size_cells
                        /\ c = Parent.address_cells /\ d = Parent.size_cells
  OBVIOUS
<1>7. a \in Nat /\ b \in Nat /\ c \in Nat /\ d \in Nat
  BY <1>5, <1>6
<1>8. PICK ps : ps = Parts
  OBVIOUS
<1>9. /\ Len(ps) \in {2, 3}
      /\ \A k \in 1 .. Len(ps) : ps[k].room \in Nat /\ ps[k].cells \in Nat
  <2>1. CASE Type = "REG"
    <3>1. ps = <<Part("address", c, c), Part("size", d, d)>>
      BY <1>6, <1>8, <2>1 DEF Parts, RegParts
    <3> QED
      BY <1>7, <3>1 DEF Part
  <2>2. CASE Type # "REG"
    <3>1. ps = <<Part("cbus", a, a), Part("pbus", c, a), Part("size", b, b)>>
      BY <1>6, <1>8, <2>2 DEF Parts, RangesParts
    <3> QED
      BY <1>7, <3>1 DEF Part
  <2> QED
    BY <2>1, <2>2
<1>10. EntrySize(ps) \in Nat
  BY <1>9, SMTT(60) DEF EntrySize
<1>11. Entries(ps) \in Nat
  BY <1>2, <1>10, WordAssumption, Division DEF Entries
<1> QED
  BY <1>8, <1>9, <1>11

\* A call for a node.
LEMMA FrameTyped ==
    ASSUME TypeInv, NEW p \in Pointers, PointsInto(nodes, p)
    PROVE  Frame(p) \in Frames
<1>1. Deref(nodes, p) \in Nodes
  BY Follows DEF TypeInv, StacksOK
<1>2. LeadsInto(properties, Deref(nodes, p).properties)
  BY <1>1, NodeFields DEF Nodes
<1>3. PICK f : f = Frame(p)
  OBVIOUS
<1>4. /\ IsFrame(f) /\ f.node = p /\ f.lap = "first" /\ f.at = Deref(nodes, p).properties
      /\ f.arrays = <<>>
  BY <1>3 DEF Frame, IsFrame
<1>5. <<>> \in Seq(Nat)
  OBVIOUS
<1> QED
  BY <1>2, <1>3, <1>4, <1>5, FrameFields DEF Frames

\* The steps that rewrite one property, or skip it.
LEMMA TypesOnProperty ==
    ASSUME TypeInv,
           \/ RewriteByName \/ Skip \/ RewriteCells \/ RewriteCompatible
           \/ SkipSecond \/ RangesEmpty
    PROVE  TypeInv'
<1>1. frames # <<>> /\ Top.at # NULL /\ Top.lap # "children"
  BY DEF RewriteByName, Skip, RewriteCells, RewriteCompatible, SkipSecond, RangesEmpty,
         AtArrays, AtProperty, OnLap
<1>2. /\ frames \in Seq(Frames) /\ ThisNode \in Nodes /\ PointsInto(nodes, Top.node)
      /\ Advanced \in Seq(Frames) /\ ChainOK
      /\ Value(This).word \in Nat /\ Value(This).nuls \in Nat
  BY <1>1, TopTyped, ThisTyped DEF TypeInv
<1>3. ASSUME NEW type \in PropertyTypes, NEW data \in DataType, properties' = Assigned(type, data)
      PROVE  PropertyPut
  BY <1>1, <1>3, TypeGivenWell
<1>4. CASE RewriteByName
  <2>1. /\ properties' = Assigned(NameType(Name(This)), NameData(This)) /\ frames' = Advanced
        /\ Name(This) \in DOMAIN FirstLapTypes
        /\ UNCHANGED <<blob, reserved_regions, granted, current, root, status, pc, nodes,
                       chain, ret>>
    BY <1>4 DEF RewriteByName, unchanged_parse, bump_vars
  <2>2. PropertyPut
    BY <1>1, <1>3, <2>1, NamedData
  <2>3. ChainOK'
    BY <1>2, <2>1 DEF ChainOK
  <2> QED
    BY <1>2, <2>1, <2>2, <2>3, RewriteKeeps
<1>5. CASE Skip \/ SkipSecond
  <2>1. /\ frames' = Advanced
        /\ UNCHANGED <<blob, reserved_regions, granted, current, root, status, pc, nodes,
                       properties, chain, ret>>
    BY <1>5 DEF Skip, SkipSecond, parse_vars, bump_vars
  <2>2. ChainOK'
    BY <1>2, <2>1 DEF ChainOK
  <2> QED
    BY <1>2, <2>1, <2>2, RewriteKeeps
<1>6. CASE RangesEmpty
  <2>1. /\ properties' = Assigned("RANGES", [member |-> "RANGES", value |-> 0])
        /\ frames' = Advanced
        /\ UNCHANGED <<blob, reserved_regions, granted, current, root, status, pc, nodes,
                       chain, ret>>
    BY <1>6 DEF RangesEmpty, unchanged_parse, bump_vars
  <2>2. "RANGES" \in PropertyTypes /\ [member |-> "RANGES", value |-> 0] \in DataType
    BY NamedTypes DEF DataType
  <2>3. PropertyPut
    BY <1>3, <2>1, <2>2
  <2>4. ChainOK'
    BY <1>2, <2>1 DEF ChainOK
  <2> QED
    BY <1>2, <2>1, <2>3, <2>4, RewriteKeeps
<1>7. CASE RewriteCompatible
  <2>1. /\ B!alloc_aligned(CompatibleSize(Value(This).nuls), POINTER_SZ)
        /\ UNCHANGED <<blob, reserved_regions, granted, current, root, status, pc, nodes>>
        /\ \/ /\ properties' = Assigned("COMPATIBLE", [member |-> "COMPATIBLE", value |-> ret'])
              /\ frames' = Advanced
           \/ UNCHANGED <<properties, frames>>
    BY <1>7 DEF RewriteCompatible, unchanged_parse
  <2>2. CompatibleSize(Value(This).nuls) \in Nat /\ POINTER_SZ \in Nat
    BY <1>2 DEF CompatibleSize, POINTER_SZ
  <2>3. ChainOK'
    BY <1>2, <2>1, <2>2, Allocated
  <2>4. /\ "COMPATIBLE" \in PropertyTypes
        /\ [member |-> "COMPATIBLE", value |-> ret'] \in DataType
    BY <2>3, NamedTypes DEF ChainOK, DataType
  <2>5. PropertyPut \/ UNCHANGED properties
    BY <1>3, <2>1, <2>4
  <2>6. frames' \in Seq(Frames)
    BY <1>2, <2>1
  <2> QED
    BY <2>1, <2>3, <2>5, <2>6, RewriteKeeps
<1>8. CASE RewriteCells
  <2>1. PICK w : w = Value(This).word
    OBVIOUS
  <2>2. PICK type : type = CellTypes[Name(This)]
    OBVIOUS
  <2>3. PICK n : n = ThisNode
    OBVIOUS
  <2>4. PICK v : v = IF type = "ADDRESS_CELLS" THEN [n EXCEPT !.address_cells = w]
                                               ELSE [n EXCEPT !.size_cells = w]
    OBVIOUS
  <2>5. /\ properties' = Assigned(type, [member |-> type, value |-> w])
        /\ type \in {"ADDRESS_CELLS", "SIZE_CELLS"} /\ w \in Nat
        /\ \/ pc' = "done" /\ UNCHANGED <<nodes, frames>>
           \/ /\ ~TooLarge(type, w) /\ nodes' = Assign(nodes, Top.node, v)
              /\ frames' = Advanced /\ pc' = pc
        /\ UNCHANGED <<blob, reserved_regions, granted, current, root, status, chain, ret>>
    BY <1>2, <1>8, <2>1, <2>2, <2>3, <2>4, NamedTypes
       DEF RewriteCells, Fails, unchanged_parse, bump_vars
  <2>6. type \in PropertyTypes /\ [member |-> type, value |-> w] \in DataType
    BY <2>5, NamedTypes DEF DataType
  <2>7. PropertyPut
    BY <1>3, <2>5, <2>6
  <2>8. ASSUME ~TooLarge(type, w) PROVE v \in Nodes
    <3>1. /\ IsNode(n) /\ n \in Nodes
      BY <1>2, <2>3, NodeFields DEF Nodes
    <3>2. CASE type = "ADDRESS_CELLS"
      <4>1. w \in 0 .. 3
        <5>1. w \in Nat
          BY <2>5
        <5> QED
          BY <5>1, <2>8, <3>2 DEF TooLarge
      <4>2. v = [n EXCEPT !.address_cells = w]
        BY <2>4, <3>2
      <4>3. /\ SameLinks(n, v) /\ v.properties = n.properties /\ v.children = n.children
            /\ v.address_cells = w /\ v.size_cells = n.size_cells
        BY <3>1, <4>2, AddressCellsChange
      <4> QED
        BY <3>1, <4>1, <4>3, NodeFields DEF Nodes, SameLinks
    <3>3. CASE type = "SIZE_CELLS"
      <4>1. w \in 0 .. 2
        <5>1. w \in Nat
          BY <2>5
        <5> QED
          BY <5>1, <2>8, <3>3 DEF TooLarge
      <4>2. v = [n EXCEPT !.size_cells = w]
        BY <2>4, <3>3
      <4>3. /\ SameLinks(n, v) /\ v.properties = n.properties /\ v.children = n.children
            /\ v.size_cells = w /\ v.address_cells = n.address_cells
        BY <3>1, <4>2, SizeCellsChange
      <4> QED
        BY <3>1, <4>1, <4>3, NodeFields DEF Nodes, SameLinks
    <3> QED
      BY <2>5, <3>2, <3>3
  <2>9. NodePut \/ UNCHANGED nodes
    BY <1>2, <2>5, <2>8 DEF NodePut
  <2>10. ChainOK' /\ frames' \in Seq(Frames)
    BY <1>2, <2>5 DEF ChainOK
  <2> QED
    BY <2>5, <2>7, <2>9, <2>10, RewriteKeeps
<1> QED
  BY <1>4, <1>5, <1>6, <1>7, <1>8

\* The steps that allocate and fill arrays, or stop the kernel.
LEMMA TypesOnArrays ==
    ASSUME TypeInv, NoParent \/ AssertFails \/ AllocateArray \/ FillArrays
    PROVE  TypeInv'
<1>1. frames # <<>> /\ Top.at # NULL /\ Top.lap # "children" /\ Name(This) \in DOMAIN ArrayTypes
  BY DEF NoParent, AssertFails, AllocateArray, FillArrays, AtParts, AtArrays, AtProperty, OnLap
<1>2. frames \in Seq(Frames) /\ Advanced \in Seq(Frames) /\ ChainOK /\ Top.arrays \in Seq(Nat)
  BY <1>1, TopTyped, ThisTyped DEF TypeInv
<1>3. ASSUME NEW how \in {"panic", "fault", "unreachable"}, Abort(how) PROVE TypeInv'
  BY <1>3, StopKeeps DEF Abort, rewrite_vars, bump_vars
<1>4. CASE NoParent
  BY <1>3, <1>4 DEF NoParent
<1>5. CASE AssertFails
  BY <1>3, <1>5 DEF AssertFails
<1>6. CASE AllocateArray
  <2>1. PICK room, n : /\ room = 4 * Parts[Len(Top.arrays) + 1].room
                       /\ n = (room * Entries(Parts)) % WORD
    OBVIOUS
  <2>2. /\ B!alloc_aligned(n, room) /\ Len(Top.arrays) < Len(Parts) /\ AtParts
        /\ frames' = [frames EXCEPT ![1].arrays = Append(@, ret')] \/ frames' = frames
        /\ UNCHANGED <<blob, reserved_regions, granted, current, root, status, pc, nodes,
                       properties>>
    BY <1>6, <2>1 DEF AllocateArray, parse_vars
  <2>3. room \in Nat /\ n \in Nat
    <3>1. Len(Top.arrays) + 1 \in 1 .. Len(Parts)
      <4>1. Len(Parts) \in Nat
        BY DEF Parts, RegParts, RangesParts
      <4> QED
        BY <1>2, <2>2, <4>1
    <3>2. Parts[Len(Top.arrays) + 1].room \in Nat /\ Entries(Parts) \in Nat
      BY <2>2, <3>1, PartsTyped
    <3>3. PICK r, e : r = Parts[Len(Top.arrays) + 1].room /\ e = Entries(Parts)
      OBVIOUS
    <3>4. room \in Nat /\ n = (room * e) % WORD /\ e \in Nat
      BY <2>1, <3>2, <3>3, SMTT(60)
    <3>5. room * e \in Nat
      BY <3>4
    <3> QED
      BY <3>4, <3>5, WordAssumption, ModRange
  <2>4. ChainOK'
    BY <1>2, <2>2, <2>3, Allocated
  <2>5. frames' \in Seq(Frames)
    <3>1. PICK x : x = ret'
      OBVIOUS
    <3>2. PICK g : /\ IsFrame(g) /\ g.node = Top.node /\ g.lap = Top.lap /\ g.at = Top.at
                   /\ g.arrays = Append(Top.arrays, x)
                   /\ [frames EXCEPT ![1].arrays = Append(@, x)] = [frames EXCEPT ![1] = g]
      BY <1>1, TopTyped, FramesAre, ZenonT(60)
    <3>3. Append(Top.arrays, x) \in Seq(Nat)
      BY <1>2, <2>4, <3>1 DEF ChainOK
    <3>4. g \in Frames
      BY <1>1, <3>2, <3>3, TopTyped, FrameFields DEF Frames
    <3>5. [frames EXCEPT ![1] = g] \in Seq(Frames)
      BY <1>1, <1>2, <3>4, TopReplaced
    <3>6. frames' = [frames EXCEPT ![1] = g] \/ frames' = frames
      BY <2>2, <3>1, <3>2
    <3> QED
      BY <1>2, <3>5, <3>6
  <2> QED
    BY <2>2, <2>4, <2>5, RewriteKeeps
<1>7. CASE FillArrays
  <2>1. CASE NoCells(Parts)
    BY <1>3, <1>7, <2>1 DEF FillArrays
  <2>2. CASE ~NoCells(Parts)
    <3>1. PICK type, data : type = Type /\ data = [member |-> Type, value |-> Entries(Parts)]
      OBVIOUS
    <3>2. /\ properties' = Assigned(type, data) /\ frames' = Advanced /\ AtParts
          /\ UNCHANGED <<blob, reserved_regions, granted, current, root, status, pc, nodes,
                         chain, ret>>
      BY <1>7, <2>2, <3>1 DEF FillArrays, unchanged_parse, bump_vars
    <3>3. type \in PropertyTypes
      BY <1>1, <3>1, NamedTypes DEF Type
    <3>4. data \in DataType
      BY <3>1, <3>2, <3>3, PartsTyped DEF DataType
    <3>5. PropertyPut
      BY <1>1, <3>2, <3>3, <3>4, TypeGivenWell
    <3>6. ChainOK'
      BY <1>2, <3>2 DEF ChainOK
    <3> QED
      BY <1>2, <3>2, <3>5, <3>6, RewriteKeeps
  <2> QED
    BY <2>1, <2>2
<1> QED
  BY <1>4, <1>5, <1>6, <1>7

\* The steps from lap to lap, and from call to call.
LEMMA TypesOnWalk ==
    ASSUME TypeInv, Enter \/ NextLap \/ Call \/ Return
    PROVE  TypeInv'
<1>1. /\ UNCHANGED <<blob, reserved_regions, granted, current, root, status, nodes, properties,
                     chain, ret>>
      /\ pc' = pc \/ pc' = "done"
  BY DEF Enter, NextLap, Call, Return, unchanged_parse, parse_vars, bump_vars
<1>2. ChainOK'
  BY <1>1 DEF TypeInv, ChainOK
<1>3. SUFFICES frames' \in Seq(Frames)
  BY <1>1, <1>2, RewriteKeeps
<1>4. CASE Enter
  <2>1. frames' = <<Frame(root)>> /\ root \in Pointers /\ PointsInto(nodes, root)
    BY <1>4 DEF Enter, TypeInv, PlacesOK, LeadsInto
  <2>2. Frame(root) \in Frames
    BY <2>1, FrameTyped
  <2> QED
    BY <2>1, <2>2
<1>5. CASE NextLap
  <2>1. frames # <<>> /\ Top.lap # "children"
    BY <1>5 DEF NextLap
  <2>2. PICK x : x = IF Top.lap = "first" THEN ThisNode.properties ELSE ThisNode.children
    OBVIOUS
  <2>3. PICK g : /\ IsFrame(g) /\ g.node = Top.node /\ g.at = x /\ g.arrays = Top.arrays
                 /\ g.lap = IF Top.lap = "first" THEN "second" ELSE "children"
                 /\ [frames EXCEPT ![1].at = x,
                        ![1].lap = IF @ = "first" THEN "second" ELSE "children"]
                       = [frames EXCEPT ![1] = g]
    BY <2>1, TopTyped, FramesAre
  <2>4. frames' = [frames EXCEPT ![1] = g]
    BY <1>5, <2>2, <2>3 DEF NextLap
  <2>5. LeadsInto(properties, ThisNode.properties) /\ LeadsInto(nodes, ThisNode.children)
    BY <2>1, TopTyped, NodeFields DEF Nodes
  <2>6. g.lap \in {"first", "second", "children"}
        /\ LeadsInto(IF g.lap = "children" THEN nodes ELSE properties, g.at)
    BY <2>2, <2>3, <2>5
  <2>7. g \in Frames
    BY <2>1, <2>3, <2>6, TopTyped, FrameFields DEF Frames
  <2> QED
    BY <2>1, <2>4, <2>7, TopTyped, TopReplaced
<1>6. CASE Call
  <2>1. frames # <<>> /\ Top.lap = "children" /\ Top.at # NULL
        /\ frames' = <<Frame(Top.at)>> \o [frames EXCEPT ![1].at = AfterChild]
    BY <1>6 DEF Call, OnLap
  <2>2. Top.at \in Pointers /\ PointsInto(nodes, Top.at)
    BY <2>1, TopTyped DEF LeadsInto
  <2>3. Frame(Top.at) \in Frames
    BY <2>2, FrameTyped
  <2>4. PICK x : x = AfterChild
    OBVIOUS
  <2>5. LeadsInto(nodes, x)
    <3>1. Deref(nodes, Top.at) \in Nodes
      BY <2>2, Follows DEF TypeInv, StacksOK
    <3> QED
      BY <2>4, <3>1, NodeFields DEF AfterChild, Nodes
  <2>6. PICK g : /\ IsFrame(g) /\ g.node = Top.node /\ g.lap = Top.lap /\ g.at = x
                 /\ g.arrays = Top.arrays
                 /\ [frames EXCEPT ![1].at = x] = [frames EXCEPT ![1] = g]
    BY <2>1, TopTyped, FramesAre
  <2>7. g \in Frames
    BY <2>1, <2>5, <2>6, TopTyped, FrameFields DEF Frames
  <2>8. PICK fs : fs = [frames EXCEPT ![1] = g]
    OBVIOUS
  <2>9. fs \in Seq(Frames)
    BY <2>1, <2>7, <2>8, TopTyped, TopReplaced
  <2>10. frames' = <<Frame(Top.at)>> \o fs
    BY <2>1, <2>4, <2>6, <2>8
  <2> QED
    BY <2>3, <2>9, <2>10
<1>7. CASE Return
  <2>1. frames # <<>> /\ frames' = Tail(frames)
    BY <1>7 DEF Return, OnLap
  <2> QED
    BY <2>1, TopTyped
<1> QED
  BY <1>4, <1>5, <1>6, <1>7

\* Every step.
LEMMA TypeStep == TypeInv /\ [Next]_vars => TypeInv'
<1> SUFFICES ASSUME TypeInv, [Next]_vars PROVE TypeInv'
  OBVIOUS
<1>1. CASE Parse /\ UNCHANGED <<rewrite_vars, bump_vars>>
  <2>1. UNCHANGED <<frames, chain, ret>>
    BY <1>1 DEF rewrite_vars, bump_vars
  <2> QED
    BY <1>1, <2>1, TypesBeforeTokens, TypesWhileTokens DEF Parse
<1>2. CASE Rewrite
  BY <1>2, TypesOnProperty, TypesOnArrays, TypesOnWalk DEF Rewrite
<1>3. CASE print_device_tree
  <2>1. /\ UNCHANGED <<blob, reserved_regions, nodes, properties, granted, current, root, status,
                       frames, chain, ret>>
        /\ pc' = "printed"
    BY <1>3 DEF print_device_tree, bump_vars
  <2>2. PhaseOK' /\ LeadsInto(nodes, current') /\ pc' # "rewrite"
    BY <2>1 DEF TypeInv, PhaseOK, PlacesOK
  <2> QED
    BY <2>1, <2>2, NothingPushed
<1>4. CASE UNCHANGED vars
  <2>1. UNCHANGED <<blob, reserved_regions, nodes, properties, granted, current, root, status, pc,
                    frames, chain, ret>>
    BY <1>4 DEF vars, parse_vars, rewrite_vars, bump_vars
  <2>2. PhaseOK' /\ LeadsInto(nodes, current')
    BY <2>1 DEF TypeInv, PhaseOK, PlacesOK
  <2> QED
    BY <2>1, <2>2, NothingPushed
<1> QED
  BY <1>1, <1>2, <1>3, <1>4 DEF Next, Spin

THEOREM TypeInvariant == Spec => []TypeInv
<1> QED
  BY TypeInit, TypeStep, PTL DEF Spec

\* The types of the parser: no stack outgrows the buffer it was granted, and
\* no pointer that is kept leads out of the buffers there are, however often
\* the stacks have grown (device_tree.cpp:35-166, stack.h:85-111).
THEOREM ParserTypes == Spec => []TypeOK
<1>1. TypeInv /\ ParserInv => TypeOK
  <2> SUFFICES ASSUME TypeInv, ParserInv PROVE TypeOK
    OBVIOUS
  <2>1. offset \in Nat
    BY ReadIs DEF ParserInv, Progress, Built
  <2>2. \A s, E, z : IsStack(s, E) /\ SizesFit(s, z) => StackOf(E, s)
    <3> SUFFICES ASSUME NEW s, NEW E, NEW z, IsStack(s, E), SizesFit(s, z) PROVE StackOf(E, s)
      OBVIOUS
    <3>1. s.buffers \in Seq(Seq(E)) /\ s.m_size <= s.m_capacity
      BY DEF IsStack, SizesFit
    <3>2. \A b \in 1 .. Len(s.buffers) : \A k \in DOMAIN s.buffers[b] : s.buffers[b][k] \in E
      BY <3>1
    <3> QED
      BY <3>1, <3>2 DEF StackOf, IsStack
  <2>3. /\ StackOf(Regions, reserved_regions) /\ StackOf(Nodes, nodes)
        /\ StackOf(Properties, properties)
    BY <2>2 DEF TypeInv, StacksOK
  <2>4. StackOf(NodeType(blob), nodes) /\ StackOf(PropertyType(blob), properties)
    BY <2>3 DEF StackOf, Nodes, Properties, GoodNodes, GoodProperties
  <2>5. StackOf([token : Tokens, next_property : Pointers, type : PropertyTypes,
                 data : [member : PropertyTypes \cup {"raw"}, value : Nat]], properties)
    <3>1. PropertyType(blob) \subseteq
             [token : Tokens, next_property : Pointers, type : PropertyTypes,
              data : [member : PropertyTypes \cup {"raw"}, value : Nat]]
      BY DEF PropertyType, Tokens
    <3> QED
      BY <2>4, <3>1 DEF StackOf
  <2>6. ASSUME NEW b \in 1 .. Len(nodes.buffers), NEW i \in 1 .. nodes.m_size,
               i <= Len(nodes.buffers[b])
        PROVE  LET n == nodes.buffers[b][i]
               IN  /\ \A p \in {n.parent, n.children, n.next_sibling} :
                         p # NULL => PointsInto(nodes, p)
                   /\ n.properties # NULL => PointsInto(properties, n.properties)
    <3>1. nodes.buffers \in Seq(Seq(Nodes)) /\ nodes.m_size \in Nat
      BY DEF TypeInv, StacksOK, IsStack
    <3>2. nodes.buffers[b][i] \in Nodes
      BY <2>6, <3>1
    <3> QED
      BY <3>2, NodeFields DEF Nodes, LeadsInto
  <2>7. {current, root} \subseteq Pointers
    BY DEF TypeInv, PlacesOK, LeadsInto
  <2> QED
    BY <2>1, <2>3, <2>4, <2>5, <2>6, <2>7
       DEF TypeOK, TypeInv, PhaseOK, StacksOK, Regions, NodeType, Tokens
<1> QED
  BY <1>1, TypeInvariant, ParserInvariant, PTL
=============================================================================
