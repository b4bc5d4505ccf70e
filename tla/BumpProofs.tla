----------------------------- MODULE BumpProofs -----------------------------
(***************************************************************************)
(* Proofs about the bump allocator, for every page size, request and       *)
(* managed memory within BumpKernel's assumption: what it returns is       *)
(* granted memory, returned once and clear of the region headers, and      *)
(* every grant is in its list, given back or forgotten by grow.            *)
(***************************************************************************)
EXTENDS BumpKernel, WordTheorems, SequenceTheorems

\* A request that alloc or alloc_aligned takes memory for.
Asked(size, alignment) ==
    /\ size \in Word \ {0} /\ alignment \in Word \ {0}
    /\ HEADER_SZ + alignment - 1 + size <= 2 * PAGE_SIZE

\* The constants, as the proofs below use them.
LEMMA BumpFacts ==
    /\ PAGE_SIZE \in Nat \ {0} /\ HEADER_SZ \in Nat \ {0} /\ HEADER_SZ < PAGE_SIZE
    /\ WORD \in Nat \ {0} /\ 8 * PAGE_SIZE <= WORD /\ PAGE_SIZE \in Word \ {0}
    /\ \A m \in Managed :
          m.base \in Nat /\ m.size \in Nat /\ m.base + m.size + 2 * PAGE_SIZE <= WORD
<1>1. PAGE_SIZE \in Nat /\ HEADER_SZ \in Nat /\ HEADER_SZ > 0 /\ HEADER_SZ < PAGE_SIZE
  BY BumpAssumption, WordAssumption DEF Word
<1>2. \A m \in Managed : m.base \in Nat /\ m.size \in Nat
  BY BumpAssumption, WordAssumption DEF Word
<1> QED
  BY <1>1, <1>2, WordAssumption, BumpAssumption, BumpKernelAssumption DEF Word

\* What a call asks for, unless it returns null at once.
LEMMA Requested ==
    ASSUME NEW r \in Requests, r.size # 0
    PROVE  Asked(r.size, 1) /\ (r.alignment # 0 => Asked(r.size, r.alignment))
<1>1. r.size \in Word /\ r.alignment \in Word
  BY BumpAssumption
<1>2. r.size \in Nat /\ r.alignment \in Nat /\ 1 \in Word \ {0}
  BY <1>1, BumpFacts DEF Word
<1>3. HEADER_SZ + r.size <= 2 * PAGE_SIZE
  BY BumpKernelAssumption
<1>4. HEADER_SZ + 1 - 1 + r.size <= 2 * PAGE_SIZE
  BY <1>2, <1>3, BumpFacts
<1>5. r.alignment # 0 => HEADER_SZ + r.alignment - 1 + r.size <= 2 * PAGE_SIZE
  BY <1>2, BumpKernelAssumption
<1> QED
  BY <1>1, <1>2, <1>4, <1>5 DEF Asked

\* The padding in front of an allocation.
LEMMA PaddingBound ==
    ASSUME NEW curr \in Nat, curr + 2 * PAGE_SIZE <= WORD,
           NEW size, NEW alignment, Asked(size, alignment)
    PROVE  /\ size \in Nat \ {0} /\ alignment \in Nat \ {0}
           /\ MaskUp(curr, alignment) \in Nat
           /\ curr <= MaskUp(curr, alignment)
           /\ MaskUp(curr, alignment) + HEADER_SZ + size <= curr + 2 * PAGE_SIZE
<1>1. /\ size \in Nat \ {0} /\ alignment \in Nat \ {0} /\ alignment \in Word \ {0}
      /\ HEADER_SZ + alignment - 1 + size <= 2 * PAGE_SIZE
  BY BumpFacts DEF Asked, Word
<1>2. curr \in Word /\ curr + alignment <= WORD
  BY <1>1, BumpFacts DEF Word
<1>3. /\ MaskUp(curr, alignment) \in Word /\ curr <= MaskUp(curr, alignment)
      /\ MaskUp(curr, alignment) < curr + alignment
  BY <1>1, <1>2, MaskUpBound
<1>4. MaskUp(curr, alignment) \in Nat
  BY <1>3, BumpFacts DEF Word
<1> QED
  BY <1>1, <1>3, <1>4, BumpFacts

\* A region linked for a request that lacked room has two pages at least.
LEMMA RegionSizeBound ==
    ASSUME NEW difference \in Nat, 0 < difference, difference <= 2 * PAGE_SIZE
    PROVE  /\ RegionSize(difference) \in Nat
           /\ 2 * PAGE_SIZE <= RegionSize(difference)
           /\ RegionSize(difference) <= 4 * PAGE_SIZE
<1> DEFINE up == AlignUp(difference, PAGE_SIZE)
<1>1. difference \in Word /\ difference + PAGE_SIZE <= WORD
  BY BumpFacts DEF Word
<1>2. /\ up \in Word /\ difference <= up /\ up < difference + PAGE_SIZE
      /\ IsAligned(up, PAGE_SIZE)
  BY <1>1, BumpFacts, AlignUpWord, AlignUpBound, AlignUpAligned
<1> HIDE DEF up
<1>3. up \in Nat /\ up > 0 /\ up % PAGE_SIZE = 0
  BY <1>2, BumpFacts DEF Word, IsAligned
<1>4. ~(up < PAGE_SIZE)
  <2>1. up < PAGE_SIZE => up % PAGE_SIZE = up
    BY <1>3, BumpFacts
  <2> QED
    BY <2>1, <1>3
<1> QED
  BY <1>2, <1>3, <1>4, BumpFacts DEF RegionSize, up

----------------------------------------------------------------------------
\* What the steps keep of a list c of regions, of the extents gs granted, and
\* of what was allocated.

ListOK(c) ==
    /\ c \in Seq([base : Word, end : Word, curr : Word])
    /\ \A k \in 1 .. Len(c) :
          /\ c[k].base < c[k].curr /\ c[k].curr <= c[k].end
          /\ c[k].end + 2 * PAGE_SIZE <= WORD

GrantsOK(gs) ==
    /\ gs \in Seq([base : Nat, size : Nat])
    /\ \A g \in 1 .. Len(gs) : PAGE_SIZE <= gs[g].size

\* What the current region has left.
Remaining(c) == [base |-> Current(c).curr, size |-> Current(c).end - Current(c).curr]

\* An extent that lies in a grant, and is neither allocated nor part of a
\* region header.
Free(x, as, gs) ==
    /\ \E g \in 1 .. Len(gs) : Pmm!Within(x, gs[g])
    /\ \A k \in 1 .. Len(as) : ~Pmm!Overlap(as[k], x)
    /\ \A g \in 1 .. Len(gs) : ~Pmm!Overlap(Header(gs[g]), x)

\* What AllocationsOwned and AllocationsDisjoint say of an allocation list.
Sound(as, gs) ==
    \A k \in 1 .. Len(as) :
        /\ \E g \in 1 .. Len(gs) : Pmm!Within(as[k], gs[g])
        /\ \A j \in 1 .. k - 1 : ~Pmm!Overlap(as[j], as[k])
        /\ \A g \in 1 .. Len(gs) : ~Pmm!Overlap(Header(gs[g]), as[k])

\* What was granted is in the list, was given back or was forgotten by grow.
GrantBases(gs) == {gs[g].base : g \in 1 .. Len(gs)}
Accounted(c, gs, done) == GrantBases(gs) \subseteq done \cup Bases(c)

\* The inductive invariant.  Types are kept whether or not memory lasts.
BumpInv ==
    /\ TypeOK /\ ListOK(chain) /\ GrantsOK(grants)
    /\ Accounted(chain, grants, freed \cup forgotten)
    /\ ~refused => /\ Sound(allocated, grants)
                   /\ chain # <<>> => Free(Remaining(chain), allocated, grants)

\* The invariant holds of an empty allocator.
LEMMA BumpInit == Init => BumpInv
<1> SUFFICES ASSUME Init PROVE BumpInv
  OBVIOUS
<1>1. /\ chain = <<>> /\ grants = <<>> /\ allocated = <<>> /\ freed = {} /\ forgotten = {}
      /\ status = "running" /\ ret = 0 /\ refused = FALSE
  BY DEF Init, nullptr
<1>2. /\ chain \in Seq([base : Word, end : Word, curr : Word])
      /\ grants \in Seq([base : Nat, size : Nat]) /\ allocated \in Seq([base : Nat, size : Nat])
      /\ Len(chain) = 0 /\ Len(grants) = 0 /\ Len(allocated) = 0
  BY <1>1, EmptySeq
<1>3. refused \in BOOLEAN /\ freed \subseteq Nat /\ forgotten \subseteq Nat
  BY <1>1, Zenon
<1>4. \A k \in 1 .. Len(chain) : chain[k].base < chain[k].curr /\ chain[k].curr <= chain[k].end
  BY <1>2
<1>5. status \in {"running", "fault"} /\ ret \in Nat
  BY <1>1
<1>6. TypeOK
  BY <1>2, <1>3, <1>4, <1>5, Zenon DEF TypeOK
<1>7. Accounted(chain, grants, freed \cup forgotten)
  BY <1>2 DEF Accounted, GrantBases
<1> QED
  BY <1>1, <1>2, <1>6, <1>7 DEF BumpInv, ListOK, GrantsOK, Sound

----------------------------------------------------------------------------
\* The current region of a list.
LEMMA CurrentOK ==
    ASSUME NEW c, ListOK(c), c # <<>>
    PROVE  /\ Len(c) \in Nat \ {0} /\ Current(c) = c[Len(c)]
           /\ Current(c) \in [base : Word, end : Word, curr : Word]
           /\ Current(c).base \in Nat /\ Current(c).curr \in Nat /\ Current(c).end \in Nat
           /\ Current(c).base < Current(c).curr /\ Current(c).curr <= Current(c).end
           /\ Current(c).end + 2 * PAGE_SIZE <= WORD
<1> DEFINE n == Len(c)
           T == [base : Word, end : Word, curr : Word]
<1>1. c \in Seq(T) /\ \A k \in 1 .. n : /\ c[k].base < c[k].curr /\ c[k].curr <= c[k].end
                                       /\ c[k].end + 2 * PAGE_SIZE <= WORD
  BY DEF ListOK
<1> HIDE DEF T
<1>2. n \in Nat /\ n # 0 /\ c[n] \in T
  BY <1>1
<1>3. n \in 1 .. n
  BY <1>2
<1>4. c[n].base \in Nat /\ c[n].curr \in Nat /\ c[n].end \in Nat
  BY <1>2, BumpFacts DEF T, Word
<1> QED
  BY <1>1, <1>2, <1>3, <1>4 DEF T, Current

\* Linking a region behind a list.
LEMMA AppendKeeps ==
    ASSUME NEW c, ListOK(c), NEW pa \in Nat, NEW n \in Nat,
           PAGE_SIZE <= n, pa + n + 2 * PAGE_SIZE <= WORD
    PROVE  /\ ListOK(Append(c, NewRegion(pa, n))) /\ Append(c, NewRegion(pa, n)) # <<>>
           /\ Current(Append(c, NewRegion(pa, n))) = NewRegion(pa, n)
           /\ ListOK(<<NewRegion(pa, n)>>) /\ Current(<<NewRegion(pa, n)>>) = NewRegion(pa, n)
           /\ Remaining(Append(c, NewRegion(pa, n)))
                = [base |-> pa + HEADER_SZ, size |-> n - HEADER_SZ]
           /\ Remaining(<<NewRegion(pa, n)>>)
                = [base |-> pa + HEADER_SZ, size |-> n - HEADER_SZ]
<1> DEFINE r == NewRegion(pa, n)
           m == Len(c)
           T == [base : Word, end : Word, curr : Word]
<1>1. /\ r \in T /\ r.base < r.curr /\ r.curr <= r.end /\ r.end + 2 * PAGE_SIZE <= WORD
      /\ r.curr = pa + HEADER_SZ /\ r.end - r.curr = n - HEADER_SZ
  BY BumpFacts DEF NewRegion, Word
<1> HIDE DEF r, T
<1>2. c \in Seq(T) /\ m \in Nat
  BY DEF ListOK, T
<1>3. /\ Append(c, r) \in Seq(T) /\ Len(Append(c, r)) = m + 1 /\ Append(c, r)[m + 1] = r
      /\ \A k \in 1 .. m : Append(c, r)[k] = c[k]
  BY <1>1, <1>2
<1>4. /\ <<r>> \in Seq(T) /\ Len(<<r>>) = 1 /\ <<r>>[1] = r
  BY <1>1
<1>5. ListOK(Append(c, r))
  <2> SUFFICES ASSUME NEW k \in 1 .. m + 1
               PROVE  /\ Append(c, r)[k].base < Append(c, r)[k].curr
                      /\ Append(c, r)[k].curr <= Append(c, r)[k].end
                      /\ Append(c, r)[k].end + 2 * PAGE_SIZE <= WORD
    BY <1>3 DEF ListOK, T
  <2>1. CASE k \in 1 .. m
    BY <2>1, <1>3 DEF ListOK
  <2>2. CASE k = m + 1
    BY <2>2, <1>1, <1>3
  <2>3. k \in 1 .. m \/ k = m + 1
    BY <1>2
  <2> QED
    BY <2>1, <2>2, <2>3
<1>6. ListOK(<<r>>)
  BY <1>1, <1>4 DEF ListOK, T
<1>7. Current(Append(c, r)) = r /\ Append(c, r) # <<>>
  BY <1>2, <1>3 DEF Current
<1>8. Current(<<r>>) = r
  BY <1>4 DEF Current
<1> QED
  BY <1>1, <1>5, <1>6, <1>7, <1>8 DEF r, Remaining

\* What a request lacks in the current region.
LEMMA ShortfallBound ==
    ASSUME NEW c, ListOK(c), c # <<>>, NEW size, NEW alignment, Asked(size, alignment),
           ~Fits(c, size, alignment)
    PROVE  /\ Shortfall(c, size, alignment) \in Nat
           /\ 0 < Shortfall(c, size, alignment)
           /\ Shortfall(c, size, alignment) <= 2 * PAGE_SIZE
<1> DEFINE curr == Current(c).curr
           end == Current(c).end
<1>1. curr \in Nat /\ end \in Nat /\ curr <= end /\ end + 2 * PAGE_SIZE <= WORD
  BY CurrentOK
<1>2. curr + 2 * PAGE_SIZE <= WORD
  BY <1>1, BumpFacts
<1>3. /\ MaskUp(curr, alignment) \in Nat /\ size \in Nat
      /\ MaskUp(curr, alignment) + HEADER_SZ + size <= curr + 2 * PAGE_SIZE
  BY <1>1, <1>2, PaddingBound
<1>4. MaskUp(curr, alignment) + size > end
  BY <1>1, <1>3 DEF Fits
<1> HIDE DEF curr, end
<1>5. /\ MaskUp(curr, alignment) + size - end \in Nat
      /\ 0 < MaskUp(curr, alignment) + size - end
      /\ MaskUp(curr, alignment) + size - end <= 2 * PAGE_SIZE
  BY <1>1, <1>3, <1>4, BumpFacts
<1> QED
  BY <1>5 DEF Shortfall, curr, end

\* A request fits in a new region of two pages or more.
LEMMA NewRegionFits ==
    ASSUME NEW c, NEW pa \in Nat, NEW n \in Nat, Current(c) = NewRegion(pa, n),
           2 * PAGE_SIZE <= n, pa + n + 2 * PAGE_SIZE <= WORD,
           NEW size, NEW alignment, Asked(size, alignment)
    PROVE  Fits(c, size, alignment)
<1> DEFINE curr == pa + HEADER_SZ
<1>1. Current(c).curr = curr /\ Current(c).end = pa + n
  BY DEF NewRegion
<1>2. curr \in Nat /\ curr + 2 * PAGE_SIZE <= WORD
  BY BumpFacts
<1>3. /\ MaskUp(curr, alignment) \in Nat /\ size \in Nat
      /\ MaskUp(curr, alignment) + HEADER_SZ + size <= curr + 2 * PAGE_SIZE
  BY <1>2, PaddingBound
<1>4. MaskUp(curr, alignment) + size <= pa + n
  BY <1>3, BumpFacts
<1> QED
  BY <1>1, <1>4 DEF Fits

\* Taking an allocation from the current region: the types.
LEMMA TakeKeeps ==
    ASSUME NEW c, ListOK(c), c # <<>>, NEW size, NEW alignment, Asked(size, alignment),
           Fits(c, size, alignment), Take(c, size, alignment),
           allocated \in Seq([base : Nat, size : Nat])
    PROVE  /\ ListOK(chain') /\ chain' # <<>>
           /\ allocated' \in Seq([base : Nat, size : Nat]) /\ ret' \in Nat
           /\ Bases(chain') = Bases(c)
           /\ \E base \in Nat :
                 /\ Current(c).curr <= base /\ base + size <= Current(c).end
                 /\ allocated' = Append(allocated, [base |-> base, size |-> size])
                 /\ Remaining(chain') = [base |-> base + size,
                                         size |-> Current(c).end - (base + size)]
<1> DEFINE m == Len(c)
           curr == Current(c).curr
           end == Current(c).end
           base == MaskUp(curr, alignment)
           T == [base : Word, end : Word, curr : Word]
<1>1. /\ m \in Nat \ {0} /\ Current(c) = c[m] /\ Current(c) \in T
      /\ Current(c).base \in Nat /\ curr \in Nat /\ end \in Nat
      /\ Current(c).base < curr /\ curr <= end /\ end + 2 * PAGE_SIZE <= WORD
  BY CurrentOK
<1>2. base \in Nat /\ size \in Nat \ {0} /\ curr <= base
  <2>1. curr + 2 * PAGE_SIZE <= WORD
    BY <1>1, BumpFacts
  <2> QED
    BY <1>1, <2>1, PaddingBound
<1>3. base + size <= end
  BY DEF Fits
<1>4. /\ chain' = [c EXCEPT ![m].curr = base + size]
      /\ allocated' = Append(allocated, [base |-> base, size |-> size])
      /\ ret' = base
  BY DEF Take
<1>5. /\ c \in Seq(T) /\ Len(c) = m /\ base + size \in Word /\ end = c[m].end
      /\ m \in 1 .. m /\ \A k \in 1 .. m : /\ c[k].base < c[k].curr /\ c[k].curr <= c[k].end
                                          /\ c[k].end + 2 * PAGE_SIZE <= WORD
  BY <1>1, <1>2, <1>3, BumpFacts, SMTT(60) DEF ListOK, Word
<1>6. [c[m] EXCEPT !.curr = base + size] \in T
  BY <1>1, <1>5
<1>7. DOMAIN c = 1 .. m /\ chain' = [c EXCEPT ![m] = [c[m] EXCEPT !.curr = base + size]]
  BY <1>4, <1>5
<1> DEFINE r == [c[m] EXCEPT !.curr = base + size]
<1>8. r.base = c[m].base /\ r.end = c[m].end /\ r.curr = base + size
  BY <1>1
<1> HIDE DEF m, curr, end, base, T, r
<1>9. /\ chain' \in Seq(T) /\ Len(chain') = m /\ chain'[m] = r
      /\ \A k \in 1 .. m : k # m => chain'[k] = c[k]
  BY <1>5, <1>6, <1>7 DEF r
<1>10. /\ Current(chain') = r /\ chain' # <<>>
  BY <1>1, <1>9 DEF Current
<1>11. ListOK(chain')
  <2> SUFFICES ASSUME NEW k \in 1 .. m
               PROVE  /\ chain'[k].base < chain'[k].curr /\ chain'[k].curr <= chain'[k].end
                      /\ chain'[k].end + 2 * PAGE_SIZE <= WORD
    BY <1>9 DEF ListOK, T
  <2>1. CASE k # m
    BY <2>1, <1>5, <1>9
  <2>2. CASE k = m
    <3>1. Current(c).base < base + size
      BY <1>1, <1>2
    <3> QED
      BY <2>2, <3>1, <1>1, <1>3, <1>5, <1>8, <1>9
  <2> QED
    BY <2>1, <2>2
<1>12. Bases(chain') = Bases(c)
  <2>1. \A k \in 1 .. m : chain'[k].base = c[k].base
    BY <1>8, <1>9
  <2> QED
    BY <2>1, <1>5, <1>9 DEF Bases
<1>13. Remaining(chain') = [base |-> base + size, size |-> end - (base + size)]
  BY <1>5, <1>8, <1>10 DEF Remaining
<1>14. allocated' \in Seq([base : Nat, size : Nat])
  BY <1>2, <1>4
<1> QED
  BY <1>2, <1>3, <1>4, <1>10, <1>11, <1>12, <1>13, <1>14 DEF curr, end

----------------------------------------------------------------------------
\* An extent, and a sequence of them.
Extent(e) == e \in [base : Nat, size : Nat]
Extents(s) == s \in Seq([base : Nat, size : Nat])

\* The fields of an extent.
LEMMA ExtentFields == ASSUME NEW e, Extent(e) PROVE e.base \in Nat /\ e.size \in Nat
BY DEF Extent

\* The members of a sequence of extents, and what Append adds to them.
LEMMA ExtentsAppend ==
    ASSUME NEW s, Extents(s), NEW e, Extent(e)
    PROVE  /\ Len(s) \in Nat /\ Extents(Append(s, e))
           /\ Len(Append(s, e)) = Len(s) + 1 /\ Append(s, e)[Len(s) + 1] = e
           /\ \A k \in 1 .. Len(s) : Append(s, e)[k] = s[k] /\ Extent(s[k])
<1> DEFINE T == [base : Nat, size : Nat]
<1>1. s \in Seq(T) /\ e \in T
  BY DEF Extents, Extent
<1> HIDE DEF T
<1>2. /\ Len(s) \in Nat /\ Append(s, e) \in Seq(T)
      /\ Len(Append(s, e)) = Len(s) + 1 /\ Append(s, e)[Len(s) + 1] = e
      /\ \A k \in 1 .. Len(s) : Append(s, e)[k] = s[k] /\ s[k] \in T
  BY <1>1
<1> QED
  BY <1>2 DEF T, Extents, Extent

\* The indices of a sequence and of one longer.
LEMMA Indices ==
    ASSUME NEW n \in Nat
    PROVE  /\ \A k \in 1 .. n + 1 : k \in 1 .. n \/ k = n + 1
           /\ \A k \in 1 .. n : k \in 1 .. n + 1 /\ \A j \in 1 .. k - 1 : j \in 1 .. n
           /\ n + 1 \in 1 .. n + 1 /\ \A j \in 1 .. (n + 1) - 1 : j \in 1 .. n
OBVIOUS

\* Parts of parts.
LEMMA WithinPart ==
    ASSUME NEW e, NEW f, NEW g, Extent(e), Extent(f), Extent(g),
           Pmm!Within(e, f), Pmm!Within(f, g)
    PROVE  Pmm!Within(e, g)
<1>1. /\ e.base \in Nat /\ e.size \in Nat /\ f.base \in Nat /\ f.size \in Nat
      /\ g.base \in Nat /\ g.size \in Nat
  BY ExtentFields
<1> QED
  BY <1>1 DEF Pmm!Within

\* An extent apart from another is apart from its parts.
LEMMA ApartFromPart ==
    ASSUME NEW e, NEW f, NEW g, Extent(e), Extent(f), Extent(g),
           ~Pmm!Overlap(e, f), Pmm!Within(g, f)
    PROVE  ~Pmm!Overlap(e, g) /\ ~Pmm!Overlap(g, e)
<1>1. /\ e.base \in Nat /\ e.size \in Nat /\ f.base \in Nat /\ f.size \in Nat
      /\ g.base \in Nat /\ g.size \in Nat
  BY ExtentFields
<1> QED
  BY <1>1 DEF Pmm!Within, Pmm!Overlap

\* The header of a granted extent is part of it.
LEMMA HeaderWithin ==
    ASSUME NEW e, Extent(e), PAGE_SIZE <= e.size
    PROVE  Extent(Header(e)) /\ Pmm!Within(Header(e), e)
<1>1. e.base \in Nat /\ e.size \in Nat /\ HEADER_SZ \in Nat /\ HEADER_SZ <= e.size
  BY ExtentFields, BumpFacts
<1>2. Header(e).base = e.base /\ Header(e).size = HEADER_SZ /\ Extent(Header(e))
  BY <1>1 DEF Header, Extent
<1> QED
  BY <1>1, <1>2 DEF Pmm!Within

\* An allocation taken out of a free extent leaves what is behind it free.
LEMMA TakePart ==
    ASSUME NEW as, Extents(as), NEW gs, GrantsOK(gs), Sound(as, gs),
           NEW x, Extent(x), Free(x, as, gs), NEW e, Extent(e), Pmm!Within(e, x),
           NEW y, Extent(y), Pmm!Within(y, x), ~Pmm!Overlap(e, y)
    PROVE  Sound(Append(as, e), gs) /\ Free(y, Append(as, e), gs)
<1> DEFINE n == Len(as)
           bs == Append(as, e)
<1>1. /\ n \in Nat /\ Len(bs) = n + 1 /\ bs[n + 1] = e
      /\ \A k \in 1 .. n : bs[k] = as[k] /\ Extent(as[k])
  BY ExtentsAppend
<1>2. \A g \in 1 .. Len(gs) : Extent(gs[g]) /\ Extent(Header(gs[g]))
  <2>1. Extents(gs) /\ \A g \in 1 .. Len(gs) : PAGE_SIZE <= gs[g].size
    BY DEF GrantsOK, Extents
  <2>2. \A g \in 1 .. Len(gs) : Extent(gs[g])
    BY <2>1, ExtentsAppend
  <2> QED
    BY <2>1, <2>2, HeaderWithin
<1>3. ASSUME NEW z, Extent(z), Pmm!Within(z, x)
      PROVE  /\ \E g \in 1 .. Len(gs) : Pmm!Within(z, gs[g])
             /\ \A k \in 1 .. n : ~Pmm!Overlap(as[k], z)
             /\ \A g \in 1 .. Len(gs) : ~Pmm!Overlap(Header(gs[g]), z)
  <2>1. PICK g \in 1 .. Len(gs) : Pmm!Within(x, gs[g])
    BY DEF Free
  <2>2. Pmm!Within(z, gs[g])
    BY <1>2, <1>3, <2>1, WithinPart
  <2>3. \A k \in 1 .. n : ~Pmm!Overlap(as[k], z)
    BY <1>1, <1>3, ApartFromPart DEF Free
  <2>4. \A h \in 1 .. Len(gs) : ~Pmm!Overlap(Header(gs[h]), z)
    BY <1>2, <1>3, ApartFromPart DEF Free
  <2> QED
    BY <2>2, <2>3, <2>4
<1>4. ASSUME NEW k \in 1 .. n
      PROVE  /\ \E g \in 1 .. Len(gs) : Pmm!Within(as[k], gs[g])
             /\ \A j \in 1 .. k - 1 : ~Pmm!Overlap(as[j], as[k])
             /\ \A g \in 1 .. Len(gs) : ~Pmm!Overlap(Header(gs[g]), as[k])
  BY DEF Sound
<1> HIDE DEF n, bs
<1>5. Sound(bs, gs)
  <2> SUFFICES ASSUME NEW k \in 1 .. n + 1
               PROVE  /\ \E g \in 1 .. Len(gs) : Pmm!Within(bs[k], gs[g])
                      /\ \A j \in 1 .. k - 1 : ~Pmm!Overlap(bs[j], bs[k])
                      /\ \A g \in 1 .. Len(gs) : ~Pmm!Overlap(Header(gs[g]), bs[k])
    BY <1>1 DEF Sound
  <2>1. CASE k \in 1 .. n
    <3>1. bs[k] = as[k] /\ \A j \in 1 .. k - 1 : bs[j] = as[j]
      BY <1>1, <2>1, Indices
    <3> QED
      BY <1>4, <2>1, <3>1
  <2>2. CASE k = n + 1
    <3>1. bs[k] = e /\ \A j \in 1 .. k - 1 : bs[j] = as[j] /\ j \in 1 .. n
      BY <1>1, <2>2, Indices
    <3> QED
      BY <3>1, <1>3
  <2> QED
    BY <2>1, <2>2, <1>1, Indices
<1>6. Free(y, bs, gs)
  <2>1. \A k \in 1 .. n + 1 : ~Pmm!Overlap(bs[k], y)
    BY <1>1, <1>3, Indices
  <2> QED
    BY <2>1, <1>1, <1>3 DEF Free
<1> QED
  BY <1>5, <1>6 DEF bs

\* A granted extent lengthens the list of grants.
LEMMA GrantKept ==
    ASSUME NEW gs, GrantsOK(gs), NEW e, Extent(e), PAGE_SIZE <= e.size
    PROVE  GrantsOK(Append(gs, e))
<1> DEFINE n == Len(gs)
           hs == Append(gs, e)
<1>1. Extents(gs) /\ \A g \in 1 .. n : PAGE_SIZE <= gs[g].size
  BY DEF GrantsOK, Extents
<1>2. /\ n \in Nat /\ Len(hs) = n + 1 /\ hs[n + 1] = e /\ Extents(hs)
      /\ \A g \in 1 .. n : hs[g] = gs[g]
  BY <1>1, ExtentsAppend
<1> HIDE DEF n, hs
<1>3. \A g \in 1 .. n + 1 : PAGE_SIZE <= hs[g].size
  BY <1>1, <1>2, Indices
<1>4. GrantsOK(hs)
  BY <1>3, <1>2 DEF GrantsOK, Extents
<1> QED
  BY <1>4 DEF hs

\* A granted extent is free behind its header, and disturbs nothing.
LEMMA GrantAdds ==
    ASSUME NEW as, Extents(as), NEW gs, GrantsOK(gs), Sound(as, gs),
           NEW e, Extent(e), PAGE_SIZE <= e.size,
           \A g \in 1 .. Len(gs) : ~Pmm!Overlap(e, gs[g])
    PROVE  /\ Sound(as, Append(gs, e))
           /\ Free([base |-> e.base + HEADER_SZ, size |-> e.size - HEADER_SZ],
                   as, Append(gs, e))
<1> DEFINE n == Len(gs)
           hs == Append(gs, e)
           x == [base |-> e.base + HEADER_SZ, size |-> e.size - HEADER_SZ]
<1>1. /\ Extents(gs)
      /\ \A g \in 1 .. n : PAGE_SIZE <= gs[g].size /\ ~Pmm!Overlap(e, gs[g])
  BY DEF GrantsOK, Extents
<1>2. /\ n \in Nat /\ Len(hs) = n + 1 /\ hs[n + 1] = e /\ Extents(hs)
      /\ \A g \in 1 .. n : hs[g] = gs[g] /\ Extent(gs[g])
  BY <1>1, ExtentsAppend
<1>3. \A k \in 1 .. Len(as) : Extent(as[k])
  BY ExtentsAppend
<1>4. Extent(x) /\ Pmm!Within(x, e) /\ ~Pmm!Overlap(Header(e), x)
  <2>1. e.base \in Nat /\ e.size \in Nat /\ HEADER_SZ \in Nat /\ HEADER_SZ <= e.size
    BY ExtentFields, BumpFacts
  <2>2. Header(e).base = e.base /\ Header(e).size = HEADER_SZ
    BY DEF Header
  <2>3. x.base = e.base + HEADER_SZ /\ x.size = e.size - HEADER_SZ
    OBVIOUS
  <2>4. Extent(x)
    BY <2>1 DEF Extent
  <2> HIDE DEF x
  <2> QED
    BY <2>1, <2>2, <2>3, <2>4 DEF Pmm!Within, Pmm!Overlap
<1> HIDE DEF n, hs, x
<1>5. /\ \A g \in 1 .. n : Extent(Header(gs[g])) /\ Pmm!Within(Header(gs[g]), gs[g])
      /\ Extent(Header(e)) /\ Pmm!Within(Header(e), e)
  BY <1>1, <1>2, HeaderWithin
<1>6. ASSUME NEW k \in 1 .. Len(as)
      PROVE  /\ \E g \in 1 .. n : Pmm!Within(as[k], gs[g])
             /\ ~Pmm!Overlap(Header(e), as[k]) /\ ~Pmm!Overlap(as[k], x)
  <2>1. PICK g \in 1 .. n : Pmm!Within(as[k], gs[g])
    BY DEF Sound, n
  <2>2. ~Pmm!Overlap(e, as[k]) /\ ~Pmm!Overlap(as[k], e)
    BY <1>1, <1>2, <1>3, <2>1, ApartFromPart
  <2> QED
    BY <1>3, <1>4, <1>5, <2>1, <2>2, ApartFromPart
<1>7. Sound(as, hs)
  <2> SUFFICES ASSUME NEW k \in 1 .. Len(as)
               PROVE  /\ \E g \in 1 .. n + 1 : Pmm!Within(as[k], hs[g])
                      /\ \A j \in 1 .. k - 1 : ~Pmm!Overlap(as[j], as[k])
                      /\ \A g \in 1 .. n + 1 : ~Pmm!Overlap(Header(hs[g]), as[k])
    BY <1>2 DEF Sound
  <2>1. \E g \in 1 .. n + 1 : Pmm!Within(as[k], hs[g])
    BY <1>2, <1>6, Indices
  <2>2. \A j \in 1 .. k - 1 : ~Pmm!Overlap(as[j], as[k])
    BY DEF Sound
  <2>3. \A g \in 1 .. n : ~Pmm!Overlap(Header(gs[g]), as[k])
    BY DEF Sound, n
  <2>4. \A g \in 1 .. n + 1 : ~Pmm!Overlap(Header(hs[g]), as[k])
    BY <2>3, <1>2, <1>6, Indices
  <2> QED
    BY <2>1, <2>2, <2>4
<1>8. Free(x, as, hs)
  <2>1. ASSUME NEW g \in 1 .. n PROVE ~Pmm!Overlap(Header(gs[g]), x)
    <3>1. ~Pmm!Overlap(e, gs[g])
      BY <1>1
    <3>2. ~Pmm!Overlap(e, Header(gs[g])) /\ ~Pmm!Overlap(Header(gs[g]), e)
      BY <3>1, <1>2, <1>5, ApartFromPart
    <3> QED
      BY <3>2, <1>4, <1>5, ApartFromPart
  <2>2. \A g \in 1 .. n + 1 : ~Pmm!Overlap(Header(hs[g]), x)
    BY <2>1, <1>2, <1>4, Indices
  <2> QED
    BY <2>2, <1>2, <1>4, <1>6, Indices DEF Free
<1> QED
  BY <1>7, <1>8 DEF hs, x

----------------------------------------------------------------------------
\* Taking an allocation from the current region: what is said of memory.
LEMMA TakeSound ==
    ASSUME NEW c, ListOK(c), c # <<>>, NEW size, NEW alignment, Asked(size, alignment),
           Fits(c, size, alignment), Take(c, size, alignment), Extents(allocated),
           NEW gs, GrantsOK(gs), Sound(allocated, gs), Free(Remaining(c), allocated, gs)
    PROVE  Sound(allocated', gs) /\ Free(Remaining(chain'), allocated', gs)
<1> DEFINE curr == Current(c).curr
           end == Current(c).end
           x == Remaining(c)
<1>1. PICK base \in Nat :
         /\ curr <= base /\ base + size <= end
         /\ allocated' = Append(allocated, [base |-> base, size |-> size])
         /\ Remaining(chain') = [base |-> base + size, size |-> end - (base + size)]
  BY TakeKeeps DEF Extents
<1>2. curr \in Nat /\ end \in Nat /\ curr <= end /\ size \in Nat
  BY CurrentOK, BumpFacts DEF Asked, Word
<1> DEFINE e == [base |-> base, size |-> size]
           y == [base |-> base + size, size |-> end - (base + size)]
<1>3. x.base = curr /\ x.size = end - curr /\ Extent(x)
  BY <1>2 DEF Remaining, Extent
<1> HIDE DEF curr, end, x
<1>4. /\ e.base = base /\ e.size = size /\ Extent(e)
      /\ y.base = base + size /\ y.size = end - (base + size) /\ Extent(y)
  BY <1>1, <1>2 DEF Extent
<1> HIDE DEF e, y
<1>5. Pmm!Within(e, x) /\ Pmm!Within(y, x) /\ ~Pmm!Overlap(e, y)
  BY <1>1, <1>2, <1>3, <1>4 DEF Pmm!Within, Pmm!Overlap
<1>6. Sound(Append(allocated, e), gs) /\ Free(y, Append(allocated, e), gs)
  BY <1>3, <1>4, <1>5, TakePart DEF x
<1> QED
  BY <1>1, <1>6 DEF e, y

\* The addresses of the regions of a list, and of the extents granted.
LEMMA BasesOf ==
    ASSUME NEW c, ListOK(c), NEW pa, NEW n
    PROVE  /\ Bases(c) \subseteq Nat /\ Bases(Append(c, NewRegion(pa, n))) = Bases(c) \cup {pa}
           /\ Bases(<<NewRegion(pa, n)>>) = {pa} /\ Bases(<<>>) = {}
<1> DEFINE r == NewRegion(pa, n)
           m == Len(c)
           T == [base : Word, end : Word, curr : Word]
<1>1. c \in Seq(T) /\ \A t \in T : t.base \in Nat
  BY BumpFacts DEF ListOK, Word
<1>2. r.base = pa
  BY DEF NewRegion
<1> HIDE DEF T, r
<1>3. /\ m \in Nat /\ \A k \in 1 .. m : c[k] \in T /\ Append(c, r)[k] = c[k]
      /\ Len(Append(c, r)) = m + 1 /\ Append(c, r)[m + 1] = r
  BY <1>1
<1>4. Bases(c) \subseteq Nat
  BY <1>1, <1>3 DEF Bases
<1>5. Bases(Append(c, r)) = Bases(c) \cup {pa}
  BY <1>2, <1>3, Indices DEF Bases
<1>6. Bases(<<r>>) = {pa} /\ Bases(<<>>) = {}
  BY <1>2 DEF Bases
<1> QED
  BY <1>4, <1>5, <1>6 DEF r

\* The addresses granted, after one more grant.
LEMMA GrantBasesOf ==
    ASSUME NEW gs, Extents(gs), NEW e, Extent(e)
    PROVE  GrantBases(Append(gs, e)) = GrantBases(gs) \cup {e.base}
<1> DEFINE n == Len(gs)
           hs == Append(gs, e)
<1>1. /\ n \in Nat /\ Len(hs) = n + 1 /\ hs[n + 1] = e
      /\ \A k \in 1 .. n : hs[k] = gs[k]
  BY ExtentsAppend
<1> HIDE DEF n, hs
<1>2. {hs[g].base : g \in 1 .. n + 1} = {gs[g].base : g \in 1 .. n} \cup {e.base}
  BY <1>1, Indices
<1> QED
  BY <1>1, <1>2 DEF GrantBases, n, hs

\* Linking a region of two pages or more and taking an allocation from it.
LEMMA LinkAndTake ==
    ASSUME Extents(allocated), NEW c, ListOK(c), NEW pa \in Nat, NEW n \in Nat,
           2 * PAGE_SIZE <= n, pa + n + 2 * PAGE_SIZE <= WORD,
           NEW size, NEW alignment, Asked(size, alignment),
           Take(Append(c, NewRegion(pa, n)), size, alignment)
    PROVE  /\ ListOK(chain') /\ Extents(allocated') /\ ret' \in Nat
           /\ Bases(chain') = Bases(c) \cup {pa}
           /\ \A gs : /\ GrantsOK(gs) /\ Sound(allocated, gs)
                      /\ Free([base |-> pa + HEADER_SZ, size |-> n - HEADER_SZ], allocated, gs)
                      => Sound(allocated', gs) /\ Free(Remaining(chain'), allocated', gs)
<1> DEFINE d == Append(c, NewRegion(pa, n))
<1>1. /\ ListOK(d) /\ d # <<>> /\ Current(d) = NewRegion(pa, n)
      /\ Remaining(d) = [base |-> pa + HEADER_SZ, size |-> n - HEADER_SZ]
  <2>1. PAGE_SIZE <= n
    BY BumpFacts
  <2> QED
    BY <2>1, AppendKeeps
<1>2. Bases(d) = Bases(c) \cup {pa}
  BY BasesOf
<1> HIDE DEF d
<1>3. Fits(d, size, alignment)
  BY <1>1, NewRegionFits
<1>4. Take(d, size, alignment)
  BY DEF d
<1>5. /\ ListOK(chain') /\ Extents(allocated') /\ ret' \in Nat /\ Bases(chain') = Bases(d)
  BY <1>1, <1>3, <1>4, TakeKeeps DEF Extents
<1>6. ASSUME NEW gs, GrantsOK(gs), Sound(allocated, gs), Free(Remaining(d), allocated, gs)
      PROVE  Sound(allocated', gs) /\ Free(Remaining(chain'), allocated', gs)
  BY <1>1, <1>3, <1>4, <1>6, TakeSound
<1> QED
  BY <1>1, <1>2, <1>5, <1>6

\* The page-aligned addresses of managed memory are addresses.
LEMMA PageBasesNat == PageBases \subseteq Nat
<1> SUFFICES ASSUME NEW m \in Managed, NEW k \in 0 .. m.size \div PAGE_SIZE
             PROVE  m.base + k * PAGE_SIZE \in Nat
  BY DEF PageBases
<1>1. m.base \in Nat /\ m.size \in Nat
  BY BumpFacts
<1>2. k \in Nat
  BY <1>1, BumpFacts
<1>3. k * PAGE_SIZE \in Nat
  BY <1>2, BumpFacts
<1> QED
  BY <1>1, <1>3

\* A grantable extent ends two pages short of a wrap.
LEMMA GrantableBound ==
    ASSUME NEW pa \in Nat, NEW n \in Nat, Pmm!Grantable([base |-> pa, size |-> n])
    PROVE  pa + n + 2 * PAGE_SIZE <= WORD
<1>1. PICK h \in Managed : Pmm!Within([base |-> pa, size |-> n], h)
  BY DEF Pmm!Grantable
<1>2. /\ h.base \in Nat /\ h.size \in Nat /\ h.base + h.size + 2 * PAGE_SIZE <= WORD
      /\ pa + n <= h.base + h.size
  BY <1>1, BumpFacts DEF Pmm!Within
<1> QED
  BY <1>2, BumpFacts

\* What pmm::alloc does for n bytes.
LEMMA AskPmm ==
    ASSUME BumpInv, NEW n \in Nat, PAGE_SIZE <= n, n <= 4 * PAGE_SIZE,
           NEW pa \in PageBases \cup {0}, pmm_alloc(n, pa)
    PROVE  /\ pa \in Nat /\ pa + n + 2 * PAGE_SIZE <= WORD /\ GrantsOK(grants')
           /\ refused' \in BOOLEAN
           /\ GrantBases(grants') \subseteq GrantBases(grants) \cup {pa}
           /\ ~refused' => /\ ~refused /\ Sound(allocated, grants')
                           /\ Free([base |-> pa + HEADER_SZ, size |-> n - HEADER_SZ],
                                   allocated, grants')
<1> DEFINE e == [base |-> pa, size |-> n]
<1>1. /\ GrantsOK(grants) /\ Extents(allocated) /\ refused \in BOOLEAN
      /\ ~refused => Sound(allocated, grants)
  BY DEF BumpInv, TypeOK, Extents
<1>2. pa \in Nat /\ Extent(e) /\ e.base = pa /\ e.size = n
  BY PageBasesNat DEF Extent
<1>3. CASE Pmm!Grant(e) /\ UNCHANGED refused
  <2>1. grants' = Append(grants, e) /\ Pmm!Grantable(e) /\ refused' = refused
    BY <1>3 DEF Pmm!Grant
  <2>2. pa + n + 2 * PAGE_SIZE <= WORD
    BY <1>2, <2>1, GrantableBound
  <2>3. \A k \in 1 .. Len(grants) : ~Pmm!Overlap(e, grants[k])
    BY <2>1 DEF Pmm!Grantable
  <2>4. Extents(grants)
    BY <1>1 DEF GrantsOK, Extents
  <2>5. GrantBases(grants') = GrantBases(grants) \cup {pa}
    BY <1>2, <2>1, <2>4, GrantBasesOf
  <2> HIDE DEF e
  <2>6. GrantsOK(grants')
    BY <1>1, <1>2, <2>1, <2>3, <2>4, GrantKept
  <2>7. ~refused => /\ Sound(allocated, grants')
                    /\ Free([base |-> pa + HEADER_SZ, size |-> n - HEADER_SZ],
                            allocated, grants')
    BY <1>1, <1>2, <2>1, <2>3, GrantAdds
  <2> QED
    BY <1>1, <1>2, <2>1, <2>2, <2>5, <2>6, <2>7
<1>4. CASE pa = 0 /\ refused' = TRUE /\ UNCHANGED grants
  <2>1. pa + n + 2 * PAGE_SIZE <= WORD
    BY <1>4, BumpFacts
  <2> QED
    BY <1>1, <1>2, <1>4, <2>1
<1> QED
  BY <1>3, <1>4 DEF pmm_alloc

----------------------------------------------------------------------------
\* What a step has to establish.
LEMMA BumpAgain ==
    ASSUME ListOK(chain'), status' \in {"running", "fault"}, ret' \in Nat, GrantsOK(grants'),
           Extents(allocated'), freed' \subseteq Nat, forgotten' \subseteq Nat,
           refused' \in BOOLEAN, Accounted(chain', grants', freed' \cup forgotten'),
           ~refused' => Sound(allocated', grants'),
           ~refused' => (chain' # <<>> => Free(Remaining(chain'), allocated', grants'))
    PROVE  BumpInv'
<1>1. chain' \in Seq([base : Word, end : Word, curr : Word])
      /\ \A k \in 1 .. Len(chain') : /\ chain'[k].base < chain'[k].curr
                                     /\ chain'[k].curr <= chain'[k].end
  BY DEF ListOK
<1>2. grants' \in Seq([base : Nat, size : Nat]) /\ allocated' \in Seq([base : Nat, size : Nat])
  BY DEF GrantsOK, Extents
<1>3. TypeOK'
  BY <1>1, <1>2, Zenon DEF TypeOK
<1> QED
  BY <1>3, Zenon DEF BumpInv

\* What the invariant says, part by part.
LEMMA BumpParts ==
    ASSUME BumpInv
    PROVE  /\ ListOK(chain) /\ status \in {"running", "fault"} /\ ret \in Nat
           /\ GrantsOK(grants) /\ Extents(grants) /\ Extents(allocated)
           /\ freed \subseteq Nat /\ forgotten \subseteq Nat /\ refused \in BOOLEAN
           /\ GrantBases(grants) \subseteq (freed \cup forgotten) \cup Bases(chain)
           /\ ~refused => Sound(allocated, grants)
           /\ ~refused => (chain # <<>> => Free(Remaining(chain), allocated, grants))
BY Zenon DEF BumpInv, TypeOK, GrantsOK, Extents, Accounted

\* The empty list.
LEMMA EmptyList == ListOK(<<>>) /\ <<>> \in Seq([base : Word, end : Word, curr : Word])
BY EmptySeq DEF ListOK

\* grow replaces the list by a page.
LEMMA GrowStep == BumpInv /\ grow => BumpInv'
<1> SUFFICES ASSUME BumpInv, grow PROVE BumpInv'
  OBVIOUS
<1>1. PICK pa \in PageBases \cup {0} :
         /\ pmm_alloc(PAGE_SIZE, pa)
         /\ \/ /\ grants' # grants
               /\ chain' = <<NewRegion(pa, PAGE_SIZE)>>
               /\ forgotten' = forgotten \cup Bases(chain)
            \/ grants' = grants /\ UNCHANGED <<chain, forgotten>>
  BY DEF grow
<1>2. /\ ret' = 0 /\ status' = status /\ allocated' = allocated /\ freed' = freed
  BY DEF grow, nullptr
<1>3. /\ pa \in Nat /\ pa + PAGE_SIZE + 2 * PAGE_SIZE <= WORD /\ GrantsOK(grants')
      /\ refused' \in BOOLEAN
      /\ GrantBases(grants') \subseteq GrantBases(grants) \cup {pa}
      /\ ~refused' => /\ ~refused /\ Sound(allocated, grants')
                      /\ Free([base |-> pa + HEADER_SZ, size |-> PAGE_SIZE - HEADER_SZ],
                              allocated, grants')
  BY <1>1, BumpFacts, AskPmm
<1>4. CASE /\ chain' = <<NewRegion(pa, PAGE_SIZE)>>
           /\ forgotten' = forgotten \cup Bases(chain)
  <2>1. /\ ListOK(chain')
        /\ Remaining(chain') = [base |-> pa + HEADER_SZ, size |-> PAGE_SIZE - HEADER_SZ]
    BY <1>3, <1>4, BumpFacts, BumpParts, AppendKeeps
  <2>2. Bases(chain') = {pa} /\ Bases(chain) \subseteq Nat
    BY <1>4, BumpParts, BasesOf
  <2>3. forgotten' \subseteq Nat /\ Accounted(chain', grants', freed' \cup forgotten')
    BY <1>2, <1>3, <1>4, <2>2, BumpParts DEF Accounted
  <2> QED
    BY <1>2, <1>3, <2>1, <2>3, BumpParts, BumpAgain
<1>5. CASE grants' = grants /\ UNCHANGED <<chain, forgotten>>
  <2>1. Accounted(chain', grants', freed' \cup forgotten')
    BY <1>2, <1>5, BumpParts DEF Accounted
  <2> QED
    BY <1>2, <1>3, <1>5, <2>1, BumpParts, BumpAgain
<1> QED
  BY <1>1, <1>4, <1>5

\* An allocation with a current region at hand.
LEMMA BumpStep ==
    ASSUME BumpInv, chain # <<>>, NEW size, NEW alignment, Asked(size, alignment),
           Bump(chain, size, alignment), UNCHANGED <<status, freed, forgotten>>
    PROVE  BumpInv'
<1>1. CASE /\ Fits(chain, size, alignment) /\ Take(chain, size, alignment)
           /\ UNCHANGED <<grants, refused>>
  <2>1. ListOK(chain') /\ Extents(allocated') /\ ret' \in Nat /\ Bases(chain') = Bases(chain)
    BY <1>1, BumpParts, TakeKeeps DEF Extents
  <2>2. ~refused => Sound(allocated', grants) /\ Free(Remaining(chain'), allocated', grants)
    BY <1>1, BumpParts, TakeSound
  <2>3. Accounted(chain', grants', freed' \cup forgotten')
    BY <1>1, <2>1, BumpParts DEF Accounted
  <2> QED
    BY <1>1, <2>1, <2>2, <2>3, BumpParts, BumpAgain
<1>2. CASE /\ ~Fits(chain, size, alignment)
           /\ LET n == RegionSize(Shortfall(chain, size, alignment))
              IN  \E pa \in PageBases \cup {0} :
                     /\ pmm_alloc(n, pa)
                     /\ Take(Append(chain, NewRegion(pa, n)), size, alignment)
  <2> DEFINE n == RegionSize(Shortfall(chain, size, alignment))
  <2>1. n \in Nat /\ 2 * PAGE_SIZE <= n /\ n <= 4 * PAGE_SIZE
    BY <1>2, BumpParts, ShortfallBound, RegionSizeBound
  <2>2. PICK pa \in PageBases \cup {0} :
           pmm_alloc(n, pa) /\ Take(Append(chain, NewRegion(pa, n)), size, alignment)
    BY <1>2
  <2> HIDE DEF n
  <2>3. PAGE_SIZE <= n
    BY <2>1, BumpFacts
  <2>4. /\ pa \in Nat /\ pa + n + 2 * PAGE_SIZE <= WORD /\ GrantsOK(grants')
        /\ refused' \in BOOLEAN
        /\ GrantBases(grants') \subseteq GrantBases(grants) \cup {pa}
        /\ ~refused' => /\ ~refused /\ Sound(allocated, grants')
                        /\ Free([base |-> pa + HEADER_SZ, size |-> n - HEADER_SZ],
                                allocated, grants')
    BY <2>1, <2>2, <2>3, AskPmm
  <2>5. /\ ListOK(chain') /\ Extents(allocated') /\ ret' \in Nat
        /\ Bases(chain') = Bases(chain) \cup {pa}
        /\ ~refused' => Sound(allocated', grants')
                        /\ Free(Remaining(chain'), allocated', grants')
    BY <2>1, <2>2, <2>4, BumpParts, LinkAndTake
  <2>6. Accounted(chain', grants', freed' \cup forgotten')
    BY <2>4, <2>5, BumpParts DEF Accounted
  <2> QED
    BY <2>4, <2>5, <2>6, BumpParts, BumpAgain
<1> QED
  BY <1>1, <1>2 DEF Bump

\* A call that returns null, or that stops.
LEMMA NothingTaken ==
    ASSUME BumpInv, UNCHANGED <<chain, grants, allocated, freed, forgotten>>,
           refused' = refused \/ refused' = TRUE, ret' \in {ret, 0}, status' \in {status, "fault"}
    PROVE  BumpInv'
<1>1. Accounted(chain', grants', freed' \cup forgotten')
  BY BumpParts DEF Accounted
<1>2. refused \in BOOLEAN
  BY BumpParts
<1>3. refused' \in BOOLEAN /\ (~refused' => ~refused)
  <2>1. CASE refused' = refused
    BY <1>2, <2>1
  <2>2. CASE refused' = TRUE
    BY <2>2
  <2> QED
    BY <2>1, <2>2
<1>4. status' \in {"running", "fault"} /\ ret' \in Nat
  BY BumpParts
<1> QED
  BY <1>1, <1>3, <1>4, BumpParts, BumpAgain

\* alloc.
LEMMA AllocStep == \A r \in Requests : BumpInv /\ alloc(r.size) => BumpInv'
<1> SUFFICES ASSUME NEW r \in Requests, BumpInv, alloc(r.size) PROVE BumpInv'
  OBVIOUS
<1>1. UNCHANGED <<status, freed, forgotten>>
  BY DEF alloc
<1>2. CASE ret' = nullptr /\ UNCHANGED <<chain, grants, allocated, refused>>
  BY <1>1, <1>2, NothingTaken DEF nullptr
<1>3. CASE chain # <<>> /\ r.size # 0 /\ Bump(chain, r.size, 1)
  BY <1>1, <1>3, Requested, BumpStep
<1> QED
  BY <1>2, <1>3 DEF alloc

\* ~bump_alloc gives back every region of the list.
LEMMA DestroyStep == BumpInv /\ destroy => BumpInv'
<1> SUFFICES ASSUME BumpInv, destroy PROVE BumpInv'
  OBVIOUS
<1>1. /\ freed' = freed \cup Bases(chain) /\ chain' = <<>> /\ ret' = 0
      /\ status' = status /\ grants' = grants /\ allocated' = allocated
      /\ forgotten' = forgotten /\ refused' = refused
  BY DEF destroy, nullptr
<1>2. Bases(chain) \subseteq Nat /\ ListOK(chain')
  BY <1>1, BumpParts, BasesOf, EmptyList
<1>3. freed' \subseteq Nat /\ Accounted(chain', grants', freed' \cup forgotten')
  BY <1>1, <1>2, BumpParts DEF Accounted
<1> QED
  BY <1>1, <1>2, <1>3, BumpParts, BumpAgain

\* Two members appended one after the other.
LEMMA AppendTwo ==
    ASSUME NEW s, Extents(s), NEW e, Extent(e), NEW f, Extent(f)
    PROVE  s \o <<e, f>> = Append(Append(s, e), f)
<1> DEFINE T == [base : Nat, size : Nat]
<1>1. s \in Seq(T) /\ e \in T /\ f \in T
  BY DEF Extents, Extent
<1> HIDE DEF T
<1>2. /\ s \o <<e, f>> \in Seq(T) /\ Append(Append(s, e), f) \in Seq(T)
      /\ Len(s \o <<e, f>>) = Len(s) + 2 /\ Len(Append(Append(s, e), f)) = Len(s) + 2
  BY <1>1
<1>3. ASSUME NEW k \in 1 .. Len(s) + 2
      PROVE  (s \o <<e, f>>)[k] = Append(Append(s, e), f)[k]
  BY <1>1
<1> QED
  BY <1>2, <1>3, SeqEqual

\* The first region holds what is asked for.
LEMMA FirstRegionStep ==
    ASSUME BumpInv, chain = <<>>, NEW size, NEW alignment, Asked(size, alignment),
           FirstRegion(size, alignment), UNCHANGED <<freed, forgotten>>
    PROVE  BumpInv'
<1>1. PICK pa \in PageBases :
         /\ Pmm!Grant([base |-> pa, size |-> PAGE_SIZE])
         /\ Fits(<<NewRegion(pa, PAGE_SIZE)>>, size, alignment)
         /\ Take(<<NewRegion(pa, PAGE_SIZE)>>, size, alignment)
         /\ UNCHANGED <<refused, status>>
  BY DEF FirstRegion
<1> DEFINE c == <<NewRegion(pa, PAGE_SIZE)>>
<1>2. pmm_alloc(PAGE_SIZE, pa)
  BY <1>1 DEF pmm_alloc
<1>3. /\ pa \in Nat /\ pa + PAGE_SIZE + 2 * PAGE_SIZE <= WORD /\ GrantsOK(grants')
      /\ GrantBases(grants') \subseteq GrantBases(grants) \cup {pa}
      /\ ~refused' => /\ ~refused /\ Sound(allocated, grants')
                      /\ Free([base |-> pa + HEADER_SZ, size |-> PAGE_SIZE - HEADER_SZ],
                              allocated, grants')
  BY <1>2, BumpFacts, AskPmm
<1>4. /\ ListOK(c) /\ c # <<>>
      /\ Remaining(c) = [base |-> pa + HEADER_SZ, size |-> PAGE_SIZE - HEADER_SZ]
  <2>1. ListOK(c)
        /\ Remaining(c) = [base |-> pa + HEADER_SZ, size |-> PAGE_SIZE - HEADER_SZ]
    BY <1>3, BumpFacts, EmptyList, AppendKeeps
  <2> QED
    BY <2>1
<1>5. Bases(c) = {pa} /\ Bases(chain) = {}
  BY EmptyList, BasesOf
<1> HIDE DEF c
<1>6. Fits(c, size, alignment) /\ Take(c, size, alignment)
  BY <1>1 DEF c
<1>7. ListOK(chain') /\ Extents(allocated') /\ ret' \in Nat /\ Bases(chain') = {pa}
  BY <1>4, <1>5, <1>6, BumpParts, TakeKeeps DEF Extents
<1>8. ~refused' => Sound(allocated', grants') /\ Free(Remaining(chain'), allocated', grants')
  BY <1>3, <1>4, <1>6, BumpParts, TakeSound
<1>9. Accounted(chain', grants', freed' \cup forgotten')
  BY <1>3, <1>5, <1>7, BumpParts DEF Accounted
<1> QED
  BY <1>1, <1>3, <1>7, <1>8, <1>9, BumpParts, BumpAgain

\* The first region is a page, and what is asked for needs another.
LEMMA TwoRegionsStep ==
    ASSUME BumpInv, chain = <<>>, NEW size, NEW alignment, Asked(size, alignment),
           TwoRegions(size, alignment), UNCHANGED <<freed, forgotten>>
    PROVE  BumpInv'
<1>1. PICK pa \in PageBases, qa \in PageBases \cup {0} :
        LET c  == <<NewRegion(pa, PAGE_SIZE)>>
            n  == RegionSize(Shortfall(c, size, alignment))
            e1 == [base |-> pa, size |-> PAGE_SIZE]
            e2 == [base |-> qa, size |-> n]
        IN  /\ Pmm!Grantable(e1)
            /\ ~Fits(c, size, alignment)
            /\ \/ /\ Pmm!Grantable(e2) /\ ~Pmm!Overlap(e1, e2)
                  /\ grants' = grants \o <<e1, e2>>
                  /\ UNCHANGED refused
               \/ /\ qa = 0
                  /\ grants' = Append(grants, e1)
                  /\ refused' = TRUE
            /\ Take(Append(c, NewRegion(qa, n)), size, alignment)
            /\ UNCHANGED status
  BY DEF TwoRegions
<1> DEFINE c  == <<NewRegion(pa, PAGE_SIZE)>>
           n  == RegionSize(Shortfall(c, size, alignment))
           e1 == [base |-> pa, size |-> PAGE_SIZE]
           e2 == [base |-> qa, size |-> n]
           gs == Append(grants, e1)
<1>2. /\ Pmm!Grantable(e1) /\ ~Fits(c, size, alignment)
      /\ Take(Append(c, NewRegion(qa, n)), size, alignment) /\ status' = status
  BY <1>1
<1>3. pa \in Nat /\ qa \in Nat
  BY PageBasesNat
<1>4. pa + PAGE_SIZE + 2 * PAGE_SIZE <= WORD
  BY <1>2, <1>3, BumpFacts, GrantableBound
<1>5. ListOK(c) /\ c # <<>>
  <2>1. PAGE_SIZE \in Nat /\ PAGE_SIZE <= PAGE_SIZE
    BY BumpFacts
  <2>2. ListOK(c)
    BY <1>3, <1>4, <2>1, EmptyList, AppendKeeps
  <2> QED
    BY <2>2
<1>6. Bases(c) = {pa} /\ Bases(chain) = {}
  BY EmptyList, BasesOf
<1>7. n \in Nat /\ 2 * PAGE_SIZE <= n /\ n <= 4 * PAGE_SIZE
  BY <1>2, <1>5, ShortfallBound, RegionSizeBound
<1>8. /\ Extent(e1) /\ e1.base = pa /\ e1.size = PAGE_SIZE
      /\ Extent(e2) /\ e2.base = qa /\ e2.size = n
  BY <1>3, <1>7, BumpFacts DEF Extent
<1>9. CASE /\ Pmm!Grantable(e2) /\ ~Pmm!Overlap(e1, e2)
           /\ grants' = grants \o <<e1, e2>>
           /\ UNCHANGED refused
  <2>1. qa + n + 2 * PAGE_SIZE <= WORD
    BY <1>3, <1>7, <1>9, GrantableBound
  <2> HIDE DEF c, n
  <2>2. /\ ListOK(chain') /\ Extents(allocated') /\ ret' \in Nat
        /\ Bases(chain') = {pa} \cup {qa}
        /\ \A hs : /\ GrantsOK(hs) /\ Sound(allocated, hs)
                   /\ Free([base |-> qa + HEADER_SZ, size |-> n - HEADER_SZ], allocated, hs)
                   => Sound(allocated', hs) /\ Free(Remaining(chain'), allocated', hs)
    BY <1>2, <1>3, <1>5, <1>6, <1>7, <2>1, BumpParts, LinkAndTake
  <2>3. \A k \in 1 .. Len(grants) : ~Pmm!Overlap(e1, grants[k]) /\ ~Pmm!Overlap(e2, grants[k])
    BY <1>2, <1>9 DEF Pmm!Grantable
  <2>4. ~Pmm!Overlap(e2, e1)
    BY <1>9 DEF Pmm!Overlap
  <2> HIDE DEF e1, e2
  <2>5. /\ Extents(gs) /\ Len(grants) \in Nat /\ Len(gs) = Len(grants) + 1
        /\ gs[Len(grants) + 1] = e1 /\ \A k \in 1 .. Len(grants) : gs[k] = grants[k]
    BY <1>8, BumpParts, ExtentsAppend
  <2>6. GrantsOK(gs) /\ (~refused => Sound(allocated, gs))
    <3>1. PAGE_SIZE <= e1.size
      BY <1>8, BumpFacts
    <3>2. GrantsOK(gs)
      BY <1>8, <3>1, BumpParts, GrantKept
    <3>3. ~refused => Sound(allocated, gs)
      BY <1>8, <2>3, <3>1, BumpParts, GrantAdds
    <3> QED
      BY <3>2, <3>3
  <2>7. grants' = Append(gs, e2)
    BY <1>8, <1>9, BumpParts, AppendTwo
  <2>8. GrantBases(grants') = GrantBases(grants) \cup {pa} \cup {qa}
    BY <1>8, <2>5, <2>7, BumpParts, GrantBasesOf
  <2> HIDE DEF gs
  <2>9. \A k \in 1 .. Len(gs) : ~Pmm!Overlap(e2, gs[k])
    BY <2>3, <2>4, <2>5, Indices
  <2>10. PAGE_SIZE <= e2.size
    BY <1>7, <1>8, BumpFacts
  <2>11. GrantsOK(grants')
    BY <1>8, <2>6, <2>7, <2>10, GrantKept
  <2>12. ~refused => /\ Sound(allocated, grants')
                     /\ Free([base |-> qa + HEADER_SZ, size |-> n - HEADER_SZ],
                             allocated, grants')
    BY <1>8, <2>6, <2>7, <2>9, <2>10, BumpParts, GrantAdds
  <2>13. Accounted(chain', grants', freed' \cup forgotten')
    BY <1>6, <2>2, <2>8, BumpParts DEF Accounted
  <2> QED
    BY <1>2, <1>9, <2>2, <2>11, <2>12, <2>13, BumpParts, BumpAgain
<1>10. CASE /\ qa = 0
            /\ grants' = Append(grants, e1)
            /\ refused' = TRUE
  <2>1. qa + n + 2 * PAGE_SIZE <= WORD
    BY <1>7, <1>10, BumpFacts
  <2> HIDE DEF c, n
  <2>2. /\ ListOK(chain') /\ Extents(allocated') /\ ret' \in Nat
        /\ Bases(chain') = {pa} \cup {qa}
    BY <1>2, <1>3, <1>5, <1>6, <1>7, <2>1, BumpParts, LinkAndTake
  <2>3. GrantsOK(grants') /\ GrantBases(grants') = GrantBases(grants) \cup {pa}
    BY <1>8, <1>10, BumpFacts, BumpParts, GrantKept, GrantBasesOf
  <2>4. Accounted(chain', grants', freed' \cup forgotten')
    BY <1>6, <2>2, <2>3, BumpParts DEF Accounted
  <2> QED
    BY <1>2, <1>10, <2>2, <2>3, <2>4, BumpParts, BumpAgain
<1> QED
  BY <1>1, <1>9, <1>10

\* alloc_aligned.
LEMMA AllocAlignedStep ==
    \A r \in Requests : BumpInv /\ alloc_aligned(r.size, r.alignment) => BumpInv'
<1> SUFFICES ASSUME NEW r \in Requests, BumpInv, alloc_aligned(r.size, r.alignment)
             PROVE  BumpInv'
  OBVIOUS
<1>1. UNCHANGED <<freed, forgotten>>
  BY DEF alloc_aligned
<1>2. CASE ReturnNull
  BY <1>1, <1>2, NothingTaken DEF ReturnNull, nullptr
<1>3. CASE r.size # 0 /\ r.alignment # 0 /\ chain = <<>> /\ FirstRegion(r.size, r.alignment)
  BY <1>1, <1>3, Requested, FirstRegionStep
<1>4. CASE r.size # 0 /\ r.alignment # 0 /\ chain = <<>> /\ TwoRegions(r.size, r.alignment)
  BY <1>1, <1>4, Requested, TwoRegionsStep
<1>5. CASE NoRegion
  BY <1>1, <1>5, NothingTaken DEF NoRegion
<1>6. CASE /\ r.size # 0 /\ r.alignment # 0 /\ chain # <<>>
           /\ Bump(chain, r.size, r.alignment) /\ UNCHANGED status
  BY <1>1, <1>6, Requested, BumpStep
<1> QED
  BY <1>2, <1>3, <1>4, <1>5, <1>6 DEF alloc_aligned

\* Every step keeps the invariant.
LEMMA BumpNext == BumpInv /\ [Next]_vars => BumpInv'
<1> SUFFICES ASSUME BumpInv, [Next]_vars PROVE BumpInv'
  OBVIOUS
<1>1. CASE UNCHANGED vars
  BY <1>1, NothingTaken DEF vars
<1>2. CASE Spin
  BY <1>2, <1>1 DEF Spin
<1>3. CASE grow
  BY <1>3, GrowStep
<1>4. CASE destroy
  BY <1>4, DestroyStep
<1>5. CASE \E r \in Requests : alloc(r.size) \/ alloc_aligned(r.size, r.alignment)
  BY <1>5, AllocStep, AllocAlignedStep
<1> QED
  BY <1>1, <1>2, <1>3, <1>4, <1>5 DEF Next

----------------------------------------------------------------------------
\* The invariant holds in every behaviour of the allocator (bump.cpp:10-111).
THEOREM BumpInvariance == Spec => []BumpInv
BY BumpInit, BumpNext, PTL DEF Spec

\* In the list every region has room for its header, its bump pointer is
\* behind the header and not past the end, and no sum wraps (bump.h:37-45).
THEOREM BumpTypeCorrect == Spec => []TypeOK
<1>1. BumpInv => TypeOK
  BY DEF BumpInv
<1> QED
  BY <1>1, BumpInvariance, PTL

\* While memory lasts, what is returned overlaps nothing returned before and
\* no region header, over all the regions ever chained (bump.cpp:55-63, 86-95).
THEOREM AllocationsAreDisjoint == Spec => []AllocationsDisjoint
<1>1. BumpInv => AllocationsDisjoint
  BY DEF BumpInv, AllocationsDisjoint, Sound
<1> QED
  BY <1>1, BumpInvariance, PTL

\* While memory lasts, what is returned was granted (bump.cpp:47-62, 79-95).
THEOREM AllocationsAreOwned == Spec => []AllocationsOwned
<1>1. BumpInv => AllocationsOwned
  BY DEF BumpInv, AllocationsOwned, Sound
<1> QED
  BY <1>1, BumpInvariance, PTL

\* The destructor gives back all that was granted and not forgotten by grow,
\* refused or not (bump.cpp:10-16).
THEOREM DestroyReturnsAll == Spec => []DestroyFreesAll
<1>1. BumpInv => DestroyFreesAll
  <2>1. BumpInv /\ chain = <<>> => GrantBases(grants) \subseteq freed \cup forgotten
    BY BumpParts, BasesOf
  <2> QED
    BY <2>1 DEF DestroyFreesAll, GrantBases
<1> QED
  BY <1>1, BumpInvariance, PTL
=============================================================================
