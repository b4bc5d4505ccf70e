------------------------- MODULE ConversionsProofs -------------------------
(***************************************************************************)
(* Proofs about the helpers over bytes, for every size of the memory and   *)
(* every value of its bytes: the loops of mem and of the views answer what *)
(* their names say, a view made from another stays inside it, and what is  *)
(* printed for a number reads back as the number that the bytes are.       *)
(***************************************************************************)
EXTENDS Conversions, WordTheorems

----------------------------------------------------------------------------
\* Loops that go on at the indices of G and answer V[i] at the first other.

\* Such a loop, as a recursion over the indices D.
IsScan(F, D, G, V) == F = [k \in D |-> IF k \in G THEN F[k + 1] ELSE V[k]]

\* The first index from k on that is not in G is j.
Stops(j, k, G) == j \in Nat /\ k <= j /\ j \notin G /\ \A i \in k .. j - 1 : i \in G

\* A loop that does not go on from M stops.
LEMMA StopExists ==
    ASSUME NEW M \in Nat, NEW G, \A i \in G : i \in 0 .. M - 1, NEW k \in Nat
    PROVE  \E j : Stops(j, k, G)
<1> DEFINE S == {n \in Nat : \A l \in Nat : l + n >= M => \E j : Stops(j, l, G)}
<1>1. ASSUME NEW l \in Nat, l \notin G PROVE \E j : Stops(j, l, G)
  <2>1. Stops(l, l, G)
    BY <1>1 DEF Stops
  <2> QED
    BY <2>1
<1>2. 0 \in S
  <2> SUFFICES ASSUME NEW l \in Nat, l >= M PROVE \E j : Stops(j, l, G)
    OBVIOUS
  <2>1. l \notin G
    OBVIOUS
  <2> QED
    BY <1>1, <2>1
<1>3. ASSUME NEW n \in Nat, n \in S PROVE n + 1 \in S
  <2> SUFFICES ASSUME NEW l \in Nat, l + (n + 1) >= M, l \in G PROVE \E j : Stops(j, l, G)
    BY <1>1
  <2>1. PICK j : Stops(j, l + 1, G)
    BY <1>3
  <2>2. Stops(j, l, G)
    BY <2>1 DEF Stops
  <2> QED
    BY <2>2
<1> HIDE DEF S
<1>4. M \in S
  BY <1>2, <1>3, SetInduction
<1> QED
  BY <1>4 DEF S

\* It stops at one index.
LEMMA StopUnique ==
    ASSUME NEW G, NEW k \in Nat, NEW j, Stops(j, k, G), NEW l, Stops(l, k, G)
    PROVE  j = l
<1>1. ~(j < l) /\ ~(l < j) /\ j \in Nat /\ l \in Nat
  BY DEF Stops
<1> QED
  BY <1>1

\* The recursion is that of some function.
LEMMA ScanExists ==
    ASSUME NEW M \in Nat, NEW G, \A i \in G : i \in 0 .. M - 1,
           NEW D, \A k \in D : k \in Nat, \A k \in G : k + 1 \in D, NEW V
    PROVE  \E F : IsScan(F, D, G, V)
<1> DEFINE stop(k) == CHOOSE j : Stops(j, k, G)
           F == [k \in D |-> V[stop(k)]]
<1>1. \A k \in D : Stops(stop(k), k, G)
  BY StopExists
<1>2. ASSUME NEW k \in D, k \in G PROVE stop(k + 1) = stop(k)
  <2>1. PICK j : j = stop(k + 1) /\ Stops(j, k + 1, G)
    BY <1>1, <1>2
  <2>2. Stops(j, k, G)
    BY <1>2, <2>1 DEF Stops
  <2>3. PICK l : l = stop(k) /\ Stops(l, k, G)
    BY <1>1
  <2>4. j = l
    BY <2>2, <2>3, StopUnique
  <2> HIDE DEF stop
  <2> QED
    BY <2>1, <2>3, <2>4
<1>3. ASSUME NEW k \in D, k \notin G PROVE stop(k) = k
  <2>1. Stops(k, k, G)
    BY <1>3 DEF Stops
  <2>2. PICK l : l = stop(k) /\ Stops(l, k, G)
    BY <1>1
  <2>3. l = k
    BY <2>1, <2>2, StopUnique
  <2> QED
    BY <2>2, <2>3
<1> HIDE DEF stop
<1>4. ASSUME NEW k \in D PROVE F[k] = IF k \in G THEN F[k + 1] ELSE V[k]
  BY <1>2, <1>3
<1>5. F = [k \in D |-> IF k \in G THEN F[k + 1] ELSE V[k]]
  BY <1>4
<1> HIDE DEF F
<1> QED
  BY <1>5 DEF IsScan

\* Such a function answers by the index at which the loop stops.
LEMMA ScanIs ==
    ASSUME NEW G, NEW D, \A k \in D : k \in Nat, \A k \in G : k + 1 \in D, NEW V,
           NEW F, IsScan(F, D, G, V), NEW k \in D, NEW j, Stops(j, k, G)
    PROVE  F[k] = V[j]
<1> DEFINE S == {n \in Nat : \A l \in D : Stops(l + n, l, G) => F[l] = V[l + n]}
<1>1. \A l \in D : F[l] = IF l \in G THEN F[l + 1] ELSE V[l]
  BY DEF IsScan
<1>2. 0 \in S
  BY <1>1 DEF Stops
<1>3. ASSUME NEW n \in Nat, n \in S PROVE n + 1 \in S
  <2> SUFFICES ASSUME NEW l \in D, Stops(l + (n + 1), l, G) PROVE F[l] = V[l + (n + 1)]
    OBVIOUS
  <2>1. l \in G /\ l + 1 \in D
    BY DEF Stops
  <2>2. (l + 1) + n = l + (n + 1) /\ Stops((l + 1) + n, l + 1, G)
    BY DEF Stops
  <2> QED
    BY <1>1, <1>3, <2>1, <2>2
<1> HIDE DEF S
<1>4. \A n \in Nat : n \in S
  BY <1>2, <1>3, SetInduction
<1>5. j - k \in Nat /\ k + (j - k) = j
  BY DEF Stops
<1> QED
  BY <1>4, <1>5 DEF S

\* What a loop over D answers that starts at k.
LEMMA ScanAnswers ==
    ASSUME NEW M \in Nat, NEW G, \A i \in G : i \in 0 .. M - 1,
           NEW D, \A k \in D : k \in Nat, \A k \in G : k + 1 \in D, NEW V,
           NEW F, IsScan(F, D, G, V)
    PROVE  \A k \in D : \E j : Stops(j, k, G) /\ F[k] = V[j]
<1> SUFFICES ASSUME NEW k \in D PROVE \E j : Stops(j, k, G) /\ F[k] = V[j]
  OBVIOUS
<1>1. PICK j : Stops(j, k, G)
  BY StopExists
<1> QED
  BY <1>1, ScanIs

----------------------------------------------------------------------------
\* The loops of mem and of the views.

Typed == bytes \in [Addresses -> 0 .. BYTE - 1]

\* The bytes of two pieces agree before the index j.
Agree(a, b, j) == \A i \in 0 .. j - 1 : bytes[a + i] = bytes[b + i]

\* cmp stops at the first difference, or at the last byte.
LEMMA CmpStops ==
    ASSUME NEW a \in Nat, NEW b \in Nat, a # b, NEW n \in 1 .. N
    PROVE  \E j \in 0 .. n - 1 :
              /\ Agree(a, b, j) /\ (j = n - 1 \/ bytes[a + j] # bytes[b + j])
              /\ cmp(a, b, n) = bytes[a + j] - bytes[b + j]
<1> DEFINE D == 0 .. N
           G == {k \in D : k < n - 1 /\ bytes[a + k] = bytes[b + k]}
           V == [k \in D |-> bytes[a + k] - bytes[b + k]]
           F == CHOOSE H : IsScan(H, D, G, V)
<1>1. N \in Nat /\ n \in Nat /\ n # 0 /\ n <= N
  BY ConversionsAssumption
<1>2. ASSUME NEW H
      PROVE  H = [k \in D |-> IF k < n - 1 /\ bytes[a + k] = bytes[b + k] THEN H[k + 1]
                              ELSE bytes[a + k] - bytes[b + k]]
             <=> IsScan(H, D, G, V)
  BY DEF IsScan
<1>3. cmp(a, b, n) = F[0]
  BY <1>1, <1>2 DEF cmp
<1>4. /\ \A i \in G : i \in 0 .. N - 1
      /\ \A k \in D : k \in Nat
      /\ \A k \in G : k + 1 \in D
      /\ 0 \in D
  BY <1>1
<1>5. PICK j : Stops(j, 0, G) /\ F[0] = V[j]
  <2> HIDE DEF D, G, V
  <2>1. \E H : IsScan(H, D, G, V)
    BY <1>1, <1>4, ScanExists
  <2>2. IsScan(F, D, G, V)
    <3> HIDE DEF IsScan
    <3> QED
      BY <2>1
  <2> HIDE DEF F
  <2> QED
    BY <1>1, <1>4, <2>2, ScanAnswers
<1> HIDE DEF F
<1>6. j \in Nat /\ j \notin G /\ \A i \in 0 .. j - 1 : i < n - 1 /\ bytes[a + i] = bytes[b + i]
  BY <1>5 DEF Stops
<1>7. j \in 0 .. n - 1 /\ j \in D
  <2>1. ~(j > n - 1)
    BY <1>1, <1>6
  <2> QED
    BY <1>1, <1>6, <2>1
<1>8. Agree(a, b, j) /\ (j = n - 1 \/ bytes[a + j] # bytes[b + j])
  BY <1>1, <1>6, <1>7 DEF Agree
<1>9. V[j] = bytes[a + j] - bytes[b + j]
  BY <1>7
<1> QED
  BY <1>3, <1>5, <1>7, <1>8, <1>9

\* compare stops at the first difference, or at the end of the shorter view.
LEMMA CompareStops ==
    ASSUME NEW v \in Pieces, NEW w \in Pieces
    PROVE  LET m == minimum(v.size, w.size) IN
           \/ Agree(v.at, w.at, m) /\ compare(v, w) = v.size - w.size
           \/ \E j \in 0 .. m - 1 :
                 /\ Agree(v.at, w.at, j) /\ bytes[v.at + j] # bytes[w.at + j]
                 /\ compare(v, w) = bytes[v.at + j] - bytes[w.at + j]
<1> DEFINE D == 0 .. N
           m == minimum(v.size, w.size)
           G == {k \in D : k < v.size /\ k < w.size /\ bytes[v.at + k] = bytes[w.at + k]}
           V == [k \in D |-> IF k < v.size /\ k < w.size
                             THEN bytes[v.at + k] - bytes[w.at + k] ELSE v.size - w.size]
           F == CHOOSE H : IsScan(H, D, G, V)
<1>1. N \in Nat /\ v.size \in 0 .. N /\ w.size \in 0 .. N
  BY ConversionsAssumption DEF Pieces
<1>2. m \in 0 .. N /\ \A k \in Nat : k < m <=> k < v.size /\ k < w.size
  BY <1>1 DEF minimum
<1>3. ASSUME NEW H
      PROVE  H = [i \in D |->
                     IF i < v.size /\ i < w.size
                     THEN IF At(v, i) # At(w, i) THEN At(v, i) - At(w, i) ELSE H[i + 1]
                     ELSE v.size - w.size]
             <=> IsScan(H, D, G, V)
  BY DEF IsScan, At
<1>4. compare(v, w) = F[0]
  BY <1>1, <1>3 DEF compare
<1>5. /\ \A i \in G : i \in 0 .. N - 1
      /\ \A k \in D : k \in Nat
      /\ \A k \in G : k + 1 \in D
      /\ 0 \in D
  BY <1>1
<1>6. PICK j : Stops(j, 0, G) /\ F[0] = V[j]
  <2> HIDE DEF D, G, V
  <2>1. \E H : IsScan(H, D, G, V)
    BY <1>1, <1>5, ScanExists
  <2>2. IsScan(F, D, G, V)
    <3> HIDE DEF IsScan
    <3> QED
      BY <2>1
  <2> HIDE DEF F
  <2> QED
    BY <1>1, <1>5, <2>2, ScanAnswers
<1>7. j \in 0 .. m
  <2>1. m \notin G /\ m \in Nat
    BY <1>2
  <2> HIDE DEF m, G
  <2> QED
    BY <1>6, <2>1 DEF Stops
<1>8. Agree(v.at, w.at, j)
  BY <1>6 DEF Stops, Agree
<1> HIDE DEF m
<1>9. CASE j = m
  <2>1. V[j] = v.size - w.size
    BY <1>1, <1>2, <1>9
  <2> QED
    BY <1>4, <1>6, <1>8, <1>9, <2>1 DEF m
<1>10. CASE j # m
  <2>1. j \in 0 .. m - 1 /\ j < m /\ j \in Nat /\ j \in D
    BY <1>1, <1>2, <1>7, <1>10
  <2>2. V[j] = bytes[v.at + j] - bytes[w.at + j] /\ bytes[v.at + j] # bytes[w.at + j]
    BY <1>2, <1>6, <2>1 DEF Stops
  <2> QED
    BY <1>4, <1>6, <1>8, <2>1, <2>2 DEF m
<1> QED
  BY <1>9, <1>10

\* find stops at the first occurrence, or at the end of the view.
LEMMA FindStops ==
    ASSUME NEW v \in Pieces, NEW c, NEW start \in 0 .. N
    PROVE  \E j \in Nat :
              /\ start <= j
              /\ \A i \in start .. j - 1 : i < v.size /\ At(v, i) # c
              /\ IF j < v.size THEN At(v, j) = c /\ find(v, c, start) = j
                               ELSE find(v, c, start) = sentinel
<1> DEFINE D == Nat
           G == {i \in Nat : i < v.size /\ At(v, i) # c}
           V == [i \in Nat |-> IF i < v.size THEN i ELSE sentinel]
           F == CHOOSE H : IsScan(H, D, G, V)
<1>1. N \in Nat /\ v.size \in 0 .. N /\ start \in Nat
  BY ConversionsAssumption DEF Pieces
<1>2. ASSUME NEW H
      PROVE  H = [i \in Nat |-> IF i < v.size THEN IF At(v, i) = c THEN i ELSE H[i + 1]
                                ELSE sentinel]
             <=> IsScan(H, D, G, V)
  BY DEF IsScan
<1>3. find(v, c, start) = F[start]
  BY <1>1, <1>2 DEF find
<1>4. /\ \A i \in G : i \in 0 .. N - 1
      /\ \A k \in D : k \in Nat
      /\ \A k \in G : k + 1 \in D
      /\ start \in D
  BY <1>1
<1>5. PICK j : Stops(j, start, G) /\ F[start] = V[j]
  <2> HIDE DEF D, G, V
  <2>1. \E H : IsScan(H, D, G, V)
    BY <1>1, <1>4, ScanExists
  <2>2. IsScan(F, D, G, V)
    <3> HIDE DEF IsScan
    <3> QED
      BY <2>1
  <2> HIDE DEF F
  <2> QED
    <3>1. PICK d, g, f, x : d = D /\ g = G /\ f = F /\ x = V
      OBVIOUS
    <3>2. /\ IsScan(f, d, g, x)
          /\ \A i \in g : i \in 0 .. N - 1
          /\ \A k \in d : k \in Nat
          /\ \A k \in g : k + 1 \in d
      BY <1>4, <2>2, <3>1
    <3>3. \A k \in d : \E j : Stops(j, k, g) /\ f[k] = x[j]
      <4>1. N \in Nat
        BY <1>1
      <4> QED
        BY <3>2, <4>1, ScanAnswers, SMTT(60)
    <3> QED
      BY <1>4, <3>1, <3>3
<1>6. j \in Nat /\ start <= j /\ \A i \in start .. j - 1 : i < v.size /\ At(v, i) # c
  BY <1>5 DEF Stops
<1>7. IF j < v.size THEN At(v, j) = c /\ V[j] = j ELSE V[j] = sentinel
  BY <1>5, <1>6 DEF Stops
<1> QED
  BY <1>3, <1>5, <1>6, <1>7

\* strlen stops at the first 0.
LEMMA StrlenStops ==
    ASSUME NEW src \in Addresses, Terminated(src)
    PROVE  strlen(src) \in 0 .. N - 1 - src
<1> DEFINE D == 0 .. N - src
           G == {k \in D : src + k # N /\ bytes[src + k] # 0}
           V == [k \in D |-> k]
           F == CHOOSE H : IsScan(H, D, G, V)
<1>1. N \in Nat /\ src \in Nat /\ src < N /\ N - src \in Nat
  BY ConversionsAssumption DEF Addresses
<1>2. ASSUME NEW H
      PROVE  H = [k \in D |-> IF src + k = N \/ bytes[src + k] = 0 THEN k ELSE H[k + 1]]
             <=> IsScan(H, D, G, V)
  BY DEF IsScan
<1>3. strlen(src) = F[0]
  BY <1>2 DEF strlen
<1>4. /\ \A i \in G : i \in 0 .. (N - src) - 1
      /\ \A i \in D : i \in Nat
      /\ \A i \in G : i + 1 \in D
      /\ 0 \in D
  BY <1>1
<1>5. PICK j : Stops(j, 0, G) /\ F[0] = V[j]
  <2> HIDE DEF D, G, V
  <2>1. \E H : IsScan(H, D, G, V)
    BY <1>1, <1>4, ScanExists
  <2>2. IsScan(F, D, G, V)
    <3> HIDE DEF IsScan
    <3> QED
      BY <2>1
  <2> HIDE DEF F
  <2> QED
    <3>1. PICK M \in Nat : M = N - src
      BY <1>1
    <3>2. \A i \in G : i \in 0 .. M - 1
      BY <1>4, <3>1
    <3> QED
      BY <1>4, <2>2, <3>2, ScanAnswers
<1>6. PICK a \in src .. N - 1 : bytes[a] = 0
  BY DEF Terminated
<1>7. a - src \in 0 .. N - 1 - src /\ src + (a - src) = a
  BY <1>1
<1>8. j \in 0 .. a - src
  <2>1. a - src \notin G
    BY <1>6, <1>7
  <2> HIDE DEF G
  <2> QED
    BY <1>5, <1>7, <2>1 DEF Stops
<1>9. j \in 0 .. N - 1 - src /\ j \in D
  BY <1>1, <1>7, <1>8
<1> QED
  BY <1>3, <1>5, <1>9

----------------------------------------------------------------------------
\* copy.

\* The memory m with its k-th byte copied.
ByteCopied(m, src, dst, k) == [m EXCEPT ![dst + k - 1] = m[src + k - 1]]

\* A is the memory after each of the first n bytes is copied.
IsCopy(A, src, dst, n) ==
    A = [k \in 0 .. n |-> IF k = 0 THEN bytes ELSE ByteCopied(A[k - 1], src, dst, k)]

\* The same, byte by byte.
LEMMA CopyParts ==
    ASSUME NEW n \in Nat, NEW A, NEW src, NEW dst, IsCopy(A, src, dst, n)
    PROVE  A[0] = bytes /\ \A k \in 1 .. n : A[k] = ByteCopied(A[k - 1], src, dst, k)
BY DEF IsCopy

\* The recursion is that of some function.
LEMMA CopyExists ==
    ASSUME NEW src, NEW dst
    PROVE  \A n \in Nat : \E A : IsCopy(A, src, dst, n)
<1> DEFINE S == {n \in Nat : \E A : IsCopy(A, src, dst, n)}
<1>1. 0 \in S
  <2> DEFINE A == [k \in 0 .. 0 |-> bytes]
  <2>1. IsCopy(A, src, dst, 0)
    BY DEF IsCopy
  <2> QED
    BY <2>1
<1>2. ASSUME NEW n \in Nat, n \in S PROVE n + 1 \in S
  <2>1. PICK A : IsCopy(A, src, dst, n)
    BY <1>2
  <2> DEFINE next(m, k) == ByteCopied(m, src, dst, k)
             B == [k \in 0 .. n + 1 |-> IF k = n + 1 THEN next(A[n], n + 1) ELSE A[k]]
  <2>2. A[0] = bytes /\ \A k \in 1 .. n : A[k] = next(A[k - 1], k)
    BY <2>1, CopyParts
  <2> HIDE DEF next
  <2>3. ASSUME NEW k \in 0 .. n + 1
        PROVE  B[k] = IF k = 0 THEN bytes ELSE next(B[k - 1], k)
    <3>1. CASE k = 0
      BY <2>2, <3>1
    <3>2. CASE k \in 1 .. n
      BY <2>2, <3>2
    <3>3. CASE k = n + 1
      BY <3>3
    <3> QED
      BY <3>1, <3>2, <3>3
  <2>4. B = [k \in 0 .. n + 1 |-> IF k = 0 THEN bytes ELSE next(B[k - 1], k)]
    BY <2>3
  <2> HIDE DEF B
  <2>5. IsCopy(B, src, dst, n + 1)
    BY <2>4 DEF IsCopy, next
  <2> QED
    BY <2>5
<1> HIDE DEF S
<1>3. \A n \in Nat : n \in S
  BY <1>1, <1>2, SetInduction
<1> QED
  BY <1>3 DEF S

\* What is in the memory when count bytes have been copied.
LEMMA CopyIs ==
    ASSUME Typed, NEW src \in Addresses, NEW dst \in Addresses, NEW count \in 0 .. N,
           src + count <= N, dst + count <= N
    PROVE  /\ Copied(src, dst, count) \in [Addresses -> 0 .. BYTE - 1]
           /\ dst \notin src + 1 .. src + count - 1 =>
                 \A a \in Addresses :
                     Copied(src, dst, count)[a] =
                        IF a \in dst .. dst + count - 1 THEN bytes[src + (a - dst)] ELSE bytes[a]
<1> DEFINE A == CHOOSE H : IsCopy(H, src, dst, N)
<1>1. N \in Nat /\ src \in Nat /\ dst \in Nat /\ count \in Nat /\ count <= N
  BY ConversionsAssumption DEF Addresses
<1>2. IsCopy(A, src, dst, N)
  <2>1. \E H : IsCopy(H, src, dst, N)
    BY <1>1, CopyExists
  <2> HIDE DEF IsCopy
  <2> QED
    BY <2>1
<1>3. Copied(src, dst, count) = A[count]
  BY DEF Copied, IsCopy, ByteCopied
<1> HIDE DEF A
<1>4. /\ A[0] = bytes
      /\ \A k \in 1 .. N : A[k] = ByteCopied(A[k - 1], src, dst, k)
  BY <1>1, <1>2, CopyParts
<1> DEFINE Apart == dst \notin src + 1 .. src + count - 1
           Moved(k) == \A a \in Addresses :
                          A[k][a] = IF a \in dst .. dst + k - 1
                                    THEN bytes[src + (a - dst)] ELSE bytes[a]
           S == {k \in Nat : k <= count =>
                    A[k] \in [Addresses -> 0 .. BYTE - 1] /\ (Apart => Moved(k))}
<1>5. 0 \in S
  BY <1>1, <1>4 DEF Typed
<1>6. ASSUME NEW k \in Nat, k \in S PROVE k + 1 \in S
  <2> SUFFICES ASSUME k + 1 <= count
               PROVE  A[k + 1] \in [Addresses -> 0 .. BYTE - 1] /\ (Apart => Moved(k + 1))
    OBVIOUS
  <2>1. PICK m : m = A[k]
    OBVIOUS
  <2>2. m \in [Addresses -> 0 .. BYTE - 1] /\ (Apart => Moved(k))
    BY <1>1, <1>6, <2>1
  <2>3. src + k \in Addresses /\ dst + k \in Addresses
    BY <1>1 DEF Addresses
  <2>4. A[k + 1] = [m EXCEPT ![dst + k] = m[src + k]]
    <3>1. k + 1 \in 1 .. N /\ (k + 1) - 1 = k /\ dst + (k + 1) - 1 = dst + k
          /\ src + (k + 1) - 1 = src + k
      BY <1>1
    <3> QED
      BY <1>4, <2>1, <3>1 DEF ByteCopied
  <2>5. Apart => m[src + k] = bytes[src + k]
    <3> SUFFICES ASSUME Apart PROVE m[src + k] = bytes[src + k]
      OBVIOUS
    <3>1. src + k \notin dst .. dst + k - 1
      BY <1>1
    <3> QED
      BY <2>1, <2>2, <2>3, <3>1
  <2>6. ASSUME Apart, NEW a \in Addresses
        PROVE  A[k + 1][a] = IF a \in dst .. dst + (k + 1) - 1
                             THEN bytes[src + (a - dst)] ELSE bytes[a]
    <3>0. a \in Nat
      BY <1>1 DEF Addresses
    <3>1. CASE a = dst + k
      <4>1. src + (a - dst) = src + k /\ a \in dst .. dst + (k + 1) - 1
        BY <1>1, <3>1
      <4> QED
        BY <2>2, <2>3, <2>4, <2>5, <2>6, <3>1, <4>1
    <3>2. CASE a # dst + k
      <4>1. a \in dst .. dst + (k + 1) - 1 <=> a \in dst .. dst + k - 1
        BY <1>1, <3>0, <3>2
      <4>2. A[k + 1][a] = m[a]
        BY <2>2, <2>4, <3>2
      <4> QED
        BY <2>1, <2>2, <2>6, <4>1, <4>2
    <3> QED
      BY <3>1, <3>2
  <2>7. A[k + 1] \in [Addresses -> 0 .. BYTE - 1]
    BY <2>2, <2>3, <2>4
  <2> QED
    BY <2>6, <2>7
<1> HIDE DEF S
<1>7. \A k \in Nat : k \in S
  BY <1>5, <1>6, SetInduction
<1>8. A[count] \in [Addresses -> 0 .. BYTE - 1] /\ (Apart => Moved(count))
  BY <1>1, <1>7 DEF S
<1> QED
  BY <1>3, <1>8

----------------------------------------------------------------------------
\* The order of two pieces.

\* The bytes of a piece are integers.
LEMMA ByteTyped ==
    ASSUME Typed, NEW a \in Nat, NEW n \in Nat, a + n <= N, NEW i \in 0 .. n - 1
    PROVE  bytes[a + i] \in 0 .. BYTE - 1 /\ bytes[a + i] \in Int
<1>1. a + i \in Addresses
  BY ConversionsAssumption DEF Addresses
<1> QED
  BY <1>1, ConversionsAssumption DEF Typed

\* Where two pieces first differ, the difference tells which is before.
LEMMA DifferenceDecides ==
    ASSUME Typed, NEW a \in Nat, NEW n \in Nat, a + n <= N,
           NEW b \in Nat, NEW m \in Nat, b + m <= N,
           NEW j \in 0 .. minimum(n, m) - 1, Agree(a, b, j), bytes[a + j] # bytes[b + j]
    PROVE  SignAgrees(bytes[a + j] - bytes[b + j], a, n, b, m)
<1>1. j \in 0 .. n - 1 /\ j \in 0 .. m - 1 /\ j \in Nat /\ j < n /\ j < m
      /\ minimum(n, m) \in Nat /\ minimum(m, n) = minimum(n, m)
  BY DEF minimum
<1>2. PICK x \in Int, y \in Int : x = bytes[a + j] /\ y = bytes[b + j]
  BY <1>1, ByteTyped
<1>3. x # y
  BY <1>2
<1>4. \A i \in 0 .. j - 1 : bytes[a + i] = bytes[b + i]
  BY DEF Agree
<1>5. Before(a, n, b, m) <=> x < y
  <2>1. ~(n < m /\ \A i \in 0 .. n - 1 : bytes[a + i] = bytes[b + i])
    BY <1>1
  <2>2. ASSUME NEW k \in 0 .. minimum(n, m) - 1,
               \A i \in 0 .. k - 1 : bytes[a + i] = bytes[b + i], bytes[a + k] < bytes[b + k]
        PROVE  x < y
    <3>1. ~(j < k)
      BY <1>1, <2>2
    <3>2. ~(k < j)
      <4>1. SUFFICES ASSUME k < j PROVE FALSE
        OBVIOUS
      <4>2. bytes[a + k] = bytes[b + k]
        BY <1>1, <1>4, <4>1
      <4>3. k \in 0 .. n - 1
        BY <1>1, <4>1
      <4>4. bytes[a + k] \in Int
        BY <4>3, ByteTyped
      <4> QED
        BY <2>2, <4>2, <4>4
    <3>3. k = j
      BY <1>1, <3>1, <3>2
    <3> QED
      BY <1>2, <2>2, <3>3
  <2>3. x < y => /\ j \in 0 .. minimum(n, m) - 1
                 /\ \A i \in 0 .. j - 1 : bytes[a + i] = bytes[b + i]
                 /\ bytes[a + j] < bytes[b + j]
    BY <1>2, <1>4
  <2> QED
    BY <2>1, <2>2, <2>3 DEF Before
<1>6. Before(b, m, a, n) <=> y < x
  <2>1. ~(m < n /\ \A i \in 0 .. m - 1 : bytes[b + i] = bytes[a + i])
    BY <1>1
  <2>2. ASSUME NEW k \in 0 .. minimum(m, n) - 1,
               \A i \in 0 .. k - 1 : bytes[b + i] = bytes[a + i], bytes[b + k] < bytes[a + k]
        PROVE  y < x
    <3>1. ~(j < k)
      BY <1>1, <2>2
    <3>2. ~(k < j)
      <4>1. SUFFICES ASSUME k < j PROVE FALSE
        OBVIOUS
      <4>2. bytes[a + k] = bytes[b + k]
        BY <1>1, <1>4, <4>1
      <4>3. k \in 0 .. n - 1
        BY <1>1, <4>1
      <4>4. bytes[a + k] \in Int
        BY <4>3, ByteTyped
      <4> QED
        BY <2>2, <4>2, <4>4
    <3>3. k = j
      BY <1>1, <3>1, <3>2
    <3> QED
      BY <1>2, <2>2, <3>3
  <2>3. y < x => /\ j \in 0 .. minimum(m, n) - 1
                 /\ \A i \in 0 .. j - 1 : bytes[b + i] = bytes[a + i]
                 /\ bytes[b + j] < bytes[a + j]
    BY <1>1, <1>2, <1>4
  <2> QED
    BY <2>1, <2>2, <2>3 DEF Before
<1>7. (x - y < 0 <=> x < y) /\ (x - y > 0 <=> y < x)
  OBVIOUS
<1> QED
  BY <1>2, <1>5, <1>6, <1>7 DEF SignAgrees

\* Where they do not differ, the shorter is before.
LEMMA LengthDecides ==
    ASSUME Typed, NEW a \in Nat, NEW n \in Nat, a + n <= N,
           NEW b \in Nat, NEW m \in Nat, b + m <= N, Agree(a, b, minimum(n, m))
    PROVE  SignAgrees(n - m, a, n, b, m)
<1>1. minimum(n, m) \in Nat /\ minimum(m, n) = minimum(n, m)
      /\ minimum(n, m) <= n /\ minimum(n, m) <= m
      /\ (n < m => minimum(n, m) = n) /\ (m < n => minimum(n, m) = m)
  BY DEF minimum
<1>2. \A k \in 0 .. minimum(n, m) - 1 : bytes[a + k] = bytes[b + k] /\ bytes[a + k] \in Int
  <2> SUFFICES ASSUME NEW k \in 0 .. minimum(n, m) - 1
               PROVE  bytes[a + k] = bytes[b + k] /\ bytes[a + k] \in Int
    OBVIOUS
  <2>1. k \in 0 .. n - 1
    BY <1>1
  <2> QED
    BY <2>1, ByteTyped DEF Agree
<1>3. Before(a, n, b, m) <=> n < m
  BY <1>1, <1>2, SMTT(60) DEF Before
<1>4. Before(b, m, a, n) <=> m < n
  BY <1>1, <1>2, SMTT(60) DEF Before
<1>5. (n - m < 0 <=> n < m) /\ (n - m > 0 <=> m < n)
  OBVIOUS
<1> QED
  BY <1>3, <1>4, <1>5 DEF SignAgrees

\* cmp orders by the first difference.
LEMMA CmpExact ==
    ASSUME Typed, NEW a \in Addresses, NEW b \in Addresses, NEW n \in 0 .. N,
           a + n <= N, b + n <= N
    PROVE  SignAgrees(cmp(a, b, n), a, n, b, n)
<1>1. N \in Nat /\ a \in Nat /\ b \in Nat /\ n \in Nat /\ minimum(n, n) = n /\ n - n = 0
  BY ConversionsAssumption DEF Addresses, minimum
<1>2. Agree(a, b, n) => SignAgrees(0, a, n, b, n)
  BY <1>1, LengthDecides
<1>3. CASE a = b \/ n = 0
  <2>1. Agree(a, b, n)
    BY <1>3 DEF Agree
  <2>2. cmp(a, b, n) = 0
    BY <1>3 DEF cmp
  <2> QED
    BY <1>2, <2>1, <2>2
<1>4. CASE a # b /\ n # 0
  <2>1. n \in 1 .. N
    BY <1>1, <1>4
  <2>2. PICK j \in 0 .. n - 1 :
              /\ Agree(a, b, j) /\ (j = n - 1 \/ bytes[a + j] # bytes[b + j])
              /\ cmp(a, b, n) = bytes[a + j] - bytes[b + j]
    BY <1>1, <1>4, <2>1, CmpStops
  <2>3. CASE bytes[a + j] # bytes[b + j]
    <3>1. j \in 0 .. minimum(n, n) - 1
      BY <1>1
    <3>2. SignAgrees(bytes[a + j] - bytes[b + j], a, n, b, n)
      BY <1>1, <2>2, <2>3, <3>1, DifferenceDecides
    <3> QED
      BY <2>2, <3>2
  <2>4. CASE bytes[a + j] = bytes[b + j]
    <3>1. j = n - 1 /\ bytes[a + j] \in Int
      BY <1>1, <2>2, <2>4, ByteTyped
    <3>2. Agree(a, b, n)
      BY <1>1, <2>2, <2>4, <3>1 DEF Agree
    <3>3. cmp(a, b, n) = 0
      BY <2>2, <2>4, <3>1
    <3> QED
      BY <1>2, <3>2, <3>3
  <2> QED
    BY <2>3, <2>4
<1> QED
  BY <1>3, <1>4

\* compare orders by the first difference and then by the length.
LEMMA CompareExact ==
    ASSUME Typed, NEW v \in Pieces, NEW w \in Pieces
    PROVE  SignAgrees(compare(v, w), v.at, v.size, w.at, w.size)
<1>1. /\ v.at \in Nat /\ v.size \in Nat /\ v.at + v.size <= N
      /\ w.at \in Nat /\ w.size \in Nat /\ w.at + w.size <= N
  BY ConversionsAssumption DEF Pieces
<1>2. CASE Agree(v.at, w.at, minimum(v.size, w.size)) /\ compare(v, w) = v.size - w.size
  <2>1. SignAgrees(v.size - w.size, v.at, v.size, w.at, w.size)
    BY <1>1, <1>2, LengthDecides
  <2> QED
    BY <1>2, <2>1
<1>3. ASSUME NEW j \in 0 .. minimum(v.size, w.size) - 1,
             Agree(v.at, w.at, j), bytes[v.at + j] # bytes[w.at + j],
             compare(v, w) = bytes[v.at + j] - bytes[w.at + j]
      PROVE  SignAgrees(compare(v, w), v.at, v.size, w.at, w.size)
  <2>1. SignAgrees(bytes[v.at + j] - bytes[w.at + j], v.at, v.size, w.at, w.size)
    BY <1>1, <1>3, DifferenceDecides
  <2> QED
    BY <1>3, <2>1
<1> QED
  BY <1>2, <1>3, CompareStops

----------------------------------------------------------------------------
\* The bytes stay bytes.
LEMMA StaysTyped == HelperSpec => []Typed
<1>1. HelperInit => Typed
  BY DEF HelperInit, Typed
<1>2. Typed /\ [HelperNext]_helperVars => Typed'
  <2> SUFFICES ASSUME Typed, [HelperNext]_helperVars PROVE Typed'
    OBVIOUS
  <2>1. ASSUME NEW s \in Addresses, NEW d \in Addresses, NEW n \in 0 .. N, copy(s, d, n)
        PROVE  Typed'
    BY <2>1, CopyIs DEF copy, Typed
  <2>2. ASSUME NEW d \in Addresses, NEW c \in 0 .. BYTE - 1, NEW n \in 0 .. N, fill(d, c, n)
        PROVE  Typed'
    BY <2>2 DEF fill, Typed
  <2>3. CASE bytes' = bytes
    BY <2>3 DEF Typed
  <2>4. Memory => Typed'
    BY <2>1, <2>2, <2>3 DEF Memory, Answers
  <2>5. Compare \/ MakeView \/ PrintNumber \/ ChangeView \/ Drop => bytes' = bytes
    BY DEF Compare, MakeView, PrintNumber, ChangeView, Drop, Answers
  <2> QED
    BY <2>3, <2>4, <2>5 DEF HelperNext, helperVars
<1> QED
  BY <1>1, <1>2, PTL DEF HelperSpec

\* An answer of cmp or compare, and one of find, as LoopsExact asks of it.
LEMMA AnswersExact ==
    ASSUME Typed, Memory \/ Compare
    PROVE  LoopsExact'
<1>1. ASSUME NEW s \in Addresses, NEW d \in Addresses, NEW n \in 0 .. N, copy(s, d, n)
      PROVE  LoopsExact'
  <2>1. ret' = [op |-> "copy", src |-> s, dst |-> d, count |-> n, before |-> bytes]
        /\ bytes' = Copied(s, d, n)
    BY <1>1 DEF copy
  <2>2. d \notin s + 1 .. s + n - 1 =>
           \A a \in Addresses :
              bytes'[a] = IF a \in d .. d + n - 1 THEN bytes[s + (a - d)] ELSE bytes[a]
    BY <1>1, <2>1, CopyIs DEF copy
  <2> QED
    BY <2>1, <2>2 DEF LoopsExact
<1>2. ASSUME NEW d \in Addresses, NEW c \in 0 .. BYTE - 1, NEW n \in 0 .. N, fill(d, c, n)
      PROVE  LoopsExact'
  <2>1. ret' = [op |-> "fill"]
    BY <1>2 DEF fill
  <2> QED
    BY <2>1 DEF LoopsExact
<1>3. ASSUME NEW a \in Addresses, NEW b \in Addresses, NEW n \in 0 .. N, a + n <= N, b + n <= N,
             Answers([op |-> "cmp", lhs |-> a, rhs |-> b, count |-> n, answer |-> cmp(a, b, n)])
      PROVE  LoopsExact'
  <2>1. /\ ret' = [op |-> "cmp", lhs |-> a, rhs |-> b, count |-> n, answer |-> cmp(a, b, n)]
        /\ bytes' = bytes
    BY <1>3 DEF Answers
  <2>2. SignAgrees(cmp(a, b, n), a, n, b, n)
    BY <1>3, CmpExact
  <2> QED
    BY <2>1, <2>2 DEF LoopsExact, SignAgrees, Before
<1>4. ASSUME NEW v \in Pieces, NEW w \in Pieces,
             Answers([op |-> "compare", s1 |-> v, s2 |-> w, answer |-> compare(v, w)])
      PROVE  LoopsExact'
  <2>1. /\ ret' = [op |-> "compare", s1 |-> v, s2 |-> w, answer |-> compare(v, w)]
        /\ bytes' = bytes
    BY <1>4 DEF Answers
  <2>2. SignAgrees(compare(v, w), v.at, v.size, w.at, w.size)
    BY CompareExact
  <2> QED
    BY <2>1, <2>2 DEF LoopsExact, SignAgrees, Before
<1>5. ASSUME NEW v \in Pieces, NEW c \in 0 .. BYTE - 1, NEW k \in 0 .. N,
             Answers([op |-> "find", v |-> v, c |-> c, start |-> k, answer |-> find(v, c, k)])
      PROVE  LoopsExact'
  <2> DEFINE hits == {i \in k .. v.size - 1 : At(v, i) = c}
  <2>1. /\ ret' = [op |-> "find", v |-> v, c |-> c, start |-> k, answer |-> find(v, c, k)]
        /\ bytes' = bytes
    BY <1>5 DEF Answers
  <2>2. PICK j \in Nat :
              /\ k <= j
              /\ \A i \in k .. j - 1 : i < v.size /\ At(v, i) # c
              /\ IF j < v.size THEN At(v, j) = c /\ find(v, c, k) = j
                               ELSE find(v, c, k) = sentinel
    BY FindStops
  <2>3. v.size \in Nat /\ k \in Nat
    BY ConversionsAssumption DEF Pieces
  <2>4. IF hits = {} THEN find(v, c, k) = sentinel
        ELSE find(v, c, k) \in hits /\ \A i \in hits : find(v, c, k) <= i
    <3>1. CASE j < v.size
      <4>1. j \in hits /\ find(v, c, k) = j
        BY <2>2, <2>3, <3>1
      <4>2. \A i \in hits : j <= i
        BY <2>2, <2>3
      <4> QED
        BY <4>1, <4>2
    <3>2. CASE ~(j < v.size)
      <4>1. \A i \in k .. v.size - 1 : At(v, i) # c
        BY <2>2, <2>3, <3>2
      <4>2. hits = {}
        BY <4>1
      <4> QED
        BY <2>2, <3>2, <4>2
    <3> QED
      BY <3>1, <3>2
  <2> QED
    BY <2>1, <2>4 DEF LoopsExact, At
<1> QED
  BY <1>1, <1>2, <1>3, <1>4, <1>5 DEF Memory, Compare

\* The loops over bytes do what their names say: cmp and compare order by
\* the first difference and then by the length, find names the first
\* occurrence, and copy moves a block although it overlaps its copy, unless
\* the copy starts inside it (memory.cpp:13-39, str_view.h:104-126).
THEOREM LoopsAreExact == HelperSpec => []LoopsExact
<1>1. HelperInit => LoopsExact
  BY DEF HelperInit, LoopsExact
<1>2. Typed /\ LoopsExact /\ [HelperNext]_helperVars => LoopsExact'
  <2> SUFFICES ASSUME Typed, LoopsExact, [HelperNext]_helperVars PROVE LoopsExact'
    OBVIOUS
  <2>1. MakeView \/ ChangeView => ret'.op = "view"
    BY DEF MakeView, ChangeView, Answers, View
  <2>2. PrintNumber => ret'.op = "print"
    BY DEF PrintNumber, Answers
  <2>3. Drop => ret'.op = "none"
    BY DEF Drop, Answers
  <2>4. ret'.op \in {"view", "print", "none"} => LoopsExact'
    BY DEF LoopsExact
  <2>5. CASE UNCHANGED helperVars
    BY <2>5 DEF helperVars, LoopsExact, SignAgrees, Before, At
  <2> QED
    BY <2>1, <2>2, <2>3, <2>4, <2>5, AnswersExact DEF HelperNext
<1> QED
  BY <1>1, <1>2, StaysTyped, PTL DEF HelperSpec

----------------------------------------------------------------------------
\* Views.

Views == [at : Nat, size : Nat]

\* v ends no more than drift bytes behind whole.
Inside(v, whole, drift) ==
    /\ v \in Views /\ whole \in Views /\ drift \in Nat
    /\ whole.at <= v.at
    /\ v.at + v.size <= whole.at + whole.size + drift

ViewInv == ret.op = "view" => Inside(ret.v, ret.whole, ret.advanced)

\* A view of a view is inside what that was inside of.
LEMMA ChangedInside ==
    ASSUME NEW v, NEW whole, NEW drift, Inside(v, whole, drift)
    PROVE  /\ \A k, n \in Nat : Inside(substr(v, k, n), whole, drift)
           /\ \A n \in 0 .. v.size : Inside(shorten(v, n), whole, drift)
           /\ \A n \in Nat : Inside(advance(v, n), whole, drift + n)
<1>1. PICK a \in Nat, z \in Nat : v = [at |-> a, size |-> z]
  BY DEF Inside, Views
<1>2. /\ whole.at \in Nat /\ whole.size \in Nat /\ whole \in Views /\ drift \in Nat
      /\ whole.at <= a /\ a + z <= whole.at + whole.size + drift
  BY <1>1 DEF Inside, Views
<1>3. ASSUME NEW k \in Nat, NEW n \in Nat PROVE Inside(substr(v, k, n), whole, drift)
  <2>1. CASE k > z
    <3>1. substr(v, k, n) = [at |-> a + z, size |-> 0]
      BY <1>1, <2>1 DEF substr
    <3> QED
      BY <1>2, <3>1 DEF Inside, Views
  <2>2. CASE ~(k > z)
    <3>1. PICK y : y = minimum(n, z - k)
      OBVIOUS
    <3>2. y \in Nat /\ y <= z - k
      BY <2>2, <3>1 DEF minimum
    <3>3. substr(v, k, n) = [at |-> a + k, size |-> y]
      BY <1>1, <2>2, <3>1 DEF substr
    <3> QED
      BY <1>2, <3>2, <3>3 DEF Inside, Views
  <2> QED
    BY <2>1, <2>2
<1>4. ASSUME NEW n \in 0 .. v.size PROVE Inside(shorten(v, n), whole, drift)
  <2>1. n \in 0 .. z
    BY <1>1
  <2>2. PICK y : y = Sub(z, n)
    OBVIOUS
  <2>3. y \in Nat /\ y <= z
    BY <2>1, <2>2, SubBound
  <2>4. shorten(v, n) = [at |-> a, size |-> y]
    BY <1>1, <2>2 DEF shorten
  <2> QED
    BY <1>2, <2>3, <2>4 DEF Inside, Views
<1>5. ASSUME NEW n \in Nat PROVE Inside(advance(v, n), whole, drift + n)
  <2>1. advance(v, n) = [at |-> a + n, size |-> z]
    BY <1>1 DEF advance
  <2> QED
    BY <1>2, <2>1 DEF Inside, Views
<1> QED
  BY <1>3, <1>4, <1>5

\* A view made from others by cutting and shortening alone lies inside the
\* first of them, for any sequence of substr and shorten, and no view begins in
\* front of it, advanced or not (str_view.h:84-102, byte_view.h:59-79).
THEOREM ViewsAreClipped == HelperSpec => []ViewsClipped
<1>1. HelperInit => ViewInv
  BY DEF HelperInit, ViewInv
<1>2. ViewInv /\ [HelperNext]_helperVars => ViewInv'
  <2> SUFFICES ASSUME ViewInv, [HelperNext]_helperVars PROVE ViewInv'
    OBVIOUS
  <2>1. ASSUME NEW v, NEW whole, NEW drift, Inside(v, whole, drift),
               Answers(View(v, whole, drift))
        PROVE  ViewInv'
    <3>1. ret' = [op |-> "view", v |-> v, whole |-> whole, advanced |-> drift]
      BY <2>1 DEF Answers, View
    <3> QED
      BY <2>1, <3>1 DEF ViewInv
  <2>2. ASSUME NEW v \in Views PROVE Inside(v, v, 0)
    BY DEF Inside, Views
  <2>3. CASE MakeView
    <3>1. \A v \in Pieces : v \in Views
      BY ConversionsAssumption DEF Pieces, Views
    <3>2. ASSUME NEW a \in Addresses, Terminated(a) PROVE from_null_term(a) \in Views
      <4>1. strlen(a) \in Nat /\ a \in Nat
        BY <3>2, StrlenStops, ConversionsAssumption DEF Addresses
      <4> QED
        BY <4>1 DEF from_null_term, Views
    <3> QED
      BY <2>1, <2>2, <2>3, <3>1, <3>2 DEF MakeView
  <2>4. CASE ChangeView
    <3>1. ret.op = "view" /\ Inside(ret.v, ret.whole, ret.advanced) /\ ret.advanced \in Nat
      BY <2>4 DEF ChangeView, ViewInv, Inside
    <3>2. 0 .. N \subseteq Nat /\ 1 .. Steps - ret.advanced \subseteq Nat
      BY <3>1, ConversionsAssumption
    <3>3. /\ \A k, n \in 0 .. N : Inside(substr(ret.v, k, n), ret.whole, ret.advanced)
          /\ \A n \in 0 .. ret.v.size : Inside(shorten(ret.v, n), ret.whole, ret.advanced)
          /\ \A n \in 1 .. Steps - ret.advanced :
                Inside(advance(ret.v, n), ret.whole, ret.advanced + n)
      BY <3>1, <3>2, ChangedInside
    <3> QED
      BY <2>1, <2>4, <3>3 DEF ChangeView
  <2>5. Memory \/ Compare \/ PrintNumber \/ Drop => ret'.op # "view"
    BY DEF Memory, copy, fill, Compare, PrintNumber, Drop, Answers
  <2>6. CASE UNCHANGED helperVars
    BY <2>6 DEF helperVars, ViewInv, Inside
  <2> QED
    BY <2>3, <2>4, <2>5, <2>6 DEF HelperNext, ViewInv
<1>3. ViewInv => ViewsClipped
  BY DEF ViewInv, ViewsClipped, Inside, Views
<1> QED
  BY <1>1, <1>2, <1>3, PTL DEF HelperSpec

----------------------------------------------------------------------------
\* Numbers and their digits.

\* A dividend determines its quotient and its remainder.
LEMMA QuotientOf ==
    ASSUME NEW q \in Nat, NEW a \in Nat \ {0}, NEW c \in 0 .. a - 1
    PROVE  ((a * q) + c) \div a = q /\ ((a * q) + c) % a = c
OBVIOUS

\* A number below the divisor is its own remainder.
LEMMA RemainderStays ==
    ASSUME NEW a \in Nat, NEW c \in Nat, c < a
    PROVE  c % a = c
<1>1. PICK q \in Nat : q = 0
  OBVIOUS
<1>2. ((a * q) + c) % a = c
  BY QuotientOf
<1> QED
  BY <1>1, <1>2

\* A dividend has a quotient and a remainder.
LEMMA Quotient ==
    ASSUME NEW x \in Nat, NEW a \in Nat \ {0}
    PROVE  \E q \in Nat, c \in 0 .. a - 1 : q = x \div a /\ c = x % a /\ x = (a * q) + c
<1>1. x \div a \in Nat /\ x = (a * (x \div a)) + (x % a)
  BY Division
<1>2. x % a \in 0 .. a - 1
  BY ModRange
<1> QED
  BY <1>1, <1>2, Zenon

\* m is the product of a and b.
IsProduct(m, a, b) ==
    m \in Nat \ {0} /\ a \in Nat \ {0} /\ b \in Nat \ {0} /\ m = a * b

\* A product of numbers other than 0 is one.
LEMMA Product ==
    ASSUME NEW a \in Nat \ {0}, NEW b \in Nat \ {0}
    PROVE  IsProduct(a * b, a, b)
<1>1. a * b \in Nat \ {0}
  OBVIOUS
<1> QED
  BY <1>1 DEF IsProduct

\* Division by a product is division by one factor and then by the other.
LEMMA TwoQuotients ==
    ASSUME NEW m, NEW a, NEW b, IsProduct(m, a, b), NEW x \in Nat
    PROVE  /\ x \div m = (x \div a) \div b
           /\ (x % m) \div a = (x \div a) % b
           /\ (x % m) % a = x % a
<1>1. m \in Nat \ {0} /\ a \in Nat \ {0} /\ b \in Nat \ {0}
  BY DEF IsProduct
<1>2. m = a * b
  BY DEF IsProduct
<1>3. PICK q \in Nat, c \in 0 .. a - 1 : q = x \div a /\ c = x % a /\ x = (a * q) + c
  BY <1>1, Quotient
<1>4. PICK p \in Nat, d \in 0 .. b - 1 : p = q \div b /\ d = q % b /\ q = (b * p) + d
  BY <1>1, Quotient
<1>5. PICK e \in Nat : e = (a * d) + c
  BY <1>1
<1>6. e < m
  <2>1. d + 1 <= b
    BY <1>1
  <2>2. a * (d + 1) <= a * b
    BY <1>1, <2>1
  <2>3. a * (d + 1) = (a * d) + a
    BY <1>1
  <2> QED
    BY <1>1, <1>2, <1>5, <2>2, <2>3
<1>7. x = (m * p) + e
  <2>1. a * ((b * p) + d) = ((a * b) * p) + (a * d)
    BY <1>1
  <2>2. x = ((a * b) * p) + (a * d) + c
    BY <1>3, <1>4, <2>1
  <2> QED
    BY <1>1, <1>2, <1>5, <2>2
<1>8. x \div m = p /\ x % m = e
  <2>1. e \in 0 .. m - 1
    BY <1>1, <1>6
  <2>2. ((m * p) + e) \div m = p /\ ((m * p) + e) % m = e
    BY <1>1, <2>1, QuotientOf
  <2> QED
    BY <1>7, <2>2
<1>9. e \div a = d /\ e % a = c
  <2>1. d \in Nat
    BY <1>1
  <2>2. ((a * d) + c) \div a = d /\ ((a * d) + c) % a = c
    BY <1>1, <2>1, QuotientOf
  <2> QED
    BY <1>5, <2>2
<1> QED
  BY <1>3, <1>4, <1>8, <1>9

\* A multiple of the divisor does not change the remainder.
LEMMA MultipleDropped ==
    ASSUME NEW x \in Nat, NEW a \in Nat \ {0}, NEW q \in Nat
    PROVE  ((a * q) + x) % a = x % a
<1>1. PICK p \in Nat, c \in 0 .. a - 1 : p = x \div a /\ c = x % a /\ x = (a * p) + c
  BY Quotient
<1>2. PICK s \in Nat : s = q + p
  OBVIOUS
<1>3. (a * q) + x = (a * s) + c
  BY <1>1, <1>2
<1>4. ((a * s) + c) % a = c
  BY QuotientOf
<1> QED
  BY <1>1, <1>3, <1>4

\* The numbers whose digits are the first members of f.
IsHorner(H, f, n, base) ==
    H = [k \in 0 .. n |-> IF k = 0 THEN 0 ELSE H[k - 1] * base + f[k]]

\* The same, number by number.
LEMMA HornerParts ==
    ASSUME NEW n \in Nat, NEW f, NEW base, NEW H
    PROVE  IsHorner(H, f, n, base) => H[0] = 0 /\ \A k \in 1 .. n : H[k] = H[k - 1] * base + f[k]
BY DEF IsHorner

\* There are such numbers.
LEMMA HornerExists ==
    ASSUME NEW f, NEW base
    PROVE  \A n \in Nat : \E H : IsHorner(H, f, n, base)
<1> DEFINE S == {n \in Nat : \E H : IsHorner(H, f, n, base)}
<1>1. 0 \in S
  <2> DEFINE H == [k \in 0 .. 0 |-> 0]
  <2>1. IsHorner(H, f, 0, base)
    BY DEF IsHorner
  <2> QED
    BY <2>1
<1>2. ASSUME NEW n \in Nat, n \in S PROVE n + 1 \in S
  <2>1. PICK H : IsHorner(H, f, n, base)
    BY <1>2
  <2> DEFINE next(v, k) == v * base + f[k]
             R == [k \in 0 .. n + 1 |-> IF k = n + 1 THEN next(H[n], n + 1) ELSE H[k]]
  <2>2. H[0] = 0 /\ \A k \in 1 .. n : H[k] = next(H[k - 1], k)
    BY <2>1, HornerParts
  <2> HIDE DEF next
  <2>3. ASSUME NEW k \in 0 .. n + 1
        PROVE  R[k] = IF k = 0 THEN 0 ELSE next(R[k - 1], k)
    <3>1. CASE k = 0
      BY <2>2, <3>1
    <3>2. CASE k \in 1 .. n
      BY <2>2, <3>2
    <3>3. CASE k = n + 1
      BY <3>3
    <3> QED
      BY <3>1, <3>2, <3>3
  <2>4. R = [k \in 0 .. n + 1 |-> IF k = 0 THEN 0 ELSE next(R[k - 1], k)]
    BY <2>3
  <2> HIDE DEF R
  <2>5. IsHorner(R, f, n + 1, base)
    BY <2>4 DEF IsHorner, next
  <2> QED
    BY <2>5
<1> HIDE DEF S
<1>3. \A n \in Nat : n \in S
  BY <1>1, <1>2, SetInduction
<1> QED
  BY <1>3 DEF S

\* They depend on nothing but the digits.
LEMMA HornerUnique ==
    ASSUME NEW f, NEW g, NEW base, NEW n \in Nat, NEW m \in Nat, NEW H, NEW R,
           IsHorner(H, f, n, base), IsHorner(R, g, m, base),
           NEW l \in Nat, l <= n, l <= m, \A k \in 1 .. l : f[k] = g[k]
    PROVE  H[l] = R[l]
<1> DEFINE S == {k \in Nat : k <= l => H[k] = R[k]}
           next(v, d) == v * base + d
<1>1. H[0] = 0 /\ \A k \in 1 .. n : H[k] = next(H[k - 1], f[k])
  BY HornerParts
<1>2. R[0] = 0 /\ \A k \in 1 .. m : R[k] = next(R[k - 1], g[k])
  BY HornerParts
<1> HIDE DEF next
<1>3. 0 \in S
  BY <1>1, <1>2
<1>4. ASSUME NEW k \in Nat, k \in S PROVE k + 1 \in S
  <2>1. SUFFICES ASSUME k + 1 <= l PROVE H[k + 1] = R[k + 1]
    OBVIOUS
  <2>2. /\ H[k] = R[k] /\ (k + 1) - 1 = k
        /\ k + 1 \in 1 .. l /\ k + 1 \in 1 .. n /\ k + 1 \in 1 .. m
    BY <1>4, <2>1
  <2>3. H[k + 1] = next(H[k], f[k + 1]) /\ R[k + 1] = next(R[k], g[k + 1])
    BY <2>2, <1>1, <1>2
  <2> QED
    BY <2>2, <2>3
<1> HIDE DEF S
<1>5. \A k \in Nat : k \in S
  BY <1>3, <1>4, SetInduction
<1> QED
  BY <1>5 DEF S

\* Horner is the last of the numbers.
LEMMA HornerIs ==
    ASSUME NEW f, NEW n \in Nat, NEW base
    PROVE  \E H : IsHorner(H, f, n, base) /\ Horner(f, n, base) = H[n]
<1> DEFINE H == CHOOSE T : IsHorner(T, f, n, base)
<1>1. Horner(f, n, base) = H[n]
  BY DEF Horner, IsHorner
<1>2. IsHorner(H, f, n, base)
  <2>1. \E T : IsHorner(T, f, n, base)
    BY HornerExists
  <2> HIDE DEF IsHorner
  <2> QED
    BY <2>1
<1> QED
  BY <1>1, <1>2

\* The number of one digit more.
LEMMA HornerStep ==
    ASSUME NEW f, NEW n \in Nat, NEW base
    PROVE  Horner(f, 0, base) = 0 /\ Horner(f, n + 1, base) = Horner(f, n, base) * base + f[n + 1]
<1>1. PICK H : IsHorner(H, f, n, base) /\ Horner(f, n, base) = H[n]
  BY HornerIs
<1>2. PICK R : IsHorner(R, f, n + 1, base) /\ Horner(f, n + 1, base) = R[n + 1]
  BY HornerIs
<1>3. PICK T : IsHorner(T, f, 0, base) /\ Horner(f, 0, base) = T[0]
  BY HornerIs
<1>4. R[n] = H[n]
  <2>1. PICK m \in Nat : m = n + 1
    OBVIOUS
  <2>2. IsHorner(R, f, m, base) /\ n <= m /\ n <= n /\ \A k \in 1 .. n : f[k] = f[k]
    BY <1>2, <2>1
  <2> QED
    BY <1>1, <2>2, HornerUnique
<1>5. n + 1 \in 1 .. n + 1 /\ (n + 1) - 1 = n
  OBVIOUS
<1>6. R[n + 1] = R[n] * base + f[n + 1]
  BY <1>2, <1>5, HornerParts
<1>7. T[0] = 0
  BY <1>3, HornerParts
<1> QED
  BY <1>1, <1>2, <1>3, <1>4, <1>6, <1>7

\* Equal digits make equal numbers.
LEMMA HornerSame ==
    ASSUME NEW f, NEW g, NEW n \in Nat, NEW base, \A k \in 1 .. n : f[k] = g[k]
    PROVE  Horner(f, n, base) = Horner(g, n, base)
<1>1. PICK H : IsHorner(H, f, n, base) /\ Horner(f, n, base) = H[n]
  BY HornerIs
<1>2. PICK R : IsHorner(R, g, n, base) /\ Horner(g, n, base) = R[n]
  BY HornerIs
<1> QED
  BY <1>1, <1>2, HornerUnique

----------------------------------------------------------------------------
\* Numbers of several bytes.

\* F counts the values of k bytes.
IsValues(F) == F = [k \in Nat |-> IF k = 0 THEN 1 ELSE BYTE * F[k - 1]]

\* The values of one byte more are BYTE times as many.
LEMMA ValuesStep ==
    Values[0] = 1 /\ \A k \in Nat : Values[k] \in Nat \ {0} /\ Values[k + 1] = BYTE * Values[k]
<1> DEFINE one == [k \in Nat |-> IF k = 1 THEN 1 ELSE 0]
           F == [k \in Nat |-> Horner(one, k + 1, BYTE)]
           S == {k \in Nat : F[k] \in Nat /\ F[k + 1] = BYTE * F[k]}
<1>1. BYTE \in Nat \ {0}
  BY ConversionsAssumption
<1>2. F[0] = 1
  <2>1. Horner(one, 0 + 1, BYTE) = Horner(one, 0, BYTE) * BYTE + one[0 + 1]
        /\ Horner(one, 0, BYTE) = 0
    BY HornerStep
  <2>2. one[0 + 1] = 1 /\ F[0] = Horner(one, 0 + 1, BYTE)
    OBVIOUS
  <2> HIDE DEF F, one
  <2> QED
    BY <1>1, <2>1, <2>2
<1>3. ASSUME NEW k \in Nat, F[k] \in Nat PROVE F[k + 1] = BYTE * F[k]
  <2>1. PICK m \in Nat : m = k + 1
    OBVIOUS
  <2>2. Horner(one, m + 1, BYTE) = Horner(one, m, BYTE) * BYTE + one[m + 1]
    BY HornerStep
  <2>3. one[m + 1] = 0 /\ F[k] = Horner(one, m, BYTE) /\ F[k + 1] = Horner(one, m + 1, BYTE)
    BY <2>1
  <2> HIDE DEF F, one
  <2> QED
    BY <1>1, <1>3, <2>2, <2>3
<1> HIDE DEF F
<1>4. 0 \in S
  BY <1>2, <1>3
<1>5. ASSUME NEW k \in Nat, k \in S PROVE k + 1 \in S
  <2>1. F[k + 1] \in Nat /\ k + 1 \in Nat
    BY <1>1, <1>5
  <2> QED
    BY <1>3, <2>1
<1> HIDE DEF S
<1>6. \A k \in Nat : k \in S
  BY <1>4, <1>5, SetInduction
<1>7. \A k \in Nat : F[k] = IF k = 0 THEN 1 ELSE BYTE * F[k - 1]
  <2> TAKE k \in Nat
  <2>1. CASE k # 0
    <3>1. PICK j \in Nat : k = j + 1 /\ j = k - 1
      BY <2>1
    <3> QED
      BY <1>6, <2>1, <3>1 DEF S
  <2> QED
    BY <1>2, <2>1
<1>8. IsValues(F)
  <2>1. F = [k \in Nat |-> F[k]]
    BY DEF F
  <2> HIDE DEF F
  <2> QED
    BY <1>7, <2>1 DEF IsValues
<1>9. IsValues(Values)
  <2>1. Values = CHOOSE G : IsValues(G)
    BY DEF Values, IsValues
  <2> HIDE DEF IsValues
  <2> QED
    BY <1>8, <2>1
<1> DEFINE next(v) == BYTE * v
<1>10. Values[0] = 1 /\ \A k \in Nat : Values[k + 1] = next(Values[k])
  <2>1. \A k \in Nat : Values[k] = IF k = 0 THEN 1 ELSE next(Values[k - 1])
    BY <1>9 DEF IsValues
  <2> HIDE DEF next
  <2>2. ASSUME NEW k \in Nat PROVE Values[k + 1] = next(Values[k])
    <3>1. PICK j \in Nat : j = k + 1 /\ j # 0 /\ j - 1 = k
      OBVIOUS
    <3> QED
      BY <2>1, <3>1
  <2> QED
    BY <2>1, <2>2
<1> DEFINE T == {k \in Nat : Values[k] \in Nat \ {0}}
<1>11. 0 \in T
  BY <1>10
<1>12. ASSUME NEW k \in Nat, k \in T PROVE k + 1 \in T
  <2>1. PICK v \in Nat \ {0} : v = Values[k] /\ Values[k + 1] = BYTE * v
    BY <1>10, <1>12
  <2> QED
    BY <1>1, <2>1
<1> HIDE DEF T
<1>13. \A k \in Nat : k \in T
  BY <1>11, <1>12, SetInduction
<1> QED
  BY <1>10, <1>13 DEF T

\* The values of the bytes of two words together.
LEMMA ValuesProduct ==
    ASSUME NEW j \in Nat, NEW k \in Nat, NEW n, n = j + k
    PROVE  IsProduct(Values[n], Values[j], Values[k])
<1> DEFINE S == {m \in Nat : Values[j + m] = Values[j] * Values[m]}
<1>1. 0 \in S
  BY ValuesStep
<1>2. ASSUME NEW m \in Nat, m \in S PROVE m + 1 \in S
  <2>1. PICK b \in Nat, v \in Nat, u \in Nat : b = BYTE /\ v = Values[j] /\ u = Values[m]
    BY ValuesStep, ConversionsAssumption
  <2>2. PICK i \in Nat : i = j + m /\ j + (m + 1) = i + 1
    OBVIOUS
  <2>3. Values[i + 1] = b * Values[i] /\ Values[m + 1] = b * u
    BY <2>1, ValuesStep
  <2>4. Values[i] = v * u
    BY <1>2, <2>1, <2>2
  <2>5. b * (v * u) = v * (b * u)
    OBVIOUS
  <2> QED
    BY <2>1, <2>2, <2>3, <2>4, <2>5
<1> HIDE DEF S
<1>3. \A m \in Nat : m \in S
  BY <1>1, <1>2, SetInduction
<1>4. Values[n] = Values[j] * Values[k] /\ Values[j] \in Nat \ {0} /\ Values[k] \in Nat \ {0}
  BY <1>3, ValuesStep DEF S
<1> QED
  BY <1>4, Product

\* The byte of n at the place j.
Byte(n, j) == (n \div Values[j]) % BYTE

\* A byte is what is left below the next place, divided by its own.
LEMMA ByteIs ==
    ASSUME NEW n \in Nat, NEW j \in Nat
    PROVE  Byte(n, j) = (n % Values[j + 1]) \div Values[j] /\ Byte(n, j) \in 0 .. BYTE - 1
<1>1. BYTE \in Nat \ {0} /\ Values[j] \in Nat \ {0}
  BY ValuesStep, ConversionsAssumption
<1>2. IsProduct(Values[j + 1], Values[j], BYTE)
  <2>1. Values[j + 1] = Values[j] * BYTE
    BY <1>1, ValuesStep
  <2> QED
    BY <1>1, <2>1, Product
<1>3. (n % Values[j + 1]) \div Values[j] = (n \div Values[j]) % BYTE
  BY <1>2, TwoQuotients
<1>4. n \div Values[j] \in Nat
  BY <1>1, Division
<1>5. (n \div Values[j]) % BYTE \in 0 .. BYTE - 1
  BY <1>1, <1>4, ModRange
<1> QED
  BY <1>3, <1>5 DEF Byte

\* The bytes below a place do not depend on what is above it.
LEMMA ByteBelow ==
    ASSUME NEW x \in Nat, NEW j \in Nat, NEW k \in Nat, j < k, NEW q \in Nat
    PROVE  Byte((Values[k] * q) + x, j) = Byte(x, j)
<1>1. PICK i \in Nat : i = k - (j + 1) /\ k = (j + 1) + i
  OBVIOUS
<1>2. PICK v \in Nat \ {0} : v = Values[j + 1]
  BY ValuesStep
<1>3. PICK u \in Nat : u = Values[i]
  BY ValuesStep
<1>4. Values[k] = v * u
  <2>1. PICK l \in Nat : l = j + 1 /\ k = l + i
    BY <1>1
  <2>2. IsProduct(Values[k], Values[l], Values[i])
    BY <2>1, ValuesProduct
  <2> QED
    BY <1>2, <1>3, <2>1, <2>2 DEF IsProduct
<1>5. PICK p \in Nat : p = u * q /\ (v * u) * q = v * p
  <2>1. u * q \in Nat /\ (v * u) * q = v * (u * q)
    OBVIOUS
  <2> QED
    BY <2>1
<1>6. PICK y \in Nat : y = (v * p) + x
  OBVIOUS
<1>7. y % v = x % v
  <2>1. ((v * p) + x) % v = x % v
    BY MultipleDropped
  <2> QED
    BY <1>6, <2>1
<1>8. Byte(y, j) = Byte(x, j)
  BY <1>2, <1>7, ByteIs
<1> QED
  BY <1>4, <1>5, <1>6, <1>8

\* A byte at the highest place of a number.
LEMMA ByteAtTop ==
    ASSUME NEW k \in Nat, NEW c \in 0 .. BYTE - 1, NEW x \in 0 .. Values[k] - 1
    PROVE  Byte((Values[k] * c) + x, k) = c
<1>1. PICK b \in Nat \ {0}, v \in Nat \ {0} : b = BYTE /\ v = Values[k]
  BY ValuesStep, ConversionsAssumption
<1>2. ((v * c) + x) \div v = c
  BY <1>1, QuotientOf
<1>3. c % b = c
  BY <1>1
<1> QED
  BY <1>1, <1>2, <1>3 DEF Byte

\* The bytes of a number shifted to the right.
LEMMA ByteRight ==
    ASSUME NEW x \in Nat, NEW s \in Nat, NEW k \in Nat
    PROVE  Byte(x \div Values[s], k) = Byte(x, s + k)
<1>1. PICK m \in Nat : m = s + k
  OBVIOUS
<1>2. IsProduct(Values[m], Values[s], Values[k])
  BY <1>1, ValuesProduct
<1>3. x \div Values[m] = (x \div Values[s]) \div Values[k]
  BY <1>2, TwoQuotients
<1> QED
  BY <1>1, <1>3 DEF Byte

\* A factor that was multiplied with cancels.
LEMMA FactorCancels ==
    ASSUME NEW m, NEW a, NEW b, IsProduct(m, a, b), NEW x \in Nat, NEW n, n = x * a
    PROVE  n \in Nat /\ n \div m = x \div b
<1>1. PICK c : c = 0 /\ c \in 0 .. a - 1 /\ a \in Nat \ {0} /\ n \in Nat /\ n = (a * x) + c
  <2>1. 0 \in 0 .. a - 1 /\ a \in Nat \ {0} /\ n \in Nat /\ n = (a * x) + 0
    BY DEF IsProduct
  <2> QED
    BY <2>1
<1>2. ((a * x) + c) \div a = x
  BY <1>1, QuotientOf
<1>3. n \div m = (n \div a) \div b
  <2>1. n \in Nat
    BY <1>1
  <2> HIDE DEF IsProduct
  <2> QED
    BY <2>1, TwoQuotients
<1> QED
  BY <1>1, <1>2, <1>3

\* The bytes of a number shifted to the left in a width.
LEMMA ByteLeft ==
    ASSUME NEW x \in Nat, NEW w \in Nat, NEW k \in 0 .. w - 1, NEW t \in 0 .. k
    PROVE  Byte((x * Values[t]) % Values[w], k) = Byte(x, k - t)
<1>1. PICK i \in Nat, j \in Nat, l \in Nat :
         i = k - t /\ k = t + i /\ j = w - (k + 1) /\ l = j + 1 /\ w = k + l
  <2>1. k - t \in Nat /\ w - (k + 1) \in Nat
    OBVIOUS
  <2> QED
    BY <2>1
<1>2. PICK n : n = x * Values[t]
  OBVIOUS
<1>3. IsProduct(Values[k], Values[t], Values[i])
  BY <1>1, ValuesProduct
<1>4. n \in Nat /\ n \div Values[k] = x \div Values[i]
  BY <1>2, <1>3, FactorCancels
<1>5. IsProduct(Values[w], Values[k], Values[l])
  BY <1>1, ValuesProduct
<1>6. (n % Values[w]) \div Values[k] = (n \div Values[k]) % Values[l]
  BY <1>4, <1>5, TwoQuotients
<1>7. PICK h \in Nat : h = x \div Values[i]
  BY Division, ValuesStep
<1>8. (h % Values[l]) % BYTE = h % BYTE
  <2>1. /\ Values[l] = BYTE * Values[j]
        /\ BYTE \in Nat \ {0} /\ Values[j] \in Nat \ {0}
    BY <1>1, ValuesStep, ConversionsAssumption
  <2>2. IsProduct(Values[l], BYTE, Values[j])
    BY <2>1, Product
  <2> QED
    BY <2>2, TwoQuotients
<1>9. Byte(n % Values[w], k) = Byte(x, i)
  BY <1>4, <1>6, <1>7, <1>8 DEF Byte
<1> QED
  BY <1>1, <1>2, <1>9

\* Bytes at the places of a number of n bytes.
Placed(f, d, n) == \A k \in 1 .. n : d[k] \in 0 .. BYTE - 1 /\ f[k] = d[k] * Values[k - 1]

\* Their sum is a number of n bytes, and these are its bytes.
LEMMA PlacedSum ==
    ASSUME NEW f, NEW d, NEW n \in Nat, Placed(f, d, n)
    PROVE  SumTo(f, n) \in 0 .. Values[n] - 1 /\ \A k \in 1 .. n : Byte(SumTo(f, n), k - 1) = d[k]
<1> DEFINE S == {m \in Nat : m <= n =>
                    /\ SumTo(f, m) \in 0 .. Values[m] - 1
                    /\ \A k \in 1 .. m : Byte(SumTo(f, m), k - 1) = d[k]}
<1>1. 0 \in S
  BY SumStep, ValuesStep
<1>2. ASSUME NEW m \in Nat, m \in S PROVE m + 1 \in S
  <2> SUFFICES ASSUME m + 1 <= n
               PROVE  /\ SumTo(f, m + 1) \in 0 .. Values[m + 1] - 1
                      /\ \A k \in 1 .. m + 1 : Byte(SumTo(f, m + 1), k - 1) = d[k]
    OBVIOUS
  <2>1. PICK b \in Nat \ {0}, v \in Nat \ {0} :
           b = BYTE /\ v = Values[m] /\ Values[m + 1] = b * v
    BY ValuesStep, ConversionsAssumption
  <2>2. PICK x \in 0 .. v - 1 : x = SumTo(f, m)
    BY <1>2, <2>1
  <2>3. m + 1 \in 1 .. n /\ (m + 1) - 1 = m
    OBVIOUS
  <2>4. PICK c \in 0 .. b - 1 : c = d[m + 1] /\ f[m + 1] = c * v
    BY <2>1, <2>3 DEF Placed
  <2>5. SumTo(f, m + 1) = (v * c) + x
    <3>1. SumTo(f, m + 1) = f[m + 1] + SumTo(f, m)
      BY SumStep
    <3>2. (c * v) + x = (v * c) + x
      OBVIOUS
    <3> QED
      BY <2>2, <2>4, <3>1, <3>2
  <2>6. (v * c) + x \in 0 .. (b * v) - 1
    <3>1. v * (c + 1) <= v * b
      BY SMT
    <3>2. v * (c + 1) = (v * c) + v
      OBVIOUS
    <3>3. v * c \in Nat /\ v * b = b * v
      OBVIOUS
    <3> QED
      BY <3>1, <3>2, <3>3
  <2>7. ASSUME NEW k \in 1 .. m + 1 PROVE Byte((v * c) + x, k - 1) = d[k]
    <3>1. CASE k = m + 1
      BY <2>1, <2>4, <3>1, ByteAtTop
    <3>2. CASE k \in 1 .. m
      <4>1. PICK j \in Nat : j = k - 1 /\ j < m
        BY <3>2
      <4>2. Byte((v * c) + x, j) = Byte(x, j)
        BY <2>1, <4>1, ByteBelow
      <4>3. Byte(x, j) = d[k]
        BY <1>2, <2>2, <3>2, <4>1
      <4> QED
        BY <4>1, <4>2, <4>3
    <3> QED
      BY <3>1, <3>2
  <2> QED
    BY <2>1, <2>5, <2>6, <2>7
<1> HIDE DEF S
<1>3. \A m \in Nat : m \in S
  BY <1>1, <1>2, SetInduction
<1> QED
  BY <1>3 DEF S

\* A number of natural digits is a natural number.
LEMMA HornerTyped ==
    ASSUME NEW f, NEW n \in Nat, Numbers(f, n), NEW base \in Nat
    PROVE  \A m \in Nat : m <= n => Horner(f, m, base) \in Nat
<1> DEFINE S == {m \in Nat : m <= n => Horner(f, m, base) \in Nat}
<1>1. 0 \in S
  <2>1. Horner(f, 0, base) = 0
    BY HornerStep
  <2> QED
    BY <2>1
<1>2. ASSUME NEW m \in Nat, m \in S PROVE m + 1 \in S
  <2> SUFFICES ASSUME m + 1 <= n PROVE Horner(f, m + 1, base) \in Nat
    OBVIOUS
  <2>1. PICK h \in Nat : h = Horner(f, m, base)
    BY <1>2
  <2>2. PICK c \in Nat : c = f[m + 1]
    BY DEF Numbers
  <2>3. Horner(f, m + 1, base) = h * base + c
    BY <2>1, <2>2, HornerStep
  <2> QED
    BY <2>3
<1> HIDE DEF S
<1>3. \A m \in Nat : m \in S
  BY <1>1, <1>2, SetInduction
<1> QED
  BY <1>3 DEF S

\* Each byte of a word comes to the place that mirrors its own.
LEMMA FlippedByte ==
    ASSUME NEW x \in Nat, NEW w \in Nat, NEW k \in 1 .. w
    PROVE  Masked(Shifted(x, w - 1 - 2 * (k - 1), w), k - 1) = Byte(x, w - k) * Values[k - 1]
<1>1. PICK j \in Nat, s \in Int : j = k - 1 /\ j < w /\ s = w - 1 - 2 * (k - 1)
  <2>1. k - 1 \in Nat /\ k - 1 < w /\ w - 1 - 2 * (k - 1) \in Int
    OBVIOUS
  <2> QED
    BY <2>1
<1>2. Byte(Shifted(x, s, w), j) = Byte(x, w - k)
  <2>1. CASE s >= 0
    <3>1. s \in Nat /\ s + j = w - k
      BY <1>1, <2>1
    <3>2. Shifted(x, s, w) = x \div Values[s]
      BY <2>1 DEF Shifted
    <3>3. Byte(x \div Values[s], j) = Byte(x, s + j)
      BY <3>1, ByteRight
    <3> QED
      BY <3>1, <3>2, <3>3
  <2>2. CASE ~(s >= 0)
    <3>1. PICK t \in 0 .. j : t = -s /\ j - t = w - k
      <4>1. -s \in 0 .. j /\ j - (-s) = w - k
        BY <1>1, <2>2
      <4> QED
        BY <4>1
    <3>2. Shifted(x, s, w) = (x * Values[t]) % Values[w]
      BY <2>2, <3>1 DEF Shifted
    <3>3. j \in 0 .. w - 1
      BY <1>1
    <3>4. Byte((x * Values[t]) % Values[w], j) = Byte(x, j - t)
      BY <3>3, ByteLeft
    <3> QED
      BY <3>1, <3>2, <3>4
  <2> QED
    BY <2>1, <2>2
<1> QED
  BY <1>1, <1>2 DEF Masked, Byte

\* The bytes of a load are those of the memory, and reading it as a big
\* endian number gives the number that they are with the highest first.
LEMMA ReadIsBigEndian ==
    ASSUME Typed, NEW p \in Nat, NEW w \in Nat, p + w <= N
    PROVE  /\ read_big_endian(p, w) = BigEndian(p, w)
           /\ read_big_endian(p, w) \in 0 .. Values[w] - 1
<1> DEFINE f == [k \in 1 .. w |-> bytes[p + k - 1] * Values[k - 1]]
           d == [k \in 1 .. w |-> bytes[p + k - 1]]
           L == Loaded(p, w)
           g == [k \in 1 .. w |-> Masked(Shifted(L, w - 1 - 2 * (k - 1), w), k - 1)]
           e == [k \in 1 .. w |-> d[w + 1 - k]]
<1>1. ASSUME NEW k \in 1 .. w PROVE d[k] \in 0 .. BYTE - 1 /\ f[k] = d[k] * Values[k - 1]
  <2>1. p + k - 1 \in Addresses
    BY ConversionsAssumption DEF Addresses
  <2>2. bytes[p + k - 1] \in 0 .. BYTE - 1
    BY <2>1 DEF Typed
  <2> QED
    BY <2>2
<1>2. Placed(f, d, w)
  BY <1>1 DEF Placed
<1>3. L = SumTo(f, w)
  BY DEF Loaded
<1> HIDE DEF f, L
<1>4. L \in 0 .. Values[w] - 1 /\ \A k \in 1 .. w : Byte(L, k - 1) = d[k]
  <2> HIDE DEF d
  <2>1. SumTo(f, w) \in 0 .. Values[w] - 1 /\ \A k \in 1 .. w : Byte(SumTo(f, w), k - 1) = d[k]
    BY <1>2, PlacedSum
  <2> QED
    BY <1>3, <2>1
<1>5. L \in Nat
  BY <1>4
<1>6. ASSUME NEW k \in 1 .. w PROVE e[k] \in 0 .. BYTE - 1 /\ g[k] = e[k] * Values[k - 1]
  <2>1. PICK i \in 1 .. w : i = w + 1 - k /\ i - 1 = w - k
    <3>1. w + 1 - k \in 1 .. w /\ (w + 1 - k) - 1 = w - k
      OBVIOUS
    <3> QED
      BY <3>1
  <2>2. Byte(L, w - k) = d[i]
    BY <1>4, <2>1
  <2>3. e[k] = d[i]
    BY <2>1
  <2>4. g[k] = Byte(L, w - k) * Values[k - 1]
    BY <1>5, FlippedByte
  <2>5. d[i] \in 0 .. BYTE - 1
    BY <1>1
  <2> QED
    BY <2>2, <2>3, <2>4, <2>5
<1>7. Placed(g, e, w)
  BY <1>6 DEF Placed
<1>8. read_big_endian(p, w) = SumTo(g, w)
  BY DEF read_big_endian, flip_endianness, L
<1>9. BigEndian(p, w) = Horner(d, w, BYTE)
  BY DEF BigEndian
<1> HIDE DEF g
<1>10. SumTo(g, w) \in 0 .. Values[w] - 1
  BY <1>7, PlacedSum
<1>11. \A k \in 1 .. w : e[k] = d[w + 1 - k]
  OBVIOUS
<1> HIDE DEF d, e
<1>12. Numbers(d, w)
  <2>1. \A k \in 1 .. w : d[k] \in Nat
    BY <1>1, ConversionsAssumption
  <2> QED
    BY <2>1 DEF Numbers
<1>13. Numbers(g, w)
  <2>1. ASSUME NEW k \in 1 .. w PROVE g[k] \in Nat
    <3>1. PICK c \in Nat, v \in Nat : c = e[k] /\ v = Values[k - 1]
      BY <1>6, ValuesStep, ConversionsAssumption
    <3> QED
      BY <1>6, <3>1
  <2> QED
    BY <2>1 DEF Numbers
<1> DEFINE S == {m \in Nat : m <= w =>
                    Horner(d, w, BYTE) = Horner(d, w - m, BYTE) * Values[m] + SumTo(g, m)}
<1>14. 0 \in S
  <2>1. Horner(d, w, BYTE) \in Nat
    BY <1>12, HornerTyped, ConversionsAssumption
  <2>2. w - 0 = w /\ Values[0] = 1 /\ SumTo(g, 0) = 0
    BY ValuesStep, SumStep
  <2> QED
    BY <2>1, <2>2
<1>15. ASSUME NEW m \in Nat, m \in S PROVE m + 1 \in S
  <2> SUFFICES ASSUME m + 1 <= w
               PROVE  Horner(d, w, BYTE)
                      = Horner(d, w - (m + 1), BYTE) * Values[m + 1] + SumTo(g, m + 1)
    OBVIOUS
  <2>1. PICK i \in Nat : i = w - (m + 1) /\ w - m = i + 1 /\ i <= w
    OBVIOUS
  <2>2. PICK b \in Nat : b = BYTE
    BY ConversionsAssumption
  <2>3. PICK v \in Nat : v = Values[m] /\ Values[m + 1] = b * v
    BY <2>2, ValuesStep
  <2>4. PICK h \in Nat : h = Horner(d, i, BYTE)
    BY <1>12, <2>1, HornerTyped, ConversionsAssumption
  <2>5. PICK c \in Nat : c = d[i + 1]
    <3>1. i + 1 \in 1 .. w
      BY <2>1
    <3> QED
      BY <1>12, <3>1 DEF Numbers
  <2>6. Horner(d, i + 1, BYTE) = h * b + c
    BY <2>2, <2>4, <2>5, HornerStep
  <2>7. g[m + 1] = c * v
    <3>1. m + 1 \in 1 .. w /\ w + 1 - (m + 1) = i + 1 /\ (m + 1) - 1 = m
      BY <2>1
    <3>2. e[m + 1] = c
      BY <1>11, <2>5, <3>1
    <3> QED
      BY <1>6, <2>3, <3>1, <3>2
  <2>8. PICK t \in Nat : t = SumTo(g, m)
    <3>1. \A k \in 1 .. m : g[k] \in Nat
      BY <1>13 DEF Numbers
    <3> QED
      BY <3>1, SumTyped DEF Numbers
  <2>9. SumTo(g, m + 1) = c * v + t
    BY <2>7, <2>8, SumStep
  <2>10. Horner(d, w, BYTE) = (h * b + c) * v + t
    BY <1>15, <2>1, <2>3, <2>6, <2>8
  <2>11. (h * b + c) * v + t = h * (b * v) + (c * v + t)
    OBVIOUS
  <2> QED
    BY <2>1, <2>3, <2>4, <2>9, <2>10, <2>11
<1> HIDE DEF S
<1>16. \A m \in Nat : m \in S
  BY <1>14, <1>15, SetInduction
<1>17. Horner(d, w, BYTE) = Horner(d, w - w, BYTE) * Values[w] + SumTo(g, w)
  BY <1>16 DEF S
<1>18. w - w = 0 /\ Horner(d, 0, BYTE) = 0 /\ Values[w] \in Nat /\ SumTo(g, w) \in Nat
  <2>1. Horner(d, 0, BYTE) = 0
    BY HornerStep
  <2> QED
    BY <1>10, <2>1, ValuesStep
<1> QED
  BY <1>8, <1>9, <1>10, <1>17, <1>18

----------------------------------------------------------------------------
\* The digits that are printed.

\* One step of the recursion that takes the digits.
DigitsOf(F, a, base) == IF a = 0 THEN <<>> ELSE Append(F[a \div base], a % base)

\* F has the digits of the numbers up to n.
DigitsUpTo(F, base, n) == \A a \in 0 .. n : F[a] = DigitsOf(F, a, base)

\* What is left of a number when its last digit is taken is smaller.
LEMMA DigitTaken ==
    ASSUME NEW base \in Nat, base > 1, NEW a \in Nat
    PROVE  /\ a \div base \in Nat /\ a % base \in 0 .. base - 1
           /\ a = (base * (a \div base)) + (a % base)
           /\ a # 0 => a \div base < a
<1>1. base \in Nat \ {0}
  OBVIOUS
<1>2. PICK q \in Nat, c \in 0 .. base - 1 : q = a \div base /\ c = a % base /\ a = (base * q) + c
  BY <1>1, Quotient
<1>3. a # 0 => q < a
  <2> SUFFICES ASSUME a # 0, q >= a PROVE FALSE
    OBVIOUS
  <2>1. PICK l \in Nat : base = l + 2
    <3>1. base - 2 \in Nat /\ base = (base - 2) + 2
      OBVIOUS
    <3> QED
      BY <3>1
  <2>2. base * q = (l * q) + q + q /\ l * q \in Nat
    BY <2>1
  <2> QED
    BY <1>2, <2>2
<1> QED
  BY <1>2, <1>3

\* The recursion can be followed as far as need be.
LEMMA DigitsExist ==
    ASSUME NEW base \in Nat, base > 1
    PROVE  \A n \in Nat : \E F : DigitsUpTo(F, base, n)
<1> DEFINE S == {n \in Nat : \E F : DigitsUpTo(F, base, n)}
<1>1. 0 \in S
  <2> DEFINE F == [a \in Nat |-> <<>>]
  <2>1. DigitsUpTo(F, base, 0)
    BY DEF DigitsUpTo, DigitsOf
  <2> QED
    BY <2>1
<1>2. ASSUME NEW n \in Nat, n \in S PROVE n + 1 \in S
  <2>1. PICK F : DigitsUpTo(F, base, n)
    BY <1>2
  <2> DEFINE G == [a \in Nat |-> IF a <= n THEN F[a] ELSE DigitsOf(F, a, base)]
  <2>2. ASSUME NEW a \in 0 .. n + 1 PROVE G[a] = DigitsOf(G, a, base)
    <3>1. G[a] = DigitsOf(F, a, base)
      BY <2>1 DEF DigitsUpTo
    <3>2. CASE a = 0
      BY <3>1, <3>2 DEF DigitsOf
    <3>3. CASE a # 0
      <4>1. a \div base \in Nat /\ a \div base <= n
        <5>1. a \in Nat /\ a <= n + 1
          OBVIOUS
        <5>2. a \div base \in Nat /\ a \div base < a
          BY <3>3, <5>1, DigitTaken
        <5> QED
          BY <5>1, <5>2
      <4>2. G[a \div base] = F[a \div base]
        BY <4>1
      <4> HIDE DEF G
      <4>3. DigitsOf(G, a, base) = DigitsOf(F, a, base)
        BY <4>2 DEF DigitsOf
      <4> QED
        BY <3>1, <4>3
    <3> QED
      BY <3>2, <3>3
  <2>3. DigitsUpTo(G, base, n + 1)
    BY <2>2 DEF DigitsUpTo
  <2> QED
    BY <2>3
<1> HIDE DEF S
<1>3. \A n \in Nat : n \in S
  BY <1>1, <1>2, SetInduction
<1> QED
  BY <1>3 DEF S

\* However far it is followed, the digits are the same.
LEMMA DigitsUnique ==
    ASSUME NEW base \in Nat, base > 1, NEW F, NEW G, NEW n \in Nat, NEW m \in Nat,
           DigitsUpTo(F, base, n), DigitsUpTo(G, base, m)
    PROVE  \A a \in Nat : a <= n /\ a <= m => F[a] = G[a]
<1> DEFINE S == {k \in Nat : \A a \in 0 .. k : a <= n /\ a <= m => F[a] = G[a]}
<1>1. ASSUME NEW a \in Nat, a <= n, a <= m, a # 0 => F[a \div base] = G[a \div base]
      PROVE  F[a] = G[a]
  <2>1. F[a] = DigitsOf(F, a, base) /\ G[a] = DigitsOf(G, a, base)
    BY <1>1 DEF DigitsUpTo
  <2>2. DigitsOf(F, a, base) = DigitsOf(G, a, base)
    BY <1>1 DEF DigitsOf
  <2> QED
    BY <2>1, <2>2
<1>2. 0 \in S
  BY <1>1
<1>3. ASSUME NEW k \in Nat, k \in S PROVE k + 1 \in S
  <2>1. SUFFICES ASSUME NEW a \in 0 .. k + 1, a <= n, a <= m PROVE F[a] = G[a]
    OBVIOUS
  <2>2. a \in Nat
    OBVIOUS
  <2>3. PICK h : h = a \div base
    OBVIOUS
  <2>4. h \in Nat /\ (a # 0 => h < a)
    BY <2>2, <2>3, DigitTaken
  <2>5. a # 0 => h \in 0 .. k /\ h <= n /\ h <= m
    BY <2>1, <2>2, <2>4
  <2>6. a # 0 => F[h] = G[h]
    BY <1>3, <2>5
  <2> QED
    BY <1>1, <2>1, <2>2, <2>3, <2>6
<1> HIDE DEF S
<1>4. \A k \in Nat : k \in S
  BY <1>2, <1>3, SetInduction
<1> TAKE a \in Nat
<1>5. a \in S /\ a \in 0 .. a
  BY <1>4
<1> QED
  BY <1>5 DEF S

\* The digits printed are those of a function that follows the recursion.
LEMMA DigitsAre ==
    ASSUME NEW base \in Nat, base > 1
    PROVE  \E F : /\ \A a \in Nat : F[a] = DigitsOf(F, a, base)
                  /\ \A value : Digits(value, base) = IF value = 0 THEN <<0>> ELSE F[value]
<1> DEFINE IsOf(F) == F = [a \in Nat |-> DigitsOf(F, a, base)]
           Prefix(n) == CHOOSE F : DigitsUpTo(F, base, n)
           G == [a \in Nat |-> Prefix(a)[a]]
           of == CHOOSE F : IsOf(F)
<1>1. \A n \in Nat : DigitsUpTo(Prefix(n), base, n)
  BY DigitsExist
<1> HIDE DEF Prefix
<1>2. ASSUME NEW a \in Nat PROVE G[a] = DigitsOf(G, a, base)
  <2>1. Prefix(a)[a] = DigitsOf(Prefix(a), a, base)
    BY <1>1 DEF DigitsUpTo
  <2>2. CASE a = 0
    BY <2>1, <2>2 DEF DigitsOf
  <2>3. CASE a # 0
    <3>1. PICK h \in Nat : h = a \div base /\ h <= a /\ h <= h
      <4>1. a \div base \in Nat /\ a \div base < a
        BY <2>3, DigitTaken
      <4> QED
        BY <4>1
    <3>2. DigitsUpTo(Prefix(h), base, h) /\ DigitsUpTo(Prefix(a), base, a)
      BY <1>1
    <3>3. Prefix(h)[h] = Prefix(a)[h]
      BY <3>1, <3>2, DigitsUnique
    <3>4. G[a] = Prefix(a)[a] /\ G[h] = Prefix(h)[h]
      OBVIOUS
    <3> HIDE DEF G
    <3> QED
      BY <2>1, <3>1, <3>3, <3>4 DEF DigitsOf
  <2> QED
    BY <2>2, <2>3
<1>3. IsOf(G)
  <2>1. G = [a \in Nat |-> G[a]]
    OBVIOUS
  <2> HIDE DEF G
  <2> QED
    BY <1>2, <2>1
<1> HIDE DEF G
<1>4. IsOf(of)
  <2> HIDE DEF IsOf
  <2> QED
    BY <1>3
<1>5. ASSUME NEW value PROVE Digits(value, base) = IF value = 0 THEN <<0>> ELSE of[value]
  BY DEF Digits, DigitsOf
<1> HIDE DEF of
<1>6. \A a \in Nat : of[a] = DigitsOf(of, a, base)
  BY <1>4
<1> QED
  BY <1>5, <1>6

\* The digits s are those of the number a, and the first is not 0.
Reads(s, a, base) ==
    /\ s \in Seq(Nat) /\ ReadBack(s, base) = a
    /\ IF a = 0 THEN s = <<>> ELSE Len(s) > 0 /\ s[1] # 0

\* One digit more.
LEMMA ReadsMore ==
    ASSUME NEW base \in Nat, base > 1, NEW h \in Nat, NEW c \in 0 .. base - 1,
           NEW s, Reads(s, h, base), NEW a \in Nat \ {0}, a = (base * h) + c
    PROVE  Reads(Append(s, c), a, base)
<1> DEFINE n == Len(s)
           t == Append(s, c)
<1>1. s \in Seq(Nat) /\ n \in Nat /\ c \in Nat
  BY DEF Reads
<1>2. t \in Seq(Nat) /\ Len(t) = n + 1 /\ t[n + 1] = c /\ \A k \in 1 .. n : t[k] = s[k]
  BY <1>1
<1>3. Horner(s, n, base) = h
  BY DEF Reads, ReadBack
<1>4. CASE h = 0
  <2>1. n = 0 /\ c = a
    BY <1>4 DEF Reads
  <2>2. t[1] # 0
    BY <1>2, <2>1
  <2> HIDE DEF t, n
  <2>3. Horner(t, n + 1, base) = Horner(t, n, base) * base + t[n + 1] /\ Horner(t, 0, base) = 0
    BY <1>1, HornerStep
  <2>4. ReadBack(t, base) = a
    BY <1>2, <2>1, <2>3 DEF ReadBack
  <2> QED
    BY <1>1, <1>2, <2>2, <2>4 DEF Reads, t
<1>5. CASE h # 0
  <2>1. n > 0 /\ s[1] # 0
    BY <1>5 DEF Reads
  <2>2. t[1] # 0 /\ n + 1 > 0
    BY <1>1, <1>2, <2>1
  <2> HIDE DEF t, n
  <2>3. Horner(t, n + 1, base) = Horner(t, n, base) * base + t[n + 1]
    BY <1>1, HornerStep
  <2>4. Horner(t, n, base) = Horner(s, n, base)
    BY <1>1, <1>2, HornerSame
  <2>5. ReadBack(t, base) = h * base + c
    BY <1>2, <1>3, <2>3, <2>4 DEF ReadBack
  <2>6. h * base + c = a
    OBVIOUS
  <2> QED
    BY <1>1, <1>2, <2>2, <2>5, <2>6 DEF Reads, t
<1> QED
  BY <1>4, <1>5

\* What is printed reads back, without leading zeros.
LEMMA DigitsReadBack ==
    ASSUME NEW base \in Nat, base > 1, NEW value \in Nat
    PROVE  /\ ReadBack(Digits(value, base), base) = value
           /\ Len(Digits(value, base)) > 1 => Digits(value, base)[1] # 0
<1>1. PICK F : /\ \A a \in Nat : F[a] = DigitsOf(F, a, base)
               /\ \A v : Digits(v, base) = IF v = 0 THEN <<0>> ELSE F[v]
  BY DigitsAre
<1> DEFINE S == {k \in Nat : \A a \in 0 .. k : Reads(F[a], a, base)}
<1>2. Reads(F[0], 0, base)
  <2>1. F[0] = <<>>
    BY <1>1 DEF DigitsOf
  <2>2. Horner(<<>>, 0, base) = 0
    BY HornerStep
  <2>3. <<>> \in Seq(Nat) /\ Len(<<>>) = 0
    OBVIOUS
  <2> QED
    BY <2>1, <2>2, <2>3 DEF Reads, ReadBack
<1>3. 0 \in S
  BY <1>2
<1>4. ASSUME NEW k \in Nat, k \in S PROVE k + 1 \in S
  <2> SUFFICES ASSUME NEW a \in 0 .. k + 1, a # 0 PROVE Reads(F[a], a, base)
    BY <1>2
  <2>1. a \in Nat \ {0} /\ a <= k + 1
    OBVIOUS
  <2>2. PICK h, c : h = a \div base /\ c = a % base
    OBVIOUS
  <2>3. h \in Nat /\ c \in 0 .. base - 1 /\ a = (base * h) + c /\ h < a
    BY <2>1, <2>2, DigitTaken
  <2>4. h \in 0 .. k
    BY <2>1, <2>3
  <2>5. Reads(F[h], h, base)
    BY <1>4, <2>4
  <2>6. Reads(Append(F[h], c), a, base)
    BY <2>1, <2>3, <2>5, ReadsMore
  <2>7. F[a] = Append(F[h], c)
    BY <1>1, <2>1, <2>2 DEF DigitsOf
  <2> QED
    BY <2>6, <2>7
<1> HIDE DEF S
<1>5. \A k \in Nat : k \in S
  BY <1>3, <1>4, SetInduction
<1>6. Reads(F[value], value, base)
  <2>1. value \in S /\ value \in 0 .. value
    BY <1>5
  <2> QED
    BY <2>1 DEF S
<1>7. CASE value = 0
  <2>1. PICK s : s = <<0>> /\ Len(s) = 1 /\ s[1] = 0
    <3>1. Len(<<0>>) = 1 /\ <<0>>[1] = 0
      OBVIOUS
    <3> QED
      BY <3>1
  <2>2. Digits(value, base) = s
    BY <1>1, <1>7, <2>1
  <2>3. PICK k \in Nat : k = 0
    OBVIOUS
  <2>4. Horner(s, 0, base) = 0 /\ Horner(s, k + 1, base) = Horner(s, k, base) * base + s[k + 1]
    BY HornerStep
  <2>5. ReadBack(s, base) = 0
    BY <2>1, <2>3, <2>4 DEF ReadBack
  <2>6. ~(Len(s) > 1)
    BY <2>1
  <2> QED
    BY <1>7, <2>2, <2>5, <2>6
<1>8. CASE value # 0
  BY <1>1, <1>6, <1>8 DEF Reads
<1> QED
  BY <1>7, <1>8

\* What a number that was read prints as, given what its digits are.
LEMMA PrintedReadsBack ==
    ASSUME Typed, NEW p \in Addresses, NEW w \in Widths, p + w <= N,
           NEW n, n = read_big_endian(p, w),
           NEW out, \/ out = PrintUnsigned(n, 10) \/ out = PrintUnsigned(n, 16)
                    \/ out = PrintSigned(n, w)
    PROVE  /\ BigEndian(p, w) = (IF out.minus THEN Values[w] - ReadBack(out.digits, out.base)
                                 ELSE ReadBack(out.digits, out.base))
           /\ out.minus => /\ 2 * ReadBack(out.digits, out.base) <= Values[w]
                           /\ ReadBack(out.digits, out.base) > 0
           /\ Len(out.digits) > 1 => out.digits[1] # 0
<1>1. p \in Nat /\ w \in Nat
  BY ConversionsAssumption DEF Addresses
<1>2. PICK m \in Nat : m = Values[w]
  BY <1>1, ValuesStep
<1>3. n = BigEndian(p, w) /\ n \in Nat /\ n < m
  <2>1. read_big_endian(p, w) = BigEndian(p, w) /\ read_big_endian(p, w) \in 0 .. Values[w] - 1
    BY <1>1, ReadIsBigEndian
  <2> QED
    BY <1>2, <2>1
<1>4. ASSUME NEW base \in {10, 16}, out = PrintUnsigned(n, base)
      PROVE  /\ out.minus = FALSE /\ ReadBack(out.digits, out.base) = n
             /\ Len(out.digits) > 1 => out.digits[1] # 0
  <2>1. base \in Nat /\ base > 1
    OBVIOUS
  <2>2. PICK s : s = Digits(n, base) /\ ReadBack(s, base) = n /\ (Len(s) > 1 => s[1] # 0)
    BY <1>3, <2>1, DigitsReadBack
  <2>3. out = [minus |-> FALSE, base |-> base, digits |-> s]
    BY <1>4, <2>2 DEF PrintUnsigned
  <2> QED
    BY <2>2, <2>3
<1>5. ASSUME NEW base \in {10, 16}, out = PrintUnsigned(n, base)
      PROVE  /\ BigEndian(p, w) = (IF out.minus THEN Values[w] - ReadBack(out.digits, out.base)
                                   ELSE ReadBack(out.digits, out.base))
             /\ ~out.minus
             /\ Len(out.digits) > 1 => out.digits[1] # 0
  BY <1>3, <1>4, <1>5
<1>6. CASE out = PrintSigned(n, w)
  <2>1. CASE 2 * n >= m
    <3>1. PICK v \in Nat : v = m - n /\ v > 0 /\ v < m /\ 2 * v <= m /\ n = m - v
      <4>1. m - n \in Nat /\ m - n > 0 /\ m - n < m /\ 2 * (m - n) <= m /\ n = m - (m - n)
        BY <1>3, <2>1
      <4> QED
        BY <4>1
    <3>2. SignedValue(n, w) = n - m /\ n - m < 0 /\ -(n - m) = v
      BY <1>2, <1>3, <2>1, <3>1 DEF SignedValue
    <3>3. v % m = v
      BY <3>1, RemainderStays
    <3>4. PICK s : s = Digits(v, 10) /\ ReadBack(s, 10) = v /\ (Len(s) > 1 => s[1] # 0)
      <4>1. 10 \in Nat /\ 10 > 1
        OBVIOUS
      <4> QED
        BY <4>1, DigitsReadBack
    <3>5. out = [minus |-> TRUE, base |-> 10, digits |-> s]
      BY <1>2, <1>6, <3>2, <3>3, <3>4 DEF PrintSigned
    <3> QED
      BY <1>2, <1>3, <3>1, <3>4, <3>5
  <2>2. CASE ~(2 * n >= m)
    <3>1. SignedValue(n, w) = n /\ ~(n < 0)
      BY <1>2, <1>3, <2>2 DEF SignedValue
    <3>2. out = PrintUnsigned(n, 10)
      BY <1>6, <3>1 DEF PrintSigned
    <3> QED
      BY <1>5, <3>2
  <2> QED
    BY <2>1, <2>2
<1> QED
  BY <1>5, <1>6

\* What is printed for a number in the blob reads back as the value its
\* bytes have with the highest first, without leading zeros; for a signed
\* number modulo its width, the smallest included (number.h:87-130,
\* printer.h:22-70 and 98-127).
THEOREM PrintedNumbersReadBack == HelperSpec => []PrintsReadBack
<1>1. HelperInit => PrintsReadBack
  BY DEF HelperInit, PrintsReadBack
<1>2. Typed /\ PrintsReadBack /\ [HelperNext]_helperVars => PrintsReadBack'
  <2> SUFFICES ASSUME Typed, PrintsReadBack, [HelperNext]_helperVars PROVE PrintsReadBack'
    OBVIOUS
  <2>1. Memory \/ Compare \/ MakeView \/ ChangeView \/ Drop => ret'.op # "print"
    BY DEF Memory, copy, fill, Compare, MakeView, ChangeView, View, Drop, Answers
  <2>2. ret'.op # "print" => PrintsReadBack'
    BY DEF PrintsReadBack
  <2>3. CASE PrintNumber
    <3>1. PICK p, w, n, out :
             /\ p \in Addresses /\ w \in Widths /\ p + w <= N
             /\ n = read_big_endian(p, w)
             /\ \/ out = PrintUnsigned(n, 10) \/ out = PrintUnsigned(n, 16)
                \/ out = PrintSigned(n, w)
             /\ ret' = [op |-> "print", ptr |-> p, w |-> w, out |-> out] /\ bytes' = bytes
      BY <2>3 DEF PrintNumber, Answers
    <3>2. /\ BigEndian(p, w) = (IF out.minus THEN Values[w] - ReadBack(out.digits, out.base)
                                ELSE ReadBack(out.digits, out.base))
          /\ out.minus => /\ 2 * ReadBack(out.digits, out.base) <= Values[w]
                          /\ ReadBack(out.digits, out.base) > 0
          /\ Len(out.digits) > 1 => out.digits[1] # 0
      BY <3>1, PrintedReadsBack
    <3>3. ret'.out = out /\ ret'.ptr = p /\ ret'.w = w
      BY <3>1
    <3> QED
      BY <3>1, <3>2, <3>3 DEF PrintsReadBack, BigEndian
  <2>4. CASE UNCHANGED helperVars
    BY <2>4 DEF helperVars, PrintsReadBack, BigEndian
  <2> QED
    BY <2>1, <2>2, <2>3, <2>4 DEF HelperNext
<1> QED
  BY <1>1, <1>2, StaysTyped, PTL DEF HelperSpec
=============================================================================
