--------------------------- MODULE ListPanelsProofs ---------------------------
(***************************************************************************)
(* Proofs about the panels that are lists: what a search holds is a run of *)
(* what the server stores, a trace is read against the draft it was run    *)
(* for, the finder works off a queue, the settings keep the order of their *)
(* saves, and the charts of the feed divide up the packets of a window.    *)
(***************************************************************************)
EXTENDS MessageSearch, TracePane, ChannelFinder, AppSettings, PacketFeed,
        FiniteSetTheorems, SequenceTheorems, WellFoundedInduction, TLAPS

-----------------------------------------------------------------------------
(* Finite sets of numbers, and what is picked from a sequence               *)

LEMMA SeqOfMore ==
    ASSUME NEW S, NEW T, S \subseteq T, NEW s \in Seq(S)
    PROVE  s \in Seq(T)
<1>1. Len(s) \in Nat /\ s = [i \in 1..Len(s) |-> s[i]] /\ \A i \in 1..Len(s) : s[i] \in T
  OBVIOUS
<1>2. [i \in 1..Len(s) |-> s[i]] \in [1..Len(s) -> T]
  BY <1>1
<1>3. s \in [1..Len(s) -> T]
  BY <1>1, <1>2
<1> QED
  BY <1>1, <1>3, SeqDef

LEMMA CountTo == \A n \in Nat : IsFiniteSet(1..n) /\ Cardinality(1..n) = n
<1> TAKE n \in Nat
<1>1. IsFiniteSet(1..n) /\ Cardinality(1..n) = IF 1 > n THEN 0 ELSE n - 1 + 1
  BY FS_Interval
<1>2. (IF 1 > n THEN 0 ELSE n - 1 + 1) = n
  OBVIOUS
<1> QED
  BY <1>1, <1>2

LEMMA Trichotomy == \A m, n \in Int : m < n \/ n < m \/ m = n
OBVIOUS

\* Numbers have a least one among them.
LEMMA LeastOf ==
    ASSUME NEW T \in SUBSET Nat, T # {}
    PROVE  \E x \in T : \A y \in T : x <= y
<1> DEFINE I == {0..x : x \in T}
<1>1. I # {} /\ I \subseteq FiniteSubsetsOf(Nat)
  <2>1. \A x \in T : 0..x \in SUBSET Nat /\ IsFiniteSet(0..x)
    BY FS_Interval
  <2> QED
    BY <2>1 DEF FiniteSubsetsOf
<1> HIDE DEF I
<1>2. PICK s \in I : \A t \in I : ~(<<t, s>> \in StrictSubsetOrdering(Nat))
  BY <1>1, WFMin, FS_StrictSubsetOrderingWellFounded
<1>3. PICK x \in T : s = 0..x
  BY DEF I
<1>4. ASSUME NEW y \in T
      PROVE  x <= y
  <2>1. 0..y \in I
    BY DEF I
  <2>2. SUFFICES ASSUME y < x
                 PROVE  FALSE
    OBVIOUS
  <2>3. 0..y \subseteq 0..x /\ 0..y # 0..x /\ 0..y \in SUBSET Nat /\ 0..x \in SUBSET Nat
    <3>1. x \in 0..x /\ x \notin 0..y
      BY <2>2
    <3> QED
      BY <2>2, <3>1
  <2> QED
    BY <1>2, <1>3, <2>1, <2>3 DEF StrictSubsetOrdering
<1> QED
  BY <1>4

\* A number that is not the least has one element more below it.
LEMMA RanksDiffer ==
    ASSUME NEW I \in SUBSET Int, IsFiniteSet(I), NEW i \in I, NEW k \in I, i < k
    PROVE  /\ Cardinality({j \in I : j < i}) \in Nat
           /\ Cardinality({j \in I : j < k}) \in Nat
           /\ Cardinality({j \in I : j < i}) < Cardinality({j \in I : j < k})
<1> DEFINE B(x) == {j \in I : j < x}
<1>1. /\ IsFiniteSet(B(i)) /\ Cardinality(B(i)) \in Nat
      /\ IsFiniteSet(B(k)) /\ Cardinality(B(k)) \in Nat
  BY FS_Subset, FS_CardinalityType
<1>2. i \notin B(i) /\ B(i) \cup {i} \subseteq B(k)
  <2>1. i \in Int /\ k \in Int /\ \A j \in I : j \in Int
    OBVIOUS
  <2>2. ~(i < i) /\ \A j \in I : j < i => j < k
    BY <2>1
  <2> QED
    BY <2>2
<1>3. Cardinality(B(i) \cup {i}) = Cardinality(B(i)) + 1
  BY <1>1, <1>2, FS_AddElement
<1>4. Cardinality(B(i) \cup {i}) <= Cardinality(B(k))
  BY <1>1, <1>2, FS_Subset
<1> QED
  BY <1>1, <1>3, <1>4

\* The ranks of the elements of a finite set are the numbers below its size.
LEMMA RanksCover ==
    ASSUME NEW I \in SUBSET Int, IsFiniteSet(I)
    PROVE  /\ Cardinality(I) \in Nat
           /\ \A i \in I : Cardinality({j \in I : j < i}) \in 0..(Cardinality(I) - 1)
           /\ \A n \in 1..Cardinality(I) : \E i \in I : Cardinality({j \in I : j < i}) = n - 1
<1> DEFINE B(x) == {j \in I : j < x}
           N == Cardinality(I)
           r == [i \in I |-> Cardinality(B(i)) + 1]
<1>1. N \in Nat
  BY FS_CardinalityType
<1>2. ASSUME NEW i \in I
      PROVE  Cardinality(B(i)) \in 0..(N - 1)
  <2>1. IsFiniteSet(I \ {i}) /\ Cardinality(I \ {i}) = N - 1
    BY FS_RemoveElement
  <2>2. B(i) \in SUBSET (I \ {i})
    OBVIOUS
  <2>3. IsFiniteSet(B(i)) /\ Cardinality(B(i)) <= Cardinality(I \ {i})
    BY <2>1, <2>2, FS_Subset
  <2>4. Cardinality(B(i)) \in Nat
    BY <2>3, FS_CardinalityType
  <2> QED
    BY <1>1, <2>1, <2>3, <2>4
<1>3. r \in [I -> 1..N]
  BY <1>1, <1>2
<1>4. ASSUME NEW i \in I, NEW k \in I, r[i] = r[k]
      PROVE  i = k
  <2>1. Cardinality(B(i)) = Cardinality(B(k))
    BY <1>1, <1>2, <1>4
  <2>2. ~(i < k) /\ ~(k < i)
    BY <2>1, RanksDiffer
  <2> QED
    BY <2>2
<1>5. r \in Injection(I, 1..N)
  BY <1>3, <1>4 DEF Injection, IsInjective
<1>6. IsFiniteSet(1..N) /\ Cardinality(1..N) = N
  BY <1>1, FS_Interval
<1>7. r \in Surjection(I, 1..N)
  BY <1>5, <1>6, FS_Injection
<1>8. \A n \in 1..N : \E i \in I : r[i] = n
  BY <1>7 DEF Surjection
<1>9. \A n \in 1..N : \E i \in I : Cardinality(B(i)) = n - 1
  <2> TAKE n \in 1..N
  <2>1. PICK i \in I : r[i] = n
    BY <1>8
  <2>2. Cardinality(B(i)) + 1 = n /\ Cardinality(B(i)) \in 0..(N - 1)
    BY <1>2, <2>1
  <2>3. Cardinality(B(i)) = n - 1
    BY <1>1, <2>2
  <2> QED
    BY <2>3
<1> QED
  BY <1>1, <1>2, <1>9

\* Ascending lists the elements of a finite set, each once and least first.
LEMMA AscendingLists ==
    ASSUME NEW I \in SUBSET Int, IsFiniteSet(I)
    PROVE  /\ Cardinality(I) \in Nat
           /\ Ascending(I) \in [1..Cardinality(I) -> I]
           /\ \A i \in I : \E n \in 1..Cardinality(I) : Ascending(I)[n] = i
           /\ \A m, n \in 1..Cardinality(I) : m < n => Ascending(I)[m] < Ascending(I)[n]
<1> DEFINE R(x) == Cardinality({j \in I : j < x})
           A == Ascending(I)
           N == Cardinality(I)
<1>1. /\ N \in Nat /\ \A i \in I : R(i) \in 0..(N - 1)
      /\ \A n \in 1..N : \E i \in I : R(i) = n - 1
  BY RanksCover
<1>2. \A i, k \in I : i < k => R(i) < R(k)
  BY RanksDiffer
<1>3. A = [n \in 1..N |-> CHOOSE i \in I : R(i) = n - 1]
  BY DEF Ascending
<1>0. \A i \in I : i \in Int
  OBVIOUS
<1> HIDE DEF R, N, A
<1>4. \A n \in 1..N : A[n] \in I /\ R(A[n]) = n - 1
  <2> TAKE n \in 1..N
  <2>1. A[n] = CHOOSE i \in I : R(i) = n - 1
    BY <1>3
  <2>2. \E i \in I : R(i) = n - 1
    BY <1>1
  <2> QED
    BY <2>1, <2>2, Zenon
<1>5. A \in [1..N -> I]
  BY <1>3, <1>4
<1>6. ASSUME NEW i \in I
      PROVE  \E n \in 1..N : A[n] = i
  <2>1. R(i) \in 0..(N - 1) /\ R(i) + 1 \in 1..N
    BY <1>1
  <2>2. A[R(i) + 1] \in I /\ R(A[R(i) + 1]) = R(i)
    BY <1>4, <2>1
  <2>4. A[R(i) + 1] = i
    <3>1. PICK k \in I : k = A[R(i) + 1]
      BY <2>2
    <3>2. R(k) = R(i) /\ R(i) \in Int
      BY <2>1, <2>2, <3>1
    <3>3. ~(k < i) /\ ~(i < k)
      BY <1>2, <3>2
    <3>4. k \in Int /\ i \in Int
      BY <1>0
    <3>5. k = i
      BY <3>3, <3>4, Trichotomy, Zenon
    <3> QED
      BY <3>1, <3>5
  <2> QED
    BY <2>1, <2>4
<1>7. ASSUME NEW m \in 1..N, NEW n \in 1..N, m < n
      PROVE  A[m] < A[n]
  <2>1. /\ A[m] \in I /\ A[n] \in I /\ R(A[m]) = m - 1 /\ R(A[n]) = n - 1
        /\ ~(R(A[n]) < R(A[m])) /\ R(A[n]) # R(A[m])
    BY <1>1, <1>4, <1>7
  <2>2. ~(A[n] < A[m]) /\ A[n] # A[m]
    BY <1>2, <2>1
  <2>3. A[m] \in Int /\ A[n] \in Int
    BY <1>0, <2>1, Zenon
  <2> QED
    BY <2>2, <2>3, Trichotomy, Zenon
<1> QED
  BY <1>1, <1>5, <1>6, <1>7 DEF A, N

\* Picked keeps the elements at the places of I, in their order.
LEMMA PickedLists ==
    ASSUME NEW S, NEW s \in Seq(S), NEW I \in SUBSET DOMAIN s
    PROVE  /\ Picked(s, I) \in Seq(S) /\ Len(Picked(s, I)) = Cardinality(I) /\ IsFiniteSet(I)
           /\ Len(Picked(s, I)) \in Nat
           /\ \A n \in 1..Len(Picked(s, I)) : \E i \in I : Picked(s, I)[n] = s[i]
           /\ \A i \in I : \E n \in 1..Len(Picked(s, I)) : Picked(s, I)[n] = s[i]
           /\ \A m, n \in 1..Len(Picked(s, I)) :
                 m < n => \E i, j \in I : i < j /\ Picked(s, I)[m] = s[i] /\ Picked(s, I)[n] = s[j]
<1>1. Len(s) \in Nat /\ DOMAIN s = 1..Len(s) /\ I \in SUBSET (1..Len(s)) /\ \A i \in 1..Len(s) : s[i] \in S
  OBVIOUS
<1>2. IsFiniteSet(I) /\ I \in SUBSET Int
  <2>1. IsFiniteSet(1..Len(s))
    BY <1>1, FS_Interval
  <2> QED
    BY <1>1, <2>1, FS_Subset
<1> DEFINE N == Cardinality(I)
           A == Ascending(I)
           P == Picked(s, I)
<1>3. /\ N \in Nat /\ A \in [1..N -> I]
      /\ \A i \in I : \E n \in 1..N : A[n] = i
      /\ \A m, n \in 1..N : m < n => A[m] < A[n]
  BY <1>2, AscendingLists
<1>4. P = [n \in 1..N |-> s[A[n]]]
  BY DEF Picked
<1> HIDE DEF N, A, P
<1>5. \A n \in 1..N : A[n] \in I /\ P[n] = s[A[n]] /\ P[n] \in S
  BY <1>1, <1>3, <1>4
<1>6. P \in Seq(S) /\ Len(P) = N
  BY <1>3, <1>4, <1>5
<1> QED
  BY <1>2, <1>3, <1>5, <1>6 DEF P, N

-----------------------------------------------------------------------------
(* Search and mentions: what is stored, and a page of it                    *)

LEMMA HitsFinite ==
    ASSUME NEW q, NEW n \in Nat, NEW blocked
    PROVE  /\ IsFiniteSet(Hits(q, n, blocked)) /\ Hits(q, n, blocked) \subseteq 1..n
           /\ Hits(q, n, blocked) \in SUBSET Int
<1>1. Hits(q, n, blocked) \subseteq 1..n
  BY DEF Hits
<1>2. IsFiniteSet(1..n)
  BY FS_Interval
<1> QED
  BY <1>1, <1>2, FS_Subset

LEMMA HitsGrow ==
    ASSUME NEW q, NEW n \in Nat, NEW k \in Nat, n <= k, NEW blocked
    PROVE  /\ Hits(q, n, blocked) \subseteq Hits(q, k, blocked)
           /\ \A m \in Hits(q, k, blocked) : m <= n => m \in Hits(q, n, blocked)
BY DEF Hits

\* How many hits are newer than a message: fewer for a newer message, more
\* when there are more hits.
LEMMA NewerCounts ==
    ASSUME NEW hits \in SUBSET Int, IsFiniteSet(hits), NEW m \in Int
    PROVE  /\ Newer(m, hits) \in Nat
           /\ \A k \in Int : m <= k => Newer(k, hits) <= Newer(m, hits)
           /\ \A few \in SUBSET hits : Newer(m, few) <= Newer(m, hits)
<1> DEFINE N(x, S) == {k \in S : k > x}
<1>1. /\ IsFiniteSet(N(m, hits))
      /\ Cardinality(N(m, hits)) \in Nat
  BY FS_Subset, FS_CardinalityType
<1>2. ASSUME NEW k \in Int, m <= k
      PROVE  Cardinality(N(k, hits)) <= Cardinality(N(m, hits))
  <2>1. N(k, hits) \in SUBSET N(m, hits)
    <3>1. \A x \in hits : x \in Int
      OBVIOUS
    <3>2. \A x \in hits : x > k => x > m
      BY <1>2, <3>1
    <3> QED
      BY <3>2
  <2> QED
    BY <1>1, <2>1, FS_Subset
<1>3. ASSUME NEW few \in SUBSET hits
      PROVE  Cardinality(N(m, few)) <= Cardinality(N(m, hits))
  <2>1. N(m, few) \in SUBSET N(m, hits)
    OBVIOUS
  <2> QED
    BY <1>1, <2>1, FS_Subset
<1> QED
  BY <1>1, <1>2, <1>3 DEF Newer

\* Messages stored after the n-th are newer than those before, and few.
LEMMA ArrivedOnTop ==
    ASSUME NEW q, NEW blocked, NEW n \in Nat, NEW k \in Nat,
           NEW m \in Hits(q, k, blocked), m > n
    PROVE  Newer(m, Hits(q, k, blocked)) < k - n
<1>1. m \in 1..k
  BY HitsFinite
<1> DEFINE U == {h \in Hits(q, k, blocked) : h > m}
<1>2. U \in SUBSET ((m + 1)..k)
  BY <1>1, HitsFinite
<1>3. IsFiniteSet((m + 1)..k) /\ Cardinality((m + 1)..k) = k - m
  <2>1. m + 1 \in Int /\ k \in Int
    BY <1>1
  <2>2. Cardinality((m + 1)..k) = IF m + 1 > k THEN 0 ELSE k - (m + 1) + 1
    BY <2>1, FS_Interval
  <2>3. (IF m + 1 > k THEN 0 ELSE k - (m + 1) + 1) = k - m
    BY <1>1
  <2> QED
    BY <2>1, <2>2, <2>3, FS_Interval
<1>4. IsFiniteSet(U) /\ Cardinality(U) <= k - m
  BY <1>2, <1>3, FS_Subset
<1>5. Cardinality(U) \in Nat
  BY <1>4, FS_CardinalityType
<1> QED
  BY <1>1, <1>4, <1>5 DEF Newer

(* The rows of a page, newest first.                                        *)
LEMMA PageLists ==
    ASSUME NEW hits \in SUBSET Int, IsFiniteSet(hits), NEW offset \in Nat
    PROVE  /\ PageAt(hits, offset) \in Seq(hits)
           /\ ToSet(PageAt(hits, offset)) = RowsAt(hits, offset)
           /\ IsFiniteSet(RowsAt(hits, offset)) /\ RowsAt(hits, offset) \in SUBSET hits
           /\ Len(PageAt(hits, offset)) = Cardinality(RowsAt(hits, offset))
           /\ Len(PageAt(hits, offset)) \in Nat
           /\ Descending(PageAt(hits, offset))
<1> DEFINE D == RowsAt(hits, offset)
           A == Ascending(D)
           N == Cardinality(D)
           P == PageAt(hits, offset)
<1>1. D \in SUBSET hits /\ D \in SUBSET Int
  BY DEF RowsAt
<1>2. IsFiniteSet(D)
  BY <1>1, FS_Subset
<1>3. /\ N \in Nat /\ A \in [1..N -> D]
      /\ \A i \in D : \E n \in 1..N : A[n] = i
      /\ \A m, n \in 1..N : m < n => A[m] < A[n]
  BY <1>1, <1>2, AscendingLists
<1>4. P = Reverse(A)
  BY DEF PageAt
<1> HIDE DEF D, A, N, P
<1>5. A \in Seq(D) /\ Len(A) = N
  BY <1>3
<1>6. P = [i \in 1..N |-> A[(N - i) + 1]]
  BY <1>4, <1>5 DEF Reverse
<1>7. \A i \in 1..N : (N - i) + 1 \in 1..N /\ P[i] = A[(N - i) + 1] /\ P[i] \in D
  BY <1>3, <1>6
<1>8. P \in Seq(D) /\ Len(P) = N /\ DOMAIN P = 1..N
  BY <1>3, <1>6, <1>7
<1>9. ToSet(P) = D
  <2>1. ASSUME NEW d \in D
        PROVE  \E i \in 1..N : P[i] = d
    <3>1. PICK n \in 1..N : A[n] = d
      BY <1>3
    <3>2. (N - n) + 1 \in 1..N /\ (N - ((N - n) + 1)) + 1 = n
      BY <1>3
    <3>3. P[(N - n) + 1] = A[n]
      BY <1>7, <3>2
    <3> QED
      BY <3>1, <3>2, <3>3
  <2> QED
    BY <1>7, <1>8, <2>1 DEF ToSet
<1>10. Descending(P)
  <2>1. ASSUME NEW i \in 1..N, NEW j \in 1..N, i < j
        PROVE  P[i] > P[j]
    <3>1. (N - j) + 1 \in 1..N /\ (N - i) + 1 \in 1..N /\ (N - j) + 1 < (N - i) + 1
      BY <1>3, <2>1
    <3>2. A[(N - j) + 1] < A[(N - i) + 1]
      BY <1>3, <3>1
    <3> QED
      BY <1>7, <3>2
  <2> QED
    BY <1>8, <2>1 DEF Descending
<1>11. P \in Seq(hits)
  <2>1. \A i \in 1..N : P[i] \in hits
    BY <1>1, <1>7
  <2> QED
    BY <1>3, <1>6, <1>8, <2>1
<1> QED
  BY <1>1, <1>2, <1>3, <1>8, <1>9, <1>10, <1>11 DEF D, N, P

\* Below a page are at least the messages the offset skips and the page itself.
LEMMA PageAbove ==
    ASSUME NEW hits \in SUBSET Int, IsFiniteSet(hits), NEW offset \in Nat, NEW m \in Int,
           RowsAt(hits, offset) # {}, \A d \in RowsAt(hits, offset) : d > m
    PROVE  Newer(m, hits) >= offset + Cardinality(RowsAt(hits, offset))
<1> DEFINE D == RowsAt(hits, offset)
           P == PageAt(hits, offset)
<1>1. /\ P \in Seq(hits) /\ ToSet(P) = D /\ IsFiniteSet(D) /\ D \in SUBSET hits
      /\ Len(P) \in Nat /\ Descending(P)
  BY PageLists
<1>2. Cardinality(D) \in Nat /\ Newer(m, hits) \in Nat
  BY <1>1, FS_CardinalityType, NewerCounts
<1>3. PICK d \in D : \A e \in D : e <= d
  <2>1. Len(P) >= 1 /\ DOMAIN P = 1..Len(P)
    BY <1>1 DEF ToSet
  <2>2. 1 \in 1..Len(P) /\ P[1] \in D
    BY <1>1, <2>1 DEF ToSet
  <2>3. \A i \in 1..Len(P) : P[i] \in Int /\ (i = 1 \/ P[1] > P[i])
    <3>1. ASSUME NEW i \in 1..Len(P)
          PROVE  P[i] \in Int
      <4>1. P[i] \in D
        BY <1>1, <2>1 DEF ToSet
      <4> QED
        BY <1>1, <4>1
    <3>2. ASSUME NEW i \in 1..Len(P), i # 1
          PROVE  P[1] > P[i]
      <4>1. 1 \in 1..Len(P) /\ 1 < i
        BY <1>1, <2>2, <3>2
      <4> QED
        BY <1>1, <4>1 DEF Descending
    <3> QED
      BY <3>1, <3>2
  <2>4. \A e \in D : e <= P[1]
    <3> TAKE e \in D
    <3>1. PICK i \in 1..Len(P) : P[i] = e
      BY <1>1, <2>1 DEF ToSet
    <3> QED
      BY <2>1, <2>3, <3>1
  <2> QED
    BY <2>2, <2>4
<1> DEFINE U == {k \in hits : k > d}
           V == {k \in hits : k > m}
<1>4. d \in Int /\ d > m /\ Cardinality(U) >= offset
  <2>1. Newer(d, hits) \in offset..(offset + SearchPage - 1)
    BY DEF RowsAt
  <2>2. d \in Int /\ d > m /\ d \in hits
    BY <1>1
  <2>3. Cardinality(U) = Newer(d, hits)
    BY DEF Newer
  <2>4. \A x : x \in offset..(offset + SearchPage - 1) => x >= offset
    BY SearchAssumption
  <2> QED
    BY <2>1, <2>2, <2>3, <2>4
<1>5. /\ IsFiniteSet(U) /\ IsFiniteSet(V) /\ Cardinality(U) \in Nat
  BY FS_Subset, FS_CardinalityType
<1>6. U \cap D = {} /\ U \cup D \in SUBSET V
  <2>1. \A e \in D : e \in Int /\ e > m /\ ~(e > d) /\ e \in hits
    BY <1>1, <1>3, <1>4
  <2>2. \A k \in U : k \in Int /\ k > d /\ k \in hits
    OBVIOUS
  <2>3. \A k \in U : k > m
    BY <1>4, <2>2
  <2> QED
    BY <2>1, <2>2, <2>3
<1>7. Cardinality(U \cup D) = Cardinality(U) + Cardinality(D)
  <2>1. Cardinality(U \cap D) = 0
    BY <1>6, FS_EmptySet
  <2>2. Cardinality(U \cup D) = Cardinality(U) + Cardinality(D) - Cardinality(U \cap D)
    BY <1>1, <1>5, FS_Union
  <2> QED
    BY <1>2, <1>5, <2>1, <2>2
<1>8. Cardinality(U \cup D) <= Cardinality(V)
  BY <1>5, <1>6, FS_Subset
<1>9. Cardinality(V) = Newer(m, hits)
  BY DEF Newer
<1> QED
  BY <1>2, <1>4, <1>5, <1>7, <1>8, <1>9

-----------------------------------------------------------------------------
(* Search and mentions: where the pages meet                                *)

\* What a page adds to what its offset skips: all that is not below it.
LEMMA PageReaches ==
    ASSUME NEW hits \in SUBSET Int, IsFiniteSet(hits), NEW offset \in Nat, NEW m \in hits,
           \/ Newer(m, hits) < offset + Len(PageAt(hits, offset))
           \/ \E d \in ToSet(PageAt(hits, offset)) : m > d
    PROVE  Newer(m, hits) < offset \/ m \in ToSet(PageAt(hits, offset))
<1> DEFINE D == RowsAt(hits, offset)
<1>1. /\ ToSet(PageAt(hits, offset)) = D /\ Len(PageAt(hits, offset)) = Cardinality(D)
      /\ Cardinality(D) \in Nat /\ IsFiniteSet(D) /\ D \in SUBSET hits
  BY PageLists
<1>2. m \in Int /\ Newer(m, hits) \in Nat /\ SearchPage \in Nat
  BY NewerCounts, SearchAssumption
<1> SUFFICES ASSUME Newer(m, hits) >= offset, m \notin D
             PROVE  FALSE
  BY <1>1, <1>2
<1>3. Newer(m, hits) > offset + SearchPage - 1
  <2>1. Newer(m, hits) \notin offset..(offset + SearchPage - 1)
    BY DEF RowsAt
  <2> QED
    BY <1>2, <2>1
<1>4. \A d \in D : d \in Int /\ d > m
  <2> TAKE d \in D
  <2>1. d \in Int /\ Newer(d, hits) \in offset..(offset + SearchPage - 1)
    BY <1>1 DEF RowsAt
  <2>2. d <= m => Newer(m, hits) <= Newer(d, hits)
    BY <1>2, <2>1, NewerCounts
  <2> QED
    BY <1>2, <1>3, <2>1, <2>2
<1>5. CASE D = {}
  <2>1. Cardinality(D) = 0
    BY <1>5, FS_EmptySet
  <2> QED
    BY <1>1, <1>2, <1>5, <2>1
<1>6. CASE D # {}
  <2>1. Newer(m, hits) >= offset + Cardinality(D)
    BY <1>2, <1>4, <1>6, PageAbove
  <2>2. \A d \in D : ~(m > d)
    BY <1>2, <1>4
  <2> QED
    BY <1>1, <1>2, <2>1, <2>2
<1> QED
  BY <1>5, <1>6

LEMMA PageFits ==
    ASSUME NEW n \in Nat, NEW hits \in SUBSET (1..n), NEW offset \in Nat, PageAt(hits, offset) # <<>>
    PROVE  offset + Len(PageAt(hits, offset)) <= n
<1> DEFINE D == RowsAt(hits, offset)
<1>1. hits \in SUBSET Int /\ IsFiniteSet(hits) /\ Cardinality(hits) <= n /\ Cardinality(hits) \in Nat
  <2>1. IsFiniteSet(1..n) /\ Cardinality(1..n) = n
    BY FS_Interval
  <2>2. IsFiniteSet(hits) /\ Cardinality(hits) <= n
    BY <2>1, FS_Subset
  <2> QED
    BY <2>2, FS_CardinalityType
<1>2. /\ Len(PageAt(hits, offset)) = Cardinality(D) /\ Cardinality(D) \in Nat /\ D \in SUBSET hits
      /\ ToSet(PageAt(hits, offset)) = D /\ PageAt(hits, offset) \in Seq(hits)
  BY <1>1, PageLists
<1>3. D # {}
  <2>1. PICK P \in Seq(hits) : P = PageAt(hits, offset)
    BY <1>2
  <2>2. P # <<>> /\ ToSet(P) = D
    BY <1>2, <2>1
  <2>3. 1 \in DOMAIN P
    BY <2>2
  <2> QED
    BY <2>2, <2>3 DEF ToSet
<1>0. \A m \in hits : m \in Int /\ m > 0
  <2> TAKE m \in hits
  <2>1. m \in 1..n
    OBVIOUS
  <2> QED
    BY <2>1
<1>4. \A d \in D : d > 0
  BY <1>0, <1>2
<1>5. Newer(0, hits) >= offset + Cardinality(D)
  BY <1>1, <1>3, <1>4, PageAbove
<1>6. {k \in hits : k > 0} = hits
  BY <1>0
<1>7. Newer(0, hits) = Cardinality(hits)
  BY <1>6 DEF Newer
<1> QED
  BY <1>1, <1>2, <1>5, <1>7

\* Nothing of the first page is missing, however many messages follow.
LEMMA FirstPage ==
    ASSUME NEW all \in SUBSET Int, IsFiniteSet(all), NEW hits \in SUBSET all
    PROVE  /\ TopOf(hits, PageAt(hits, 0))
           /\ SkipsShown(hits, PageAt(hits, 0), Len(PageAt(hits, 0)), all)
<1> DEFINE P == PageAt(hits, 0)
<1>1. hits \in SUBSET Int /\ IsFiniteSet(hits)
  BY FS_Subset
<1>2. Descending(P) /\ ToSet(P) \subseteq hits /\ Len(P) \in Nat
  BY <1>1, PageLists
<1>3. \A m \in hits : Newer(m, hits) \in Nat /\ Newer(m, all) \in Nat /\ Newer(m, hits) <= Newer(m, all)
  BY <1>1, NewerCounts
<1>4. \A m \in hits : Newer(m, hits) < 0 + Len(P) \/ (\E r \in ToSet(P) : m > r) => m \in ToSet(P)
  <2> TAKE m \in hits
  <2>1. Newer(m, hits) < 0 + Len(P) \/ (\E r \in ToSet(P) : m > r)
           => Newer(m, hits) < 0 \/ m \in ToSet(P)
    BY <1>1, PageReaches
  <2>2. ~(Newer(m, hits) < 0)
    BY <1>3
  <2> QED
    BY <2>1, <2>2
<1>5. \A m \in hits : Newer(m, all) < Len(P) => Newer(m, hits) < 0 + Len(P)
  BY <1>2, <1>3
<1> HIDE DEF P
<1>6. TopOf(hits, P)
  BY <1>2, <1>4 DEF TopOf
<1>7. SkipsShown(hits, P, Len(P), all)
  BY <1>4, <1>5 DEF SkipsShown
<1> QED
  BY <1>6, <1>7 DEF P

-----------------------------------------------------------------------------
(* Search and mentions: pages that are added to a list                      *)

\* Merging keeps what is shown and appends what is new of the page.
LEMMA MergedLists ==
    ASSUME NEW S, NEW shown \in Seq(S), NEW data \in Seq(S)
    PROVE  /\ Merged(shown, data) \in Seq(S) /\ Len(shown) \in Nat /\ Len(data) \in Nat
           /\ Len(Merged(shown, data)) \in Nat /\ Len(Merged(shown, data)) <= Len(shown) + Len(data)
           /\ Len(shown) <= Len(Merged(shown, data))
           /\ ToSet(Merged(shown, data)) = ToSet(shown) \cup ToSet(data)
<1>0. PICK I \in SUBSET DOMAIN data : I = {i \in DOMAIN data : data[i] \notin ToSet(shown)}
  OBVIOUS
<1> DEFINE N == Picked(data, I)
           G == Merged(shown, data)
<1>1. /\ N \in Seq(S) /\ Len(N) = Cardinality(I) /\ IsFiniteSet(I)
      /\ \A n \in 1..Len(N) : \E i \in I : N[n] = data[i]
      /\ \A i \in I : \E n \in 1..Len(N) : N[n] = data[i]
  BY PickedLists
<1>2. G = shown \o N
  BY <1>0 DEF Merged
<1> HIDE DEF N
<1>3. Len(shown) \in Nat /\ Len(data) \in Nat /\ Len(N) \in Nat
  BY <1>1
<1>4. Len(N) <= Len(data)
  <2>1. IsFiniteSet(1..Len(data)) /\ Cardinality(1..Len(data)) = Len(data)
    BY <1>3, CountTo, Zenon
  <2>2. I \in SUBSET (1..Len(data))
    OBVIOUS
  <2> QED
    BY <1>1, <2>1, <2>2, FS_Subset
<1>5. /\ G \in Seq(S) /\ Len(G) = Len(shown) + Len(N)
      /\ \A i \in 1..Len(G) : G[i] = IF i <= Len(shown) THEN shown[i] ELSE N[i - Len(shown)]
  <2>1. shown \o N \in Seq(S) /\ Len(shown \o N) = Len(shown) + Len(N)
    BY <1>1, ConcatProperties
  <2>2. \A i \in 1..(Len(shown) + Len(N)) :
           (shown \o N)[i] = IF i <= Len(shown) THEN shown[i] ELSE N[i - Len(shown)]
    BY <1>1
  <2> QED
    BY <1>2, <2>1, <2>2
<1> HIDE DEF G
<1>6. ASSUME NEW i \in 1..Len(G)
      PROVE  G[i] \in ToSet(shown) \cup ToSet(data)
  <2>1. CASE i <= Len(shown)
    <3>1. i \in DOMAIN shown /\ G[i] = shown[i]
      BY <1>3, <1>5, <2>1
    <3> QED
      BY <3>1 DEF ToSet
  <2>2. CASE ~(i <= Len(shown))
    <3>1. i - Len(shown) \in 1..Len(N) /\ G[i] = N[i - Len(shown)]
      BY <1>3, <1>5, <2>2
    <3>2. PICK k \in I : G[i] = data[k]
      BY <1>1, <3>1
    <3> QED
      BY <1>0, <3>2 DEF ToSet
  <2> QED
    BY <2>1, <2>2
<1>7. ASSUME NEW k \in DOMAIN shown
      PROVE  \E i \in 1..Len(G) : G[i] = shown[k]
  <2>1. k \in 1..Len(G) /\ k <= Len(shown)
    BY <1>3, <1>5
  <2> QED
    BY <1>5, <2>1
<1>8. ASSUME NEW k \in DOMAIN data, data[k] \notin ToSet(shown)
      PROVE  \E i \in 1..Len(G) : G[i] = data[k]
  <2>1. k \in I
    BY <1>0, <1>8
  <2>2. PICK n \in 1..Len(N) : N[n] = data[k]
    BY <1>1, <2>1
  <2>3. n + Len(shown) \in 1..Len(G) /\ ~(n + Len(shown) <= Len(shown)) /\ (n + Len(shown)) - Len(shown) = n
    BY <1>3, <1>5
  <2>4. G[n + Len(shown)] = N[n]
    BY <1>5, <2>3
  <2> QED
    BY <2>2, <2>3, <2>4
<1>9. ToSet(G) = ToSet(shown) \cup ToSet(data)
  <2>1. DOMAIN G = 1..Len(G)
    BY <1>5
  <2>2. \A x \in ToSet(G) : x \in ToSet(shown) \cup ToSet(data)
    BY <1>6, <2>1 DEF ToSet
  <2>3. \A x \in ToSet(shown) : x \in ToSet(G)
    BY <1>7, <2>1 DEF ToSet
  <2>4. \A x \in ToSet(data) : x \in ToSet(shown) \/ x \in ToSet(G)
    <3> TAKE x \in ToSet(data)
    <3>1. PICK k \in DOMAIN data : data[k] = x
      BY DEF ToSet
    <3>2. x \notin ToSet(shown) => \E i \in 1..Len(G) : G[i] = x
      BY <1>8, <3>1
    <3> QED
      BY <2>1, <3>2 DEF ToSet
  <2> QED
    BY <2>2, <2>3, <2>4
<1> QED
  BY <1>3, <1>4, <1>5, <1>9 DEF G

\* New rows that are older than those shown keep the list in order.
LEMMA MergedDescends ==
    ASSUME NEW shown \in Seq(Int), NEW data \in Seq(Int), Descending(shown), Descending(data),
           \A r \in ToSet(shown), d \in ToSet(data) : d \notin ToSet(shown) => r > d
    PROVE  Descending(Merged(shown, data))
<1>0. PICK I \in SUBSET DOMAIN data : I = {i \in DOMAIN data : data[i] \notin ToSet(shown)}
  OBVIOUS
<1> DEFINE N == Picked(data, I)
           G == Merged(shown, data)
<1>1. /\ N \in Seq(Int)
      /\ \A n \in 1..Len(N) : \E i \in I : N[n] = data[i]
      /\ \A m, n \in 1..Len(N) : m < n => \E i, j \in I : i < j /\ N[m] = data[i] /\ N[n] = data[j]
  BY PickedLists
<1>2. G = shown \o N
  BY <1>0 DEF Merged
<1> HIDE DEF N
<1>3. Len(shown) \in Nat /\ Len(data) \in Nat /\ Len(N) \in Nat
  BY <1>1
<1>5. /\ Len(G) = Len(shown) + Len(N)
      /\ \A i \in 1..Len(G) : G[i] = IF i <= Len(shown) THEN shown[i] ELSE N[i - Len(shown)]
  <2>1. Len(shown \o N) = Len(shown) + Len(N)
    BY <1>1
  <2>2. \A i \in 1..(Len(shown) + Len(N)) :
           (shown \o N)[i] = IF i <= Len(shown) THEN shown[i] ELSE N[i - Len(shown)]
    BY <1>1
  <2> QED
    BY <1>2, <2>1, <2>2
<1> HIDE DEF G
<1>6. ASSUME NEW m \in 1..Len(N), NEW n \in 1..Len(N), m < n
      PROVE  N[m] > N[n]
  <2>1. PICK i \in I, j \in I : i < j /\ N[m] = data[i] /\ N[n] = data[j]
    BY <1>1, <1>6
  <2>2. i \in 1..Len(data) /\ j \in 1..Len(data)
    OBVIOUS
  <2> QED
    BY <2>1, <2>2 DEF Descending
<1>7. ASSUME NEW i \in 1..Len(G), NEW j \in 1..Len(G), i < j
      PROVE  G[i] > G[j]
  <2>1. CASE j <= Len(shown)
    <3>1. i \in 1..Len(shown) /\ j \in 1..Len(shown) /\ G[i] = shown[i] /\ G[j] = shown[j]
      BY <1>3, <1>5, <1>7, <2>1
    <3> QED
      BY <1>7, <3>1 DEF Descending
  <2>2. CASE ~(j <= Len(shown)) /\ i <= Len(shown)
    <3>1. i \in DOMAIN shown /\ j - Len(shown) \in 1..Len(N) /\ G[i] = shown[i] /\ G[j] = N[j - Len(shown)]
      BY <1>3, <1>5, <2>2
    <3>2. PICK k \in I : G[j] = data[k]
      BY <1>1, <3>1
    <3>3. G[i] \in ToSet(shown) /\ G[j] \in ToSet(data) /\ G[j] \notin ToSet(shown)
      BY <1>0, <3>1, <3>2 DEF ToSet
    <3> QED
      BY <3>3
  <2>3. CASE ~(j <= Len(shown)) /\ ~(i <= Len(shown))
    <3>1. /\ i - Len(shown) \in 1..Len(N) /\ j - Len(shown) \in 1..Len(N) /\ i - Len(shown) < j - Len(shown)
          /\ G[i] = N[i - Len(shown)] /\ G[j] = N[j - Len(shown)]
      BY <1>3, <1>5, <1>7, <2>3
    <3> QED
      BY <1>6, <3>1
  <2> QED
    BY <2>1, <2>2, <2>3
<1> QED
  BY <1>7 DEF Descending, G

\* A page with an offset adds no message that arrived after the first page,
\* and leaves no gap.
LEMMA NextPage ==
    ASSUME NEW q, NEW blocked, NEW n \in Nat, NEW k \in Nat, NEW count \in Nat, NEW offset \in Nat,
           FirstStored <= n, n <= k, k <= count, count <= LastMessage, offset >= SearchPage,
           NEW shown \in Seq(Int), NEW data \in Seq(Int), data = PageAt(Hits(q, k, blocked), offset),
           TopOf(Hits(q, n, blocked), shown),
           SkipsShown(Hits(q, n, blocked), shown, offset, Hits(q, k, blocked)),
           NEW next \in Nat, next <= offset + Len(data)
    PROVE  /\ TopOf(Hits(q, n, blocked), Merged(shown, data))
           /\ SkipsShown(Hits(q, n, blocked), Merged(shown, data), next, Hits(q, count, blocked))
<1> DEFINE few  == Hits(q, n, blocked)
           hits == Hits(q, k, blocked)
           all  == Hits(q, count, blocked)
           F == ToSet(shown)
           D == ToSet(data)
           G == Merged(shown, data)
<1>1. /\ hits \in SUBSET Int /\ IsFiniteSet(hits) /\ all \in SUBSET Int /\ IsFiniteSet(all)
      /\ few \in SUBSET Int /\ few \subseteq hits /\ hits \subseteq all
      /\ \A m \in hits : m \in Int /\ (m <= n => m \in few)
  BY HitsFinite, HitsGrow
<1>2. Descending(data) /\ D = RowsAt(hits, offset) /\ D \subseteq hits /\ Len(data) \in Nat
  BY <1>1, PageLists
<1>3. \A m \in hits : /\ Newer(m, hits) \in Nat /\ Newer(m, all) \in Nat /\ Newer(m, hits) <= Newer(m, all)
  BY <1>1, NewerCounts
<1>4. k - n <= SearchPage /\ SearchPage \in Nat
  BY SearchAssumption, ArrivalsAssumption
<1>5. D \subseteq few
  <2> SUFFICES ASSUME NEW d \in D PROVE d <= n
    BY <1>1, <1>2
  <2>1. d \in hits /\ Newer(d, hits) \in offset..(offset + SearchPage - 1) /\ d \in Int
    BY <1>1, <1>2 DEF RowsAt
  <2>2. d > n => Newer(d, hits) < k - n
    BY <2>1, ArrivedOnTop
  <2> QED
    BY <1>3, <1>4, <2>1, <2>2
<1>6. \A m \in few : Newer(m, hits) < offset => m \in F
  BY DEF SkipsShown
<1>7. Descending(shown) /\ F \subseteq few /\ \A m \in few : \A r \in F : m > r => m \in F
  BY DEF TopOf
<1>8. ToSet(G) = F \cup D
  BY MergedLists
<1>9. ASSUME NEW m \in few, Newer(m, hits) < offset + Len(data) \/ \E d \in D : m > d
      PROVE  m \in F \cup D
  <2>1. m \in hits
    BY <1>1
  <2>2. Newer(m, hits) < offset \/ m \in D
    BY <1>1, <1>9, <2>1, PageReaches
  <2> QED
    BY <1>6, <2>2
<1>10. Descending(G)
  <2>1. \A r \in F, d \in D : d \notin F => r > d
    <3> SUFFICES ASSUME NEW r \in F, NEW d \in D, d \notin F PROVE r > d
      OBVIOUS
    <3>1. r \in few /\ d \in few /\ r \in Int /\ d \in Int /\ ~(d > r) /\ d # r
      BY <1>1, <1>5, <1>7
    <3> QED
      BY <3>1
  <2> QED
    BY <1>2, <1>7, <2>1, MergedDescends
<1>11. \A m \in few : \A r \in F \cup D : m > r => m \in F \cup D
  BY <1>7, <1>9
<1>12. \A m \in few : Newer(m, all) < next => m \in F \cup D
  <2> SUFFICES ASSUME NEW m \in few, Newer(m, all) < next PROVE m \in F \cup D
    OBVIOUS
  <2>1. Newer(m, hits) < offset + Len(data)
    BY <1>1, <1>2, <1>3
  <2> QED
    BY <1>9, <2>1
<1> HIDE DEF few, hits, all, F, D, G
<1>13. TopOf(few, G)
  BY <1>5, <1>7, <1>8, <1>10, <1>11 DEF TopOf
<1>14. SkipsShown(few, G, next, all)
  BY <1>8, <1>12 DEF SkipsShown
<1> QED
  BY <1>13, <1>14 DEF few, all, G

-----------------------------------------------------------------------------
(* Search and mentions: requests                                            *)

(* Requests.                                                                *)
LEMMA AbortTyped ==
    ASSUME NEW p \in PageRequests, NEW r, r = [p EXCEPT !.aborted = TRUE, !.served = FALSE, !.data = <<>>]
    PROVE  /\ r \in PageRequests /\ r.id = p.id /\ r.list = p.list /\ r.offset = p.offset
           /\ r.aborted = TRUE /\ r.served = FALSE /\ r.data = <<>>
<1>1. <<>> \in Seq(1..LastMessage)
  OBVIOUS
<1> QED
  BY <1>1 DEF PageRequests

LEMMA ServeTyped ==
    ASSUME NEW p \in PageRequests, NEW d \in Seq(1..LastMessage),
           NEW r, r = [p EXCEPT !.served = TRUE, !.data = d]
    PROVE  /\ r \in PageRequests /\ r.id = p.id /\ r.list = p.list /\ r.query = p.query
           /\ r.offset = p.offset /\ r.more = p.more /\ r.aborted = p.aborted /\ r.served = TRUE /\ r.data = d
BY DEF PageRequests

PagesOK ==
    /\ pages \subseteq PageRequests /\ newest \in [Lists -> Nat] /\ OneInFlight /\ DataBounded
    /\ messageCount \in Nat /\ messageCount <= LastMessage

\* What an abort leaves: every request under its list and number, none more in
\* flight than before.
LEMMA AbortingPages ==
    ASSUME PagesOK, NEW ps \in SUBSET pages
    PROVE  /\ Aborting(ps) \subseteq PageRequests
           /\ \A p \in Aborting(ps) : \/ p \in pages /\ p \notin ps
                                      \/ p.aborted /\ ~p.served /\ p.data = <<>>
           /\ \A o \in pages : \E p \in Aborting(ps) : p.list = o.list /\ p.id = o.id
<1> DEFINE A(p) == [p EXCEPT !.aborted = TRUE, !.served = FALSE, !.data = <<>>]
<1>1. \A p \in pages : p \in PageRequests
  BY DEF PagesOK
<1>2. \A p \in pages : /\ A(p) \in PageRequests /\ A(p).list = p.list /\ A(p).id = p.id
                       /\ A(p).aborted /\ ~A(p).served /\ A(p).data = <<>>
  BY <1>1, AbortTyped
<1>3. Aborting(ps) = (pages \ ps) \cup {A(p) : p \in ps}
  BY DEF Aborting
<1> HIDE DEF A
<1> QED
  BY <1>1, <1>2, <1>3

LEMMA AbortedPages ==
    ASSUME PagesOK, NEW ps \in SUBSET pages, pages' = Aborting(ps), UNCHANGED <<newest, messageCount>>
    PROVE  /\ PagesOK'
           /\ \A l \in Lists : InFlight(l)' \subseteq InFlight(l)
           /\ \A l \in Lists : (\A p \in InFlight(l) : p \in ps) => InFlight(l)' = {}
           /\ \A o \in pages : \E p \in pages' : p.list = o.list /\ p.id = o.id
<1>1. /\ pages' \subseteq PageRequests
      /\ \A p \in pages' : \/ p \in pages /\ p \notin ps
                           \/ p.aborted /\ ~p.served /\ p.data = <<>>
      /\ \A o \in pages : \E p \in pages' : p.list = o.list /\ p.id = o.id
  BY AbortingPages
<1>2. \A l : \A p \in InFlight(l)' : p \in InFlight(l) /\ p \notin ps
  BY <1>1 DEF InFlight
<1>3. OneInFlight'
  BY <1>2 DEF PagesOK, OneInFlight
<1>4. DataBounded'
  <2>1. ToSet(<<>>) = {}
    BY DEF ToSet
  <2> QED
    BY <1>1, <2>1 DEF PagesOK, DataBounded
<1> QED
  BY <1>1, <1>2, <1>3, <1>4 DEF PagesOK

LEMMA RequestTyped ==
    ASSUME PagesOK, NEW l \in Lists, NEW q \in Queries \cup {NoQuery, Mentioned}, NEW offset \in Nat,
           NEW more \in BOOLEAN
    PROVE  Request(l, q, offset, more) \in PageRequests
<1>1. newest[l] + 1 \in Nat
  BY DEF PagesOK
<1>2. <<>> \in Seq(1..LastMessage)
  OBVIOUS
<1> QED
  BY <1>1, <1>2 DEF PageRequests, Request

\* Asking: the new request is the one in flight of its list.
LEMMA AskedPages ==
    ASSUME PagesOK, NEW r \in PageRequests, NEW l \in Lists, r.list = l, r.id = newest[l] + 1,
           r.aborted = FALSE, r.served = FALSE, r.data = <<>>,
           NEW ps \in SUBSET pages, ps = {p \in pages : p.list = l},
           pages' = Aborting(ps) \cup {r}, newest' = [newest EXCEPT ![l] = r.id], messageCount' = messageCount
    PROVE  /\ PagesOK'
           /\ \A k \in Lists \ {l} : InFlight(k)' = InFlight(k) /\ newest'[k] = newest[k]
           /\ \A p \in InFlight(l)' : p = r
           /\ \A o \in pages : \E p \in pages' : p.list = o.list /\ p.id = o.id
           /\ \E p \in pages' : p.list = l /\ p.id = newest'[l]
<1>2. /\ r \in PageRequests /\ r.id = newest[l] + 1 /\ r.list = l
      /\ ~r.aborted /\ ~r.served /\ r.data = <<>>
  OBVIOUS
<1>4. /\ pages' = Aborting(ps) \cup {r}
      /\ newest' = [newest EXCEPT ![l] = newest[l] + 1]
  BY <1>2
<1>5. /\ Aborting(ps) \subseteq PageRequests
      /\ \A p \in Aborting(ps) : \/ p \in pages /\ p \notin ps
                                 \/ p.aborted /\ ~p.served /\ p.data = <<>>
      /\ \A o \in pages : \E p \in Aborting(ps) : p.list = o.list /\ p.id = o.id
  BY AbortingPages
<1>6. \A k : \A p \in InFlight(k)' : IF k = l THEN p = r ELSE p \in InFlight(k)
  BY <1>2, <1>4, <1>5 DEF InFlight
<1>7. \A k \in Lists \ {l} : \A p \in InFlight(k) : p \in InFlight(k)'
  BY <1>4 DEF InFlight, Aborting
<1>8. newest' \in [Lists -> Nat] /\ newest'[l] = r.id /\ \A k \in Lists \ {l} : newest'[k] = newest[k]
  BY <1>2, <1>4 DEF PagesOK
<1>9. OneInFlight'
  BY <1>6 DEF PagesOK, OneInFlight
<1>10. DataBounded'
  <2>1. ToSet(<<>>) = {}
    BY DEF ToSet
  <2> QED
    BY <1>2, <1>4, <1>5, <2>1 DEF PagesOK, DataBounded
<1>11. pages' \subseteq PageRequests
  BY <1>2, <1>4, <1>5
<1>12. PagesOK'
  BY <1>8, <1>9, <1>10, <1>11 DEF PagesOK
<1>13. \A o \in pages : \E p \in pages' : p.list = o.list /\ p.id = o.id
  BY <1>4, <1>5
<1>14. \E p \in pages' : p.list = l /\ p.id = newest'[l]
  BY <1>2, <1>4, <1>8
<1> QED
  BY <1>2, <1>6, <1>7, <1>8, <1>12, <1>13, <1>14

LEMMA EndedPages ==
    ASSUME PagesOK, NEW p \in pages, pages' = pages \ {p}, UNCHANGED <<newest, messageCount>>
    PROVE  /\ PagesOK'
           /\ \A l \in Lists : InFlight(l)' = InFlight(l) \ {p}
<1>1. \A l : InFlight(l)' = InFlight(l) \ {p}
  BY DEF InFlight
<1>2. OneInFlight'
  BY <1>1 DEF PagesOK, OneInFlight
<1>3. DataBounded'
  BY DEF PagesOK, DataBounded
<1> QED
  BY <1>1, <1>2, <1>3 DEF PagesOK

\* Serving: the data is a page of what the server holds.
LEMMA ServedPages ==
    ASSUME PagesOK, NEW p \in pages, PageServed(p)
    PROVE  /\ PagesOK'
           /\ \A l \in Lists : \A r \in InFlight(l)' :
                 \/ r \in InFlight(l)
                 \/ \E o \in InFlight(l) :
                       /\ r.query = o.query /\ r.offset = o.offset /\ r.more = o.more
                       /\ r.data = PageAt(Hits(o.query, messageCount, hidden), o.offset)
           /\ \A o \in pages : \E r \in pages' : r.list = o.list /\ r.id = o.id
<1>1. PICK hits : hits = Hits(p.query, messageCount, hidden)
  OBVIOUS
<1>2. PICK d : d = PageAt(hits, p.offset)
  OBVIOUS
<1>3. p \in PageRequests /\ p.offset \in Nat /\ messageCount \in Nat /\ LastMessage \in Nat
      /\ messageCount <= LastMessage
  BY SearchAssumption DEF PagesOK, PageRequests
<1>4. hits \in SUBSET (1..messageCount) /\ hits \in SUBSET Int /\ IsFiniteSet(hits)
  BY <1>1, <1>3, HitsFinite
<1>5. d \in Seq(hits) /\ ToSet(d) \subseteq hits
  BY <1>2, <1>3, <1>4, PageLists
<1>6. d # <<>> => p.offset + Len(d) <= messageCount
  BY <1>2, <1>3, <1>4, PageFits
<1>7. d \in Seq(1..LastMessage)
  <2>1. hits \subseteq 1..LastMessage
    BY <1>3, <1>4
  <2> QED
    BY <1>5, <2>1, SeqOfMore
<1> DEFINE r == [p EXCEPT !.served = TRUE, !.data = d]
<1>9. /\ r \in PageRequests /\ r.id = p.id /\ r.list = p.list /\ r.query = p.query
      /\ r.offset = p.offset /\ r.more = p.more /\ r.aborted = p.aborted /\ r.served = TRUE /\ r.data = d
  BY <1>3, <1>7, ServeTyped
<1>10. /\ pages' = (pages \ {p}) \cup {r} /\ ~p.aborted /\ UNCHANGED <<newest, messageCount>>
  BY <1>1, <1>2 DEF PageServed, Page, storeVars
<1> HIDE DEF r
<1>11. \A l : InFlight(l)' = IF p.list = l THEN (InFlight(l) \ {p}) \cup {r} ELSE InFlight(l)
  BY <1>9, <1>10 DEF InFlight
<1>12. \A l : p.list = l => p \in InFlight(l)
  BY <1>10 DEF InFlight
<1>13. OneInFlight'
  BY <1>11, <1>12 DEF PagesOK, OneInFlight
<1>14. DataBounded'
  <2>1. ToSet(d) \subseteq 1..messageCount /\ (d # <<>> => p.offset + Len(d) <= LastMessage)
    <3>1. Len(d) \in Nat
      BY <1>5
    <3> QED
      <4>1. ToSet(d) \subseteq 1..messageCount
        BY <1>4, <1>5
      <4>2. d # <<>> => p.offset + Len(d) <= LastMessage
        BY <1>3, <1>6, <3>1
      <4> QED
        BY <4>1, <4>2
  <2> QED
    BY <1>9, <1>10, <2>1 DEF PagesOK, DataBounded
<1>15. pages' \subseteq PageRequests
  BY <1>9, <1>10 DEF PagesOK
<1>16. PagesOK'
  BY <1>10, <1>13, <1>14, <1>15 DEF PagesOK
<1>17. \A o \in pages : \E s \in pages' : s.list = o.list /\ s.id = o.id
  BY <1>9, <1>10
<1> QED
  BY <1>1, <1>2, <1>9, <1>11, <1>12, <1>16, <1>17

-----------------------------------------------------------------------------
(* Search and mentions: a list is a run of what is stored                   *)

(* A list and the requests that are due for it.                             *)

\* How a request in flight relates to those of the step before: it is one of
\* them, one of them served, or new.
Continues(p, due, q, offset, count, blocked) ==
    \/ p \in due
    \/ \E o \in due : /\ p.query = o.query /\ p.offset = o.offset /\ p.more = o.more
                      /\ p.data = PageAt(Hits(o.query, count, blocked), o.offset)
    \/ p.query = q /\ ~p.served /\ p.offset = (IF p.more THEN offset ELSE 0) /\ (p.more => offset >= SearchPage)

LEMMA SkipsStay ==
    ASSUME NEW q, NEW blocked, NEW n \in Nat, NEW k \in Nat, NEW count \in Nat, n <= k, k <= count,
           NEW shown, NEW offset \in Nat,
           SkipsShown(Hits(q, n, blocked), shown, offset, Hits(q, k, blocked))
    PROVE  SkipsShown(Hits(q, n, blocked), shown, offset, Hits(q, count, blocked))
<1>1. /\ Hits(q, n, blocked) \subseteq Hits(q, k, blocked) /\ Hits(q, k, blocked) \in SUBSET Hits(q, count, blocked)
      /\ Hits(q, count, blocked) \in SUBSET Int /\ IsFiniteSet(Hits(q, count, blocked))
      /\ Hits(q, k, blocked) \in SUBSET Int /\ IsFiniteSet(Hits(q, k, blocked))
  BY HitsFinite, HitsGrow
<1>2. ASSUME NEW m \in Hits(q, n, blocked)
      PROVE  Newer(m, Hits(q, count, blocked)) < offset => Newer(m, Hits(q, k, blocked)) < offset
  <2>1. m \in Int
    BY <1>1
  <2>2. /\ Newer(m, Hits(q, k, blocked)) \in Nat /\ Newer(m, Hits(q, count, blocked)) \in Nat
        /\ Newer(m, Hits(q, k, blocked)) <= Newer(m, Hits(q, count, blocked))
    BY <1>1, <2>1, NewerCounts
  <2> QED
    BY <2>2
<1> QED
  BY <1>2 DEF SkipsShown

LEMMA ListFollows ==
    ASSUME NEW due, NEW after, NEW q, NEW blocked, NEW shown, NEW offset \in Nat,
           NEW count \in Nat, NEW later \in Nat, count <= later,
           ListSound(due, q, shown, offset, count, blocked),
           \A p \in after : Continues(p, due, q, offset, count, blocked)
    PROVE  ListSound(after, q, shown, offset, later, blocked)
<1>0. FirstStored \in Nat
  BY SearchAssumption
<1>1. PICK n \in FirstStored..count :
         /\ TopOf(Hits(q, n, blocked), shown)
         /\ SkipsShown(Hits(q, n, blocked), shown, offset, Hits(q, count, blocked))
         /\ \A p \in due : PageDue(p, q, shown, offset, n, count, blocked)
  BY DEF ListSound
<1>2. n \in Nat /\ n \in FirstStored..later /\ n <= count /\ count \in n..later
  BY <1>0
<1>3. SkipsShown(Hits(q, n, blocked), shown, offset, Hits(q, later, blocked))
  BY <1>1, <1>2, SkipsStay
<1>4. ASSUME NEW p \in after
      PROVE  PageDue(p, q, shown, offset, n, later, blocked)
  <2>1. CASE p \in due
    <3>1. PageDue(p, q, shown, offset, n, count, blocked)
      BY <1>1, <2>1
    <3>2. \A k \in n..count : k \in n..later
      BY <1>2
    <3> QED
      BY <3>1, <3>2 DEF PageDue
  <2>2. ASSUME NEW o \in due, p.query = o.query, p.offset = o.offset, p.more = o.more,
               p.data = PageAt(Hits(o.query, count, blocked), o.offset)
        PROVE  PageDue(p, q, shown, offset, n, later, blocked)
    <3>1. o.query = q /\ o.offset = (IF o.more THEN offset ELSE 0) /\ (o.more => offset >= SearchPage)
      BY <1>1 DEF PageDue
    <3>2. p.data = PageAt(Hits(q, count, blocked), p.offset)
      BY <2>2, <3>1
    <3> QED
      BY <1>1, <1>2, <2>2, <3>1, <3>2 DEF PageDue
  <2>3. CASE p.query = q /\ ~p.served /\ p.offset = (IF p.more THEN offset ELSE 0) /\ (p.more => offset >= SearchPage)
    BY <2>3 DEF PageDue
  <2> QED
    BY <1>4, <2>1, <2>2, <2>3 DEF Continues
<1> QED
  BY <1>1, <1>2, <1>3, <1>4 DEF ListSound

LEMMA ListReset ==
    ASSUME NEW after, NEW q, NEW blocked, NEW count \in Nat, FirstStored <= count,
           \A p \in after : p.query = q /\ ~p.served /\ p.offset = 0 /\ ~p.more
    PROVE  ListSound(after, q, <<>>, 0, count, blocked)
<1>1. FirstStored \in Nat /\ FirstStored \in FirstStored..count
  BY SearchAssumption
<1>2. Len(<<>>) = 0 /\ ToSet(<<>>) = {}
  BY DEF ToSet
<1>3. TopOf(Hits(q, FirstStored, blocked), <<>>)
  BY <1>2 DEF TopOf, Descending
<1>4. SkipsShown(Hits(q, FirstStored, blocked), <<>>, 0, Hits(q, count, blocked))
  <2>1. Hits(q, count, blocked) \in SUBSET Int /\ IsFiniteSet(Hits(q, count, blocked))
        /\ Hits(q, FirstStored, blocked) \subseteq Hits(q, count, blocked)
    BY <1>1, HitsFinite, HitsGrow
  <2>2. \A m \in Hits(q, FirstStored, blocked) : Newer(m, Hits(q, count, blocked)) \in Nat
    BY <2>1, NewerCounts
  <2> QED
    BY <2>2 DEF SkipsShown
<1>5. \A p \in after : PageDue(p, q, <<>>, 0, FirstStored, count, blocked)
  BY DEF PageDue
<1> QED
  BY <1>1, <1>3, <1>4, <1>5 DEF ListSound

\* The page that was due is there.
LEMMA ListTurns ==
    ASSUME NEW due, NEW q, NEW blocked, NEW shown \in Seq(Int), NEW offset \in Nat,
           NEW count \in Nat, count <= LastMessage,
           ListSound(due, q, shown, offset, count, blocked),
           NEW p \in due, p.served, p.data \in Seq(Int), NEW next \in Nat,
           next <= (IF p.more THEN offset + Len(p.data) ELSE Len(p.data))
    PROVE  ListSound({}, q, IF p.more THEN Merged(shown, p.data) ELSE p.data, next, count, blocked)
<1>0. FirstStored \in Nat
  BY SearchAssumption
<1>1. PICK n \in FirstStored..count :
         /\ TopOf(Hits(q, n, blocked), shown)
         /\ PageDue(p, q, shown, offset, n, count, blocked)
  BY DEF ListSound
<1>2. PICK k \in n..count :
         /\ p.data = PageAt(Hits(q, k, blocked), p.offset)
         /\ SkipsShown(Hits(q, n, blocked), shown, offset, Hits(q, k, blocked))
  BY <1>1 DEF PageDue
<1>3. /\ n \in Nat /\ k \in Nat /\ n <= k /\ k <= count /\ FirstStored <= n /\ k \in FirstStored..count
  BY <1>0
<1>4. CASE p.more
  <2>1. p.offset = offset /\ offset >= SearchPage /\ next <= offset + Len(p.data)
    BY <1>1, <1>4 DEF PageDue
  <2>2. /\ TopOf(Hits(q, n, blocked), Merged(shown, p.data))
        /\ SkipsShown(Hits(q, n, blocked), Merged(shown, p.data), next, Hits(q, count, blocked))
    BY <1>1, <1>2, <1>3, <2>1, NextPage
  <2> QED
    BY <1>4, <2>2 DEF ListSound
<1>5. CASE ~p.more
  <2>1. p.offset = 0 /\ next <= Len(p.data)
    BY <1>1, <1>5 DEF PageDue
  <2>2. /\ Hits(q, k, blocked) \in SUBSET Hits(q, count, blocked)
        /\ Hits(q, count, blocked) \in SUBSET Int /\ IsFiniteSet(Hits(q, count, blocked))
    BY <1>3, HitsFinite, HitsGrow
  <2>3. /\ TopOf(Hits(q, k, blocked), p.data)
        /\ SkipsShown(Hits(q, k, blocked), p.data, Len(p.data), Hits(q, count, blocked))
    BY <1>2, <2>1, <2>2, FirstPage
  <2>4. SkipsShown(Hits(q, k, blocked), p.data, next, Hits(q, count, blocked))
    <3>1. \A m \in Hits(q, k, blocked) : Newer(m, Hits(q, count, blocked)) \in Nat
      BY <2>2, NewerCounts
    <3>2. Len(p.data) \in Nat
      OBVIOUS
    <3>3. \A m \in Hits(q, k, blocked) :
             Newer(m, Hits(q, count, blocked)) < next => Newer(m, Hits(q, count, blocked)) < Len(p.data)
      BY <2>1, <3>1, <3>2
    <3> QED
      BY <2>3, <3>3 DEF SkipsShown
  <2> QED
    BY <1>3, <1>5, <2>3, <2>4 DEF ListSound
<1> QED
  BY <1>4, <1>5

\* A list that is the top of the hits is a run of them.
LEMMA TopIsRun ==
    ASSUME NEW due, NEW q \in Queries \cup {Mentioned}, NEW shown \in Seq(Int), NEW offset, NEW count \in Nat, NEW blocked,
           ListSound(due, q, shown, offset, count, blocked)
    PROVE  RunOf(shown, q, blocked)
<1>0. FirstStored \in Nat
  BY SearchAssumption
<1>1. PICK n \in FirstStored..count : TopOf(Hits(q, n, blocked), shown)
  BY DEF ListSound
<1>2. /\ Descending(shown) /\ ToSet(shown) \subseteq Hits(q, n, blocked) /\ Len(shown) \in Nat
      /\ \A m \in Hits(q, n, blocked) : \A r \in ToSet(shown) : m > r => m \in ToSet(shown)
  BY <1>1 DEF TopOf
<1>3. \A i \in 1..(Len(shown) - 1) : shown[i] > shown[i + 1]
  <2> TAKE i \in 1..(Len(shown) - 1)
  <2>1. i \in 1..Len(shown) /\ i + 1 \in 1..Len(shown) /\ i < i + 1
    BY <1>2
  <2> QED
    BY <1>2, <2>1 DEF Descending
<1>4. ToSet(shown) \subseteq Matches[q]
  BY <1>2 DEF Hits
<1>5. ASSUME NEW m \in Matches[q] \ blocked, NEW i \in 1..Len(shown), NEW j \in 1..Len(shown),
             shown[i] > m, m > shown[j]
      PROVE  m \in ToSet(shown)
  <2>1. shown[i] \in ToSet(shown) /\ shown[j] \in ToSet(shown)
    BY DEF ToSet
  <2>2. shown[i] \in 1..n /\ shown[j] \in 1..n
    BY <1>2, <2>1 DEF Hits
  <2>3. m \in Nat /\ n \in Nat
    BY <1>0, SearchAssumption
  <2>4. m \in Hits(q, n, blocked)
    BY <1>5, <2>2, <2>3 DEF Hits
  <2> QED
    BY <1>2, <1>5, <2>1, <2>4
<1> QED
  BY <1>3, <1>4, <1>5 DEF RunOf

-----------------------------------------------------------------------------
(* Search and mentions: the state they start in                             *)

LEMMA SearchFacts ==
    ASSUME SearchInv
    PROVE  /\ PagesOK /\ FirstStored <= messageCount /\ foundOffset \in Nat
           /\ found \in Seq(Int) /\ mentionRows \in Seq(Int) /\ Len(mentionRows) \in Nat
           /\ debounced \in Queries \cup {NoQuery}
           /\ "search" \in Lists /\ "mentions" \in Lists /\ SearchPage \in Nat \ {0} /\ LastMessage \in Nat
<1>1. messageCount \in Nat /\ messageCount <= LastMessage /\ foundOffset \in Nat /\ LastMessage \in Nat
  BY SearchAssumption DEF SearchInv, SearchShapes, SearchTypeOK
<1>2. 1..LastMessage \subseteq Int
  OBVIOUS
<1>3. found \in Seq(Int) /\ mentionRows \in Seq(Int)
  BY <1>2, SeqOfMore DEF SearchInv, SearchShapes
<1> QED
  BY <1>1, <1>3, SearchAssumption DEF SearchInv, SearchShapes, SearchTypeOK, PagesOK, Lists

(* The parts of the invariant that a step may leave as they are.            *)
LEMMA SearchListKept ==
    ASSUME SearchInv, UNCHANGED <<debounced, found, foundOffset, hidden>>, learned' => learned,
           messageCount' \in Nat, messageCount <= messageCount',
           \A p \in InFlight("search")' :
              Continues(p, InFlight("search"), debounced, foundOffset, messageCount, hidden)
    PROVE  SearchSound'
<1>1. messageCount \in Nat /\ foundOffset \in Nat
  BY SearchFacts DEF PagesOK
<1>2. PICK due, after : due = InFlight("search") /\ after = InFlight("search")'
  OBVIOUS
<1>3. learned' /\ debounced' # NoQuery => ListSound(due, debounced, found, foundOffset, messageCount, hidden)
  BY <1>2 DEF SearchInv, SearchSound
<1>4. learned' /\ debounced' # NoQuery => ListSound(after, debounced, found, foundOffset, messageCount', hidden)
  BY <1>1, <1>2, <1>3, ListFollows
<1> QED
  BY <1>2, <1>4 DEF SearchSound

LEMMA MentionListKept ==
    ASSUME SearchInv, UNCHANGED <<mentionRows, hidden>>,
           messageCount' \in Nat, messageCount <= messageCount',
           \A p \in InFlight("mentions")' :
              Continues(p, InFlight("mentions"), Mentioned, Len(mentionRows), messageCount, hidden)
    PROVE  MentionsSound'
<1>1. messageCount \in Nat /\ Len(mentionRows) \in Nat
  BY SearchFacts DEF PagesOK
<1>2. PICK due, after : due = InFlight("mentions") /\ after = InFlight("mentions")'
  OBVIOUS
<1>3. hidden' = {} => ListSound(due, Mentioned, mentionRows, Len(mentionRows), messageCount, hidden)
  BY <1>2 DEF SearchInv, MentionsSound
<1>4. hidden' = {} => ListSound(after, Mentioned, mentionRows, Len(mentionRows), messageCount', hidden)
  BY <1>1, <1>2, <1>3, ListFollows
<1> QED
  BY <1>2, <1>4 DEF MentionsSound

LEMMA SpinnersKept ==
    ASSUME SearchInv, UNCHANGED newest, searchBusy' => searchBusy,
           mentionsOpen' /\ mentionsLoading' => mentionsOpen /\ mentionsLoading,
           \A o \in pages : \E p \in pages' : p.list = o.list /\ p.id = o.id
    PROVE  SearchLoadingEnds'
BY DEF SearchInv, SearchLoadingEnds

\* A step of the server, of the box or of the clock: requests stay in flight.
LEMMA RequestsKept ==
    ASSUME SearchInv, UNCHANGED <<pages, newest>>
    PROVE  /\ OneInFlight' /\ InFlight("search")' = InFlight("search") /\ InFlight("mentions")' = InFlight("mentions")
           /\ \A o \in pages : \E p \in pages' : p.list = o.list /\ p.id = o.id
BY DEF SearchInv, OneInFlight, InFlight

LEMMA DataKept ==
    ASSUME SearchInv, UNCHANGED pages, messageCount' \in Nat, messageCount <= messageCount'
    PROVE  DataBounded'
<1>1. 1..messageCount \subseteq 1..messageCount'
  BY SearchFacts DEF PagesOK
<1> QED
  BY <1>1 DEF SearchInv, DataBounded

LEMMA SearchStarts == ASSUME SearchInit PROVE SearchInv
<1>0. /\ SearchPage \in Nat \ {0} /\ FirstStored \in Nat /\ LastMessage \in Nat /\ FirstStored <= LastMessage
  BY SearchAssumption, ArrivalsAssumption
<1>1. <<>> \in Seq(1..LastMessage) /\ Len(<<>>) = 0 /\ ToSet(<<>>) = {}
  BY DEF ToSet
<1>2. pages = {} /\ newest = [l \in Lists |-> 0] /\ mentionRows = <<>> /\ found = <<>>
  BY DEF SearchInit
<1>3. InFlight("search") = {} /\ InFlight("mentions") = {} /\ OneInFlight
  BY <1>2 DEF InFlight, OneInFlight
<1>4. SearchTypeOK
  <2>1. query.text = NoQuery
    BY DEF SearchInit, Empty
  <2>2. ToSet(found) \cup ToSet(mentionRows) \subseteq 1..messageCount
    BY <1>1, <1>2
  <2>3. messageCount \in 0..LastMessage /\ heard \in 0..messageCount /\ foundOffset \in 0..LastMessage
    BY <1>0 DEF SearchInit
  <2>4. /\ searchBusy \in BOOLEAN /\ moreFound \in BOOLEAN /\ debouncing \in BOOLEAN /\ learned \in BOOLEAN
        /\ mentionsOpen \in BOOLEAN /\ named \in BOOLEAN /\ moreMentions \in BOOLEAN /\ mentionsLoading \in BOOLEAN
    BY DEF SearchInit
  <2>5. debounced \in Queries \cup {NoQuery}
    BY DEF SearchInit
  <2> QED
    BY <2>1, <2>2, <2>3, <2>4, <2>5 DEF SearchTypeOK
<1>5. SearchShapes
  BY <1>0, <1>1, <1>2, <1>4 DEF SearchInit, SearchShapes
<1>6. SearchLoadingEnds /\ DataBounded /\ OffsetsAhead /\ MoreAfterPage
  BY <1>2, <1>3 DEF SearchInit, SearchLoadingEnds, DataBounded, OffsetsAhead, MoreAfterPage
<1>7. SearchSound
  BY DEF SearchInit, SearchSound
<1>8. MentionsSound
  <2>1. ListSound({}, Mentioned, <<>>, 0, messageCount, hidden)
    BY <1>0, ListReset DEF SearchInit
  <2> QED
    BY <1>1, <1>2, <1>3, <2>1 DEF MentionsSound
<1> QED
  BY <1>3, <1>5, <1>6, <1>7, <1>8 DEF SearchInv

LEMMA StoreStep ==
    ASSUME SearchInv, MessageStored \/ (\E m : MessageHidden(m)) \/ (\E q \in Queries \cup {NoQuery}, blanks \in BOOLEAN : TypeQuery(q, blanks))
    PROVE  SearchInv'
<1>1. PagesOK /\ messageCount \in Nat /\ LastMessage \in Nat
  BY SearchFacts DEF PagesOK
<1>2. /\ UNCHANGED <<pages, newest, debounced, foundVars, mentionsVars>>
      /\ messageCount' \in Nat /\ messageCount <= messageCount' /\ messageCount' <= LastMessage
  BY <1>1 DEF MessageStored, MessageHidden, TypeQuery, boxVars, storeVars, PagesOK
<1>3. /\ OneInFlight' /\ InFlight("search")' = InFlight("search") /\ InFlight("mentions")' = InFlight("mentions")
      /\ \A o \in pages : \E p \in pages' : p.list = o.list /\ p.id = o.id
  BY <1>2, RequestsKept
<1>4. DataBounded'
  BY <1>2, DataKept
<1>5. SearchLoadingEnds'
  BY <1>2, <1>3, SpinnersKept DEF foundVars, mentionsVars
<1>6. OffsetsAhead' /\ MoreAfterPage'
  BY <1>2, <1>3 DEF SearchInv, OffsetsAhead, MoreAfterPage, foundVars, mentionsVars
<1>7. SearchShapes'
  <2>1. 1..messageCount \subseteq 1..messageCount' /\ 0..messageCount \subseteq 0..messageCount'
    BY <1>1, <1>2
  <2>2. heard' = heard /\ learned' \in BOOLEAN /\ debouncing' \in BOOLEAN
    BY DEF SearchInv, SearchShapes, SearchTypeOK, MessageStored, MessageHidden, TypeQuery, boxVars, storeVars
  <2>4. query'.text \in Queries \cup {NoQuery}
    <3>1. CASE query' = query
      BY <3>1 DEF SearchInv, SearchShapes, SearchTypeOK
    <3>2. CASE \E q \in Queries \cup {NoQuery}, blanks \in BOOLEAN : query' = [text |-> q, blanks |-> blanks]
      BY <3>2
    <3> QED
      BY <3>1, <3>2 DEF MessageStored, MessageHidden, TypeQuery, boxVars
  <2>3. SearchTypeOK'
    BY <1>1, <1>2, <2>1, <2>2, <2>4 DEF SearchInv, SearchShapes, SearchTypeOK, foundVars, mentionsVars
  <2> QED
    BY <1>1, <1>2, <2>3, SearchAssumption DEF SearchInv, SearchShapes, foundVars, mentionsVars
<1>8. CASE \E m : MessageHidden(m)
  <2>1. learned' = FALSE /\ hidden' # {}
    BY <1>8 DEF MessageHidden
  <2>2. SearchSound' /\ MentionsSound'
    BY <2>1 DEF SearchSound, MentionsSound
  <2> QED
    BY <1>3, <1>4, <1>5, <1>6, <1>7, <2>2 DEF SearchInv
<1>9. CASE UNCHANGED <<hidden, learned>>
  <2>1. SearchSound'
    BY <1>2, <1>3, <1>9, SearchListKept DEF Continues, foundVars
  <2>2. MentionsSound'
    BY <1>2, <1>3, <1>9, MentionListKept DEF Continues, mentionsVars
  <2> QED
    BY <1>3, <1>4, <1>5, <1>6, <1>7, <2>1, <2>2 DEF SearchInv
<1> QED
  BY <1>8, <1>9 DEF MessageStored, TypeQuery, storeVars

-----------------------------------------------------------------------------
(* Search and mentions: a search begins                                     *)

LEMMA ShapesBack ==
    ASSUME PagesOK', SearchTypeOK', FirstStored <= messageCount', found' \in Seq(1..LastMessage),
           mentionRows' \in Seq(1..LastMessage)
    PROVE  SearchShapes' /\ OneInFlight' /\ DataBounded'
BY DEF PagesOK, SearchShapes

LEMMA EmptyRows == <<>> \in Seq(1..LastMessage) /\ ToSet(<<>>) = {} /\ Len(<<>>) = 0
<1>1. <<>> \in Seq(1..LastMessage) /\ Len(<<>>) = 0
  OBVIOUS
<1>2. ToSet(<<>>) = {}
  BY DEF ToSet
<1> QED
  BY <1>1, <1>2

\* What a step of the search leaves to the mentions.
LEMMA MentionsBeside ==
    ASSUME SearchInv, UNCHANGED <<messageCount, hidden, mentionsVars>>, UNCHANGED newest["mentions"],
           InFlight("mentions")' \subseteq InFlight("mentions"),
           \A o \in pages : o.list = "mentions" => \E p \in pages' : p.list = o.list /\ p.id = o.id
    PROVE  /\ MentionsSound' /\ (moreMentions \/ (\E p \in InFlight("mentions") : p.more) => Len(mentionRows) >= SearchPage)'
           /\ (mentionsOpen /\ mentionsLoading => \E p \in pages : p.list = "mentions" /\ p.id = newest["mentions"])'
           /\ mentionRows' \in Seq(1..LastMessage) /\ ToSet(mentionRows') \subseteq 1..messageCount'
           /\ mentionsOpen' \in BOOLEAN /\ named' \in BOOLEAN /\ moreMentions' \in BOOLEAN /\ mentionsLoading' \in BOOLEAN
<1>1. MentionsSound'
  <2>1. messageCount' \in Nat /\ messageCount <= messageCount' /\ UNCHANGED <<mentionRows, hidden>>
    BY SearchFacts DEF PagesOK, mentionsVars
  <2>2. \A p \in InFlight("mentions")' :
           Continues(p, InFlight("mentions"), Mentioned, Len(mentionRows), messageCount, hidden)
    BY DEF Continues
  <2> QED
    BY <2>1, <2>2, MentionListKept
<1>2. (moreMentions \/ (\E p \in InFlight("mentions") : p.more) => Len(mentionRows) >= SearchPage)'
  BY DEF SearchInv, MoreAfterPage, mentionsVars
<1>3. (mentionsOpen /\ mentionsLoading => \E p \in pages : p.list = "mentions" /\ p.id = newest["mentions"])'
  BY DEF SearchInv, SearchLoadingEnds, mentionsVars
<1>4. /\ mentionRows' \in Seq(1..LastMessage) /\ ToSet(mentionRows') \subseteq 1..messageCount'
      /\ mentionsOpen' \in BOOLEAN /\ named' \in BOOLEAN /\ moreMentions' \in BOOLEAN /\ mentionsLoading' \in BOOLEAN
  BY DEF SearchInv, SearchShapes, SearchTypeOK, mentionsVars
<1> QED
  BY <1>1, <1>2, <1>3, <1>4

\* What a step of the mentions leaves to the search.
LEMMA SearchBeside ==
    ASSUME SearchInv, UNCHANGED <<messageCount, hidden, boxVars, foundVars, learned>>,
           InFlight("search")' \subseteq InFlight("search"),
           \A o \in pages : o.list = "search" => \E p \in pages' : p.list = o.list
    PROVE  /\ SearchSound' /\ OffsetsAhead' /\ (moreFound => foundOffset >= SearchPage)'
           /\ (searchBusy => \E p \in pages : p.list = "search")'
           /\ found' \in Seq(1..LastMessage) /\ ToSet(found') \subseteq 1..messageCount'
           /\ query'.text \in Queries \cup {NoQuery} /\ debounced' \in Queries \cup {NoQuery}
           /\ searchBusy' \in BOOLEAN /\ moreFound' \in BOOLEAN /\ debouncing' \in BOOLEAN /\ learned' \in BOOLEAN
           /\ foundOffset' \in 0..LastMessage
<1>1. SearchSound'
  <2>1. messageCount' \in Nat /\ messageCount <= messageCount' /\ UNCHANGED <<debounced, found, foundOffset, hidden>>
        /\ (learned' => learned)
    BY SearchFacts DEF PagesOK, boxVars, foundVars
  <2>2. \A p \in InFlight("search")' :
           Continues(p, InFlight("search"), debounced, foundOffset, messageCount, hidden)
    BY DEF Continues
  <2> QED
    BY <2>1, <2>2, SearchListKept
<1>2. OffsetsAhead' /\ (moreFound => foundOffset >= SearchPage)'
  BY DEF SearchInv, MoreAfterPage, OffsetsAhead, foundVars
<1>3. (searchBusy => \E p \in pages : p.list = "search")'
  BY DEF SearchInv, SearchLoadingEnds, foundVars
<1>4. /\ found' \in Seq(1..LastMessage) /\ ToSet(found') \subseteq 1..messageCount'
      /\ query'.text \in Queries \cup {NoQuery} /\ debounced' \in Queries \cup {NoQuery}
      /\ searchBusy' \in BOOLEAN /\ moreFound' \in BOOLEAN /\ debouncing' \in BOOLEAN /\ learned' \in BOOLEAN
      /\ foundOffset' \in 0..LastMessage
  BY DEF SearchInv, SearchShapes, SearchTypeOK, boxVars, foundVars
<1> QED
  BY <1>1, <1>2, <1>3, <1>4

LEMMA SearchForStep ==
    ASSUME SearchInv, NEW q \in Queries \cup {NoQuery}, SearchFor(q),
           UNCHANGED <<messageCount, hidden, heard, mentionsVars>>,
           query'.text \in Queries \cup {NoQuery}, debouncing' \in BOOLEAN, learned' \in BOOLEAN
    PROVE  SearchInv'
<1>1. /\ PagesOK /\ FirstStored <= messageCount /\ messageCount \in Nat /\ LastMessage \in Nat
      /\ "search" \in Lists /\ "mentions" \in Lists /\ heard \in 0..messageCount
      /\ messageCount \in 0..LastMessage /\ SearchPage \in Nat \ {0}
  BY SearchFacts DEF PagesOK, SearchInv, SearchShapes, SearchTypeOK
<1>2. /\ debounced' = q /\ found' = <<>> /\ moreFound' = FALSE /\ foundOffset' = 0
      /\ UNCHANGED <<messageCount, hidden, heard, mentionsVars>>
  BY DEF SearchFor
<1>3. /\ PagesOK' /\ newest'["mentions"] = newest["mentions"]
      /\ InFlight("mentions")' \subseteq InFlight("mentions")
      /\ \A o \in pages : \E p \in pages' : p.list = o.list /\ p.id = o.id
      /\ q # NoQuery =>
           \A p \in InFlight("search")' : p.query = q /\ p.offset = 0 /\ p.more = FALSE /\ ~p.served
      /\ (searchBusy => \E p \in pages : p.list = "search")' /\ searchBusy' \in BOOLEAN
  <2>1. CASE q = NoQuery
    <3>1. PICK ps \in SUBSET pages : ps = {p \in pages : p.list = "search" /\ ~p.more}
      OBVIOUS
    <3>2. pages' = Aborting(ps) /\ UNCHANGED <<newest, searchBusy>>
      BY <2>1, <3>1 DEF SearchFor
    <3>3. /\ PagesOK' /\ InFlight("mentions")' \subseteq InFlight("mentions")
          /\ \A o \in pages : \E p \in pages' : p.list = o.list /\ p.id = o.id
      BY <1>1, <1>2, <3>2, AbortedPages
    <3>4. (searchBusy => \E p \in pages : p.list = "search")' /\ searchBusy' \in BOOLEAN
      BY <3>2, <3>3 DEF SearchInv, SearchLoadingEnds, SearchShapes, SearchTypeOK
    <3> QED
      BY <2>1, <3>2, <3>3, <3>4
  <2>2. CASE q # NoQuery
    <3>1. Ask(Request("search", q, 0, FALSE)) /\ searchBusy' = TRUE
      BY <2>2 DEF SearchFor
    <3>2. /\ PagesOK' /\ newest'["mentions"] = newest["mentions"]
          /\ InFlight("mentions")' = InFlight("mentions")
          /\ \A p \in InFlight("search")' : p.query = q /\ p.offset = 0 /\ p.more = FALSE /\ ~p.served
          /\ \A o \in pages : \E p \in pages' : p.list = o.list /\ p.id = o.id
          /\ \E p \in pages' : p.list = "search" /\ p.id = newest'["search"]
      <4>1. q \in Queries \cup {NoQuery, Mentioned} /\ 0 \in Nat /\ FALSE \in BOOLEAN /\ "mentions" \in Lists \ {"search"}
        BY <1>1
      <4>2. PICK r : r = Request("search", q, 0, FALSE)
        OBVIOUS
      <4>3. PICK ps \in SUBSET pages : ps = {p \in pages : p.list = "search"}
        OBVIOUS
      <4>9. PagesOK /\ "search" \in Lists /\ FALSE \in BOOLEAN /\ 0 \in Nat
        BY <1>1
      <4>10. Request("search", q, 0, FALSE) \in PageRequests
        BY <4>1, <4>9, RequestTyped, Zenon
      <4>4. /\ r \in PageRequests /\ r.id = newest["search"] + 1 /\ r.list = "search" /\ r.query = q
          /\ r.offset = 0 /\ r.more = FALSE /\ r.aborted = FALSE /\ r.served = FALSE /\ r.data = <<>>
        <5>1. r \in PageRequests
          BY <4>2, <4>10
        <5> QED
          BY <5>1, <4>2 DEF Request
      <4>5. Ask(r)
        BY <3>1, <4>2
      <4>6. pages' = Aborting(ps) \cup {r} /\ newest' = [newest EXCEPT !["search"] = r.id]
        BY <4>3, <4>4, <4>5 DEF Ask
      <4>8. messageCount' = messageCount
        BY <1>2
      <4>7. /\ PagesOK'
            /\ \A k \in Lists \ {"search"} : InFlight(k)' = InFlight(k) /\ newest'[k] = newest[k]
            /\ \A p \in InFlight("search")' : p = r
            /\ \A o \in pages : \E p \in pages' : p.list = o.list /\ p.id = o.id
            /\ \E p \in pages' : p.list = "search" /\ p.id = newest'["search"]
        BY <4>9, <4>3, <4>4, <4>6, <4>8, AskedPages, Zenon
      <4> QED
        BY <4>1, <4>4, <4>7
    <3> QED
      BY <3>1, <3>2
  <2> QED
    BY <2>1, <2>2
<1>4. SearchSound'
  <2>1. CASE q = NoQuery
    BY <1>2, <2>1 DEF SearchSound
  <2>2. CASE q # NoQuery
    <3>1. PICK after : after = InFlight("search")'
      OBVIOUS
    <3>2. ListSound(after, q, <<>>, 0, messageCount, hidden)
      BY <1>1, <1>3, <2>2, <3>1, ListReset
    <3> QED
      BY <1>2, <3>1, <3>2 DEF SearchSound
  <2> QED
    BY <2>1, <2>2
<1>5. /\ MentionsSound' /\ (moreMentions \/ (\E p \in InFlight("mentions") : p.more) => Len(mentionRows) >= SearchPage)'
      /\ (mentionsOpen /\ mentionsLoading => \E p \in pages : p.list = "mentions" /\ p.id = newest["mentions"])'
      /\ mentionRows' \in Seq(1..LastMessage) /\ ToSet(mentionRows') \subseteq 1..messageCount'
      /\ mentionsOpen' \in BOOLEAN /\ named' \in BOOLEAN /\ moreMentions' \in BOOLEAN /\ mentionsLoading' \in BOOLEAN
  BY <1>2, <1>3, MentionsBeside
<1>6. OffsetsAhead'
  <2>1. \A p \in pages' : p.offset \in Nat
    BY <1>3 DEF PagesOK, PageRequests
  <2> QED
    BY <1>2, <2>1 DEF OffsetsAhead, InFlight
<1>7. MoreAfterPage' /\ SearchLoadingEnds'
  BY <1>2, <1>3, <1>5 DEF MoreAfterPage, SearchLoadingEnds
<1>8. SearchTypeOK' /\ found' \in Seq(1..LastMessage)
  <2>1. ToSet(found') \cup ToSet(mentionRows') \subseteq 1..messageCount' /\ found' \in Seq(1..LastMessage)
    BY <1>2, <1>5, EmptyRows
  <2>2. messageCount' \in 0..LastMessage /\ heard' \in 0..messageCount' /\ foundOffset' \in 0..LastMessage
    BY <1>1, <1>2
  <2>3. moreFound' \in BOOLEAN /\ debounced' \in Queries \cup {NoQuery}
    BY <1>2
  <2> QED
    BY <1>3, <1>5, <2>1, <2>2, <2>3 DEF SearchTypeOK
<1>9. SearchShapes' /\ OneInFlight' /\ DataBounded'
  BY <1>1, <1>2, <1>3, <1>5, <1>8, ShapesBack
<1> QED
  BY <1>4, <1>5, <1>6, <1>7, <1>9 DEF SearchInv

-----------------------------------------------------------------------------
(* Search and mentions: the box, and the next page                          *)

\* A step that changes none of what the search is about.
LEMMA SearchRests ==
    ASSUME SearchInv,
           UNCHANGED <<messageCount, hidden, heard, debounced, foundVars, mentionsVars, pages, newest>>,
           query'.text \in Queries \cup {NoQuery}, debouncing' \in BOOLEAN, learned' \in BOOLEAN, learned' => learned
    PROVE  SearchInv'
<1>1. PagesOK /\ messageCount \in Nat /\ messageCount' \in Nat /\ messageCount <= messageCount'
  BY SearchFacts DEF PagesOK
<1>2. /\ OneInFlight' /\ InFlight("search")' = InFlight("search") /\ InFlight("mentions")' = InFlight("mentions")
      /\ \A o \in pages : \E p \in pages' : p.list = o.list /\ p.id = o.id
  BY RequestsKept
<1>3. DataBounded' /\ SearchLoadingEnds'
  BY <1>1, <1>2, DataKept, SpinnersKept DEF foundVars, mentionsVars
<1>4. OffsetsAhead' /\ MoreAfterPage'
  BY <1>2 DEF SearchInv, OffsetsAhead, MoreAfterPage, foundVars, mentionsVars
<1>5. SearchShapes'
  BY DEF SearchInv, SearchShapes, SearchTypeOK, foundVars, mentionsVars
<1>6. SearchSound'
  BY <1>1, <1>2, SearchListKept DEF Continues, foundVars
<1>7. MentionsSound'
  BY <1>1, <1>2, MentionListKept DEF Continues, mentionsVars
<1> QED
  BY <1>2, <1>3, <1>4, <1>5, <1>6, <1>7 DEF SearchInv

LEMMA BoxSteps ==
    ASSUME SearchInv, DebounceFires \/ VisibilityChanges \/ \E q \in Queries : PrefillSearch(q)
    PROVE  SearchInv'
<1>1. /\ query.text \in Queries \cup {NoQuery} /\ debounced \in Queries \cup {NoQuery}
      /\ debouncing \in BOOLEAN /\ learned \in BOOLEAN
  BY DEF SearchInv, SearchShapes, SearchTypeOK
<1>2. CASE DebounceFires
  <2>1. /\ query'.text \in Queries \cup {NoQuery} /\ debouncing' \in BOOLEAN /\ learned' = learned
        /\ UNCHANGED <<messageCount, hidden, heard, mentionsVars>>
    BY <1>1, <1>2 DEF DebounceFires, storeVars
  <2>2. CASE query.text = debounced
    BY <1>1, <1>2, <2>1, <2>2, SearchRests DEF DebounceFires
  <2>3. CASE query.text # debounced
    <3>1. PICK q \in Queries \cup {NoQuery} : q = query.text
      BY <1>1
    <3>2. SearchFor(q)
      BY <1>2, <2>3, <3>1 DEF DebounceFires, SearchFor
    <3> QED
      BY <1>1, <2>1, <3>2, SearchForStep
  <2> QED
    BY <2>2, <2>3
<1>3. CASE VisibilityChanges
  <2>1. /\ query'.text \in Queries \cup {NoQuery} /\ debouncing' \in BOOLEAN /\ learned' \in BOOLEAN
        /\ UNCHANGED <<messageCount, hidden, heard, mentionsVars>>
    BY <1>1, <1>3 DEF VisibilityChanges, storeVars
  <2>2. PICK q \in Queries \cup {NoQuery} : q = debounced
    BY <1>1
  <2>3. SearchFor(q)
    BY <1>3, <2>2 DEF VisibilityChanges, SearchFor
  <2> QED
    BY <2>1, <2>3, SearchForStep
<1>4. ASSUME NEW q \in Queries, PrefillSearch(q)
      PROVE  SearchInv'
  <2>1. /\ query'.text \in Queries \cup {NoQuery} /\ debouncing' \in BOOLEAN /\ learned' = learned
        /\ UNCHANGED <<messageCount, hidden, heard, mentionsVars>>
    BY <1>1, <1>4 DEF PrefillSearch, storeVars
  <2>2. CASE q = debounced
    BY <1>1, <1>4, <2>1, <2>2, SearchRests DEF PrefillSearch
  <2>3. CASE q # debounced
    <3>1. SearchFor(q)
      BY <1>4, <2>3 DEF PrefillSearch
    <3> QED
      BY <1>1, <2>1, <3>1, SearchForStep
  <2> QED
    BY <2>2, <2>3
<1> QED
  BY <1>2, <1>3, <1>4

LEMMA LoadMoreStep == ASSUME SearchInv, LoadMoreFound PROVE SearchInv'
<1>1. /\ PagesOK /\ FirstStored <= messageCount /\ messageCount \in Nat /\ foundOffset \in Nat
      /\ "search" \in Lists /\ "mentions" \in Lists \ {"search"} /\ debounced \in Queries \cup {NoQuery}
      /\ heard \in 0..messageCount /\ messageCount \in 0..LastMessage
  BY SearchFacts DEF PagesOK, SearchInv, SearchShapes, SearchTypeOK
<1>2. /\ searchBusy' = TRUE /\ moreFound /\ foundOffset >= SearchPage
      /\ UNCHANGED <<messageCount, hidden, heard, boxVars, found, moreFound, foundOffset, learned, mentionsVars>>
  BY DEF LoadMoreFound, SearchInv, MoreAfterPage, storeVars
<1>3. /\ PagesOK' /\ newest'["mentions"] = newest["mentions"]
      /\ InFlight("mentions")' = InFlight("mentions")
      /\ \A p \in InFlight("search")' : p.query = debounced /\ p.offset = foundOffset /\ p.more = TRUE /\ ~p.served
      /\ \A o \in pages : \E p \in pages' : p.list = o.list /\ p.id = o.id
      /\ \E p \in pages' : p.list = "search" /\ p.id = newest'["search"]
  <2>1. PICK q \in Queries \cup {NoQuery, Mentioned}, offset \in Nat : q = debounced /\ offset = foundOffset
    BY <1>1
  <2>2. PICK r : r = Request("search", q, offset, TRUE)
    OBVIOUS
  <2>3. PICK ps \in SUBSET pages : ps = {p \in pages : p.list = "search"}
    OBVIOUS
  <2>9. PagesOK /\ "search" \in Lists /\ TRUE \in BOOLEAN /\ offset \in Nat
    BY <1>1
  <2>10. Request("search", q, offset, TRUE) \in PageRequests
    BY <2>9, RequestTyped, Zenon
  <2>4. /\ r \in PageRequests /\ r.id = newest["search"] + 1 /\ r.list = "search" /\ r.query = q
      /\ r.offset = offset /\ r.more = TRUE /\ r.aborted = FALSE /\ r.served = FALSE /\ r.data = <<>>
    <3>1. r \in PageRequests
      BY <2>2, <2>10
    <3> QED
      BY <3>1, <2>2 DEF Request
  <2>5. Ask(r)
    BY <2>1, <2>2 DEF LoadMoreFound
  <2>6. pages' = Aborting(ps) \cup {r} /\ newest' = [newest EXCEPT !["search"] = r.id]
    BY <2>3, <2>4, <2>5 DEF Ask
  <2>8. messageCount' = messageCount
    BY <1>2
  <2>7. /\ PagesOK'
        /\ \A k \in Lists \ {"search"} : InFlight(k)' = InFlight(k) /\ newest'[k] = newest[k]
        /\ \A p \in InFlight("search")' : p = r
        /\ \A o \in pages : \E p \in pages' : p.list = o.list /\ p.id = o.id
        /\ \E p \in pages' : p.list = "search" /\ p.id = newest'["search"]
    BY <2>9, <2>3, <2>4, <2>6, <2>8, AskedPages, Zenon
  <2> QED
    BY <1>1, <2>1, <2>4, <2>7
<1>4. /\ MentionsSound' /\ (moreMentions \/ (\E p \in InFlight("mentions") : p.more) => Len(mentionRows) >= SearchPage)'
      /\ (mentionsOpen /\ mentionsLoading => \E p \in pages : p.list = "mentions" /\ p.id = newest["mentions"])'
      /\ mentionRows' \in Seq(1..LastMessage)
  BY <1>2, <1>3, MentionsBeside
<1>5. SearchSound'
  <2>1. \A p \in InFlight("search")' :
           Continues(p, InFlight("search"), debounced, foundOffset, messageCount, hidden)
    BY <1>2, <1>3 DEF Continues
  <2>2. messageCount' \in Nat /\ messageCount <= messageCount' /\ (learned' => learned)
    BY <1>1, <1>2
  <2> QED
    BY <1>2, <2>1, <2>2, SearchListKept DEF boxVars
<1>6. OffsetsAhead' /\ MoreAfterPage' /\ SearchLoadingEnds'
  BY <1>1, <1>2, <1>3, <1>4 DEF OffsetsAhead, MoreAfterPage, SearchLoadingEnds
<1>7. SearchTypeOK' /\ found' \in Seq(1..LastMessage)
  <2>1. SearchTypeOK'
    BY <1>2 DEF SearchInv, SearchShapes, SearchTypeOK, boxVars, mentionsVars
  <2> QED
    BY <1>2, <2>1 DEF SearchInv, SearchShapes
<1>8. SearchShapes' /\ OneInFlight' /\ DataBounded'
  BY <1>1, <1>2, <1>3, <1>4, <1>7, ShapesBack
<1> QED
  BY <1>4, <1>5, <1>6, <1>8 DEF SearchInv

\* A request that was served is the one in flight of its list.
LEMMA ServedInFlight ==
    ASSUME SearchInv, NEW p \in pages, p.served
    PROVE  /\ p \in InFlight(p.list) /\ \A o \in InFlight(p.list) : o = p
           /\ p.data \in Seq(1..LastMessage) /\ Len(p.data) \in Nat /\ ToSet(p.data) \subseteq 1..messageCount
           /\ p.offset \in Nat /\ p.more \in BOOLEAN /\ (p.data # <<>> => p.offset + Len(p.data) <= LastMessage)
<1>1. p \in PageRequests
  BY SearchFacts DEF PagesOK
<1>2. p.list \in Lists /\ p.data \in Seq(1..LastMessage) /\ p.offset \in Nat /\ p.more \in BOOLEAN
  BY <1>1 DEF PageRequests
<1>3. Len(p.data) \in Nat
  BY <1>2
<1>4. p \in InFlight(p.list)
  BY DEF SearchInv, DataBounded, InFlight
<1> QED
  BY <1>2, <1>3, <1>4 DEF SearchInv, DataBounded, OneInFlight

-----------------------------------------------------------------------------
(* Search and mentions: a search returns                                    *)

LEMMA SearchReturnStep == ASSUME SearchInv, NEW p \in pages, SearchPageReturns(p) PROVE SearchInv'
<1>1. /\ PagesOK /\ FirstStored <= messageCount /\ messageCount \in Nat /\ messageCount \in 0..LastMessage
      /\ LastMessage \in Nat /\ foundOffset \in 0..LastMessage /\ heard \in 0..messageCount
      /\ found \in Seq(1..LastMessage) /\ found \in Seq(Int) /\ ToSet(found) \subseteq 1..messageCount
      /\ moreFound \in BOOLEAN /\ SearchPage \in Nat \ {0} /\ debounced \in Queries \cup {NoQuery}
  BY SearchFacts DEF PagesOK, SearchInv, SearchShapes, SearchTypeOK
<1>2. /\ p.list = "search" /\ pages' = pages \ {p} /\ searchBusy' = FALSE /\ newest' = newest
      /\ UNCHANGED <<messageCount, hidden, heard, boxVars, learned, mentionsVars>>
  BY DEF SearchPageReturns, storeVars
<1>3. PagesOK' /\ InFlight("search")' = InFlight("search") \ {p} /\ InFlight("mentions")' = InFlight("mentions") \ {p}
  <2>1. "search" \in Lists /\ "mentions" \in Lists
    BY DEF Lists
  <2> QED
    BY <1>1, <1>2, <2>1, EndedPages
<1>4. /\ MentionsSound' /\ (moreMentions \/ (\E o \in InFlight("mentions") : o.more) => Len(mentionRows) >= SearchPage)'
      /\ (mentionsOpen /\ mentionsLoading => \E o \in pages : o.list = "mentions" /\ o.id = newest["mentions"])'
      /\ mentionRows' \in Seq(1..LastMessage) /\ ToSet(mentionRows') \subseteq 1..messageCount'
      /\ mentionsOpen' \in BOOLEAN /\ named' \in BOOLEAN /\ moreMentions' \in BOOLEAN /\ mentionsLoading' \in BOOLEAN
  <2>1. \A o \in pages : o.list = "mentions" => \E r \in pages' : r.list = o.list /\ r.id = o.id
    BY <1>2
  <2>2. InFlight("mentions")' \subseteq InFlight("mentions")
    BY <1>3
  <2> QED
    BY <1>2, <2>1, <2>2, MentionsBeside
<1>5. /\ SearchSound' /\ OffsetsAhead' /\ (moreFound => foundOffset >= SearchPage)'
      /\ found' \in Seq(1..LastMessage) /\ ToSet(found') \subseteq 1..messageCount
      /\ foundOffset' \in 0..LastMessage /\ moreFound' \in BOOLEAN
  <2>1. CASE UNCHANGED <<found, foundOffset, moreFound>>
    <3>1. \A o \in InFlight("search")' :
             Continues(o, InFlight("search"), debounced, foundOffset, messageCount, hidden)
      BY <1>3 DEF Continues
    <3>2. messageCount' \in Nat /\ messageCount <= messageCount' /\ (learned' => learned)
      BY <1>1, <1>2
    <3>3. SearchSound'
      BY <1>2, <2>1, <3>1, <3>2, SearchListKept DEF boxVars
    <3>4. OffsetsAhead' /\ (moreFound => foundOffset >= SearchPage)'
      BY <1>3, <2>1 DEF SearchInv, OffsetsAhead, MoreAfterPage
    <3> QED
      BY <1>1, <2>1, <3>3, <3>4
  <2>2. CASE /\ p.served
             /\ found' = IF p.more THEN Merged(found, p.data) ELSE p.data
             /\ foundOffset' = IF p.more THEN foundOffset + Len(p.data) ELSE Len(p.data)
             /\ moreFound' = (Len(p.data) >= SearchPage)
    <3>1. /\ p \in InFlight("search") /\ \A o \in InFlight("search") : o = p
          /\ p.data \in Seq(1..LastMessage) /\ Len(p.data) \in Nat /\ ToSet(p.data) \subseteq 1..messageCount
          /\ p.offset \in Nat /\ p.more \in BOOLEAN /\ (p.data # <<>> => p.offset + Len(p.data) <= LastMessage)
      BY <1>2, <2>2, ServedInFlight
    <3>2. InFlight("search")' = {}
      BY <1>3, <3>1
    <3>3. p.more => foundOffset <= p.offset
      BY <3>1 DEF SearchInv, OffsetsAhead
    <3>4. foundOffset' \in 0..LastMessage
      <4>1. CASE p.data = <<>>
        <5>1. Len(p.data) = 0
          BY <4>1
        <5> QED
          BY <1>1, <2>2, <5>1
      <4>2. CASE p.data # <<>>
        <5>1. Len(p.data) \in Nat /\ p.offset \in Nat /\ p.offset + Len(p.data) <= LastMessage
          BY <3>1, <4>2
        <5>2. CASE p.more
          <6>1. foundOffset' = foundOffset + Len(p.data) /\ foundOffset <= p.offset
            BY <2>2, <3>3, <5>2
          <6> QED
            BY <1>1, <5>1, <6>1
        <5>3. CASE ~p.more
          <6>1. foundOffset' = Len(p.data)
            BY <2>2, <5>3
          <6> QED
            BY <1>1, <5>1, <6>1
        <5> QED
          BY <5>2, <5>3
      <4> QED
        BY <4>1, <4>2
    <3>5. found' \in Seq(1..LastMessage) /\ ToSet(found') \subseteq 1..messageCount
      <4>1. /\ Merged(found, p.data) \in Seq(1..LastMessage)
            /\ ToSet(Merged(found, p.data)) = ToSet(found) \cup ToSet(p.data)
        BY <1>1, <3>1, MergedLists
      <4> QED
        BY <1>1, <2>2, <3>1, <4>1
    <3>6. p.data \in Seq(Int)
      <4>1. 1..LastMessage \subseteq Int
        OBVIOUS
      <4> QED
        BY <3>1, <4>1, SeqOfMore
    <3>7. SearchSound'
      <4>1. PICK due : due = InFlight("search")
        OBVIOUS
      <4>2. ASSUME learned', debounced' # NoQuery
            PROVE  ListSound({}, debounced, found', foundOffset', messageCount, hidden)
        <5>1. ListSound(due, debounced, found, foundOffset, messageCount, hidden)
          BY <1>2, <4>1, <4>2 DEF SearchInv, SearchSound, boxVars
        <5>2. PICK next : next = foundOffset'
          OBVIOUS
        <5>3. next \in Nat /\ next <= (IF p.more THEN foundOffset + Len(p.data) ELSE Len(p.data))
          BY <1>1, <2>2, <3>1, <3>4, <5>2
        <5>4. messageCount <= LastMessage /\ foundOffset \in Nat /\ p \in due
          BY <1>1, <3>1, <4>1
        <5>5. ListSound({}, debounced, IF p.more THEN Merged(found, p.data) ELSE p.data, next, messageCount, hidden)
          BY <1>1, <2>2, <3>6, <5>1, <5>3, <5>4, ListTurns
        <5> QED
          BY <2>2, <5>2, <5>5
      <4> QED
        BY <1>2, <3>2, <4>2 DEF SearchSound, boxVars
    <3>8. OffsetsAhead'
      BY <3>2 DEF OffsetsAhead
    <3>9. ASSUME moreFound' PROVE foundOffset' >= SearchPage
      <4>1. Len(p.data) >= SearchPage
        BY <2>2, <3>9
      <4>2. foundOffset' = (IF p.more THEN foundOffset + Len(p.data) ELSE Len(p.data))
        BY <2>2
      <4>3. foundOffset \in Nat /\ SearchPage \in Nat
        BY <1>1
      <4> QED
        BY <3>1, <4>1, <4>2, <4>3
    <3>10. moreFound' \in BOOLEAN
      BY <2>2
    <3> QED
      BY <3>4, <3>5, <3>7, <3>8, <3>9, <3>10
  <2> QED
    BY <2>1, <2>2 DEF SearchPageReturns
<1>6. MoreAfterPage' /\ SearchLoadingEnds'
  BY <1>2, <1>4, <1>5 DEF MoreAfterPage, SearchLoadingEnds
<1>7. SearchTypeOK'
  <2>1. /\ query'.text \in Queries \cup {NoQuery} /\ debounced' \in Queries \cup {NoQuery}
        /\ debouncing' \in BOOLEAN /\ learned' \in BOOLEAN /\ searchBusy' \in BOOLEAN
    BY <1>2 DEF SearchInv, SearchShapes, SearchTypeOK, boxVars
  <2>2. ToSet(found') \cup ToSet(mentionRows') \subseteq 1..messageCount'
    BY <1>2, <1>4, <1>5
  <2>3. messageCount' \in 0..LastMessage /\ heard' \in 0..messageCount'
    BY <1>1, <1>2
  <2> QED
    BY <1>4, <1>5, <2>1, <2>2, <2>3 DEF SearchTypeOK
<1>8. SearchShapes' /\ OneInFlight' /\ DataBounded'
  BY <1>1, <1>2, <1>3, <1>4, <1>5, <1>7, ShapesBack
<1> QED
  BY <1>4, <1>5, <1>6, <1>8 DEF SearchInv

LEMMA ServedStep == ASSUME SearchInv, NEW p \in pages, PageServed(p) PROVE SearchInv'
<1>1. PagesOK /\ messageCount \in Nat /\ "search" \in Lists /\ "mentions" \in Lists /\ FirstStored <= messageCount
  BY SearchFacts DEF PagesOK
<1>2. UNCHANGED <<messageCount, hidden, heard, boxVars, foundVars, learned, mentionsVars, newest>>
  BY DEF PageServed, storeVars
<1>3. /\ PagesOK'
      /\ \A l \in Lists : \A r \in InFlight(l)' :
            \/ r \in InFlight(l)
            \/ \E o \in InFlight(l) :
                  /\ r.query = o.query /\ r.offset = o.offset /\ r.more = o.more
                  /\ r.data = PageAt(Hits(o.query, messageCount, hidden), o.offset)
      /\ \A o \in pages : \E r \in pages' : r.list = o.list /\ r.id = o.id
  BY <1>1, ServedPages
<1>4. messageCount' \in Nat /\ messageCount <= messageCount'
  BY <1>1, <1>2
<1>5. SearchSound'
  <2>1. \A o \in InFlight("search")' :
           Continues(o, InFlight("search"), debounced, foundOffset, messageCount, hidden)
    BY <1>1, <1>3 DEF Continues
  <2> QED
    BY <1>2, <1>4, <2>1, SearchListKept DEF boxVars, foundVars
<1>6. MentionsSound'
  <2>1. \A o \in InFlight("mentions")' :
           Continues(o, InFlight("mentions"), Mentioned, Len(mentionRows), messageCount, hidden)
    BY <1>1, <1>3 DEF Continues
  <2> QED
    BY <1>2, <1>4, <2>1, MentionListKept DEF mentionsVars
<1>7. SearchLoadingEnds'
  BY <1>2, <1>3, SpinnersKept DEF foundVars, mentionsVars
<1>8. OffsetsAhead'
  <2>1. \A r \in InFlight("search")' : \E o \in InFlight("search") : r.offset = o.offset /\ r.more = o.more
    BY <1>1, <1>3
  <2> QED
    BY <1>2, <2>1 DEF SearchInv, OffsetsAhead, foundVars
<1>9. MoreAfterPage'
  <2>1. \A r \in InFlight("mentions")' : \E o \in InFlight("mentions") : r.more = o.more
    BY <1>1, <1>3
  <2> QED
    BY <1>2, <2>1 DEF SearchInv, MoreAfterPage, foundVars, mentionsVars
<1>10. SearchTypeOK' /\ found' \in Seq(1..LastMessage) /\ mentionRows' \in Seq(1..LastMessage)
  BY <1>2 DEF SearchInv, SearchShapes, SearchTypeOK, boxVars, foundVars, mentionsVars
<1>11. SearchShapes' /\ OneInFlight' /\ DataBounded'
  BY <1>1, <1>2, <1>3, <1>10, ShapesBack
<1> QED
  BY <1>5, <1>6, <1>7, <1>8, <1>9, <1>11 DEF SearchInv

-----------------------------------------------------------------------------
(* Search and mentions: the mentions are opened and fetched again           *)

\* What a request of the mentions leaves.
LEMMA FetchedPages ==
    ASSUME SearchInv, NEW offset \in Nat, FetchPage(offset), messageCount' = messageCount
    PROVE  /\ PagesOK' /\ mentionsLoading' = TRUE /\ InFlight("search")' = InFlight("search")
           /\ \A p \in InFlight("mentions")' :
                 p.query = Mentioned /\ p.offset = offset /\ p.more = (offset # 0) /\ p.served = FALSE
           /\ \A o \in pages : \E p \in pages' : p.list = o.list /\ p.id = o.id
           /\ (\E p \in pages : p.list = "mentions" /\ p.id = newest["mentions"])'
<1>1. PagesOK /\ "mentions" \in Lists /\ "search" \in Lists \ {"mentions"}
  BY SearchFacts
<1>2. PICK more \in BOOLEAN : more = (offset # 0)
  OBVIOUS
<1>3. PICK q \in Queries \cup {NoQuery, Mentioned} : q = Mentioned
  OBVIOUS
<1>4. PICK r : r = Request("mentions", q, offset, more)
  OBVIOUS
<1>5. PICK ps \in SUBSET pages : ps = {p \in pages : p.list = "mentions"}
  OBVIOUS
<1>6. Request("mentions", q, offset, more) \in PageRequests
  <2>1. PagesOK /\ "mentions" \in Lists
    BY <1>1
  <2> QED
    BY <2>1, RequestTyped, Zenon
<1>7. /\ r \in PageRequests /\ r.id = newest["mentions"] + 1 /\ r.list = "mentions" /\ r.query = q
      /\ r.offset = offset /\ r.more = more /\ r.aborted = FALSE /\ r.served = FALSE /\ r.data = <<>>
  <2>1. r \in PageRequests
    BY <1>4, <1>6
  <2> QED
    BY <1>4, <2>1 DEF Request
<1>8. Ask(r) /\ mentionsLoading' = TRUE
  BY <1>2, <1>3, <1>4 DEF FetchPage
<1>9. pages' = Aborting(ps) \cup {r} /\ newest' = [newest EXCEPT !["mentions"] = r.id]
  BY <1>5, <1>7, <1>8 DEF Ask
<1>10. /\ PagesOK'
       /\ \A k \in Lists \ {"mentions"} : InFlight(k)' = InFlight(k) /\ newest'[k] = newest[k]
       /\ \A p \in InFlight("mentions")' : p = r
       /\ \A o \in pages : \E p \in pages' : p.list = o.list /\ p.id = o.id
       /\ \E p \in pages' : p.list = "mentions" /\ p.id = newest'["mentions"]
  <2>1. PagesOK /\ "mentions" \in Lists
    BY <1>1
  <2> QED
    BY <2>1, <1>5, <1>7, <1>9, AskedPages, Zenon
<1> QED
  BY <1>1, <1>2, <1>3, <1>7, <1>8, <1>10

\* What a step of the mentions has to show.
LEMMA MentionsDone ==
    ASSUME SearchInv, UNCHANGED <<messageCount, hidden, boxVars, foundVars, learned>>,
           heard' \in 0..messageCount', PagesOK', InFlight("search")' \subseteq InFlight("search"),
           \A o \in pages : o.list = "search" => \E p \in pages' : p.list = o.list,
           MentionsSound', (moreMentions \/ (\E p \in InFlight("mentions") : p.more) => Len(mentionRows) >= SearchPage)',
           (mentionsOpen /\ mentionsLoading => \E p \in pages : p.list = "mentions" /\ p.id = newest["mentions"])',
           mentionRows' \in Seq(1..LastMessage), ToSet(mentionRows') \subseteq 1..messageCount',
           mentionsOpen' \in BOOLEAN, named' \in BOOLEAN, moreMentions' \in BOOLEAN, mentionsLoading' \in BOOLEAN
    PROVE  SearchInv'
<1>1. FirstStored <= messageCount' /\ messageCount' \in 0..LastMessage
  BY DEF SearchInv, SearchShapes, SearchTypeOK
<1>2. /\ SearchSound' /\ OffsetsAhead' /\ (moreFound => foundOffset >= SearchPage)'
      /\ (searchBusy => \E p \in pages : p.list = "search")'
      /\ found' \in Seq(1..LastMessage) /\ ToSet(found') \subseteq 1..messageCount'
      /\ query'.text \in Queries \cup {NoQuery} /\ debounced' \in Queries \cup {NoQuery}
      /\ searchBusy' \in BOOLEAN /\ moreFound' \in BOOLEAN /\ debouncing' \in BOOLEAN /\ learned' \in BOOLEAN
      /\ foundOffset' \in 0..LastMessage
  BY SearchBeside
<1>3. MoreAfterPage' /\ SearchLoadingEnds'
  BY <1>2 DEF MoreAfterPage, SearchLoadingEnds
<1>4. SearchTypeOK'
  <2>1. ToSet(found') \cup ToSet(mentionRows') \subseteq 1..messageCount'
    BY <1>2
  <2> QED
    BY <1>1, <1>2, <2>1 DEF SearchTypeOK
<1>5. SearchShapes' /\ OneInFlight' /\ DataBounded'
  BY <1>1, <1>2, <1>4, ShapesBack
<1> QED
  BY <1>2, <1>3, <1>5 DEF SearchInv

LEMMA OpenMentionsStep == ASSUME SearchInv, OpenMentions PROVE SearchInv'
<1>1. /\ messageCount \in Nat /\ FirstStored <= messageCount /\ heard \in 0..messageCount /\ named \in BOOLEAN
      /\ 0 \in Nat
  BY SearchFacts DEF PagesOK, SearchInv, SearchShapes, SearchTypeOK
<1>2. /\ mentionsOpen' = TRUE /\ mentionRows' = <<>> /\ moreMentions' = FALSE /\ FetchPage(0)
      /\ UNCHANGED <<messageCount, hidden, heard, boxVars, foundVars, learned, named>>
  BY DEF OpenMentions, storeVars
<1>3. /\ PagesOK' /\ mentionsLoading' = TRUE /\ InFlight("search")' = InFlight("search")
      /\ \A p \in InFlight("mentions")' :
            p.query = Mentioned /\ p.offset = 0 /\ p.more = (0 # 0) /\ p.served = FALSE
      /\ \A o \in pages : \E p \in pages' : p.list = o.list /\ p.id = o.id
      /\ (\E p \in pages : p.list = "mentions" /\ p.id = newest["mentions"])'
  BY <1>1, <1>2, FetchedPages
<1>4. MentionsSound'
  <2>1. PICK after : after = InFlight("mentions")'
    OBVIOUS
  <2>2. \A p \in after : p.query = Mentioned /\ ~p.served /\ p.offset = 0 /\ ~p.more
    BY <1>3, <2>1
  <2>3. ListSound(after, Mentioned, <<>>, 0, messageCount, hidden)
    BY <1>1, <2>2, ListReset
  <2> QED
    BY <1>2, <2>1, <2>3, EmptyRows DEF MentionsSound
<1>5. (moreMentions \/ (\E p \in InFlight("mentions") : p.more) => Len(mentionRows) >= SearchPage)'
  BY <1>2, <1>3
<1>6. mentionRows' \in Seq(1..LastMessage) /\ ToSet(mentionRows') \subseteq 1..messageCount'
  BY <1>2, EmptyRows
<1>7. heard' \in 0..messageCount' /\ mentionsOpen' \in BOOLEAN /\ named' \in BOOLEAN /\ moreMentions' \in BOOLEAN
      /\ mentionsLoading' \in BOOLEAN
  BY <1>1, <1>2, <1>3
<1> QED
  BY <1>2, <1>3, <1>4, <1>5, <1>6, <1>7, MentionsDone

LEMMA LeaveMentionsStep == ASSUME SearchInv, LeaveMentions PROVE SearchInv'
<1>1. /\ PagesOK /\ "mentions" \in Lists /\ "search" \in Lists
      /\ messageCount \in Nat /\ FirstStored <= messageCount /\ heard \in 0..messageCount /\ named \in BOOLEAN
  BY SearchFacts DEF PagesOK, SearchInv, SearchShapes, SearchTypeOK
<1>2. /\ mentionsOpen' = FALSE /\ mentionRows' = <<>> /\ moreMentions' = FALSE /\ mentionsLoading' = TRUE
      /\ UNCHANGED <<messageCount, hidden, heard, boxVars, foundVars, learned, named, newest>>
  BY DEF LeaveMentions, storeVars
<1>3. PICK ps \in SUBSET pages : ps = {p \in pages : p.list = "mentions"}
  OBVIOUS
<1>4. pages' = Aborting(ps)
  BY <1>3 DEF LeaveMentions
<1>5. /\ PagesOK'
      /\ \A l \in Lists : InFlight(l)' \subseteq InFlight(l)
      /\ \A l \in Lists : (\A p \in InFlight(l) : p \in ps) => InFlight(l)' = {}
      /\ \A o \in pages : \E p \in pages' : p.list = o.list /\ p.id = o.id
  BY <1>1, <1>2, <1>4, AbortedPages
<1>6. InFlight("mentions")' = {} /\ InFlight("search")' \subseteq InFlight("search")
  <2>1. \A p \in InFlight("mentions") : p \in ps
    BY <1>3 DEF InFlight
  <2> QED
    BY <1>1, <1>5, <2>1
<1>7. MentionsSound'
  <2>1. ListSound({}, Mentioned, <<>>, 0, messageCount, hidden)
    BY <1>1, ListReset
  <2> QED
    BY <1>2, <1>6, <2>1, EmptyRows DEF MentionsSound
<1>8. mentionRows' \in Seq(1..LastMessage) /\ ToSet(mentionRows') \subseteq 1..messageCount'
  BY <1>2, EmptyRows
<1>9. heard' \in 0..messageCount' /\ mentionsOpen' \in BOOLEAN /\ named' \in BOOLEAN /\ moreMentions' \in BOOLEAN
      /\ mentionsLoading' \in BOOLEAN
  BY <1>1, <1>2
<1> QED
  BY <1>2, <1>5, <1>6, <1>7, <1>8, <1>9, MentionsDone

\* The list is fetched again while its rows stay, from its start or from its end.
LEMMA RefetchStep ==
    ASSUME SearchInv, UNCHANGED <<messageCount, hidden, boxVars, foundVars, learned, mentionsOpen, mentionRows, moreMentions>>,
           heard' \in 0..messageCount', named' \in BOOLEAN, NEW offset \in Nat, FetchPage(offset),
           offset # 0 => offset = Len(mentionRows) /\ Len(mentionRows) >= SearchPage
    PROVE  SearchInv'
<1>1. /\ messageCount \in Nat /\ mentionRows \in Seq(1..LastMessage) /\ ToSet(mentionRows) \subseteq 1..messageCount
      /\ mentionsOpen \in BOOLEAN /\ moreMentions \in BOOLEAN
      /\ (moreMentions => Len(mentionRows) >= SearchPage)
  BY SearchFacts DEF PagesOK, SearchInv, SearchShapes, SearchTypeOK, MoreAfterPage
<1>2. /\ PagesOK' /\ mentionsLoading' = TRUE /\ InFlight("search")' = InFlight("search")
      /\ \A p \in InFlight("mentions")' :
            p.query = Mentioned /\ p.offset = offset /\ p.more = (offset # 0) /\ p.served = FALSE
      /\ \A o \in pages : \E p \in pages' : p.list = o.list /\ p.id = o.id
      /\ (\E p \in pages : p.list = "mentions" /\ p.id = newest["mentions"])'
  BY FetchedPages
<1>3. \A p \in InFlight("mentions")' :
         Continues(p, InFlight("mentions"), Mentioned, Len(mentionRows), messageCount, hidden)
  BY <1>2 DEF Continues
<1>4. MentionsSound'
  BY <1>1, <1>3, MentionListKept
<1>5. (moreMentions \/ (\E p \in InFlight("mentions") : p.more) => Len(mentionRows) >= SearchPage)'
  BY <1>1, <1>2
<1>6. mentionsLoading' \in BOOLEAN /\ mentionsOpen' \in BOOLEAN /\ moreMentions' \in BOOLEAN
      /\ mentionRows' \in Seq(1..LastMessage) /\ ToSet(mentionRows') \subseteq 1..messageCount'
  BY <1>1, <1>2
<1> QED
  BY <1>2, <1>4, <1>5, <1>6, MentionsDone

\* Nothing is fetched.
LEMMA MentionsRest ==
    ASSUME SearchInv, UNCHANGED <<messageCount, hidden, boxVars, foundVars, learned, mentionsOpen, mentionRows,
                                  moreMentions, mentionsLoading, pages, newest>>,
           heard' \in 0..messageCount', named' \in BOOLEAN
    PROVE  SearchInv'
<1>1. PagesOK /\ messageCount \in Nat
  BY SearchFacts DEF PagesOK
<1>2. PagesOK'
  BY <1>1 DEF PagesOK, OneInFlight, DataBounded, InFlight
<1>3. InFlight("search")' = InFlight("search") /\ InFlight("mentions")' = InFlight("mentions")
  BY DEF InFlight
<1>4. MentionsSound'
  BY <1>1, <1>3, MentionListKept DEF Continues
<1>5. (moreMentions \/ (\E p \in InFlight("mentions") : p.more) => Len(mentionRows) >= SearchPage)'
  BY <1>3 DEF SearchInv, MoreAfterPage
<1>6. (mentionsOpen /\ mentionsLoading => \E p \in pages : p.list = "mentions" /\ p.id = newest["mentions"])'
  BY DEF SearchInv, SearchLoadingEnds
<1>7. /\ mentionRows' \in Seq(1..LastMessage) /\ ToSet(mentionRows') \subseteq 1..messageCount'
      /\ mentionsOpen' \in BOOLEAN /\ moreMentions' \in BOOLEAN /\ mentionsLoading' \in BOOLEAN
  BY DEF SearchInv, SearchShapes, SearchTypeOK
<1> QED
  BY <1>2, <1>3, <1>4, <1>5, <1>6, <1>7, MentionsDone

-----------------------------------------------------------------------------
(* Search and mentions: every step                                          *)

LEMMA HeardSteps == ASSUME SearchInv, MentionHeard \/ NameKnown \/ LoadOlderMentions PROVE SearchInv'
<1>1. /\ messageCount \in Nat /\ heard \in 0..messageCount /\ named \in BOOLEAN /\ 0 \in Nat
      /\ Len(mentionRows) \in Nat /\ SearchPage \in Nat \ {0}
  BY SearchFacts DEF PagesOK, SearchInv, SearchShapes, SearchTypeOK
<1>2. CASE MentionHeard
  <2>1. /\ UNCHANGED <<messageCount, hidden, boxVars, foundVars, learned, mentionsOpen, mentionRows, moreMentions, named>>
        /\ heard' = heard + 1 /\ heard < messageCount
    BY <1>2 DEF MentionHeard
  <2>2. heard' \in 0..messageCount' /\ named' \in BOOLEAN
    BY <1>1, <2>1
  <2>3. CASE FetchPage(0)
    BY <1>1, <2>1, <2>2, <2>3, RefetchStep
  <2>4. CASE UNCHANGED <<mentionsLoading, pages, newest>>
    BY <2>1, <2>2, <2>4, MentionsRest
  <2> QED
    BY <1>2, <2>3, <2>4 DEF MentionHeard, Refetch
<1>3. CASE NameKnown
  <2>1. /\ UNCHANGED <<messageCount, hidden, boxVars, foundVars, learned, mentionsOpen, mentionRows, moreMentions, heard>>
        /\ named' = TRUE
    BY <1>3 DEF NameKnown, storeVars
  <2>2. heard' \in 0..messageCount' /\ named' \in BOOLEAN
    BY <1>1, <2>1
  <2>3. CASE FetchPage(0)
    BY <1>1, <2>1, <2>2, <2>3, RefetchStep
  <2>4. CASE UNCHANGED <<mentionsLoading, pages, newest>>
    BY <2>1, <2>2, <2>4, MentionsRest
  <2> QED
    BY <1>3, <2>3, <2>4 DEF NameKnown, Refetch
<1>4. CASE LoadOlderMentions
  <2>1. /\ UNCHANGED <<messageCount, hidden, boxVars, foundVars, learned, mentionsOpen, mentionRows, moreMentions, heard, named>>
        /\ moreMentions
    BY <1>4 DEF LoadOlderMentions, storeVars
  <2>2. PICK offset \in Nat : offset = Len(mentionRows)
    BY <1>1
  <2>3. FetchPage(offset)
    BY <1>4, <2>2 DEF LoadOlderMentions, FetchPage
  <2>4. Len(mentionRows) >= SearchPage
    BY <2>1 DEF SearchInv, MoreAfterPage
  <2>5. heard' \in 0..messageCount' /\ named' \in BOOLEAN
    BY <1>1, <2>1
  <2> QED
    BY <2>1, <2>2, <2>3, <2>4, <2>5, RefetchStep
<1> QED
  BY <1>2, <1>3, <1>4

LEMMA MentionsReturnStep == ASSUME SearchInv, NEW p \in pages, MentionsReturn(p) PROVE SearchInv'
<1>1. /\ PagesOK /\ messageCount \in Nat /\ messageCount <= LastMessage /\ heard \in 0..messageCount
      /\ mentionRows \in Seq(1..LastMessage) /\ mentionRows \in Seq(Int) /\ ToSet(mentionRows) \subseteq 1..messageCount
      /\ Len(mentionRows) \in Nat /\ SearchPage \in Nat \ {0}
      /\ moreMentions \in BOOLEAN /\ mentionsOpen \in BOOLEAN /\ named \in BOOLEAN /\ mentionsLoading \in BOOLEAN
      /\ "search" \in Lists /\ "mentions" \in Lists
  BY SearchFacts DEF PagesOK, SearchInv, SearchShapes, SearchTypeOK
<1>2. /\ p.list = "mentions" /\ pages' = pages \ {p} /\ newest' = newest
      /\ mentionsLoading' = (mentionsLoading /\ ~(mentionsOpen /\ p.id = newest["mentions"]))
      /\ UNCHANGED <<messageCount, hidden, heard, boxVars, foundVars, learned, mentionsOpen, named>>
  BY DEF MentionsReturn, storeVars
<1>3. PagesOK' /\ InFlight("search")' = InFlight("search") \ {p} /\ InFlight("mentions")' = InFlight("mentions") \ {p}
  BY <1>1, <1>2, EndedPages
<1>4. (mentionsOpen /\ mentionsLoading => \E o \in pages : o.list = "mentions" /\ o.id = newest["mentions"])'
  <2>1. ASSUME mentionsOpen', mentionsLoading'
        PROVE  \E o \in pages' : o.list = "mentions" /\ o.id = newest["mentions"]
    <3>1. mentionsOpen /\ mentionsLoading /\ p.id # newest["mentions"]
      BY <1>2, <2>1
    <3>2. PICK o \in pages : o.list = "mentions" /\ o.id = newest["mentions"]
      BY <3>1 DEF SearchInv, SearchLoadingEnds
    <3> QED
      BY <1>2, <3>1, <3>2
  <2> QED
    BY <1>2, <2>1
<1>5. /\ MentionsSound' /\ (moreMentions \/ (\E o \in InFlight("mentions") : o.more) => Len(mentionRows) >= SearchPage)'
      /\ mentionRows' \in Seq(1..LastMessage) /\ ToSet(mentionRows') \subseteq 1..messageCount /\ moreMentions' \in BOOLEAN
  <2>1. CASE UNCHANGED <<mentionRows, moreMentions>>
    <3>1. \A o \in InFlight("mentions")' :
             Continues(o, InFlight("mentions"), Mentioned, Len(mentionRows), messageCount, hidden)
      BY <1>3 DEF Continues
    <3>2. messageCount' \in Nat /\ messageCount <= messageCount'
      BY <1>1, <1>2
    <3>3. MentionsSound'
      BY <1>2, <2>1, <3>1, <3>2, MentionListKept
    <3>4. (moreMentions \/ (\E o \in InFlight("mentions") : o.more) => Len(mentionRows) >= SearchPage)'
      BY <1>3, <2>1 DEF SearchInv, MoreAfterPage
    <3> QED
      BY <1>1, <2>1, <3>3, <3>4
  <2>2. CASE /\ p.served
             /\ mentionRows' = IF p.more THEN Merged(mentionRows, p.data) ELSE p.data
             /\ moreMentions' = (Len(p.data) >= SearchPage)
    <3>1. /\ p \in InFlight("mentions") /\ \A o \in InFlight("mentions") : o = p
          /\ p.data \in Seq(1..LastMessage) /\ Len(p.data) \in Nat /\ ToSet(p.data) \subseteq 1..messageCount
          /\ p.offset \in Nat /\ p.more \in BOOLEAN
      BY <1>2, <2>2, ServedInFlight
    <3>2. InFlight("mentions")' = {}
      BY <1>3, <3>1
    <3>3. p.more => Len(mentionRows) >= SearchPage
      BY <3>1 DEF SearchInv, MoreAfterPage
    <3>4. /\ Merged(mentionRows, p.data) \in Seq(1..LastMessage)
          /\ ToSet(Merged(mentionRows, p.data)) = ToSet(mentionRows) \cup ToSet(p.data)
          /\ Len(Merged(mentionRows, p.data)) \in Nat
          /\ Len(Merged(mentionRows, p.data)) <= Len(mentionRows) + Len(p.data)
          /\ Len(mentionRows) <= Len(Merged(mentionRows, p.data))
      BY <1>1, <3>1, MergedLists
    <3>5. mentionRows' \in Seq(1..LastMessage) /\ ToSet(mentionRows') \subseteq 1..messageCount
      BY <1>1, <2>2, <3>1, <3>4
    <3>6. p.data \in Seq(Int)
      <4>1. 1..LastMessage \subseteq Int
        OBVIOUS
      <4> QED
        BY <3>1, <4>1, SeqOfMore
    <3>7. PICK next : next = Len(mentionRows')
      OBVIOUS
    <3>8. next \in Nat /\ next <= (IF p.more THEN Len(mentionRows) + Len(p.data) ELSE Len(p.data))
      <4>1. CASE p.more
        BY <2>2, <3>4, <3>7, <4>1
      <4>2. CASE ~p.more
        BY <2>2, <3>1, <3>7, <4>2
      <4> QED
        BY <4>1, <4>2
    <3>9. MentionsSound'
      <4>1. PICK due, offset : due = InFlight("mentions") /\ offset = Len(mentionRows)
        OBVIOUS
      <4>2. ASSUME hidden = {}
            PROVE  ListSound({}, Mentioned, mentionRows', next, messageCount, hidden)
        <5>1. ListSound(due, Mentioned, mentionRows, offset, messageCount, hidden)
          BY <4>1, <4>2 DEF SearchInv, MentionsSound
        <5>2. p \in due /\ offset \in Nat /\ next <= (IF p.more THEN offset + Len(p.data) ELSE Len(p.data))
          BY <1>1, <3>1, <3>8, <4>1
        <5>3. ListSound({}, Mentioned, IF p.more THEN Merged(mentionRows, p.data) ELSE p.data, next, messageCount, hidden)
          BY <1>1, <2>2, <3>6, <3>8, <5>1, <5>2, ListTurns
        <5> QED
          BY <2>2, <5>3
      <4> QED
        BY <1>2, <3>2, <3>7, <4>2 DEF MentionsSound
    <3>10. ASSUME moreMentions' PROVE Len(mentionRows') >= SearchPage
      <4>1. Len(p.data) >= SearchPage
        BY <2>2, <3>10
      <4>2. CASE p.more
        <5>1. mentionRows' = Merged(mentionRows, p.data)
          BY <2>2, <4>2
        <5> QED
          BY <1>1, <3>3, <3>4, <4>2, <5>1
      <4>3. CASE ~p.more
        BY <2>2, <4>1, <4>3
      <4> QED
        BY <4>2, <4>3
    <3>11. (moreMentions \/ (\E o \in InFlight("mentions") : o.more) => Len(mentionRows) >= SearchPage)'
      BY <3>2, <3>10
    <3>12. moreMentions' \in BOOLEAN
      BY <2>2
    <3> QED
      BY <3>5, <3>9, <3>11, <3>12
  <2> QED
    BY <2>1, <2>2 DEF MentionsReturn
<1>6. /\ heard' \in 0..messageCount' /\ mentionsOpen' \in BOOLEAN /\ named' \in BOOLEAN
      /\ mentionsLoading' \in BOOLEAN /\ ToSet(mentionRows') \subseteq 1..messageCount'
  BY <1>1, <1>2, <1>5
<1>7. /\ InFlight("search")' \subseteq InFlight("search")
      /\ \A o \in pages : o.list = "search" => \E r \in pages' : r.list = o.list
  BY <1>2, <1>3
<1> QED
  BY <1>2, <1>3, <1>4, <1>5, <1>6, <1>7, MentionsDone

LEMMA SearchStep == ASSUME SearchInv, [SearchNext]_searchVars PROVE SearchInv'
<1>1. CASE MessageStored \/ (\E m : MessageHidden(m)) \/ (\E q \in Queries \cup {NoQuery}, blanks \in BOOLEAN : TypeQuery(q, blanks))
  BY <1>1, StoreStep
<1>2. CASE DebounceFires \/ VisibilityChanges \/ \E q \in Queries : PrefillSearch(q)
  BY <1>2, BoxSteps
<1>3. CASE LoadMoreFound \/ OpenMentions \/ LeaveMentions
  BY <1>3, LoadMoreStep, OpenMentionsStep, LeaveMentionsStep
<1>4. CASE MentionHeard \/ NameKnown \/ LoadOlderMentions
  BY <1>4, HeardSteps
<1>5. ASSUME NEW p \in pages, PageServed(p) \/ SearchPageReturns(p) \/ MentionsReturn(p)
      PROVE  SearchInv'
  BY <1>5, ServedStep, SearchReturnStep, MentionsReturnStep
<1>6. CASE UNCHANGED searchVars
  <2>1. UNCHANGED <<messageCount, hidden, heard, debounced, foundVars, mentionsVars, pages, newest, query, debouncing, learned>>
    BY <1>6 DEF searchVars, storeVars, boxVars
  <2>2. query'.text \in Queries \cup {NoQuery} /\ debouncing' \in BOOLEAN /\ learned' \in BOOLEAN /\ (learned' => learned)
    BY <2>1 DEF SearchInv, SearchShapes, SearchTypeOK
  <2> QED
    BY <2>1, <2>2, SearchRests
<1> QED
  BY <1>1, <1>2, <1>3, <1>4, <1>5, <1>6 DEF SearchNext

\* A list that is the top of the hits is a run of them.
LEMMA SearchShows == ASSUME SearchInv PROVE SearchShowsQuery
<1>1. /\ messageCount \in Nat /\ found \in Seq(Int) /\ mentionRows \in Seq(Int)
      /\ debounced \in Queries \cup {NoQuery}
  BY SearchFacts DEF PagesOK
<1>2. PICK due, others : due = InFlight("search") /\ others = InFlight("mentions")
  OBVIOUS
<1>3. debounced # NoQuery /\ learned => RunOf(found, debounced, hidden)
  <2>1. debounced # NoQuery /\ learned => ListSound(due, debounced, found, foundOffset, messageCount, hidden)
    BY <1>2 DEF SearchInv, SearchSound
  <2>2. debounced # NoQuery => debounced \in Queries \cup {Mentioned}
    BY <1>1
  <2> QED
    BY <1>1, <2>1, <2>2, TopIsRun
<1>4. hidden = {} => RunOf(mentionRows, Mentioned, {})
  <2>1. hidden = {} => ListSound(others, Mentioned, mentionRows, Len(mentionRows), messageCount, {})
    BY <1>2 DEF SearchInv, MentionsSound
  <2> QED
    BY <1>1, <2>1, TopIsRun
<1> QED
  BY <1>3, <1>4 DEF SearchShowsQuery

-----------------------------------------------------------------------------
(* The trace pane: the hops of a draft                                      *)

Loops == {s \in Drafts : OneWidth(s)}

LEMMA HopShapes ==
    ASSUME NEW h \in TraceHops
    PROVE  /\ h.kind \in {"repeater", "custom"}
           /\ h.kind = "custom" => h.bytes \in HopWidths
           /\ h.kind # "custom" => h.key \in TraceRepeaters
BY DEF TraceHops, Repeater, Custom

LEMMA FirstNs ==
    ASSUME NEW S, NEW s \in Seq(S), NEW n \in Nat
    PROVE  FirstN(s, n) \in Seq(S) /\ Len(FirstN(s, n)) <= n
<1>1. Len(s) \in Nat
  OBVIOUS
<1>2. CASE Len(s) > n
  <2>1. /\ \A i \in 1..n : s[i] \in S
        /\ SubSeq(s, 1, n) = [i \in 1..n |-> s[i]]
    BY <1>1, <1>2
  <2> QED
    BY <1>2, <2>1 DEF FirstN
<1>3. CASE ~(Len(s) > n)
  BY <1>1, <1>3 DEF FirstN
<1> QED
  BY <1>2, <1>3

\* Hops taken from a loop of one width, in any order, are one.
LEMMA SameHops ==
    ASSUME NEW s \in Loops, NEW t \in Seq(TraceHops), Len(t) <= MaxDraft,
           \A i \in DOMAIN t : \E j \in DOMAIN s : t[i] = s[j]
    PROVE  t \in Loops
BY DEF Loops, Drafts, OneWidth, Customs

LEMMA Widths ==
    ASSUME NEW hops \in Loops, NEW none
    PROVE  /\ \A i \in Customs(hops) : WidthOf(hops, none) = hops[i].bytes
           /\ Customs(hops) # {} => WidthOf(hops, none) \in HopWidths
           /\ Customs(hops) = {} => WidthOf(hops, none) = none
<1>1. hops \in Seq(TraceHops) /\ OneWidth(hops) /\ Customs(hops) \in SUBSET DOMAIN hops
  BY DEF Loops, Drafts, Customs
<1>2. PICK I \in SUBSET DOMAIN hops : I = Customs(hops)
  BY <1>1
<1>3. /\ Picked(hops, I) \in Seq(TraceHops) /\ Len(Picked(hops, I)) = Cardinality(I) /\ IsFiniteSet(I)
      /\ \A n \in 1..Len(Picked(hops, I)) : \E i \in I : Picked(hops, I)[n] = hops[i]
  BY <1>1, PickedLists
<1>4. CASE I = {}
  BY <1>2, <1>4 DEF WidthOf
<1>5. CASE I # {}
  <2>1. Cardinality(I) \in Nat /\ Cardinality(I) # 0
    BY <1>3, <1>5, FS_CardinalityType, FS_EmptySet
  <2>2. 1 \in 1..Len(Picked(hops, I))
    BY <1>3, <2>1
  <2>3. PICK i \in I : Picked(hops, I)[1] = hops[i]
    BY <1>3, <2>2
  <2>4. WidthOf(hops, none) = hops[i].bytes
    BY <1>2, <1>5, <2>3 DEF WidthOf
  <2>5. hops[i] \in TraceHops /\ hops[i].kind = "custom"
    BY <1>1, <1>2 DEF Customs
  <2>6. hops[i].bytes \in HopWidths
    BY <2>5, HopShapes
  <2> QED
    BY <1>1, <1>2, <1>5, <2>4, <2>6 DEF OneWidth
<1> QED
  BY <1>2, <1>4, <1>5

\* A hop that is added has the width of those that are there.
LEMMA AddedHop ==
    ASSUME NEW hops \in Loops, NEW h \in TraceHops, Len(Append(hops, h)) <= MaxDraft,
           h.kind = "custom" => \A i \in Customs(hops) : h.bytes = hops[i].bytes
    PROVE  Append(hops, h) \in Loops
<1>1. hops \in Seq(TraceHops) /\ Len(hops) \in Nat
  BY DEF Loops, Drafts
<1>2. PICK t : t = Append(hops, h)
  OBVIOUS
<1>3. /\ t \in Seq(TraceHops) /\ DOMAIN t = 1..(Len(hops) + 1)
      /\ \A i \in 1..Len(hops) : t[i] = hops[i]
      /\ t[Len(hops) + 1] = h
  BY <1>1, <1>2
<1>4. \A i \in Customs(t) : i \in Customs(hops) \/ (t[i] = h /\ h.kind = "custom")
  BY <1>1, <1>3 DEF Customs
<1>5. \A i \in Customs(hops) : t[i] = hops[i]
  BY <1>1, <1>3 DEF Customs
<1>6. OneWidth(t)
  BY <1>4, <1>5 DEF OneWidth, Loops
<1> QED
  BY <1>2, <1>3, <1>6 DEF Loops, Drafts

LEMMA EmptyLoop == <<>> \in Loops
<1>1. <<>> \in Seq(TraceHops) /\ Len(<<>>) = 0 /\ DOMAIN <<>> = {}
  OBVIOUS
<1> QED
  BY <1>1, TraceAssumption DEF Loops, Drafts, OneWidth, Customs

LEMMA RemovedHop ==
    ASSUME NEW s \in Loops, NEW i \in DOMAIN s, Len(RemoveAt(s, i)) <= MaxDraft
    PROVE  RemoveAt(s, i) \in Loops
<1>1. s \in Seq(TraceHops) /\ Len(s) \in Nat /\ i \in 1..Len(s)
  BY DEF Loops, Drafts
<1>2. PICK a, b : a = SubSeq(s, 1, i - 1) /\ b = SubSeq(s, i + 1, Len(s))
  OBVIOUS
<1>3. /\ a \in Seq(TraceHops) /\ Len(a) = i - 1 /\ \A k \in 1..Len(a) : a[k] = s[k]
  BY <1>1, <1>2
<1>4. /\ b \in Seq(TraceHops) /\ Len(b) = Len(s) - i /\ \A k \in 1..Len(b) : b[k] = s[i + k]
  BY <1>1, <1>2
<1>5. RemoveAt(s, i) = a \o b
  BY <1>2 DEF RemoveAt
<1>6. a \o b \in Seq(TraceHops) /\ Len(a \o b) = Len(a) + Len(b)
  BY <1>3, <1>4, ConcatProperties
<1>7. \A k \in DOMAIN (a \o b) : \E j \in DOMAIN s : (a \o b)[k] = s[j]
  <2> TAKE k \in DOMAIN (a \o b)
  <2>1. k \in 1..(Len(a) + Len(b))
    BY <1>6
  <2>2. CASE k <= Len(a)
    <3>1. k \in 1..Len(a) /\ (a \o b)[k] = a[k]
      BY <1>3, <1>4, <2>1, <2>2
    <3>2. k \in DOMAIN s
      BY <1>1, <1>3, <3>1
    <3> QED
      BY <1>3, <3>1, <3>2
  <2>3. CASE ~(k <= Len(a))
    <3>3. Len(a) \in Nat /\ Len(b) \in Nat
      BY <1>3, <1>4
    <3>4. k - Len(a) \in 1..Len(b)
      BY <2>1, <2>3, <3>3
    <3>1. k - Len(a) \in 1..Len(b) /\ (a \o b)[k] = b[k - Len(a)]
      BY <1>3, <1>4, <2>1, <2>3, <3>3, <3>4, ConcatProperties
    <3>2. i + (k - Len(a)) \in DOMAIN s
      BY <1>1, <1>3, <1>4, <3>1
    <3> QED
      BY <1>4, <3>1, <3>2
  <2> QED
    BY <2>2, <2>3
<1> QED
  BY <1>5, <1>6, <1>7, SameHops

LEMMA MovedHop ==
    ASSUME NEW s \in Loops, NEW i \in DOMAIN s, i + 1 \in DOMAIN s, NEW t,
           t = [s EXCEPT ![i] = s[i + 1], ![i + 1] = s[i]], Len(t) <= MaxDraft
    PROVE  t \in Loops
<1>1. s \in Seq(TraceHops) /\ Len(s) \in Nat
  BY DEF Loops, Drafts
<1>2. t \in Seq(TraceHops) /\ DOMAIN t = DOMAIN s
  BY <1>1
<1>3. \A k \in DOMAIN t : \E j \in DOMAIN s : t[k] = s[j]
  BY <1>1
<1>4. PICK u : u = t
  OBVIOUS
<1>5. u \in Seq(TraceHops) /\ Len(u) <= MaxDraft /\ \A k \in DOMAIN u : \E j \in DOMAIN s : u[k] = s[j]
  BY <1>2, <1>3, <1>4
<1>6. u \in Loops
  BY <1>5, SameHops
<1> QED
  BY <1>4, <1>6

LEMMA ReversedHops ==
    ASSUME NEW s \in Loops, Len(s) >= 2, Len(s \o Tail(Reverse(s))) <= MaxDraft
    PROVE  s \o Tail(Reverse(s)) \in Loops
<1>1. s \in Seq(TraceHops) /\ Len(s) \in Nat
  BY DEF Loops, Drafts
<1>2. PICK b : b = Tail(Reverse(s))
  OBVIOUS
<1>3. Reverse(s) \in Seq(TraceHops) /\ Len(Reverse(s)) = Len(s) /\ \A k \in 1..Len(s) : Reverse(s)[k] = s[(Len(s) - k) + 1]
  BY <1>1 DEF Reverse
<1>4. /\ b \in Seq(TraceHops) /\ Len(b) = Len(s) - 1
      /\ \A k \in 1..Len(b) : b[k] = Reverse(s)[k + 1]
  BY <1>2, <1>3
<1>5. s \o b \in Seq(TraceHops) /\ Len(s \o b) = Len(s) + Len(b)
  BY <1>1, <1>4, ConcatProperties
<1>6. \A k \in DOMAIN (s \o b) : \E j \in DOMAIN s : (s \o b)[k] = s[j]
  <2> TAKE k \in DOMAIN (s \o b)
  <2>1. k \in 1..(Len(s) + Len(b))
    BY <1>5
  <2>2. CASE k <= Len(s)
    BY <1>1, <1>4, <2>1, <2>2
  <2>3. CASE ~(k <= Len(s))
    <3>1. k - Len(s) \in 1..Len(b) /\ (s \o b)[k] = b[k - Len(s)]
      BY <1>1, <1>4, <2>1, <2>3
    <3>2. k - Len(s) + 1 \in 1..Len(s)
      BY <1>1, <1>4, <3>1
    <3>3. b[k - Len(s)] = s[(Len(s) - (k - Len(s) + 1)) + 1]
      BY <1>3, <1>4, <3>1, <3>2
    <3>4. (Len(s) - (k - Len(s) + 1)) + 1 \in DOMAIN s
      BY <1>1, <3>2
    <3> QED
      BY <3>1, <3>3, <3>4
  <2> QED
    BY <2>2, <2>3
<1> QED
  BY <1>2, <1>5, <1>6, SameHops

-----------------------------------------------------------------------------
(* The trace pane: what is remembered of a trace                            *)

LEMMA LoopLists ==
    ASSUME NEW s
    PROVE  s \in Seq(Loops) <=> s \in Seq(Drafts) /\ \A i \in DOMAIN s : OneWidth(s[i])
<1>1. ASSUME s \in Seq(Loops)
      PROVE  s \in Seq(Drafts) /\ \A i \in DOMAIN s : OneWidth(s[i])
  <2>1. \A i \in DOMAIN s : s[i] \in Loops
    BY <1>1
  <2>2. Loops \subseteq Drafts
    BY DEF Loops
  <2> QED
    BY <1>1, <2>1, <2>2, SeqOfMore DEF Loops
<1>2. ASSUME s \in Seq(Drafts), \A i \in DOMAIN s : OneWidth(s[i])
      PROVE  s \in Seq(Loops)
  <2>1. Len(s) \in Nat /\ s = [i \in 1..Len(s) |-> s[i]] /\ \A i \in 1..Len(s) : s[i] \in Loops
    BY <1>2 DEF Loops
  <2> QED
    BY <2>1
<1> QED
  BY <1>1, <1>2

LEMMA SavedTraces ==
    ASSUME storedTraces \in Seq(Loops), NEW hops \in Loops
    PROVE  SaveRecentTrace(hops) \in Seq(Loops) /\ Len(SaveRecentTrace(hops)) <= MaxRecentTraces
<1>1. PICK I \in SUBSET DOMAIN storedTraces : I = {i \in DOMAIN storedTraces : storedTraces[i] # hops}
  OBVIOUS
<1>2. PICK s : s = Picked(storedTraces, I)
  OBVIOUS
<1>5. s \in Seq(Loops)
  BY <1>2, PickedLists
<1>3. <<hops>> \o s \in Seq(Loops)
  <2>1. <<hops>> \in Seq(Loops)
    OBVIOUS
  <2> QED
    BY <1>5, <2>1, ConcatProperties
<1>4. SaveRecentTrace(hops) = FirstN(<<hops>> \o s, MaxRecentTraces)
  BY <1>1, <1>2 DEF SaveRecentTrace
<1> QED
  BY <1>3, <1>4, FirstNs, TraceAssumption

LEMMA KeysOfHops ==
    ASSUME NEW hops \in Loops
    PROVE  RepeaterKeys(hops) \in Seq(TraceRepeaters)
<1>1. PICK I \in SUBSET DOMAIN hops :
         I = {i \in DOMAIN hops : /\ hops[i].kind # "custom"
                                  /\ \A j \in 1..(i - 1) : hops[j].kind # "custom" => hops[j].key # hops[i].key}
  OBVIOUS
<1>2. hops \in Seq(TraceHops)
  BY DEF Loops, Drafts
<1>3. PICK s : s = Picked(hops, I)
  OBVIOUS
<1>4. /\ s \in Seq(TraceHops) /\ Len(s) \in Nat
      /\ \A n \in 1..Len(s) : \E i \in I : s[n] = hops[i]
  BY <1>2, <1>3, PickedLists
<1>5. \A n \in 1..Len(s) : s[n].key \in TraceRepeaters
  <2> TAKE n \in 1..Len(s)
  <2>1. s[n] \in TraceHops /\ s[n].kind # "custom"
    BY <1>1, <1>4
  <2> QED
    BY <2>1, HopShapes
<1>6. RepeaterKeys(hops) = [n \in DOMAIN s |-> s[n].key]
  BY <1>1, <1>3 DEF RepeaterKeys
<1>7. DOMAIN s = 1..Len(s)
  BY <1>4
<1> QED
  BY <1>4, <1>5, <1>6, <1>7

LEMMA SavedNodes ==
    ASSUME storedNodes \in Seq(TraceRepeaters), NEW hops \in Loops
    PROVE  SaveRecentNodes(hops) \in Seq(TraceRepeaters) /\ Len(SaveRecentNodes(hops)) <= MaxRecentNodes
<1>1. PICK fresh : fresh = RepeaterKeys(hops)
  OBVIOUS
<1>2. PICK I \in SUBSET DOMAIN storedNodes : I = {i \in DOMAIN storedNodes : storedNodes[i] \notin ToSet(fresh)}
  OBVIOUS
<1>6. PICK s : s = Picked(storedNodes, I)
  OBVIOUS
<1>3. s \in Seq(TraceRepeaters)
  BY <1>6, PickedLists
<1>4. fresh \o s \in Seq(TraceRepeaters)
  <2>1. fresh \in Seq(TraceRepeaters)
    BY <1>1, KeysOfHops
  <2> QED
    BY <1>3, <2>1, ConcatProperties
<1>5. SaveRecentNodes(hops) = FirstN(fresh \o s, MaxRecentNodes)
  BY <1>1, <1>2, <1>6 DEF SaveRecentNodes
<1> QED
  BY <1>4, <1>5, FirstNs, TraceAssumption

(* The invariant by parts.                                                  *)
PaneOK(p) ==
    /\ PaneFields \subseteq DOMAIN p /\ {"open", "bytes", "error"} \subseteq DOMAIN p.dialog
    /\ p.draft \in Loops /\ p.recent \in Seq(Loops) /\ p.nodes \in Seq(TraceRepeaters)
    /\ p.shown \in BOOLEAN /\ p.loading \in BOOLEAN /\ p.failed \in BOOLEAN /\ p.dialog.bytes \in HopWidths

StoredOK(traces, nodes) ==
    /\ traces \in Seq(Loops) /\ Len(traces) <= MaxRecentTraces
    /\ nodes \in Seq(TraceRepeaters) /\ Len(nodes) <= MaxRecentNodes

RunShape(t, last) ==
    /\ t \in [hops : Loops, bytes : Nat, current : BOOLEAN, mount : 0..last]
    /\ \A i \in DOMAIN t.hops : t.hops[i].kind = "custom" => t.hops[i].bytes = t.bytes

TraceParts ==
    /\ PaneOK(pane) /\ StoredOK(storedTraces, storedNodes) /\ paneMount \in 0..MaxTraceMounts
    /\ \A t \in traceRuns : RunShape(t, paneMount)
    /\ RunsForDraft /\ TraceLoadingEnds /\ (pane.result # <<>> => pane.result = pane.draft)

LEMMA PartsOfTrace == TraceInv <=> TraceParts
<1>1. \A d : d \in Loops <=> d \in Drafts /\ OneWidth(d)
  BY DEF Loops
<1>2. \A t : t \in [hops : Loops, bytes : Nat, current : BOOLEAN, mount : 0..paneMount] <=>
             t \in [hops : Drafts, bytes : Nat, current : BOOLEAN, mount : 0..paneMount] /\ OneWidth(t.hops)
  BY <1>1
<1>3. /\ storedTraces \in Seq(Loops) <=> storedTraces \in Seq(Drafts) /\ \A i \in DOMAIN storedTraces : OneWidth(storedTraces[i])
      /\ pane.recent \in Seq(Loops) <=> pane.recent \in Seq(Drafts) /\ \A i \in DOMAIN pane.recent : OneWidth(pane.recent[i])
  BY LoopLists
<1>4. TraceInv => TraceParts
  BY <1>1, <1>2, <1>3 DEF TraceInv, TraceTypeOK, LoopsOfOneWidth, ResultIsForDraft, TraceParts, PaneOK, StoredOK, RunShape
<1>5. TraceParts => TraceInv
  BY <1>1, <1>2, <1>3 DEF TraceInv, TraceTypeOK, LoopsOfOneWidth, ResultIsForDraft, TraceParts, PaneOK, StoredOK, RunShape
<1> QED
  BY <1>4, <1>5

-----------------------------------------------------------------------------
(* The trace pane: drafts and runs                                          *)

LEMMA FreshPanes ==
    ASSUME StoredOK(storedTraces, storedNodes), NEW shown \in BOOLEAN, NEW p, p = FreshPane(shown)
    PROVE  PaneOK(p) /\ p.shown = shown /\ p.loading = FALSE /\ p.result = <<>>
<1>1. /\ PaneFields \subseteq DOMAIN p /\ p.dialog = NoDialog /\ p.draft = <<>>
      /\ p.recent = storedTraces /\ p.nodes = storedNodes
      /\ p.shown = shown /\ p.loading = FALSE /\ p.failed = FALSE /\ p.result = <<>>
  BY DEF FreshPane, PaneFields
<1>2. {"open", "bytes", "error"} \subseteq DOMAIN p.dialog /\ p.dialog.bytes \in HopWidths
  BY <1>1, TraceAssumption DEF NoDialog
<1> QED
  BY <1>1, <1>2, EmptyLoop DEF PaneOK, StoredOK

LEMMA TraceStarts == ASSUME TraceInit PROVE TraceInv
<1>1. StoredOK(storedTraces, storedNodes)
  BY TraceAssumption DEF TraceInit, StoredOK
<1>2. PaneOK(pane) /\ pane.shown = FALSE /\ pane.loading = FALSE /\ pane.result = <<>>
  BY <1>1, FreshPanes DEF TraceInit
<1>3. paneMount \in 0..MaxTraceMounts /\ traceRuns = {}
  BY TraceAssumption DEF TraceInit
<1>4. TraceParts
  BY <1>1, <1>2, <1>3 DEF TraceParts, RunsForDraft, TraceLoadingEnds
<1> QED
  BY <1>4, PartsOfTrace

LEMMA DropKeepsShape ==
    ASSUME TraceParts
    PROVE  \A t \in RunsDropped : RunShape(t, paneMount) /\ ~(t.current /\ t.mount = paneMount)
<1>1. SUFFICES ASSUME NEW t \in traceRuns, NEW u, u = [t EXCEPT !.current = t.current /\ t.mount # paneMount]
               PROVE  RunShape(u, paneMount) /\ ~(u.current /\ u.mount = paneMount)
  BY DEF RunsDropped
<1>2. RunShape(t, paneMount)
  BY DEF TraceParts
<1> QED
  BY <1>1, <1>2 DEF RunShape

LEMMA ClearedPanes ==
    ASSUME NEW p, PaneOK(p), NEW q, q = [p EXCEPT !.loading = FALSE, !.result = <<>>, !.failed = FALSE]
    PROVE  /\ PaneOK(q) /\ q.shown = p.shown /\ q.draft = p.draft
           /\ q.loading = FALSE /\ q.result = <<>> /\ q.failed = FALSE
BY DEF PaneOK, PaneFields

LEMMA DraftedPanes ==
    ASSUME NEW p, PaneOK(p), NEW draft \in Loops, NEW q, q = [p EXCEPT !.draft = draft]
    PROVE  /\ PaneOK(q) /\ q.shown = p.shown /\ q.draft = draft /\ q.loading = p.loading /\ q.result = p.result
BY DEF PaneOK, PaneFields

LEMMA Edited ==
    ASSUME TraceParts, NEW draft, Len(draft) <= MaxDraft => draft \in Loops, NEW p, PaneOK(p), Edit(draft, p)
    PROVE  TraceParts'
<1>1. draft \in Loops
  BY DEF Edit
<1>2. PICK q : q = [p EXCEPT !.draft = draft]
  OBVIOUS
<1>3. pane' = [q EXCEPT !.loading = FALSE, !.result = <<>>, !.failed = FALSE] /\ traceRuns' = RunsDropped
  BY <1>2 DEF Edit, Cleared
<1>4. PaneOK(q)
  BY <1>1, <1>2, DraftedPanes
<1>5. PaneOK(pane') /\ pane'.loading = FALSE /\ pane'.result = <<>>
  BY <1>3, <1>4, ClearedPanes
<1>6. UNCHANGED <<storedTraces, storedNodes, paneMount>>
  BY DEF Edit, StoresUnchanged
<1>7. \A t \in traceRuns' : RunShape(t, paneMount) /\ ~(t.current /\ t.mount = paneMount)
  BY <1>3, DropKeepsShape
<1> QED
  BY <1>5, <1>6, <1>7 DEF TraceParts, RunsForDraft, TraceLoadingEnds

LEMMA RunStarted ==
    ASSUME TraceParts, NEW hops \in Loops, Run(hops), pane.shown
    PROVE  TraceParts'
<1>1. PICK q : q = Cleared(pane)
  OBVIOUS
<1>2. PICK s : s = [q EXCEPT !.draft = hops]
  OBVIOUS
<1>3. PaneOK(pane) /\ PaneOK(q) /\ q.shown = pane.shown /\ q.result = <<>>
  BY <1>1, ClearedPanes DEF Cleared, TraceParts
<1>4. PaneOK(s) /\ s.shown = pane.shown /\ s.draft = hops /\ s.result = <<>>
  BY <1>2, <1>3, DraftedPanes
<1>5. pane' = [s EXCEPT !.loading = TRUE]
  BY <1>1, <1>2, <1>3 DEF Run, PaneOK, PaneFields
<1>6. PaneOK(pane') /\ pane'.shown = pane.shown /\ pane'.draft = hops /\ pane'.result = <<>>
  BY <1>4, <1>5 DEF PaneOK, PaneFields
<1>7. PICK t : t = [hops |-> hops, bytes |-> EffectiveBytes(hops), current |-> TRUE, mount |-> paneMount]
  OBVIOUS
<1>8. traceRuns' = RunsDropped \cup {t} /\ UNCHANGED <<storedTraces, storedNodes, paneMount>>
  BY <1>7 DEF Run, StoresUnchanged
<1>9. RunShape(t, paneMount)
  <2>1. EffectiveBytes(hops) \in Nat
    <3>1. WidthOf(hops, 4) \in HopWidths \/ WidthOf(hops, 4) = 4
      BY Widths
    <3>2. HopWidths \subseteq Nat
      BY TraceAssumption
    <3>3. EffectiveBytes(hops) = WidthOf(hops, 4)
      BY DEF EffectiveBytes
    <3>4. PICK w : w = WidthOf(hops, 4)
      OBVIOUS
    <3>6. CASE w \in HopWidths
      BY <3>2, <3>3, <3>4, <3>6
    <3>7. CASE w = 4
      BY <3>3, <3>4, <3>7
    <3> QED
      BY <3>1, <3>4, <3>6, <3>7
  <2>2. \A i \in DOMAIN hops : hops[i].kind = "custom" => hops[i].bytes = EffectiveBytes(hops)
    BY Widths DEF EffectiveBytes, Customs
  <2>3. paneMount \in 0..paneMount
    BY TraceAssumption DEF TraceParts
  <2> QED
    BY <1>7, <2>1, <2>2, <2>3 DEF RunShape
<1>10. \A u \in RunsDropped : RunShape(u, paneMount) /\ ~(u.current /\ u.mount = paneMount)
  BY DropKeepsShape
<1>11. t.hops = hops /\ t.current = TRUE /\ t.mount = paneMount
  BY <1>7
<1> QED
  BY <1>6, <1>8, <1>9, <1>10, <1>11 DEF TraceParts, RunsForDraft, TraceLoadingEnds

\* What changes neither the runs nor whether the pane shows and loads.
LEMMA PaneKept ==
    ASSUME TraceParts, UNCHANGED <<traceRuns, paneMount, storedTraces, storedNodes>>, PaneOK(pane'),
           pane'.shown = pane.shown, pane'.loading = pane.loading, pane'.draft = pane.draft,
           pane'.result \in {<<>>, pane.result}
    PROVE  TraceParts'
BY DEF TraceParts, RunsForDraft, TraceLoadingEnds

-----------------------------------------------------------------------------
(* The trace pane: every step                                               *)

LEMMA PaneFacts ==
    ASSUME TraceParts
    PROVE  /\ PaneOK(pane) /\ PaneFields \subseteq DOMAIN pane /\ pane.draft \in Loops /\ pane.recent \in Seq(Loops)
           /\ {"open", "bytes", "error"} \subseteq DOMAIN pane.dialog /\ pane.dialog.bytes \in HopWidths
           /\ "draft" \in DOMAIN pane /\ "dialog" \in DOMAIN pane
           /\ pane.draft \in Seq(TraceHops) /\ Len(pane.draft) \in Nat
<1>1. PaneOK(pane) /\ pane.draft \in Seq(TraceHops)
  BY DEF TraceParts, PaneOK, Loops, Drafts
<1> QED
  BY <1>1 DEF PaneOK, PaneFields

LEMMA LockedIs ==
    ASSUME TraceParts
    PROVE  /\ \A i \in Customs(pane.draft) : LockedBytes = pane.draft[i].bytes
           /\ LockedBytes \in HopWidths \cup {0}
           /\ LockedBytes = 0 => Customs(pane.draft) = {}
<1>1. PICK hops \in Loops : hops = pane.draft
  BY PaneFacts
<1>2. /\ \A i \in Customs(hops) : WidthOf(hops, 0) = hops[i].bytes
      /\ Customs(hops) # {} => WidthOf(hops, 0) \in HopWidths
      /\ Customs(hops) = {} => WidthOf(hops, 0) = 0
  BY Widths
<1>3. 0 \notin HopWidths
  BY TraceAssumption
<1> QED
  BY <1>1, <1>2, <1>3 DEF LockedBytes

\* The panes that a dialog, a list or a result leaves.
LEMMA DialogPanes ==
    ASSUME NEW p, PaneOK(p), NEW d, {"open", "bytes", "error"} \subseteq DOMAIN d, d.bytes \in HopWidths,
           NEW q, q = [p EXCEPT !.dialog = d]
    PROVE  PaneOK(q) /\ q.shown = p.shown /\ q.loading = p.loading /\ q.draft = p.draft /\ q.result = p.result
BY DEF PaneOK, PaneFields

LEMMA DialogSteps ==
    ASSUME TraceParts, CloseCustomDialog \/ OpenCustomDialog \/ \E w \in HopWidths : ChooseHopWidth(w)
    PROVE  TraceParts'
<1>1. PICK d : /\ {"open", "bytes", "error"} \subseteq DOMAIN d /\ d.bytes \in HopWidths
               /\ pane' = [pane EXCEPT !.dialog = d]
  <2>1. CASE CloseCustomDialog
    <3>1. pane' = [pane EXCEPT !.dialog = [pane.dialog EXCEPT !.open = FALSE]]
      BY <2>1, PaneFacts DEF CloseCustomDialog
    <3> QED
      BY <3>1, PaneFacts
  <2>2. CASE OpenCustomDialog
    <3>1. pane' = [pane EXCEPT !.dialog = [open |-> TRUE, bytes |-> IF LockedBytes # 0 THEN LockedBytes ELSE 1,
                                           error |-> FALSE]]
      BY <2>2 DEF OpenCustomDialog
    <3>2. (IF LockedBytes # 0 THEN LockedBytes ELSE 1) \in HopWidths
      BY LockedIs, TraceAssumption
    <3> QED
      BY <3>1, <3>2
  <2>3. ASSUME NEW w \in HopWidths, ChooseHopWidth(w)
        PROVE  \E d : /\ {"open", "bytes", "error"} \subseteq DOMAIN d /\ d.bytes \in HopWidths
                      /\ pane' = [pane EXCEPT !.dialog = d]
    <3>1. pane' = [pane EXCEPT !.dialog = [pane.dialog EXCEPT !.bytes = w]]
      BY <2>3, PaneFacts DEF ChooseHopWidth
    <3> QED
      BY <3>1, PaneFacts
  <2> QED
    BY <2>1, <2>2, <2>3
<1>2. PaneOK(pane') /\ pane'.shown = pane.shown /\ pane'.loading = pane.loading /\ pane'.draft = pane.draft
      /\ pane'.result = pane.result
  BY <1>1, PaneFacts, DialogPanes
<1>3. UNCHANGED <<traceRuns, paneMount, storedTraces, storedNodes>>
  BY DEF CloseCustomDialog, OpenCustomDialog, ChooseHopWidth, StoresUnchanged
<1> QED
  BY <1>2, <1>3, PaneKept

LEMMA AddCustomStep ==
    ASSUME TraceParts, NEW fits \in BOOLEAN, HandleAddCustomHop(fits)
    PROVE  TraceParts'
<1>1. CASE fits
  <2>1. PICK p : p = [pane EXCEPT !.dialog.open = FALSE]
    OBVIOUS
  <2>2. PaneOK(p)
    <3>1. PICK d : d = [pane.dialog EXCEPT !.open = FALSE]
      OBVIOUS
    <3>2. {"open", "bytes", "error"} \subseteq DOMAIN d /\ d.bytes \in HopWidths
      BY <3>1, PaneFacts
    <3>3. p = [pane EXCEPT !.dialog = d]
      BY <2>1, <3>1, PaneFacts
    <3> QED
      BY <3>2, <3>3, PaneFacts, DialogPanes
  <2>3. PICK w : w = IF LockedBytes # 0 THEN LockedBytes ELSE pane.dialog.bytes
    OBVIOUS
  <2>4. PICK h : h = Custom(w)
    OBVIOUS
  <2>5. w \in HopWidths /\ \A i \in Customs(pane.draft) : w = pane.draft[i].bytes
    BY <2>3, LockedIs, PaneFacts
  <2>6. h \in TraceHops /\ h.bytes = w
    BY <2>4, <2>5 DEF TraceHops, Custom
  <2>7. PICK draft : draft = Append(pane.draft, h)
    OBVIOUS
  <2>8. Len(draft) <= MaxDraft => draft \in Loops
    BY <2>5, <2>6, <2>7, PaneFacts, AddedHop
  <2>9. Edit(draft, p)
    BY <1>1, <2>1, <2>3, <2>4, <2>7 DEF HandleAddCustomHop, Edit
  <2> QED
    BY <2>2, <2>8, <2>9, Edited
<1>2. CASE ~fits
  <2>1. PICK d : d = [pane.dialog EXCEPT !.error = TRUE]
    OBVIOUS
  <2>2. {"open", "bytes", "error"} \subseteq DOMAIN d /\ d.bytes \in HopWidths
    BY <2>1, PaneFacts
  <2>3. pane' = [pane EXCEPT !.dialog = d] /\ UNCHANGED <<traceRuns, paneMount, storedTraces, storedNodes>>
    BY <1>2, <2>1, PaneFacts DEF HandleAddCustomHop, StoresUnchanged
  <2> QED
    BY <2>2, <2>3, PaneFacts, DialogPanes, PaneKept
<1> QED
  BY <1>1, <1>2

LEMMA DraftSteps ==
    ASSUME TraceParts,
           \/ \E r \in TraceRepeaters : HandleAddRepeater(r)
           \/ \E i \in 1..MaxDraft : HandleRemoveHop(i) \/ HandleMoveHop(i)
           \/ HandleReverseLink \/ HandleClear
    PROVE  TraceParts'
<1>1. ASSUME NEW r \in TraceRepeaters, HandleAddRepeater(r)
      PROVE  TraceParts'
  <2>1. PICK h : h = Repeater(r)
    OBVIOUS
  <2>2. PICK draft : draft = Append(pane.draft, h)
    OBVIOUS
  <2>3. h \in TraceHops /\ h.kind # "custom"
    BY <2>1 DEF TraceHops, Repeater
  <2>4. Len(draft) <= MaxDraft => draft \in Loops
    BY <2>2, <2>3, PaneFacts, AddedHop
  <2>5. Edit(draft, pane)
    BY <1>1, <2>1, <2>2 DEF HandleAddRepeater
  <2> QED
    BY <2>4, <2>5, PaneFacts, Edited
<1>2. ASSUME NEW i \in 1..MaxDraft, HandleRemoveHop(i)
      PROVE  TraceParts'
  <2>1. i \in DOMAIN pane.draft
    BY <1>2 DEF HandleRemoveHop, HopControls
  <2>2. PICK draft : draft = RemoveAt(pane.draft, i)
    OBVIOUS
  <2>3. Len(draft) <= MaxDraft => draft \in Loops
    BY <2>1, <2>2, PaneFacts, RemovedHop
  <2>4. Edit(draft, pane)
    BY <1>2, <2>2 DEF HandleRemoveHop
  <2> QED
    BY <2>3, <2>4, PaneFacts, Edited
<1>3. ASSUME NEW i \in 1..MaxDraft, HandleMoveHop(i)
      PROVE  TraceParts'
  <2>1. i \in DOMAIN pane.draft /\ i + 1 \in DOMAIN pane.draft
    BY <1>3 DEF HandleMoveHop, HopControls
  <2>2. PICK draft : draft = [pane.draft EXCEPT ![i] = pane.draft[i + 1], ![i + 1] = pane.draft[i]]
    OBVIOUS
  <2>3. Len(draft) <= MaxDraft => draft \in Loops
    BY <2>1, <2>2, PaneFacts, MovedHop
  <2>4. Edit(draft, pane)
    BY <1>3, <2>2 DEF HandleMoveHop
  <2> QED
    BY <2>3, <2>4, PaneFacts, Edited
<1>4. CASE HandleReverseLink
  <2>1. Len(pane.draft) >= 2
    BY <1>4, PaneFacts DEF HandleReverseLink, DraftControls
  <2>2. PICK draft : draft = pane.draft \o Tail(Reverse(pane.draft))
    OBVIOUS
  <2>3. Len(draft) <= MaxDraft => draft \in Loops
    BY <2>1, <2>2, PaneFacts, ReversedHops
  <2>4. Edit(draft, pane)
    BY <1>4, <2>2 DEF HandleReverseLink
  <2> QED
    BY <2>3, <2>4, PaneFacts, Edited
<1>5. CASE HandleClear
  <2>1. PICK draft : draft = <<>>
    OBVIOUS
  <2>2. draft \in Loops /\ Edit(draft, pane)
    BY <1>5, <2>1, EmptyLoop DEF HandleClear
  <2> QED
    BY <2>2, PaneFacts, Edited
<1> QED
  BY <1>1, <1>2, <1>3, <1>4, <1>5

LEMMA ReturnStep ==
    ASSUME TraceParts, NEW t \in traceRuns, NEW ok \in BOOLEAN, TraceReturns(t, ok)
    PROVE  TraceParts'
<1>1. /\ traceRuns' = traceRuns \ {t} /\ paneMount' = paneMount
      /\ RunShape(t, paneMount) /\ t.hops \in Loops
  BY DEF TraceReturns, TraceParts, RunShape
<1>2. StoredOK(storedTraces', storedNodes')
  <2>1. CASE UNCHANGED <<storedTraces, storedNodes>>
    BY <2>1 DEF TraceParts
  <2>2. CASE storedTraces' = SaveRecentTrace(t.hops) /\ storedNodes' = SaveRecentNodes(t.hops)
    <3>1. PICK hops \in Loops : hops = t.hops
      BY <1>1
    <3>2. storedTraces \in Seq(Loops) /\ storedNodes \in Seq(TraceRepeaters)
      BY DEF TraceParts, StoredOK
    <3>3. SaveRecentTrace(hops) \in Seq(Loops) /\ Len(SaveRecentTrace(hops)) <= MaxRecentTraces
      BY <3>2, SavedTraces
    <3>4. SaveRecentNodes(hops) \in Seq(TraceRepeaters) /\ Len(SaveRecentNodes(hops)) <= MaxRecentNodes
      BY <3>2, SavedNodes
    <3> QED
      BY <2>2, <3>1, <3>3, <3>4 DEF StoredOK
  <2> QED
    BY <2>1, <2>2 DEF TraceReturns
<1>3. CASE t.current /\ pane.shown /\ t.mount = paneMount
  <2>1. t.hops = pane.draft
    BY <1>3 DEF TraceParts, RunsForDraft
  <2>2. CASE ok
    <3>1. PICK traces, nodes : traces = storedTraces' /\ nodes = storedNodes'
      OBVIOUS
    <3>2. pane' = [pane EXCEPT !.loading = FALSE, !.result = t.hops, !.recent = traces, !.nodes = nodes]
      BY <1>3, <2>2, <3>1 DEF TraceReturns
    <3>3. traces \in Seq(Loops) /\ nodes \in Seq(TraceRepeaters)
      BY <1>2, <3>1 DEF StoredOK
    <3>4. /\ PaneOK(pane') /\ pane'.shown = pane.shown /\ pane'.loading = FALSE /\ pane'.draft = pane.draft
          /\ pane'.result = t.hops
      BY <3>2, <3>3, PaneFacts DEF PaneOK, PaneFields
    <3> QED
      BY <1>1, <1>2, <2>1, <3>4 DEF TraceParts, RunsForDraft, TraceLoadingEnds
  <2>3. CASE ~ok
    <3>1. pane' = [pane EXCEPT !.loading = FALSE, !.failed = TRUE]
      BY <1>3, <2>3 DEF TraceReturns
    <3>2. /\ PaneOK(pane') /\ pane'.shown = pane.shown /\ pane'.loading = FALSE /\ pane'.draft = pane.draft
          /\ pane'.result = pane.result
      BY <3>1, PaneFacts DEF PaneOK, PaneFields
    <3> QED
      BY <1>1, <1>2, <3>2 DEF TraceParts, RunsForDraft, TraceLoadingEnds
  <2> QED
    BY <2>2, <2>3
<1>4. CASE ~(t.current /\ pane.shown /\ t.mount = paneMount)
  <2>1. pane' = pane
    BY <1>4 DEF TraceReturns
  <2> QED
    BY <1>1, <1>2, <1>4, <2>1 DEF TraceParts, RunsForDraft, TraceLoadingEnds
<1> QED
  BY <1>3, <1>4

LEMMA MountSteps ==
    ASSUME TraceParts, OpenTracePane \/ LeaveTracePane
    PROVE  TraceParts'
<1>1. /\ StoredOK(storedTraces, storedNodes) /\ paneMount \in 0..MaxTraceMounts /\ MaxTraceMounts \in Nat
      /\ UNCHANGED <<storedTraces, storedNodes, traceRuns>>
  BY TraceAssumption DEF TraceParts, OpenTracePane, LeaveTracePane
<1>2. \A t \in traceRuns : RunShape(t, paneMount) /\ t.mount \in 0..paneMount
  BY DEF TraceParts, RunShape
<1>3. CASE OpenTracePane
  <2>1. /\ PaneOK(pane') /\ pane'.loading = FALSE /\ pane'.result = <<>>
        /\ paneMount' = paneMount + 1 /\ paneMount' \in 0..MaxTraceMounts
    <3>1. PICK p : p = FreshPane(TRUE)
      OBVIOUS
    <3>2. PaneOK(p) /\ p.loading = FALSE /\ p.result = <<>>
      BY <1>1, <3>1, FreshPanes
    <3>3. pane' = p /\ paneMount' = paneMount + 1 /\ paneMount < MaxTraceMounts
      BY <1>3, <3>1 DEF OpenTracePane
    <3> QED
      BY <1>1, <3>2, <3>3
  <2>2. \A t \in traceRuns : t.mount # paneMount' /\ RunShape(t, paneMount')
    BY <1>1, <1>2, <2>1 DEF RunShape
  <2> QED
    BY <1>1, <2>1, <2>2 DEF TraceParts, RunsForDraft, TraceLoadingEnds
<1>4. CASE LeaveTracePane
  <2>1. PaneOK(pane') /\ pane'.loading = FALSE /\ pane'.result = <<>> /\ pane'.shown = FALSE /\ paneMount' = paneMount
    BY <1>1, <1>4, FreshPanes DEF LeaveTracePane
  <2> QED
    BY <1>1, <1>2, <2>1 DEF TraceParts, RunsForDraft, TraceLoadingEnds
<1> QED
  BY <1>3, <1>4

LEMMA ListSteps ==
    ASSUME TraceParts, (\E searching, mode : SearchAndSort(searching, mode)) \/ ToggleRecent \/ ClearResult
    PROVE  TraceParts'
<1>1. UNCHANGED <<traceRuns, paneMount, storedTraces, storedNodes>>
  BY DEF SearchAndSort, ToggleRecent, ClearResult, StoresUnchanged
<1>2. CASE ClearResult
  <2>1. PaneOK(pane') /\ pane'.shown = pane.shown /\ pane'.loading = pane.loading /\ pane'.draft = pane.draft
        /\ pane'.result \in {<<>>, pane.result}
    BY <1>2, PaneFacts DEF ClearResult, PaneOK, PaneFields
  <2> QED
    BY <1>1, <2>1, PaneKept
<1>3. CASE (\E searching, mode : SearchAndSort(searching, mode)) \/ ToggleRecent
  <2>1. PaneOK(pane') /\ pane'.shown = pane.shown /\ pane'.loading = pane.loading /\ pane'.draft = pane.draft
        /\ pane'.result \in {<<>>, pane.result}
    BY <1>3, PaneFacts DEF SearchAndSort, ToggleRecent, PaneOK, PaneFields
  <2> QED
    BY <1>1, <2>1, PaneKept
<1> QED
  BY <1>2, <1>3

LEMMA RunSteps ==
    ASSUME TraceParts, HandleRunTrace \/ \E i : HandleLoadRecentTrace(i)
    PROVE  TraceParts'
<1>1. PICK hops \in Loops : Run(hops) /\ pane.shown
  <2>1. CASE HandleRunTrace
    BY <2>1, PaneFacts DEF HandleRunTrace, TraceUser
  <2>2. ASSUME NEW i, HandleLoadRecentTrace(i)
        PROVE  \E hops \in Loops : Run(hops) /\ pane.shown
    <3>1. i \in DOMAIN pane.recent /\ Run(pane.recent[i]) /\ pane.shown
      BY <2>2 DEF HandleLoadRecentTrace, RecentOffered, TraceUser
    <3>2. pane.recent[i] \in Loops
      BY <3>1, PaneFacts
    <3> QED
      BY <3>1, <3>2
  <2> QED
    BY <2>1, <2>2
<1> QED
  BY <1>1, RunStarted

LEMMA TraceStep ==
    ASSUME TraceInv, [TraceNext]_traceVars
    PROVE  TraceInv'
<1>0. TraceParts
  BY PartsOfTrace
<1> SUFFICES TraceParts'
  BY PartsOfTrace, PTL
<1>1. CASE UNCHANGED traceVars
  BY <1>0, <1>1 DEF traceVars, TraceParts, RunsForDraft, TraceLoadingEnds
<1>2. CASE OpenTracePane \/ LeaveTracePane
  BY <1>0, <1>2, MountSteps
<1>3. CASE CloseCustomDialog \/ OpenCustomDialog \/ \E w \in HopWidths : ChooseHopWidth(w)
  BY <1>0, <1>3, DialogSteps
<1>4. ASSUME NEW fits \in BOOLEAN, HandleAddCustomHop(fits)
      PROVE  TraceParts'
  BY <1>0, <1>4, AddCustomStep
<1>5. ASSUME NEW t \in traceRuns, NEW ok \in BOOLEAN, TraceReturns(t, ok)
      PROVE  TraceParts'
  BY <1>0, <1>5, ReturnStep
<1>6. CASE (\E searching, mode : SearchAndSort(searching, mode)) \/ ToggleRecent \/ ClearResult
  BY <1>0, <1>6, ListSteps
<1>7. CASE \/ \E r \in TraceRepeaters : HandleAddRepeater(r)
           \/ \E i \in 1..MaxDraft : HandleRemoveHop(i) \/ HandleMoveHop(i)
           \/ HandleReverseLink \/ HandleClear
  BY <1>0, <1>7, DraftSteps
<1>8. CASE HandleRunTrace \/ \E i : HandleLoadRecentTrace(i)
  BY <1>0, <1>8, RunSteps
<1> QED
  BY <1>1, <1>2, <1>3, <1>4, <1>5, <1>6, <1>7, <1>8 DEF TraceNext

-----------------------------------------------------------------------------
(* The channel finder                                                       *)

LEMMA LockStarts == ASSUME FinderInit PROVE SearchLocked
<1>1. PICK on \in BOOLEAN, idle \in BOOLEAN : /\ idle = FALSE
        /\ finder = [running |-> idle, aborted |-> idle, processing |-> idle,
                     maxLength |-> 1, retry |-> idle, wordlist |-> idle, gpu |-> on]
  BY DEF FinderInit
<1>2. finderTimers = 0 /\ searches = {}
  BY DEF FinderInit
<1> QED
  <2>1. /\ finder \in FinderStates
        /\ finder.running = idle /\ finder.processing = idle
    BY <1>1, FinderAssumption DEF FinderStates
  <2> QED
    BY <1>1, <1>2, <2>1 DEF SearchLocked

\* processNext leaves a search or a timer to a finder that runs.
LEMMA ProcessedNext ==
    ASSUME SearchLocked, NEW f, NEW n \in Nat, ProcessNext(f, n),
           f \in FinderStates,
           f.processing <=> searches # {}, f.running => ~f.aborted
    PROVE  SearchLocked'
<1>1. CASE /\ f.processing \/ ~f.running
           /\ finder' = f /\ finderTimers' = n /\ UNCHANGED searches
  BY <1>1 DEF SearchLocked
<1>2. CASE finder' = f /\ finderTimers' = n + 1 /\ UNCHANGED searches
  BY <1>2 DEF SearchLocked
<1>3. CASE /\ ~f.processing
           /\ finder' = [f EXCEPT !.processing = TRUE] /\ finderTimers' = n
           /\ \E s : searches' = searches \cup {s}
  <2>1. searches = {}
    BY <1>3
  <2> QED
    BY <1>3, <2>1 DEF SearchLocked, FinderStates
<1> QED
  BY <1>1, <1>2, <1>3 DEF ProcessNext

\* The end of a search, or of its saving.
LEMMA SearchUnlocked ==
    ASSUME SearchLocked, NEW s \in searches, Unlocked(s)
    PROVE  SearchLocked'
<1>1. searches' = {}
  BY DEF SearchLocked, Unlocked
<1>2. finder' = [finder EXCEPT !.processing = FALSE]
      /\ finderTimers' = (IF finder.running THEN finderTimers + 1 ELSE finderTimers)
  BY DEF Unlocked
<1>3. finderTimers' \in Nat /\ (finder.running => finderTimers' > 0)
  BY <1>2 DEF SearchLocked
<1> QED
  BY <1>1, <1>2, <1>3 DEF SearchLocked, FinderStates

LEMMA LockStep ==
    ASSUME SearchLocked, [FinderNext]_finderVars
    PROVE  SearchLocked'
<1>1. CASE UNCHANGED <<finder, finderTimers, searches>>
  BY <1>1 DEF SearchLocked
<1>2. CASE TimerFires
  <2>1. finderTimers - 1 \in Nat
    BY <1>2 DEF TimerFires, SearchLocked
  <2> QED
    BY <1>2, <2>1, ProcessedNext DEF TimerFires, SearchLocked
<1>3. CASE HandleStart
  <2>1. PICK f : f = [finder EXCEPT !.running = TRUE, !.aborted = FALSE]
    OBVIOUS
  <2>2. /\ f \in FinderStates
        /\ f.processing = finder.processing /\ f.aborted = FALSE
    BY <2>1 DEF SearchLocked, FinderStates
  <2>3. ProcessNext(f, finderTimers)
    BY <1>3, <2>1 DEF HandleStart
  <2> QED
    BY <2>2, <2>3, ProcessedNext DEF SearchLocked
<1>4. CASE HandleStop
  <2>1. searches' = {[s EXCEPT !.cut = ~s.saving] : s \in searches}
    BY <1>4 DEF HandleStop
  <2>2. \A s, t \in searches' : s = t
    BY <2>1 DEF SearchLocked
  <2>3. searches' # {} <=> searches # {}
    BY <2>1
  <2> QED
    BY <1>4, <2>2, <2>3 DEF HandleStop, SearchLocked, FinderStates
<1>5. CASE WordlistArrives
  BY <1>5 DEF WordlistArrives, SearchLocked, FinderStates
<1>6. ASSUME NEW n \in 1..LengthCap, NEW again \in BOOLEAN, ChangeFinderSettings(n, again)
      PROVE  SearchLocked'
  <2>1. finder' = [finder EXCEPT !.maxLength = n, !.retry = again] /\ UNCHANGED <<finderTimers, searches>>
    BY <1>6 DEF ChangeFinderSettings
  <2>0. n \in Int
    OBVIOUS
  <2>2. /\ finder' \in FinderStates
        /\ finder'.running = finder.running /\ finder'.aborted = finder.aborted
        /\ finder'.processing = finder.processing
    BY <2>0, <2>1 DEF SearchLocked, FinderStates
  <2> QED
    BY <2>1, <2>2 DEF SearchLocked
<1>7. ASSUME NEW s \in searches, NEW result, SearchReturns(s, result)
      PROVE  SearchLocked'
  <2>1. searches = {s}
    BY DEF SearchLocked
  <2>2. CASE /\ finder.aborted
             /\ finder' = [finder EXCEPT !.aborted = FALSE, !.processing = FALSE]
             /\ searches' = searches \ {s} /\ UNCHANGED <<finderQueue, finderTimers>>
    BY <2>1, <2>2 DEF SearchLocked, FinderStates
  <2>3. CASE Unlocked(s)
    BY <2>3, SearchUnlocked
  <2>4. CASE /\ \E t : searches' = (searches \ {s}) \cup {t}
             /\ UNCHANGED <<finder, finderTimers>>
    BY <2>1, <2>4 DEF SearchLocked
  <2> QED
    BY <1>7, <2>2, <2>3, <2>4 DEF SearchReturns
<1>8. ASSUME NEW s \in searches, NEW ok, ChannelSaved(s, ok)
      PROVE  SearchLocked'
  BY <1>8, SearchUnlocked DEF ChannelSaved
<1> QED
  BY <1>1, <1>2, <1>3, <1>4, <1>5, <1>6, <1>7, <1>8
  DEF FinderNext, finderVars, PacketHeard, OtherPacketHeard, ClearRawPackets

LEMMA FinderGoesOn == ASSUME SearchLocked PROVE FinderKeepsGoing
<1>1. CASE searches = {}
  BY <1>1, FS_EmptySet DEF SearchLocked, FinderKeepsGoing
<1>2. CASE searches # {}
  <2>1. PICK s : searches = {s}
    BY <1>2 DEF SearchLocked
  <2>2. Cardinality({s}) = 1
    BY FS_Singleton
  <2> QED
    BY <1>2, <2>1, <2>2 DEF SearchLocked, FinderKeepsGoing
<1> QED
  BY <1>1, <1>2

\* The packets the store keeps.
LEMMA OldestIn ==
    ASSUME NEW packets \in SUBSET PacketIds, packets # {}
    PROVE  Oldest(packets) \in packets
<1>1. PICK q \in packets : \A r \in packets : q <= r
  BY FinderAssumption, LeastOf
<1> QED
  BY <1>1, Zenon DEF Oldest

LEMMA StoreStarts == ASSUME FinderInit PROVE PacketsKept
BY FinderAssumption, FS_EmptySet DEF FinderInit, PacketsKept

LEMMA StoreKept ==
    ASSUME PacketsKept, [FinderNext]_finderVars
    PROVE  PacketsKept'
<1>0. IsFiniteSet(storedPackets) /\ Cardinality(storedPackets) \in Nat
      /\ Cardinality(storedPackets) <= StoreLimit /\ StoreLimit \in Nat
  BY FS_CardinalityType, FinderAssumption DEF PacketsKept
<1>1. ASSUME NEW p \in PacketIds, PacketHeard(p)
      PROVE  PacketsKept'
  <2> DEFINE packets == storedPackets \cup {p}
  <2>1. /\ packets \in SUBSET PacketIds /\ packets # {} /\ IsFiniteSet(packets)
        /\ Cardinality(packets) \in Nat /\ Cardinality(packets) <= Cardinality(storedPackets) + 1
    BY <1>0, FS_AddElement DEF PacketsKept
  <2>2. storedPackets' = IF Cardinality(packets) > StoreLimit THEN packets \ {Oldest(packets)} ELSE packets
    BY <1>1 DEF PacketHeard
  <2>3. /\ IsFiniteSet(packets \ {Oldest(packets)})
        /\ Cardinality(packets \ {Oldest(packets)}) = Cardinality(packets) - 1
    BY <2>1, OldestIn, FS_RemoveElement
  <2> HIDE DEF packets
  <2>4. CASE Cardinality(packets) > StoreLimit
    <3>1. storedPackets' = packets \ {Oldest(packets)}
      BY <2>2, <2>4
    <3>2. Cardinality(packets) - 1 <= StoreLimit
      BY <1>0, <2>1
    <3> QED
      BY <2>1, <2>3, <3>1, <3>2 DEF PacketsKept
  <2>5. CASE ~(Cardinality(packets) > StoreLimit)
    <3>1. storedPackets' = packets
      BY <2>2, <2>5
    <3>2. Cardinality(packets) <= StoreLimit
      BY <1>0, <2>1, <2>5
    <3> QED
      BY <2>1, <3>1, <3>2 DEF PacketsKept
  <2> QED
    BY <2>4, <2>5
<1>2. CASE OtherPacketHeard
  <2>1. storedPackets # {} /\ storedPackets' = storedPackets \ {Oldest(storedPackets)}
    BY <1>2 DEF OtherPacketHeard
  <2>2. Oldest(storedPackets) \in storedPackets
    BY <2>1, OldestIn DEF PacketsKept
  <2>3. /\ IsFiniteSet(storedPackets \ {Oldest(storedPackets)})
        /\ Cardinality(storedPackets \ {Oldest(storedPackets)}) = Cardinality(storedPackets) - 1
    BY <1>0, <2>2, FS_RemoveElement
  <2>4. Cardinality(storedPackets) - 1 <= StoreLimit
    BY <1>0
  <2> QED
    BY <2>1, <2>3, <2>4 DEF PacketsKept
<1>3. CASE ClearRawPackets
  BY <1>0, <1>3, FS_EmptySet DEF ClearRawPackets, PacketsKept
<1>4. CASE UNCHANGED storedPackets
  BY <1>4 DEF PacketsKept
<1> QED
  BY <1>1, <1>2, <1>3, <1>4
  DEF FinderNext, finderVars, TimerFires, HandleStart, HandleStop, WordlistArrives, ChangeFinderSettings,
      SearchReturns, ChannelSaved

\* The queue.
LEMMA QueueFilled ==
    ASSUME QueueShaped, NEW packets \in SUBSET PacketIds, IsFiniteSet(packets), Enqueued(packets)
    PROVE  finderQueue' \in Seq(QueueItems)
<1>1. CASE UNCHANGED finderQueue
  BY <1>1 DEF QueueShaped
<1>2. PICK fresh : fresh = Fresh(packets)
  OBVIOUS
<1>3. fresh \in SUBSET packets /\ fresh \in SUBSET Int /\ IsFiniteSet(fresh)
  <2>1. fresh \in SUBSET packets
    BY <1>2 DEF Fresh
  <2> QED
    <3>1. packets \in SUBSET Int
      BY FinderAssumption
    <3> QED
      BY <2>1, <3>1, FS_Subset
<1>4. Cardinality(fresh) \in Nat /\ Ascending(fresh) \in [1..Cardinality(fresh) -> fresh]
  BY <1>3, AscendingLists
<1>5. PICK new : new = Ascending(fresh)
  OBVIOUS
<1>6. new \in [1..Cardinality(fresh) -> PacketIds]
  BY <1>3, <1>4, <1>5
<1>7. PICK added : added = [i \in DOMAIN new |-> [id |-> new[i], status |-> "pending", length |-> 0]]
  OBVIOUS
<1>8. added \in Seq(QueueItems)
  <2>1. DOMAIN new = 1..Cardinality(fresh) /\ \A i \in DOMAIN new : new[i] \in PacketIds
    BY <1>6
  <2>2. \A i \in DOMAIN new : [id |-> new[i], status |-> "pending", length |-> 0] \in QueueItems
    BY <2>1, FinderAssumption DEF QueueItems
  <2>3. added \in [1..Cardinality(fresh) -> QueueItems]
    BY <1>7, <2>1, <2>2
  <2> QED
    BY <1>4, <2>3, SeqDef
<1>9. CASE finderQueue' = finderQueue \o added
  BY <1>8, <1>9, ConcatProperties DEF QueueShaped
<1> QED
  BY <1>1, <1>2, <1>5, <1>7, <1>9 DEF Enqueued

\* What is searched for is within the cap: a retry only starts below it.
LEMMA NextSearch ==
    ASSUME QueueShaped, SearchLocked, NEW i \in NextItem
    PROVE  i \in DOMAIN finderQueue /\ TargetLength(finderQueue[i]) \in 1..LengthCap
<1>1. i \in Pending \/ i \in Failed
  BY DEF NextItem
<1>2. i \in DOMAIN finderQueue
  BY <1>1 DEF Pending, Failed
<1>3. finderQueue[i] \in QueueItems
  BY <1>2 DEF QueueShaped
<1>4. finderQueue[i].length \in 0..LengthCap /\ finder.maxLength \in 1..LengthCap /\ LengthCap \in Nat
  BY <1>3, FinderAssumption DEF QueueItems, SearchLocked, FinderStates
<1>5. finderQueue[i].length > 0 => finderQueue[i].length < LengthCap
  BY <1>1, <1>3 DEF Pending, Failed, QueueItems
<1> QED
  BY <1>2, <1>4, <1>5 DEF TargetLength

LEMMA QueueProcessed ==
    ASSUME QueueShaped, SearchLocked, NEW f, NEW n, ProcessNext(f, n)
    PROVE  QueueShaped'
<1>1. CASE UNCHANGED <<finderQueue, searches>>
  BY <1>1 DEF QueueShaped
<1>2. CASE NextItem # {} /\ ~UNCHANGED <<finderQueue, searches>>
  <2>1. PICK i \in NextItem : i = CHOOSE x \in NextItem : TRUE
    BY <1>2
  <2>2. PICK item : item = finderQueue[i]
    OBVIOUS
  <2>3. TargetLength(item) \in 1..LengthCap
    BY <2>2, NextSearch
  <2>4. CASE /\ UNCHANGED searches
             /\ finderQueue' = Picked(finderQueue, {x \in DOMAIN finderQueue : finderQueue[x].id # item.id})
    <3>1. PICK I \in SUBSET DOMAIN finderQueue : I = {x \in DOMAIN finderQueue : finderQueue[x].id # item.id}
      OBVIOUS
    <3>2. finderQueue' = Picked(finderQueue, I)
      BY <2>4, <3>1
    <3>3. finderQueue' \in Seq(QueueItems)
      BY <3>2, PickedLists DEF QueueShaped
    <3> QED
      BY <2>4, <3>3 DEF QueueShaped
  <2>5. CASE /\ UNCHANGED finderQueue
             /\ searches' = searches \cup
                  {[id |-> item.id, length |-> TargetLength(item), saving |-> FALSE, cut |-> FALSE]}
    BY <2>3, <2>5 DEF QueueShaped
  <2> QED
    BY <1>2, <2>1, <2>2, <2>4, <2>5 DEF ProcessNext
<1> QED
  BY <1>1, <1>2 DEF ProcessNext

LEMMA QueueMarked ==
    ASSUME QueueShaped, NEW s \in searches, NEW status \in {"cracked", "failed"}
    PROVE  Marked(s, status) \in Seq(QueueItems)
<1>1. finderQueue \in Seq(QueueItems) /\ s.length \in 1..LengthCap
  BY DEF QueueShaped
<1>2. ASSUME NEW i \in DOMAIN finderQueue
      PROVE  [finderQueue[i] EXCEPT !.status = status, !.length = s.length] \in QueueItems
  <2>1. finderQueue[i] \in QueueItems
    BY <1>1
  <2>2. s.length \in 0..LengthCap
    BY <1>1, FinderAssumption
  <2> QED
    BY <2>1, <2>2 DEF QueueItems
<1>3. Marked(s, status) \in [1..Len(finderQueue) -> QueueItems]
  <2>1. /\ DOMAIN finderQueue = 1..Len(finderQueue)
        /\ \A i \in DOMAIN finderQueue : finderQueue[i] \in QueueItems
    BY <1>1
  <2>2. PICK done : done = [i \in DOMAIN finderQueue |-> [finderQueue[i] EXCEPT !.status = status, !.length = s.length]]
    OBVIOUS
  <2>3. \A i \in DOMAIN finderQueue : done[i] \in QueueItems
    BY <1>2, <2>2
  <2>4. Marked(s, status) = [i \in DOMAIN finderQueue |-> IF finderQueue[i].id = s.id THEN done[i] ELSE finderQueue[i]]
    BY <2>2 DEF Marked
  <2> QED
    BY <2>1, <2>3, <2>4
<1> QED
  BY <1>1, <1>3, SeqDef

LEMMA QueueStarts == ASSUME FinderInit PROVE QueueShaped
BY DEF FinderInit, QueueShaped

LEMMA QueueStep ==
    ASSUME PacketsKept, PacketsKept', QueueShaped, SearchLocked, [FinderNext]_finderVars
    PROVE  QueueShaped'
<1>1. ASSUME UNCHANGED searches, Enqueued(storedPackets')
      PROVE  QueueShaped'
  BY <1>1, QueueFilled DEF PacketsKept, QueueShaped
<1>2. CASE UNCHANGED <<finderQueue, searches>>
  BY <1>2 DEF QueueShaped
<1>3. ASSUME NEW f, NEW n, ProcessNext(f, n)
      PROVE  QueueShaped'
  BY <1>3, QueueProcessed
<1>4. ASSUME NEW s \in searches, NEW result, SearchReturns(s, result)
      PROVE  QueueShaped'
  <2>1. finderQueue' \in Seq(QueueItems)
    BY <1>4, QueueMarked DEF SearchReturns, QueueShaped
  <2>2. searches' \subseteq searches \cup {[s EXCEPT !.saving = TRUE]}
    BY <1>4 DEF SearchReturns, Unlocked
  <2>3. [s EXCEPT !.saving = TRUE].length = s.length
    OBVIOUS
  <2> QED
    BY <2>1, <2>2, <2>3 DEF QueueShaped
<1>5. ASSUME NEW s \in searches, NEW ok, ChannelSaved(s, ok)
      PROVE  QueueShaped'
  BY <1>5 DEF ChannelSaved, Unlocked, QueueShaped
<1>6. CASE HandleStop
  <2>1. finderQueue' = finderQueue /\ searches' = {[s EXCEPT !.cut = ~s.saving] : s \in searches}
    BY <1>6 DEF HandleStop
  <2>2. \A s \in searches : [s EXCEPT !.cut = ~s.saving].length = s.length
    OBVIOUS
  <2> QED
    BY <2>1, <2>2 DEF QueueShaped
<1>7. CASE (\E p \in PacketIds : PacketHeard(p)) \/ OtherPacketHeard \/ ClearRawPackets
  <2>1. ASSUME NEW p \in PacketIds, PacketHeard(p)
        PROVE  UNCHANGED searches /\ Enqueued(storedPackets')
    BY <2>1 DEF PacketHeard
  <2> QED
    BY <1>1, <1>7, <2>1 DEF OtherPacketHeard, ClearRawPackets
<1>8. CASE TimerFires \/ HandleStart
  BY <1>3, <1>8 DEF TimerFires, HandleStart
<1> QED
  BY <1>2, <1>4, <1>5, <1>6, <1>7, <1>8
  DEF FinderNext, finderVars, WordlistArrives, ChangeFinderSettings

LEMMA FinderStarts == ASSUME FinderInit PROVE FinderInv
BY LockStarts, StoreStarts, QueueStarts DEF FinderInv

LEMMA FinderStep ==
    ASSUME FinderInv, [FinderNext]_finderVars
    PROVE  FinderInv'
BY LockStep, StoreKept, QueueStep DEF FinderInv

LEMMA FinderTypes == ASSUME FinderInv PROVE FinderTypeOK
<1>1. \A i \in DOMAIN finderQueue : finderQueue[i] \in QueueItems
  BY DEF FinderInv, QueueShaped
<1> QED
  BY <1>1 DEF FinderInv, PacketsKept, SearchLocked, FinderStates, QueueItems, FinderTypeOK

-----------------------------------------------------------------------------
(* The settings of the application                                          *)

LEMMA SettingsNames ==
    /\ PageSections = {"radio", "app", "database"}
    /\ SettingKeys = {"messaging", "advert", "resend", "types", "hourly", "decrypt"}
    /\ \A b \in Buttons : ButtonSection(b) \in PageSections
<1>1. PageSections = {"radio", "app", "database"}
  BY DEF PageSections, KeysOf
<1>2. KeysOf.radio = {"messaging", "advert", "resend"} /\ KeysOf.app = {"types", "hourly"} /\ KeysOf.database = {"decrypt"}
  BY DEF KeysOf
<1>3. SettingKeys = KeysOf["radio"] \cup KeysOf["app"] \cup KeysOf["database"]
  BY <1>1 DEF SettingKeys
<1> QED
  BY <1>1, <1>2, <1>3 DEF Buttons, ButtonSection

\* What comes after position i of a sequence of length m.
LEMMA AfterIt ==
    ASSUME NEW m \in Nat, NEW i \in 1..m
    PROVE  /\ (IF i + 1 <= m THEN m - (i + 1) + 1 ELSE 0) = m - i /\ m - (i + 1) + 1 = m - i
           /\ \A j \in 1..(m - i) : (i + 1) + j - 1 = i + j
OBVIOUS

\* An element taken out of a sequence leaves the others in it.
LEMMA TakenOut ==
    ASSUME NEW S, NEW s \in Seq(S), NEW i \in 1..Len(s)
    PROVE  LET r == SubSeq(s, 1, i - 1) \o SubSeq(s, i + 1, Len(s)) IN
           r \in Seq(S) /\ \A j \in DOMAIN s \ {i} : \E k \in DOMAIN r : r[k] = s[j]
<1> PICK r : r = SubSeq(s, 1, i - 1) \o SubSeq(s, i + 1, Len(s))
  OBVIOUS
<1>0. i \in 1..Len(s) /\ Len(s) \in Nat /\ DOMAIN s = 1..Len(s)
  OBVIOUS
<1>1. PICK n : n \in Nat /\ n = Len(s) /\ DOMAIN s = 1..n /\ i \in 1..n
  BY <1>0
<1>2. PICK a : a = SubSeq(s, 1, i - 1)
  OBVIOUS
<1>3. PICK b : b = SubSeq(s, i + 1, n)
  OBVIOUS
<1>4. a \in Seq(S) /\ Len(a) = i - 1 /\ \A j \in 1..(i - 1) : a[j] = s[j]
  BY <1>0, <1>2
<1>5. b \in Seq(S) /\ Len(b) = n - i /\ \A j \in 1..(n - i) : b[j] = s[i + j]
  <2>1. b = SubSeq(s, i + 1, Len(s))
    BY <1>1, <1>3
  <2>2. \A j \in (i + 1)..Len(s) : s[j] \in S
    BY <1>0
  <2>3. /\ b \in Seq(S) /\ Len(b) = IF i + 1 <= Len(s) THEN Len(s) - (i + 1) + 1 ELSE 0
        /\ \A j \in 1..(Len(s) - (i + 1) + 1) : b[j] = s[(i + 1) + j - 1]
    <3>1. i + 1 \in Int /\ Len(s) \in Int
      BY <1>0
    <3> QED
      BY <2>1, <2>2, <3>1, SubSeqProperties
  <2>4. b \in Seq(S) /\ Len(b) = Len(s) - i /\ \A j \in 1..(Len(s) - i) : b[j] = s[i + j]
    <3>1. PICK m \in Nat : m = Len(s)
      BY <1>0
    <3>2. i \in 1..m
      BY <1>0, <3>1
    <3>4. Len(b) = m - i
      BY <2>3, <3>1, <3>2, AfterIt
    <3>5. \A j \in 1..(m - i) : b[j] = s[i + j]
      BY <2>3, <3>1, <3>2, AfterIt
    <3> QED
      BY <2>3, <3>1, <3>4, <3>5
  <2> QED
    BY <1>1, <2>4
<1>6. r = a \o b
  BY <1>1, <1>2, <1>3
<1>7. /\ r \in Seq(S) /\ Len(r) = Len(a) + Len(b)
      /\ \A j \in 1..(Len(a) + Len(b)) : r[j] = IF j <= Len(a) THEN a[j] ELSE b[j - Len(a)]
  <2>1. a \in Seq(S) /\ b \in Seq(S)
    BY <1>4, <1>5
  <2>2. /\ a \o b \in Seq(S) /\ Len(a \o b) = Len(a) + Len(b)
        /\ \A j \in 1..(Len(a) + Len(b)) : (a \o b)[j] = IF j <= Len(a) THEN a[j] ELSE b[j - Len(a)]
    BY <2>1, ConcatProperties
  <2> QED
    BY <1>6, <2>2
<1>8. DOMAIN r = 1..(n - 1) /\ \A j \in 1..(n - 1) : r[j] = IF j <= i - 1 THEN a[j] ELSE b[j - (i - 1)]
  <2>1. (i - 1) + (n - i) = n - 1
    BY <1>1
  <2>2. DOMAIN r = 1..Len(r)
    BY <1>7
  <2> QED
    BY <1>4, <1>5, <1>7, <2>1, <2>2
<1>9. ASSUME NEW j \in 1..n, j # i
      PROVE  \E k \in DOMAIN r : r[k] = s[j]
  <2>1. CASE j < i
    <3>1. j \in 1..(i - 1) /\ j \in 1..(n - 1) /\ j <= i - 1
      BY <1>1, <2>1
    <3> QED
      BY <1>4, <1>8, <3>1
  <2>2. CASE i < j
    <3>1. j - i \in 1..(n - i) /\ i + (j - i) = j /\ (j - 1) - (i - 1) = j - i
          /\ j - 1 \in 1..(n - 1) /\ ~(j - 1 <= i - 1)
      BY <1>1, <2>2
    <3>2. b[j - i] = s[j]
      BY <1>5, <3>1
    <3>3. r[j - 1] = b[j - i]
      BY <1>8, <3>1
    <3> QED
      BY <1>8, <3>1, <3>2, <3>3
  <2>3. j < i \/ i < j
    BY <1>1, <1>9
  <2> QED
    BY <2>1, <2>2, <2>3
<1> QED
  BY <1>1, <1>7, <1>9

(***************************************************************************)
(* Requests and chains.                                                    *)
(***************************************************************************)
LEMMA FirstFound ==
    ASSUME SettingsInv, NEW s \in PageSections, NEW m, \E i \in DOMAIN chains[s] : chains[s][i].mount = m
    PROVE  FirstOf(s, m) \in DOMAIN chains[s] /\ chains[s][FirstOf(s, m)].mount = m
<1>1. chains[s] \in Seq(ChainedSaves)
  BY DEF SettingsInv, SettingsTyped
<1> DEFINE T == {i \in DOMAIN chains[s] : chains[s][i].mount = m}
<1>2. PICK x \in T : \A y \in T : x <= y
  <2>1. T \in SUBSET Nat /\ T # {}
    BY <1>1
  <2> QED
    BY <2>1, LeastOf
<1>3. chains[s][x].mount = m /\ \A j \in 1..x-1 : chains[s][j].mount # m
  BY <1>1, <1>2
<1>4. \E i \in DOMAIN chains[s] : chains[s][i].mount = m /\ \A j \in 1..i-1 : chains[s][j].mount # m
  BY <1>3
<1> QED
  BY <1>4 DEF FirstOf

LEMMA CallTyped ==
    ASSUME SettingsInv, NEW kind \in {"get", "save", "chained", "blocked", "tracked", "maintenance"},
           NEW key \in SettingKeys \cup Buttons, NEW value \in 0..1 \cup Nodes, NEW s \in PageSections
    PROVE  LET c == Call(kind, key, value, s)
           IN  /\ c \in SettingsCalls /\ c.kind = kind /\ c.key = key /\ c.value = value /\ c.section = s
               /\ c.mount = settingsShown[s]
<1>1. NoSettings \in Settings
  BY DEF NoSettings, Settings
<1>2. settingsShown[s] \in Nat
  BY DEF SettingsInv, SettingsTyped
<1>3. PICK no : no = FALSE
  OBVIOUS
<1>4. Call(kind, key, value, s) =
        [kind |-> kind, key |-> key, value |-> value, section |-> s, mount |-> settingsShown[s],
         stage |-> "send", answered |-> no, ok |-> no, settings |-> NoSettings]
  BY <1>3 DEF Call
<1>5. no \in BOOLEAN
  BY <1>3
<1> QED
  BY <1>1, <1>2, <1>4, <1>5 DEF SettingsCalls

\* A request that is not a chained save is sent, for a button or for none.
LEMMA CallSent ==
    ASSUME SettingsInv, NEW n, n.kind # "chained", calls' = calls \cup {n},
           UNCHANGED <<settingsShown, chains>>,
           \/ UNCHANGED flags
           \/ flags' = flags \cup {n.key} /\ n.section = ButtonSection(n.key) /\ n.mount = settingsShown[n.section]
    PROVE  CallsMade'
BY DEF SettingsInv, CallsMade, ButtonSection

\* A request goes on, or its answer arrives.
LEMMA CallGoesOn ==
    ASSUME SettingsInv, NEW c \in calls, NEW d, d.kind = c.kind, d.key = c.key, d.section = c.section, d.mount = c.mount,
           calls' = (calls \ {c}) \cup {d}, UNCHANGED <<settingsShown, chains, flags>>
    PROVE  CallsMade'
BY DEF SettingsInv, CallsMade, ButtonSection

LEMMA CallEnds ==
    ASSUME SettingsInv, NEW c \in calls, calls' = calls \ {c}, flags' = Unflagged(c), chains' = Unchained(c),
           UNCHANGED settingsShown
    PROVE  CallsMade' /\ chains' \in [PageSections -> Seq(ChainedSaves)] /\ flags' \subseteq flags
<1>1. flags' \subseteq flags /\ (c.mount = settingsShown[c.section] => c.key \notin flags')
  BY DEF Unflagged
<1>2. \A b \in flags' : \E d \in calls' : d.key = b /\ d.section = ButtonSection(b) /\ d.mount = settingsShown[d.section]
  BY <1>1 DEF SettingsInv, CallsMade
<1>3. chains \in [PageSections -> Seq(ChainedSaves)] /\ \A d \in calls : d.section \in PageSections
  BY DEF SettingsInv, SettingsTyped, SettingsCalls
<1>4. CASE c.kind # "chained"
  BY <1>1, <1>2, <1>3, <1>4 DEF Unchained, SettingsInv, CallsMade, ButtonSection
<1>5. CASE c.kind = "chained"
  <2>1. PICK i \in DOMAIN chains[c.section] : i = FirstOf(c.section, c.mount) /\ chains[c.section][i].mount = c.mount
    BY <1>3, <1>5, FirstFound DEF SettingsInv, CallsMade
  <2>2. PICK r : r = SubSeq(chains[c.section], 1, i - 1) \o SubSeq(chains[c.section], i + 1, Len(chains[c.section]))
    OBVIOUS
  <2>3. chains' = [chains EXCEPT ![c.section] = r]
    BY <1>5, <2>1, <2>2 DEF Unchained
  <2>4. r \in Seq(ChainedSaves) /\ \A j \in DOMAIN chains[c.section] \ {i} : \E k \in DOMAIN r : r[k] = chains[c.section][j]
    <3>1. chains[c.section] \in Seq(ChainedSaves)
      BY <1>3
    <3>2. i \in 1..Len(chains[c.section])
      BY <2>1, <3>1
    <3>3. PICK s : s = chains[c.section]
      OBVIOUS
    <3>4. s \in Seq(ChainedSaves) /\ i \in 1..Len(s) /\ r = SubSeq(s, 1, i - 1) \o SubSeq(s, i + 1, Len(s))
      BY <2>2, <3>1, <3>2, <3>3
    <3>5. r \in Seq(ChainedSaves) /\ \A j \in DOMAIN s \ {i} : \E k \in DOMAIN r : r[k] = s[j]
      BY <3>4, TakenOut, Zenon
    <3> QED
      BY <3>3, <3>5
  <2>5. chains' \in [PageSections -> Seq(ChainedSaves)] /\ chains'[c.section] = r
        /\ \A s \in PageSections \ {c.section} : chains'[s] = chains[s]
    BY <1>3, <2>3, <2>4
  <2>6. ASSUME NEW d \in calls', d.kind = "chained"
        PROVE  \E k \in DOMAIN chains'[d.section] : chains'[d.section][k].mount = d.mount
    <3>1. PICK j \in DOMAIN chains[d.section] : chains[d.section][j].mount = d.mount
      BY <2>6 DEF SettingsInv, CallsMade
    <3>2. CASE d.section = c.section
      <4>1. d.mount # c.mount
        BY <1>5, <2>6, <3>2 DEF SettingsInv, CallsMade
      <4>2. j # i
        BY <2>1, <3>1, <3>2, <4>1
      <4>3. PICK k \in DOMAIN r : r[k] = chains[c.section][j]
        BY <2>4, <3>1, <3>2, <4>2
      <4> QED
        BY <2>5, <3>1, <3>2, <4>3
    <3>3. CASE d.section # c.section
      BY <1>3, <2>5, <3>1, <3>3
    <3> QED
      BY <3>2, <3>3
  <2>7. \A d, e \in calls' : d.kind = "chained" /\ e.kind = "chained" /\ d.section = e.section /\ d.mount = e.mount => d = e
    BY DEF SettingsInv, CallsMade
  <2> QED
    BY <1>1, <1>2, <2>5, <2>6, <2>7 DEF CallsMade, ButtonSection
<1> QED
  BY <1>4, <1>5

(***************************************************************************)
(* What the page holds.                                                    *)
(***************************************************************************)
\* appSettings is replaced by settings.
LEMMA SettingsSet ==
    ASSUME SettingsInv, NEW s \in Settings, SetAppSettings(s)
    PROVE  /\ app' \in Settings /\ drafts' \in [SettingKeys -> 0..2]
           /\ \A k \in SettingKeys \ {"messaging"} : drafts'[k] \in 0..1
           /\ DOMAIN telemetry' = {"asked", "schedule", "history"}
           /\ telemetry'.history \in {"none", "asked", "shown", "dropped"}
<1>1. app' = s /\ drafts' = s.values /\ s.values \in [SettingKeys -> 0..1]
  BY DEF SetAppSettings, Settings
<1>2. DOMAIN telemetry' = {"asked", "schedule", "history"} /\ telemetry'.history \in {"none", "asked", "shown", "dropped"}
  BY DEF SetAppSettings, SettingsInv, SettingsTyped
<1> QED
  BY <1>1, <1>2

\* Sections come and go.
LEMMA PageTurned ==
    ASSUME SettingsInv, NEW p, Turned(p), UNCHANGED <<server, app, chains>>,
           p \in [open : BOOLEAN, mobile : BOOLEAN, expanded : SUBSET PageSections, desktop : PageSections],
           \A c \in calls : c \in calls',
           \A c \in calls' \ calls : c \in SettingsCalls /\ c.kind = "get"
    PROVE  SettingsInv'
<1> DEFINE gone == Visible(page) \ Visible(p)
           come == Visible(p) \ Visible(page)
<1>1. /\ page' = p /\ flags' = {b \in flags : ButtonSection(b) \notin gone}
      /\ settingsShown' = [s \in PageSections |-> IF s \in gone THEN settingsShown[s] + 1 ELSE settingsShown[s]]
      /\ drafts' = [k \in SettingKeys |-> IF SettingsSectionOf(k) \in come THEN app.values[k] ELSE drafts[k]]
      /\ telemetry' = IF "app" \in come
                      THEN [asked |-> TRUE, schedule |-> -1, history |-> IF app.tracked # {} THEN "asked" ELSE "none"]
                      ELSE IF "app" \in gone THEN NoTelemetry ELSE telemetry
  BY DEF Turned
<1> HIDE DEF gone, come
<1>2. /\ app.values \in [SettingKeys -> 0..1] /\ drafts \in [SettingKeys -> 0..2] /\ flags \subseteq Buttons
      /\ \A k \in SettingKeys \ {"messaging"} : drafts[k] \in 0..1
      /\ settingsShown \in [PageSections -> Nat]
      /\ DOMAIN telemetry = {"asked", "schedule", "history"}
      /\ telemetry.history \in {"none", "asked", "shown", "dropped"}
  BY DEF SettingsInv, SettingsTyped, Settings
<1>3. drafts' \in [SettingKeys -> 0..2] /\ \A k \in SettingKeys \ {"messaging"} : drafts'[k] \in 0..1
  BY <1>1, <1>2
<1>4. settingsShown' \in [PageSections -> Nat] /\ \A s \in PageSections \ gone : settingsShown'[s] = settingsShown[s]
  BY <1>1, <1>2
<1>5. DOMAIN telemetry' = {"asked", "schedule", "history"} /\ telemetry'.history \in {"none", "asked", "shown", "dropped"}
  BY <1>1, <1>2 DEF NoTelemetry
<1>6. SettingsTyped'
  BY <1>1, <1>2, <1>3, <1>4, <1>5 DEF SettingsInv, SettingsTyped, Settings, SettingsCalls
<1>7. ASSUME NEW b \in flags'
      PROVE  \E c \in calls' : c.key = b /\ c.section = ButtonSection(b) /\ c.mount = settingsShown'[c.section]
  <2>1. b \in flags /\ b \in Buttons /\ ButtonSection(b) \in PageSections \ gone
    BY <1>1, <1>2, SettingsNames
  <2>2. PICK c \in calls : c.key = b /\ c.section = ButtonSection(b) /\ c.mount = settingsShown[c.section]
    BY <2>1 DEF SettingsInv, CallsMade
  <2> QED
    BY <1>4, <2>1, <2>2
<1>8. CallsMade'
  BY <1>7 DEF SettingsInv, CallsMade, ButtonSection
<1> QED
  BY <1>6, <1>8 DEF SettingsInv
(***************************************************************************)
(* The steps.                                                              *)
(***************************************************************************)
\* What SettingsTyped says of one request.
CallOK(c) ==
    /\ c \in SettingsCalls
    /\ c.kind \in {"save", "chained"} => c.key \in SettingKeys /\ c.value \in 0..1
    /\ c.kind \in {"blocked", "tracked"} => c.value \in Nodes

LEMMA TypedWithCalls ==
    ASSUME SettingsInv, UNCHANGED <<server, app, page, settingsShown>>, \A c \in calls' : CallOK(c),
           drafts' \in [SettingKeys -> 0..2], \A k \in SettingKeys \ {"messaging"} : drafts'[k] \in 0..1,
           flags' \subseteq Buttons, chains' \in [PageSections -> Seq(ChainedSaves)],
           UNCHANGED telemetry
    PROVE  SettingsTyped'
BY DEF SettingsInv, SettingsTyped, CallOK

LEMMA SettingsStarts == ASSUME SettingsInit PROVE SettingsInv
<1>1. NoSettings \in Settings /\ NoSettings.values = [k \in SettingKeys |-> 0]
  BY DEF NoSettings, Settings
<1>2. page \in [open : BOOLEAN, mobile : BOOLEAN, expanded : SUBSET PageSections, desktop : PageSections]
  <2>1. PICK no \in BOOLEAN : no = FALSE
    OBVIOUS
  <2>2. page = [open |-> no, mobile |-> no, expanded |-> {}, desktop |-> "radio"] /\ "radio" \in PageSections
    BY <2>1, SettingsNames DEF SettingsInit
  <2> QED
    BY <2>2
<1>3. chains \in [PageSections -> Seq(ChainedSaves)]
  BY DEF SettingsInit
<1>4. DOMAIN telemetry = {"asked", "schedule", "history"} /\ telemetry.history = "none"
  BY DEF SettingsInit, NoTelemetry
<1>5. /\ server \in Settings /\ app \in Settings /\ drafts = [k \in SettingKeys |-> 0]
      /\ settingsShown = [s \in PageSections |-> 0] /\ flags = {} /\ calls = {}
  BY <1>1 DEF SettingsInit
<1> QED
  BY <1>2, <1>3, <1>4, <1>5 DEF SettingsInv, SettingsTyped, CallsMade

LEMMA DraftsEdited ==
    ASSUME SettingsInv, NEW k \in SettingKeys, NEW v \in 0..2, k # "messaging" => v \in 0..1,
           drafts' = [drafts EXCEPT ![k] = v]
    PROVE  drafts' \in [SettingKeys -> 0..2] /\ \A m \in SettingKeys \ {"messaging"} : drafts'[m] \in 0..1
BY DEF SettingsInv, SettingsTyped

LEMMA DraftsKept ==
    ASSUME SettingsInv, UNCHANGED drafts
    PROVE  drafts' \in [SettingKeys -> 0..2] /\ \A m \in SettingKeys \ {"messaging"} : drafts'[m] \in 0..1
BY DEF SettingsInv, SettingsTyped

\* Only the drafts change.
LEMMA OnlyDrafts ==
    ASSUME SettingsInv, UNCHANGED <<server, app, page, settingsShown, flags, chains, calls, telemetry>>,
           drafts' \in [SettingKeys -> 0..2] /\ \A k \in SettingKeys \ {"messaging"} : drafts'[k] \in 0..1
    PROVE  SettingsInv'
BY DEF SettingsInv, SettingsTyped, CallsMade, ButtonSection

\* A button or a box sends a request.
LEMMA ButtonSends ==
    ASSUME SettingsInv, NEW kind \in {"save", "maintenance"}, NEW key \in SettingKeys \cup Buttons, NEW value \in 0..1,
           NEW s \in PageSections, kind = "save" => key \in SettingKeys,
           calls' = calls \cup {Call(kind, key, value, s)},
           UNCHANGED flags \/ (flags' = flags \cup {key} /\ key \in Buttons /\ s = ButtonSection(key)),
           UNCHANGED <<server, app, page, settingsShown, drafts, chains, telemetry>>
    PROVE  SettingsInv'
<1>1. PICK n : n = Call(kind, key, value, s)
  OBVIOUS
<1>2. /\ n \in SettingsCalls /\ n.kind = kind /\ n.key = key /\ n.value = value /\ n.section = s
      /\ n.mount = settingsShown[s]
  BY <1>1, CallTyped
<1>3. CallOK(n)
  BY <1>2 DEF CallOK
<1>4. \A c \in calls' : CallOK(c)
  BY <1>1, <1>3 DEF SettingsInv, SettingsTyped, CallOK
<1>5. calls' = calls \cup {n} /\ n.kind # "chained"
  BY <1>1, <1>2
<1>6. CallsMade'
  BY <1>2, <1>5, CallSent
<1>7. chains' \in [PageSections -> Seq(ChainedSaves)] /\ flags' \subseteq Buttons
  BY DEF SettingsInv, SettingsTyped
<1> QED
  BY <1>4, <1>6, <1>7, DraftsKept, TypedWithCalls DEF SettingsInv

\* A list is changed on the page and at the server.
LEMMA Toggled ==
    ASSUME SettingsInv, NEW list \in {"blocked", "tracked"}, NEW n \in Nodes, HandleToggle(list, n)
    PROVE  SettingsInv'
<1>1. PICK s : s = IF list = "blocked" THEN [app EXCEPT !.blocked = Flip(@, n)] ELSE [app EXCEPT !.tracked = Flip(@, n)]
  OBVIOUS
<1>2. app \in Settings
  BY DEF SettingsInv, SettingsTyped
<1>3. Flip(app.blocked, n) \in SUBSET Nodes /\ Flip(app.tracked, n) \in SUBSET Nodes
  BY <1>2 DEF Flip, Settings
<1>4. s \in Settings
  BY <1>1, <1>2, <1>3 DEF Settings
<1>5. SetAppSettings(s)
  BY <1>1 DEF HandleToggle
<1>6. PICK c : c = Call(list, "types", n, "app")
  OBVIOUS
<1>7. c \in SettingsCalls /\ c.kind = list /\ c.value = n
  <2>1. "types" \in SettingKeys \cup Buttons /\ n \in 0..1 \cup Nodes /\ "app" \in PageSections
        /\ list \in {"get", "save", "chained", "blocked", "tracked", "maintenance"}
    BY SettingsNames
  <2>2. PICK kind \in {"get", "save", "chained", "blocked", "tracked", "maintenance"} : kind = list
    BY <2>1
  <2>3. PICK key \in SettingKeys \cup Buttons : key = "types"
    BY <2>1
  <2>4. c = Call(kind, key, n, "app")
    BY <1>6, <2>2, <2>3
  <2>5. c \in SettingsCalls /\ c.kind = kind /\ c.value = n
    BY <2>1, <2>4, CallTyped
  <2> QED
    BY <2>2, <2>5
<1>8. calls' = calls \cup {c} /\ UNCHANGED <<server, page, settingsShown, flags, chains>>
  BY <1>6 DEF HandleToggle
<1>9. CallsMade'
  BY <1>7, <1>8, CallSent
<1>10. SettingsTyped'
  BY <1>4, <1>5, <1>7, <1>8, SettingsSet DEF SettingsInv, SettingsTyped
<1> QED
  BY <1>9, <1>10 DEF SettingsInv

LEMMA ListsStored ==
    ASSUME SettingsInv, NEW s \in {"app", "database"}, NEW k \in {"types", "hourly", "decrypt"}, PersistAppSettings(s, k)
    PROVE  SettingsInv'
<1> DEFINE now == IF k \in Undrafted THEN app.values[k] ELSE drafts[k]
<1>1. now \in 0..1 /\ k \in SettingKeys /\ s \in PageSections /\ k # "messaging"
  BY SettingsNames DEF SettingsInv, SettingsTyped, Settings
<1>2. PICK v \in 0..1 : v = 1 - now
  BY <1>1
<1>3. PICK e : e = [key |-> k, value |-> v, prev |-> now, mount |-> settingsShown[s]]
  OBVIOUS
<1>4. settingsShown[s] \in Nat /\ chains \in [PageSections -> Seq(ChainedSaves)]
  BY <1>1 DEF SettingsInv, SettingsTyped
<1>5. e \in ChainedSaves
  BY <1>1, <1>3, <1>4 DEF ChainedSaves
<1>6. /\ drafts' = IF k \in Drafted THEN [drafts EXCEPT ![k] = v] ELSE drafts
      /\ chains' = [chains EXCEPT ![s] = Append(chains[s], e)]
      /\ UNCHANGED <<server, app, page, settingsShown, flags, calls, telemetry>>
  BY <1>2, <1>3 DEF PersistAppSettings
<1>7. drafts' \in [SettingKeys -> 0..2] /\ \A m \in SettingKeys \ {"messaging"} : drafts'[m] \in 0..1
  <2>1. CASE drafts' = [drafts EXCEPT ![k] = v]
    <3>1. v \in 0..2
      BY <1>2
    <3> QED
      BY <1>1, <1>2, <2>1, <3>1, DraftsEdited
  <2>2. CASE drafts' = drafts
    BY <2>2, DraftsKept
  <2> QED
    BY <1>6, <2>1, <2>2
<1> HIDE DEF now
<1>8. PICK r : r = Append(chains[s], e)
  OBVIOUS
<1>9. r \in Seq(ChainedSaves) /\ DOMAIN chains[s] \subseteq DOMAIN r /\ \A i \in DOMAIN chains[s] : r[i] = chains[s][i]
  <2>1. chains[s] \in Seq(ChainedSaves)
    BY <1>1, <1>4
  <2> QED
    BY <1>5, <1>8, <2>1
<1>10. /\ chains' \in [PageSections -> Seq(ChainedSaves)]
       /\ \A t \in PageSections : /\ DOMAIN chains[t] \subseteq DOMAIN chains'[t]
                                  /\ \A i \in DOMAIN chains[t] : chains'[t][i] = chains[t][i]
  BY <1>1, <1>4, <1>6, <1>8, <1>9
<1>11. \A c \in calls : c.section \in PageSections
  BY DEF SettingsInv, SettingsTyped, SettingsCalls
<1>12. \A c \in calls : c.kind = "chained" => \E i \in DOMAIN chains'[c.section] : chains'[c.section][i].mount = c.mount
  BY <1>10, <1>11 DEF SettingsInv, CallsMade
<1>13. CallsMade'
  BY <1>6, <1>12 DEF SettingsInv, CallsMade, ButtonSection
<1>14. SettingsTyped'
  BY <1>6, <1>7, <1>10 DEF SettingsInv, SettingsTyped
<1> QED
  BY <1>13, <1>14 DEF SettingsInv

LEMMA Advanced ==
    ASSUME SettingsInv, NEW s \in PageSections, ChainAdvances(s)
    PROVE  SettingsInv'
<1>1. PICK i \in DOMAIN chains[s] :
        /\ \A c \in calls : ~(c.kind = "chained" /\ c.section = s /\ c.mount = chains[s][i].mount)
        /\ calls' = calls \cup {[Call("chained", chains[s][i].key, chains[s][i].value, s) EXCEPT !.mount = chains[s][i].mount]}
  BY DEF ChainAdvances
<1>2. PICK save : save = chains[s][i]
  OBVIOUS
<1>3. save \in ChainedSaves
  <2>1. chains[s] \in Seq(ChainedSaves)
    BY DEF SettingsInv, SettingsTyped
  <2> QED
    BY <1>2, <2>1
<1>4. PICK c : c = Call("chained", save.key, save.value, s)
  OBVIOUS
<1>5. c \in SettingsCalls /\ c.kind = "chained" /\ c.key \in SettingKeys /\ c.value \in 0..1 /\ c.section = s
  BY <1>3, <1>4, CallTyped, SettingsNames DEF ChainedSaves
<1>6. PICK n : n = [c EXCEPT !.mount = save.mount]
  OBVIOUS
<1>7. n \in SettingsCalls /\ n.kind = "chained" /\ n.key \in SettingKeys /\ n.value \in 0..1 /\ n.section = s /\ n.mount = save.mount
  BY <1>3, <1>5, <1>6 DEF SettingsCalls, ChainedSaves
<1>8. calls' = calls \cup {n} /\ UNCHANGED <<server, app, page, settingsShown, drafts, flags, chains, telemetry>>
  BY <1>1, <1>2, <1>4, <1>6 DEF ChainAdvances
<1>9. \A d \in calls : ~(d.kind = "chained" /\ d.section = s /\ d.mount = save.mount)
  BY <1>1, <1>2
<1>10. CallsMade'
  BY <1>2, <1>7, <1>8, <1>9 DEF SettingsInv, CallsMade, ButtonSection
<1>11. SettingsTyped'
  BY <1>7, <1>8 DEF SettingsInv, SettingsTyped
<1> QED
  BY <1>10, <1>11 DEF SettingsInv

LEMMA Served ==
    ASSUME SettingsInv, NEW c \in calls, ServeSettings(c)
    PROVE  SettingsInv'
<1>1. PICK ok \in BOOLEAN :
        /\ server' = IF ok /\ c.stage = "send" THEN Stored(c) ELSE server
        /\ calls' = (calls \ {c}) \cup {[c EXCEPT !.answered = TRUE, !.ok = ok,
                       !.settings = IF Reads(c) \/ c.kind = "tracked"
                                    THEN IF ok /\ c.stage = "send" THEN Stored(c) ELSE server ELSE @]}
  BY DEF ServeSettings
<1>2. CallOK(c) /\ server \in Settings
  BY DEF SettingsInv, SettingsTyped, CallOK
<1>3. Stored(c) \in Settings
  <2>1. CASE c.kind \in {"save", "chained"}
    <3>1. PICK vs : vs = [server.values EXCEPT ![c.key] = c.value]
      OBVIOUS
    <3>2. vs \in [SettingKeys -> 0..1]
      BY <1>2, <2>1, <3>1 DEF CallOK, Settings
    <3>3. Stored(c) = [server EXCEPT !.values = vs]
      BY <2>1, <3>1 DEF Stored
    <3> QED
      BY <1>2, <3>2, <3>3 DEF Settings
  <2>2. CASE c.kind \in {"blocked", "tracked"}
    <3>1. Flip(server.blocked, c.value) \in SUBSET Nodes /\ Flip(server.tracked, c.value) \in SUBSET Nodes
      BY <1>2, <2>2 DEF CallOK, Settings, Flip
    <3>2. \/ Stored(c) = [server EXCEPT !.blocked = Flip(server.blocked, c.value)]
          \/ Stored(c) = [server EXCEPT !.tracked = Flip(server.tracked, c.value)]
      BY <2>2 DEF Stored
    <3> QED
      BY <1>2, <3>1, <3>2 DEF Settings
  <2>3. CASE c.kind \notin {"save", "chained", "blocked", "tracked"}
    BY <1>2, <2>3 DEF Stored
  <2> QED
    BY <2>1, <2>2, <2>3
<1>4. PICK st \in Settings : st = IF Reads(c) \/ c.kind = "tracked"
                                  THEN IF ok /\ c.stage = "send" THEN Stored(c) ELSE server ELSE c.settings
  BY <1>2, <1>3 DEF CallOK, SettingsCalls
<1>5. PICK yes \in BOOLEAN : yes = TRUE
  OBVIOUS
<1>6. PICK d : d = [c EXCEPT !.answered = yes, !.ok = ok, !.settings = st]
  OBVIOUS
<1>7. calls' = (calls \ {c}) \cup {d}
  BY <1>1, <1>4, <1>5, <1>6
<1>8. d \in SettingsCalls /\ d.kind = c.kind /\ d.key = c.key /\ d.section = c.section /\ d.mount = c.mount /\ d.value = c.value
  BY <1>2, <1>6 DEF CallOK, SettingsCalls
<1>9. CallOK(d) /\ server' \in Settings
  BY <1>1, <1>2, <1>3, <1>8 DEF CallOK
<1>10. UNCHANGED <<app, page, settingsShown, drafts, flags, chains, telemetry>>
  BY DEF ServeSettings
<1>11. CallsMade'
  BY <1>7, <1>8, <1>10, CallGoesOn
<1>12. SettingsTyped'
  BY <1>7, <1>9, <1>10 DEF SettingsInv, SettingsTyped, CallOK
<1> QED
  BY <1>11, <1>12 DEF SettingsInv

LEMMA Received ==
    ASSUME SettingsInv, NEW c \in calls, ReceiveSettings(c)
    PROVE  SettingsInv'
<1>0. CallOK(c) /\ UNCHANGED <<server, page, settingsShown>>
  BY DEF SettingsInv, SettingsTyped, CallOK, ReceiveSettings
<1>1. CASE ReadsAgain(c)
  <2>1. PICK no \in BOOLEAN : no = FALSE
    OBVIOUS
  <2>2. PICK d : d = [c EXCEPT !.stage = "get", !.answered = no, !.ok = no]
    OBVIOUS
  <2>3. calls' = (calls \ {c}) \cup {d} /\ UNCHANGED <<app, drafts, telemetry, flags, chains>>
    BY <1>1, <2>1, <2>2 DEF ReceiveSettings
  <2>4. d \in SettingsCalls /\ d.kind = c.kind /\ d.key = c.key /\ d.section = c.section /\ d.mount = c.mount /\ d.value = c.value
    BY <1>0, <2>2 DEF CallOK, SettingsCalls
  <2>5. CallsMade'
    BY <1>0, <2>3, <2>4, CallGoesOn
  <2>6. SettingsTyped'
    BY <1>0, <2>3, <2>4 DEF SettingsInv, SettingsTyped, CallOK
  <2> QED
    BY <2>5, <2>6 DEF SettingsInv
<1>2. CASE ~ReadsAgain(c)
  <2>1. calls' = calls \ {c} /\ flags' = Unflagged(c) /\ chains' = Unchained(c)
    BY <1>2 DEF ReceiveSettings
  <2>2. CallsMade' /\ chains' \in [PageSections -> Seq(ChainedSaves)] /\ flags' \subseteq flags
    BY <1>0, <2>1, CallEnds
  <2>3. /\ app' \in Settings /\ drafts' \in [SettingKeys -> 0..2]
        /\ \A k \in SettingKeys \ {"messaging"} : drafts'[k] \in 0..1
        /\ DOMAIN telemetry' = {"asked", "schedule", "history"}
        /\ telemetry'.history \in {"none", "asked", "shown", "dropped"}
    <3>1. CASE SetAppSettings(c.settings)
      BY <1>0, <3>1, SettingsSet DEF CallOK, SettingsCalls
    <3>2. CASE SetAppSettings([app EXCEPT !.tracked = c.settings.tracked])
      <4>1. [app EXCEPT !.tracked = c.settings.tracked] \in Settings
        BY <1>0 DEF CallOK, SettingsCalls, Settings, SettingsInv, SettingsTyped
      <4> QED
        BY <3>2, <4>1, SettingsSet
    <3>3. CASE /\ c.kind = "chained" /\ UNCHANGED <<app, telemetry>>
               /\ drafts' = IF c.key \in Undrafted \/ c.mount # settingsShown[c.section] THEN drafts
                            ELSE [drafts EXCEPT ![c.key] = chains[c.section][FirstOf(c.section, c.mount)].prev]
      <4>1. FirstOf(c.section, c.mount) \in DOMAIN chains[c.section] /\ c.section \in PageSections
        BY <1>0, <3>3, FirstFound DEF SettingsInv, CallsMade, CallOK, SettingsCalls
      <4>2. PICK e : e = chains[c.section][FirstOf(c.section, c.mount)]
        OBVIOUS
      <4>3. e \in ChainedSaves
        <5>1. chains[c.section] \in Seq(ChainedSaves)
          BY <4>1 DEF SettingsInv, SettingsTyped
        <5> QED
          BY <4>1, <4>2, <5>1
      <4>4. drafts' = drafts \/ drafts' = [drafts EXCEPT ![c.key] = e.prev]
        BY <3>3, <4>2
      <4>5. c.key \in SettingKeys /\ e.prev \in 0..1 /\ e.prev \in 0..2
        BY <1>0, <3>3, <4>3 DEF CallOK, ChainedSaves
      <4>6. drafts' \in [SettingKeys -> 0..2] /\ \A k \in SettingKeys \ {"messaging"} : drafts'[k] \in 0..1
        BY <4>4, <4>5, DraftsEdited, DraftsKept
      <4> QED
        BY <3>3, <4>6 DEF SettingsInv, SettingsTyped
    <3>4. CASE UNCHANGED <<app, drafts, telemetry>>
      BY <3>4 DEF SettingsInv, SettingsTyped
    <3> QED
      BY <1>2, <3>1, <3>2, <3>3, <3>4 DEF ReceiveSettings
  <2>4. SettingsTyped'
    BY <1>0, <2>1, <2>2, <2>3 DEF SettingsInv, SettingsTyped
  <2> QED
    BY <2>2, <2>4 DEF SettingsInv
<1> QED
  BY <1>1, <1>2

\* The page and its sections open, close and change places.
LEMMA PageMoves ==
    ASSUME SettingsInv, OpenPage \/ ClosePage \/ ShowSection \/ ToggleSettingsSection \/ ChangeLayout
    PROVE  SettingsInv'
<1> DEFINE Pages == [open : BOOLEAN, mobile : BOOLEAN, expanded : SUBSET PageSections, desktop : PageSections]
<1>0. page \in Pages
  BY DEF SettingsInv, SettingsTyped
<1>1. PICK on \in BOOLEAN, off \in BOOLEAN : on = TRUE /\ off = FALSE
  OBVIOUS
<1>2. CASE OpenPage
  <2>1. PICK s \in PageSections : Turned([page EXCEPT !.open = on, !.desktop = s])
    BY <1>1, <1>2 DEF OpenPage
  <2>2. PICK p : p = [page EXCEPT !.open = on, !.desktop = s]
    OBVIOUS
  <2>3. p \in Pages /\ Turned(p)
    BY <1>0, <2>1, <2>2
  <2>4. Fetch \in SettingsCalls /\ Fetch.kind = "get"
    <3>1. "messaging" \in SettingKeys \cup Buttons /\ "radio" \in PageSections /\ 0 \in 0..1 \cup Nodes
      BY SettingsNames
    <3>2. /\ Call("get", "messaging", 0, "radio") \in SettingsCalls
          /\ Call("get", "messaging", 0, "radio").kind = "get"
      BY <3>1, CallTyped
    <3> QED
      BY <3>2 DEF Fetch
  <2> QED
    BY <1>2, <2>3, <2>4, PageTurned DEF OpenPage
<1>3. CASE ClosePage
  <2>1. PICK p : p = [page EXCEPT !.open = off, !.expanded = {}]
    OBVIOUS
  <2>2. p \in Pages
    BY <1>0, <2>1
  <2> QED
    BY <1>1, <1>3, <2>1, <2>2, PageTurned DEF ClosePage
<1>4. CASE ShowSection
  <2>1. PICK s \in PageSections : Turned([page EXCEPT !.desktop = s])
    BY <1>4 DEF ShowSection
  <2>2. PICK p : p = [page EXCEPT !.desktop = s]
    OBVIOUS
  <2>3. p \in Pages /\ Turned(p)
    BY <1>0, <2>1, <2>2
  <2> QED
    BY <1>4, <2>3, PageTurned DEF ShowSection
<1>5. CASE ToggleSettingsSection
  <2>1. PICK s \in PageSections : Turned([page EXCEPT !.expanded = IF s \in @ THEN @ \ {s} ELSE @ \cup {s}])
    BY <1>5 DEF ToggleSettingsSection
  <2>2. PICK xs : xs = IF s \in page.expanded THEN page.expanded \ {s} ELSE page.expanded \cup {s}
    OBVIOUS
  <2>3. PICK p : p = [page EXCEPT !.expanded = xs]
    OBVIOUS
  <2>4. p \in Pages /\ Turned(p)
    BY <1>0, <2>1, <2>2, <2>3
  <2> QED
    BY <1>5, <2>4, PageTurned DEF ToggleSettingsSection
<1>6. CASE ChangeLayout
  <2>1. PICK m \in BOOLEAN : m = ~page.mobile
    OBVIOUS
  <2>2. PICK p : p = [page EXCEPT !.mobile = m]
    OBVIOUS
  <2>3. p \in Pages /\ Turned(p)
    BY <1>0, <1>6, <2>1, <2>2 DEF ChangeLayout
  <2> QED
    BY <1>6, <2>3, PageTurned DEF ChangeLayout
<1> QED
  BY <1>2, <1>3, <1>4, <1>5, <1>6

LEMMA SettingsStep ==
    ASSUME SettingsInv, [SettingsNext]_settingsVars
    PROVE  SettingsInv'
<1>1. CASE UNCHANGED settingsVars
  BY <1>1, OnlyDrafts, DraftsKept DEF settingsVars
<1>2. CASE OpenPage \/ ClosePage \/ ShowSection \/ ToggleSettingsSection \/ ChangeLayout
  BY <1>2, PageMoves
<1>3. CASE EditDraft \/ AddDiscoveredRegions
  <2>1. PICK k \in {"messaging", "advert"}, v \in 0..2 : drafts' = [drafts EXCEPT ![k] = v] /\ (k # "messaging" => v \in 0..1)
    <3>1. CASE EditDraft
      <4>1. PICK d \in MessagingInputs \cup AdvertInput : drafts' = d
        BY <3>1 DEF EditDraft
      <4>2. CASE d \in MessagingInputs
        BY <4>1, <4>2 DEF MessagingInputs
      <4>3. CASE d \in AdvertInput
        BY <4>1, <4>3 DEF AdvertInput
      <4> QED
        BY <4>1, <4>2, <4>3
    <3>2. CASE AddDiscoveredRegions
      BY <3>2 DEF AddDiscoveredRegions
    <3> QED
      BY <1>3, <3>1, <3>2
  <2>2. k \in SettingKeys
    BY SettingsNames
  <2>3. UNCHANGED <<server, app, page, settingsShown, flags, chains, calls, telemetry>>
    BY <1>3 DEF EditDraft, AddDiscoveredRegions
  <2> QED
    BY <2>1, <2>2, <2>3, DraftsEdited, OnlyDrafts
<1>4. ASSUME NEW k \in {"messaging", "advert"}, HandleSaveDraft(k)
      PROVE  SettingsInv'
  <2>1. k \in SettingKeys /\ k \in Buttons /\ "radio" \in PageSections /\ ButtonSection(k) = "radio"
    BY SettingsNames DEF Buttons, ButtonSection
  <2>2. PICK v : v = drafts[k]
    OBVIOUS
  <2>3. v \in 0..1
    BY <1>4, <2>1, <2>2 DEF HandleSaveDraft, SettingsInv, SettingsTyped
  <2>4. /\ flags' = flags \cup {k} /\ calls' = calls \cup {Call("save", k, v, "radio")}
        /\ UNCHANGED <<server, app, page, settingsShown, drafts, chains, telemetry>>
    BY <1>4, <2>2 DEF HandleSaveDraft
  <2> QED
    BY <2>1, <2>3, <2>4, ButtonSends
<1>5. CASE ToggleResend
  <2>1. "resend" \in SettingKeys /\ "radio" \in PageSections
    BY SettingsNames
  <2>2. PICK v : v = 1 - app.values["resend"]
    OBVIOUS
  <2>3. v \in 0..1
    <3>1. app.values["resend"] \in 0..1
      BY <2>1 DEF SettingsInv, SettingsTyped, Settings
    <3> QED
      BY <2>2, <3>1
  <2>4. /\ calls' = calls \cup {Call("save", "resend", v, "radio")}
        /\ UNCHANGED <<server, app, page, settingsShown, drafts, flags, chains, telemetry>>
    BY <1>5, <2>2 DEF ToggleResend
  <2> QED
    BY <2>1, <2>3, <2>4, ButtonSends
<1>6. ASSUME NEW s \in DOMAIN AutoSaved, NEW k \in AutoSaved[s], PersistAppSettings(s, k)
      PROVE  SettingsInv'
  <2>1. s \in {"app", "database"} /\ AutoSaved["app"] = {"types", "hourly"} /\ AutoSaved["database"] = {"decrypt"}
    BY DEF AutoSaved
  <2>2. k \in {"types", "hourly", "decrypt"}
    BY <2>1
  <2> QED
    BY <1>6, <2>1, <2>2, ListsStored
<1>7. ASSUME NEW s \in PageSections, ChainAdvances(s)
      PROVE  SettingsInv'
  BY <1>7, Advanced
<1>8. CASE RemoveRow \/ BlockNode \/ TrackNode
  <2>1. app.blocked \subseteq Nodes /\ app.tracked \subseteq Nodes
    BY DEF SettingsInv, SettingsTyped, Settings
  <2>2. \E l \in {"blocked", "tracked"}, n \in Nodes : HandleToggle(l, n)
    <3>1. CASE RemoveRow
      <4>1. CASE \E r \in TrackedRows : HandleToggle("tracked", r.key)
        <5>1. PICK r \in TrackedRows : HandleToggle("tracked", r.key)
          BY <4>1
        <5>2. PICK n \in app.tracked : r = [key |-> n, route |-> RouteLabel(n), latest |-> telemetry.history]
          BY DEF TrackedRows
        <5>3. r.key = n
          BY <5>2
        <5> QED
          BY <2>1, <5>1, <5>3
      <4>2. CASE \E n \in BlockedRows : HandleToggle("blocked", n)
        BY <2>1, <4>2 DEF BlockedRows
      <4> QED
        BY <3>1, <4>1, <4>2 DEF RemoveRow
    <3>2. CASE BlockNode \/ TrackNode
      BY <3>2 DEF BlockNode, TrackNode
    <3> QED
      BY <1>8, <3>1, <3>2
  <2> QED
    BY <2>2, Toggled
<1>9. ASSUME NEW b \in {"clean", "purge"}, RunMaintenance(b)
      PROVE  SettingsInv'
  <2>1. b \in Buttons /\ "database" \in PageSections /\ ButtonSection(b) = "database" /\ 0 \in 0..1
    BY SettingsNames DEF Buttons, ButtonSection
  <2>2. /\ flags' = flags \cup {b} /\ calls' = calls \cup {Call("maintenance", b, 0, "database")}
        /\ UNCHANGED <<server, app, page, settingsShown, drafts, chains, telemetry>>
    BY <1>9 DEF RunMaintenance
  <2> QED
    BY <2>1, <2>2, ButtonSends
<1>10. ASSUME NEW c \in calls, ServeSettings(c) \/ ReceiveSettings(c)
       PROVE  SettingsInv'
  BY <1>10, Served, Received
<1>11. CASE ScheduleArrives \/ TelemetryHistoryArrives
  <2>1. UNCHANGED <<server, app, page, settingsShown, drafts, flags, chains, calls>>
    BY <1>11 DEF ScheduleArrives, TelemetryHistoryArrives
  <2>2. DOMAIN telemetry' = {"asked", "schedule", "history"} /\ telemetry'.history \in {"none", "asked", "shown", "dropped"}
    BY <1>11 DEF ScheduleArrives, TelemetryHistoryArrives, SettingsInv, SettingsTyped
  <2> QED
    BY <2>1, <2>2 DEF SettingsInv, SettingsTyped, CallsMade, ButtonSection
<1> QED
  BY <1>1, <1>2, <1>3, <1>4, <1>5, <1>6, <1>7, <1>8, <1>9, <1>10, <1>11 DEF SettingsNext

LEMMA SettingsBusy == ASSUME SettingsInv PROVE SettingsBusyEnds
<1>1. ASSUME NEW c \in calls, c.kind = "chained"
      PROVE  chains[c.section] # <<>>
  <2>1. PICK i \in DOMAIN chains[c.section] : chains[c.section][i].mount = c.mount
    BY <1>1 DEF SettingsInv, CallsMade
  <2> QED
    BY <2>1
<1> QED
  BY <1>1 DEF SettingsInv, CallsMade, SettingsBusyEnds

LEMMA SettingsTypes == ASSUME SettingsInv PROVE SettingsTypeOK
BY DEF SettingsInv, SettingsTyped, Settings, SettingsTypeOK

-----------------------------------------------------------------------------
(* The packet feed: charts divide up what they count                        *)

\* Numbers are divided up by what v makes of them: the sizes of the groups add
\* up to how many belong to a group.
LEMMA GroupsAddUp ==
    ASSUME NEW D \in SUBSET Int, IsFiniteSet(D), NEW v, NEW X, NEW lab, NEW f, DOMAIN f = X,
           \A x, y \in X : lab[x] = lab[y] => x = y,
           \A x \in X : f[x] = Cardinality({i \in D : v[i] = lab[x]})
    PROVE  Total(f) = Cardinality({i \in D : \E x \in X : v[i] = lab[x]})
<1> DEFINE G(x) == {i \in D : v[i] = lab[x]}
           E == {i \in D : \E x \in X : v[i] = lab[x]}
           T == UNION {{x} \X (1..f[x]) : x \in X}
           own(i) == CHOOSE x \in X : v[i] = lab[x]
           R(x, i) == Cardinality({j \in G(x) : j < i})
           g == [i \in E |-> <<own(i), R(own(i), i) + 1>>]
<1>1. \A x \in X : G(x) \in SUBSET Int /\ IsFiniteSet(G(x)) /\ f[x] = Cardinality(G(x))
  BY FS_Subset
<1>2. \A i \in E : own(i) \in X /\ i \in G(own(i))
  OBVIOUS
<1>3. \A x \in X : \A i \in G(x) : i \in E /\ own(i) = x
  <2> TAKE x \in X
  <2> TAKE i \in G(x)
  <2>1. i \in E /\ v[i] = lab[x]
    OBVIOUS
  <2>2. own(i) \in X /\ v[i] = lab[own(i)]
    BY <1>2, <2>1
  <2> HIDE DEF own
  <2> QED
    BY <2>1, <2>2
<1>5. \A x \in X : /\ f[x] \in Nat
                   /\ \A i \in G(x) : R(x, i) \in 0..(f[x] - 1)
                   /\ \A n \in 1..f[x] : \E i \in G(x) : R(x, i) = n - 1
  <2> TAKE x \in X
  <2> HIDE DEF G
  <2>1. G(x) \in SUBSET Int /\ IsFiniteSet(G(x)) /\ f[x] = Cardinality(G(x))
    BY <1>1
  <2> QED
    BY <2>1, RanksCover
<1>6. \A x \in X : \A i, k \in G(x) : i < k => R(x, i) < R(x, k)
  <2> TAKE x \in X
  <2> HIDE DEF G
  <2>1. G(x) \in SUBSET Int /\ IsFiniteSet(G(x))
    BY <1>1
  <2> QED
    BY <2>1, RanksDiffer
<1>7. E \in SUBSET Int /\ IsFiniteSet(E)
  BY FS_Subset
<1>8. \A i \in E : i \in Int
  BY <1>7
<1>9. \A t : t \in T <=> \E x \in X : \E n \in 1..f[x] : t = <<x, n>>
  OBVIOUS
<1> HIDE DEF own, R, G, E, T
<1>10. g \in [E -> T]
  <2>1. ASSUME NEW i \in E
        PROVE  <<own(i), R(own(i), i) + 1>> \in T
    <3>1. own(i) \in X /\ R(own(i), i) \in 0..(f[own(i)] - 1) /\ f[own(i)] \in Nat
      BY <1>2, <1>5
    <3>2. R(own(i), i) + 1 \in 1..f[own(i)]
      BY <3>1
    <3> QED
      BY <1>9, <3>1, <3>2
  <2> QED
    BY <2>1
<1>11. ASSUME NEW i \in E, NEW k \in E, g[i] = g[k]
       PROVE  i = k
  <2>1. own(i) = own(k) /\ R(own(i), i) + 1 = R(own(k), k) + 1
    BY <1>11
  <2>2. PICK x \in X : x = own(i)
    BY <1>2
  <2>3. i \in G(x) /\ k \in G(x)
    BY <1>2, <2>1, <2>2
  <2>4. R(x, i) \in Int /\ R(x, k) \in Int
    BY <1>5, <2>3
  <2>5. R(x, i) + 1 = R(x, k) + 1
    BY <2>1, <2>2
  <2>6. R(x, i) = R(x, k)
    BY <2>4, <2>5
  <2>7. ~(i < k) /\ ~(k < i)
    BY <1>6, <2>3, <2>4, <2>6
  <2> QED
    BY <1>8, <2>7, Trichotomy, Zenon
<1>12. ASSUME NEW t \in T
       PROVE  \E i \in E : g[i] = t
  <2>0. PICK x \in X : \E m \in 1..f[x] : t = <<x, m>>
    BY <1>9
  <2>1. PICK n \in 1..f[x] : t = <<x, n>>
    BY <2>0
  <2>2. PICK i \in G(x) : R(x, i) = n - 1
    BY <1>5
  <2>3. i \in E /\ own(i) = x
    BY <1>3
  <2>4. n \in Int /\ f[x] \in Nat
    BY <1>5
  <2>5. R(x, i) + 1 = n
    BY <2>2, <2>4
  <2> QED
    BY <2>1, <2>3, <2>5
<1>13. g \in Bijection(E, T)
  BY <1>10, <1>11, <1>12 DEF Bijection, Injection, Surjection, IsInjective
<1>14. Cardinality(T) = Cardinality(E)
  BY <1>7, <1>13, FS_Bijection DEF ExistsBijection
<1> QED
  BY <1>14 DEF T, E, Total

\* Every value is counted under its label, once.
LEMMA CountsAddUp ==
    ASSUME NEW n \in Nat, NEW values, DOMAIN values = 1..n, NEW labels
    PROVE  Total(CountsOf(labels, values)) = n
<1> DEFINE X == labels \cup ToSet(values)
           lab == [x \in X |-> x]
<1>1. PICK f : f = CountsOf(labels, values)
  OBVIOUS
<1>2. DOMAIN f = X /\ \A x \in X : f[x] = Cardinality({i \in 1..n : values[i] = lab[x]})
  BY <1>1 DEF CountsOf
<1>3. 1..n \in SUBSET Int /\ IsFiniteSet(1..n) /\ Cardinality(1..n) = n
  BY CountTo
<1>4. \A x, y \in X : lab[x] = lab[y] => x = y
  OBVIOUS
<1>5. {i \in 1..n : \E x \in X : values[i] = lab[x]} = 1..n
  BY DEF ToSet
<1> HIDE DEF X, lab
<1>6. Total(f) = Cardinality({i \in 1..n : \E x \in X : values[i] = lab[x]})
  BY <1>2, <1>3, <1>4, GroupsAddUp
<1> QED
  BY <1>1, <1>3, <1>5, <1>6

-----------------------------------------------------------------------------
(* The packet feed: the charts of a window                                  *)

LEMMA LessAndMore ==
    ASSUME NEW a \in Int, NEW b \in Int
    PROVE  /\ Min({a, b}) = IF a <= b THEN a ELSE b
           /\ Max({a, b}) = IF a >= b THEN a ELSE b
<1>1. PICK m \in {a, b} : m = IF a <= b THEN a ELSE b
  OBVIOUS
<1>2. PICK n \in {a, b} : n = IF a >= b THEN a ELSE b
  OBVIOUS
<1>3. \A y \in {a, b} : m <= y /\ n >= y
  BY <1>1, <1>2
<1>4. \A x \in {a, b} : (\A y \in {a, b} : x <= y) => x = m
  BY <1>1, <1>3
<1>5. \A x \in {a, b} : (\A y \in {a, b} : x >= y) => x = n
  BY <1>2, <1>3
<1>6. Min({a, b}) = m
  BY <1>3, <1>4 DEF Min
<1>7. Max({a, b}) = n
  BY <1>3, <1>5 DEF Max
<1> QED
  BY <1>1, <1>2, <1>6, <1>7

\* The packets of a window.
LEMMA WindowLists ==
    ASSUME SessionShaped, NEW w, NEW now
    PROVE  /\ InWindow(w, now) \in Seq(Observations) /\ Len(InWindow(w, now)) \in Nat
           /\ \A i \in DOMAIN session.observations :
                 session.observations[i].timestamp >= WindowStart(w, now) =>
                   \E n \in DOMAIN InWindow(w, now) : InWindow(w, now)[n] = session.observations[i]
<1>1. session.observations \in Seq(Observations)
  BY DEF SessionShaped
<1>2. PICK I \in SUBSET DOMAIN session.observations :
        I = {i \in DOMAIN session.observations : session.observations[i].timestamp >= WindowStart(w, now)}
  OBVIOUS
<1>3. PICK obs : obs = Picked(session.observations, I)
  OBVIOUS
<1>4. InWindow(w, now) = obs
  BY <1>2, <1>3 DEF InWindow
<1>5. /\ obs \in Seq(Observations) /\ Len(obs) \in Nat
      /\ \A i \in I : \E n \in 1..Len(obs) : obs[n] = session.observations[i]
  BY <1>1, <1>3, PickedLists
<1> QED
  BY <1>2, <1>4, <1>5

\* Whatever types, paths and signals the packets have, every chart counts each once.
LEMMA ChartsAddUp ==
    ASSUME NEW S, NEW obs \in Seq(S)
    PROVE  /\ Total(PayloadCounts(obs)) = Len(obs) /\ Total(HopCounts(obs)) = Len(obs)
           /\ Total(HopWidthCounts(obs)) = Len(obs)
           /\ Total(RssiCounts(obs)) = Cardinality({i \in DOMAIN obs : obs[i].rssi # NoRssi})
<1>1. Len(obs) \in Nat /\ DOMAIN obs = 1..Len(obs)
  OBVIOUS
<1>2. Total(PayloadCounts(obs)) = Len(obs)
  <2>1. PICK v : v = [i \in DOMAIN obs |-> obs[i].payloadType]
    OBVIOUS
  <2>2. PayloadCounts(obs) = CountsOf(KnownTypes, v) /\ DOMAIN v = 1..Len(obs)
    BY <1>1, <2>1 DEF PayloadCounts
  <2> QED
    BY <1>1, <2>2, CountsAddUp
<1>3. Total(HopCounts(obs)) = Len(obs)
  <2>1. PICK v : v = [i \in DOMAIN obs |-> HopProfileBucket(obs[i].hops)]
    OBVIOUS
  <2>2. HopCounts(obs) = CountsOf(HopBuckets, v) /\ DOMAIN v = 1..Len(obs)
    BY <1>1, <2>1 DEF HopCounts
  <2> QED
    BY <1>1, <2>2, CountsAddUp
<1>4. Total(HopWidthCounts(obs)) = Len(obs)
  <2>1. PICK v : v = [i \in DOMAIN obs |-> HopWidth(obs[i])]
    OBVIOUS
  <2>2. HopWidthCounts(obs) = CountsOf(-1..3, v) /\ DOMAIN v = 1..Len(obs)
    BY <1>1, <2>1 DEF HopWidthCounts
  <2> QED
    BY <1>1, <2>2, CountsAddUp
<1>5. Total(RssiCounts(obs)) = Cardinality({i \in DOMAIN obs : obs[i].rssi # NoRssi})
  <2>1. PICK I \in SUBSET DOMAIN obs : I = {i \in DOMAIN obs : obs[i].rssi # NoRssi}
    OBVIOUS
  <2>2. PICK audible : audible = Picked(obs, I)
    OBVIOUS
  <2>3. audible \in Seq(S) /\ Len(audible) = Cardinality(I) /\ Len(audible) \in Nat
    BY <2>2, PickedLists
  <2>4. PICK v : v = [i \in DOMAIN audible |-> RssiBucket(audible[i].rssi)]
    OBVIOUS
  <2>5. RssiCounts(obs) = CountsOf({"strong", "okay", "weak"}, v)
    BY <2>1, <2>2, <2>4 DEF RssiCounts
  <2>6. DOMAIN v = 1..Len(audible)
    BY <2>3, <2>4
  <2> QED
    BY <2>1, <2>3, <2>5, <2>6, CountsAddUp
<1> QED
  BY <1>2, <1>3, <1>4, <1>5

\* A packet of the window falls into one of the ten bins.
LEMMA BinsCover ==
    ASSUME SessionShaped, NEW w \in Windows, NEW now \in Int, NEW o \in Observations
    PROVE  TimelineIndex(o, w, now) \in 0..9
<1>1. o.timestamp \in Int /\ session.startedAt = 0
  BY DEF SessionShaped, Observations
<1>2. WindowSeconds(w) \in Nat /\ WindowSeconds(w) > 0
  BY DEF WindowSeconds
<1>3. TimelineSpan(w, now) \in Nat /\ TimelineSpan(w, now) > 0
  <2>1. Max({60, now - session.startedAt}) = IF 60 >= now - session.startedAt THEN 60 ELSE now - session.startedAt
    BY <1>1, LessAndMore
  <2> QED
    BY <1>1, <1>2, <2>1 DEF TimelineSpan
<1>4. WindowStart(w, now) \in Int
  BY <1>1, <1>2 DEF WindowStart
<1>5. PICK a \in Int : a = (o.timestamp - WindowStart(w, now)) * 10
  BY <1>1, <1>4
<1>6. a \div TimelineSpan(w, now) \in Int
  BY <1>3, <1>5
<1>7. PICK q \in Int : q = a \div TimelineSpan(w, now)
  BY <1>6
<1>8. TimelineIndex(o, w, now) = Max({0, Min({9, q})})
  BY <1>5, <1>7 DEF TimelineIndex
<1>9. PICK m \in Int : m = Min({9, q}) /\ m <= 9
  BY LessAndMore
<1>10. Max({0, m}) = IF 0 >= m THEN 0 ELSE m
  BY LessAndMore
<1> QED
  BY <1>8, <1>9, <1>10

LEMMA TimelineAddsUp ==
    ASSUME SessionShaped, NEW w \in Windows, NEW now \in Int
    PROVE  Total(Timeline(w, now)) = Len(InWindow(w, now))
<1>1. PICK obs : obs = InWindow(w, now)
  OBVIOUS
<1>2. obs \in Seq(Observations) /\ Len(obs) \in Nat
  BY <1>1, WindowLists
<1>3. PICK D : D = DOMAIN obs
  OBVIOUS
<1>4. D \in SUBSET Int /\ IsFiniteSet(D) /\ Cardinality(D) = Len(obs)
  BY <1>2, <1>3, CountTo
<1>5. PICK v : v = [i \in D |-> TimelineIndex(obs[i], w, now)]
  OBVIOUS
<1>6. \A i \in D : v[i] \in 0..9
  BY <1>2, <1>3, <1>5, BinsCover
<1>7. PICK f : f = Timeline(w, now)
  OBVIOUS
<1>0. PICK X : X = 0..9
  OBVIOUS
<1>8. DOMAIN f = X /\ \A b \in X : f[b] = Cardinality({i \in D : v[i] = b})
  BY <1>0, <1>1, <1>3, <1>5, <1>7 DEF Timeline
<1>9. PICK lab : lab = [b \in X |-> b]
  OBVIOUS
<1>10. /\ \A b \in X : f[b] = Cardinality({i \in D : v[i] = lab[b]})
       /\ \A x, y \in X : lab[x] = lab[y] => x = y
  BY <1>8, <1>9
<1>11. Total(f) = Cardinality({i \in D : \E b \in X : v[i] = lab[b]})
  BY <1>4, <1>8, <1>10, GroupsAddUp
<1>12. {i \in D : \E b \in X : v[i] = lab[b]} = D
  BY <1>0, <1>6, <1>9
<1> QED
  BY <1>1, <1>4, <1>7, <1>11, <1>12

-----------------------------------------------------------------------------
(* The packet feed: neighbours                                              *)

\* The rows of the senders in the window.
LEMMA NeighborRows ==
    ASSUME NEW obs
    PROVE  /\ \A n \in Neighbors(obs) : /\ n = Neighbor(n.key, obs) /\ n.key # NoSource
                                        /\ n.count = Cardinality({i \in DOMAIN obs : obs[i].source = n.key})
           /\ \A i \in DOMAIN obs : obs[i].source # NoSource => \E n \in Neighbors(obs) : n.key = obs[i].source
<1>1. \A key : /\ Neighbor(key, obs).key = key
               /\ Neighbor(key, obs).count = Cardinality({i \in DOMAIN obs : obs[i].source = key})
  BY DEF Neighbor
<1> QED
  BY <1>1 DEF Neighbors

LEMMA NeighborsFinite ==
    ASSUME NEW S, NEW obs \in Seq(S)
    PROVE  IsFiniteSet(Neighbors(obs)) /\ Cardinality(Neighbors(obs)) \in Nat
<1>1. IsFiniteSet(DOMAIN obs)
  <2>1. DOMAIN obs = 1..Len(obs) /\ Len(obs) \in Nat
    OBVIOUS
  <2> QED
    BY <2>1, CountTo
<1>2. PICK f : f = [i \in DOMAIN obs |-> Neighbor(obs[i].source, obs)]
  OBVIOUS
<1>3. PICK I : I = {f[i] : i \in DOMAIN obs}
  OBVIOUS
<1>4. f \in Surjection(DOMAIN obs, I)
  BY <1>2, <1>3 DEF Surjection
<1>5. IsFiniteSet(I)
  BY <1>1, <1>4, FS_Surjection
<1>6. Neighbors(obs) \subseteq I
  BY <1>2, <1>3 DEF Neighbors
<1> QED
  BY <1>5, <1>6, FS_Subset, FS_CardinalityType

\* A row of the merged list counts the packets of those it merges.
LEMMA MergedCount ==
    ASSUME NEW S, NEW obs \in Seq(S), NEW key, NEW items \in SUBSET Neighbors(obs)
    PROVE  /\ MergedNeighbor(key, items).key = key
           /\ MergedNeighbor(key, items).count =
                Cardinality({i \in DOMAIN obs : \E n \in items : obs[i].source = n.key})
<1>1. PICK D : D = DOMAIN obs
  OBVIOUS
<1>2. D \in SUBSET Int /\ IsFiniteSet(D)
  <2>1. D = 1..Len(obs) /\ Len(obs) \in Nat
    BY <1>1
  <2> QED
    BY <2>1, CountTo
<1>3. PICK v : v = [i \in D |-> obs[i].source]
  OBVIOUS
<1>4. PICK lab : lab = [n \in items |-> n.key]
  OBVIOUS
<1>5. PICK f : f = [n \in items |-> n.count]
  OBVIOUS
<1>6. \A x, y \in items : lab[x] = lab[y] => x = y
  <2> TAKE x \in items, y \in items
  <2>1. lab[x] = x.key /\ lab[y] = y.key
    BY <1>4
  <2>2. x = Neighbor(x.key, obs) /\ y = Neighbor(y.key, obs)
    BY NeighborRows
  <2> QED
    BY <2>1, <2>2
<1>7. \A x \in items : f[x] = Cardinality({i \in D : v[i] = lab[x]})
  <2> TAKE x \in items
  <2>1. f[x] = x.count /\ lab[x] = x.key
    BY <1>4, <1>5
  <2>2. x.count = Cardinality({i \in D : obs[i].source = x.key})
    BY <1>1, NeighborRows
  <2>3. {i \in D : v[i] = lab[x]} = {i \in D : obs[i].source = x.key}
    BY <1>3, <2>1
  <2> QED
    BY <2>1, <2>2, <2>3
<1>8. DOMAIN f = items
  BY <1>5
<1>9. Total(f) = Cardinality({i \in D : \E x \in items : v[i] = lab[x]})
  BY <1>2, <1>6, <1>7, <1>8, GroupsAddUp
<1>10. {i \in D : \E x \in items : v[i] = lab[x]} = {i \in D : \E n \in items : obs[i].source = n.key}
  BY <1>3, <1>4
<1>11. MergedNeighbor(key, items).count = Total(f) /\ MergedNeighbor(key, items).key = key
  BY <1>5 DEF MergedNeighbor
<1> QED
  BY <1>1, <1>9, <1>10, <1>11

\* What is merged into a row, and what that row counts.
MergesInto(row, items, top, obs) ==
    /\ items \in SUBSET top /\ items = {n \in top : CanonicalKey(n.key) = row.key}
    /\ row = MergedNeighbor(row.key, items)
    /\ row.count = Cardinality({i \in DOMAIN obs : \E n \in items : obs[i].source = n.key})

LEMMA RowsMerge ==
    ASSUME NEW S, NEW obs \in Seq(S), NEW top \in SUBSET Neighbors(obs), NEW row \in MergedNeighbors(top)
    PROVE  \E items : MergesInto(row, items, top, obs)
<1>1. PICK key : row = MergedNeighbor(key, {n \in top : CanonicalKey(n.key) = key})
  BY DEF MergedNeighbors
<1>2. PICK items \in SUBSET top : items = {n \in top : CanonicalKey(n.key) = key}
  OBVIOUS
<1>3. row = MergedNeighbor(key, items)
  BY <1>1, <1>2
<1>4. /\ MergedNeighbor(key, items).key = key
      /\ MergedNeighbor(key, items).count = Cardinality({i \in DOMAIN obs : \E n \in items : obs[i].source = n.key})
  BY MergedCount
<1>5. row.key = key
  BY <1>3, <1>4
<1> QED
  BY <1>2, <1>3, <1>4, <1>5 DEF MergesInto

LEMMA ListsMergeRight ==
    ASSUME NEW S, NEW obs \in Seq(S), NEW mode, NEW shown \in NeighborLists(mode, obs)
    PROVE  /\ \A row, other \in shown : row.key = other.key => row = other
           /\ RowsAddUp(shown, obs)
           /\ mode # "signal" /\ Cardinality(Neighbors(obs)) <= MaxRanked => RowsComplete(shown, obs)
<1>1. PICK all : all = {n \in Neighbors(obs) : mode = "signal" => n.bestRssi # NoRssi}
  OBVIOUS
<1>2. PICK top : /\ top \in SUBSET all /\ shown = MergedNeighbors(top)
                 /\ Cardinality(top) = Min({MaxRanked, Cardinality(all)})
  BY <1>1 DEF NeighborLists, TopNeighbors
<1>3. top \in SUBSET Neighbors(obs)
  BY <1>1, <1>2
<1>4. ASSUME NEW row \in shown
      PROVE  \E items : MergesInto(row, items, top, obs)
  <2>1. row \in MergedNeighbors(top)
    BY <1>2
  <2> QED
    BY <1>3, <2>1, RowsMerge
<1>5. ASSUME NEW row \in shown, NEW other \in shown, row.key = other.key
      PROVE  row = other
  <2>1. PICK these : MergesInto(row, these, top, obs)
    BY <1>4
  <2>2. PICK those : MergesInto(other, those, top, obs)
    BY <1>4
  <2>3. these = those
    BY <1>5, <2>1, <2>2 DEF MergesInto
  <2> QED
    BY <1>5, <2>1, <2>2, <2>3 DEF MergesInto
<1>6. \A key : SentBy(key, obs) \in SUBSET (DOMAIN obs) /\ IsFiniteSet(SentBy(key, obs))
  <2>1. DOMAIN obs = 1..Len(obs) /\ Len(obs) \in Nat
    OBVIOUS
  <2>2. \A key : SentBy(key, obs) \in SUBSET (DOMAIN obs)
    BY DEF SentBy
  <2> QED
    BY <2>1, <2>2, CountTo, FS_Subset
<1>7. \A n \in top : n.key # NoSource
  BY <1>3, NeighborRows
<1>8. RowsAddUp(shown, obs)
  <2>1. ASSUME NEW row \in shown
        PROVE  row.count <= Cardinality(SentBy(row.key, obs))
    <3>1. PICK items \in SUBSET top :
             /\ items = {n \in top : CanonicalKey(n.key) = row.key}
             /\ row.count = Cardinality({i \in DOMAIN obs : \E n \in items : obs[i].source = n.key})
      BY <1>4 DEF MergesInto
    <3>2. PICK I : I = {i \in DOMAIN obs : \E n \in items : obs[i].source = n.key}
      OBVIOUS
    <3>3. I \in SUBSET SentBy(row.key, obs)
      BY <1>7, <3>1, <3>2 DEF SentBy
    <3> QED
      BY <1>6, <3>1, <3>2, <3>3, FS_Subset
  <2> QED
    BY <2>1 DEF RowsAddUp
<1>9. ASSUME mode # "signal", Cardinality(Neighbors(obs)) <= MaxRanked
      PROVE  RowsComplete(shown, obs)
  <2>1. all = Neighbors(obs)
    BY <1>1, <1>9
  <2>2. IsFiniteSet(all) /\ Cardinality(all) \in Nat /\ MaxRanked \in Int
    BY <2>1, NeighborsFinite, FeedAssumption
  <2>3. Min({MaxRanked, Cardinality(all)}) = Cardinality(all)
    BY <1>9, <2>1, <2>2, LessAndMore
  <2>4. top = all
    BY <1>2, <2>2, <2>3, FS_Subset
  <2>5. \A i \in DOMAIN obs : obs[i].source # NoSource => \E n \in top : n.key = obs[i].source
    BY <2>1, <2>4, NeighborRows
  <2>6. ASSUME NEW row \in shown
        PROVE  row.count = Cardinality(SentBy(row.key, obs))
    <3>1. PICK items \in SUBSET top :
             /\ items = {n \in top : CanonicalKey(n.key) = row.key}
             /\ row.count = Cardinality({i \in DOMAIN obs : \E n \in items : obs[i].source = n.key})
      BY <1>4 DEF MergesInto
    <3>2. {i \in DOMAIN obs : \E n \in items : obs[i].source = n.key} = SentBy(row.key, obs)
      BY <1>7, <2>5, <3>1 DEF SentBy
    <3> QED
      BY <3>1, <3>2
  <2>7. ASSUME NEW i \in DOMAIN obs, obs[i].source # NoSource
        PROVE  \E row \in shown : row.key = CanonicalKey(obs[i].source)
    <3>1. PICK n \in top : n.key = obs[i].source
      BY <2>5, <2>7
    <3>2. PICK key : key = CanonicalKey(n.key)
      OBVIOUS
    <3>3. MergedNeighbor(key, {m \in top : CanonicalKey(m.key) = key}) \in shown
      BY <1>2, <3>2 DEF MergedNeighbors
    <3>4. \A items : MergedNeighbor(key, items).key = key
      BY DEF MergedNeighbor
    <3> QED
      BY <3>1, <3>2, <3>3, <3>4
  <2> QED
    BY <2>6, <2>7 DEF RowsComplete
<1> QED
  BY <1>5, <1>8, <1>9

-----------------------------------------------------------------------------
(* The packet feed: what is kept of a packet                                *)

LEMMA NewestLists ==
    ASSUME NEW S, NEW s \in Seq(S), NEW n \in Nat
    PROVE  /\ Newest(s, n) \in Seq(S) /\ Len(Newest(s, n)) \in Nat
           /\ Len(Newest(s, n)) = IF Len(s) > n THEN n ELSE Len(s)
           /\ \A i \in 1..Len(Newest(s, n)) : Newest(s, n)[i] = s[Len(s) - Len(Newest(s, n)) + i]
<1>1. Len(s) \in Nat
  OBVIOUS
<1>2. CASE ~(Len(s) > n)
  <2>1. Newest(s, n) = s
    BY <1>2 DEF Newest
  <2>2. \A i \in 1..Len(s) : Len(s) - Len(s) + i = i
    BY <1>1
  <2> QED
    BY <1>1, <1>2, <2>1, <2>2
<1>3. CASE Len(s) > n
  <2>1. PICK m \in Nat : m = Len(s) - n
    BY <1>1, <1>3
  <2>2. Newest(s, n) = SubSeq(s, m + 1, Len(s))
    BY <1>1, <1>3, <2>1 DEF Newest
  <2>3. SubSeq(s, m + 1, Len(s)) = [i \in 1..n |-> s[m + i]]
    <3>1. SubSeq(s, m + 1, Len(s)) = [i \in 1..(1 + Len(s) - (m + 1)) |-> s[(m + 1) + i - 1]]
      OBVIOUS
    <3>2. 1 + Len(s) - (m + 1) = n
      BY <1>1, <2>1
    <3>3. \A i \in 1..n : (m + 1) + i - 1 = m + i
      BY <2>1
    <3> QED
      BY <3>1, <3>2, <3>3
  <2>4. \A i \in 1..n : m + i \in 1..Len(s)
    BY <1>1, <1>3, <2>1
  <2>5. \A i \in 1..n : s[m + i] \in S
    <3>1. \A j \in 1..Len(s) : s[j] \in S
      OBVIOUS
    <3> QED
      BY <2>4, <3>1
  <2>6. [i \in 1..n |-> s[m + i]] \in Seq(S) /\ Len([i \in 1..n |-> s[m + i]]) = n
    BY <2>5
  <2>7. PICK r : r = Newest(s, n)
    OBVIOUS
  <2>8. /\ r \in Seq(S) /\ Len(r) = n /\ \A i \in 1..n : r[i] = s[m + i]
    BY <2>2, <2>3, <2>6, <2>7
  <2>9. Len(s) - Len(r) = m
    BY <1>1, <2>1, <2>8
  <2> QED
    BY <1>3, <2>7, <2>8, <2>9
<1> QED
  BY <1>2, <1>3

\* One more, and the oldest gone if there were too many.
OneMore(S, s, x, n, r) ==
    /\ r \in Seq(S) /\ Len(r) \in Nat /\ Len(r) = IF Len(s) = n THEN n ELSE Len(s) + 1
    /\ Len(Append(s, x)) = Len(s) + 1
    /\ \A i \in 1..Len(r) : r[i] = IF Len(s) + 1 - Len(r) + i = Len(s) + 1 THEN x ELSE s[Len(s) + 1 - Len(r) + i]

LEMMA NewestOfMore ==
    ASSUME NEW S, NEW s \in Seq(S), NEW x \in S, NEW n \in Nat, Len(s) <= n
    PROVE  OneMore(S, s, x, n, Newest(Append(s, x), n))
<1>0. PICK t : t = Append(s, x)
  OBVIOUS
<1>1. PICK r : r = Newest(t, n)
  OBVIOUS
<1>2. /\ Len(s) \in Nat /\ t \in Seq(S) /\ Len(t) = Len(s) + 1
      /\ \A i \in 1..Len(t) : t[i] = IF i = Len(s) + 1 THEN x ELSE s[i]
  BY <1>0
<1>4. /\ r \in Seq(S) /\ Len(r) \in Nat /\ Len(r) = IF Len(t) > n THEN n ELSE Len(t)
      /\ \A i \in 1..Len(r) : r[i] = t[Len(t) - Len(r) + i]
  BY <1>1, <1>2, NewestLists
<1>5. Len(r) = IF Len(s) = n THEN n ELSE Len(s) + 1
  BY <1>2, <1>4
<1>6. \A i \in 1..Len(r) : Len(s) + 1 - Len(r) + i \in 1..Len(t)
  BY <1>2, <1>4
<1>7. \A i \in 1..Len(r) : r[i] = IF Len(s) + 1 - Len(r) + i = Len(s) + 1 THEN x ELSE s[Len(s) + 1 - Len(r) + i]
  <2> TAKE i \in 1..Len(r)
  <2>1. PICK j : j = Len(s) + 1 - Len(r) + i
    OBVIOUS
  <2>2. j \in 1..Len(t) /\ r[i] = t[j]
    <3>1. j \in 1..Len(t)
      BY <1>6, <2>1
    <3>2. r[i] = t[Len(t) - Len(r) + i]
      BY <1>4
    <3>3. j = Len(t) - Len(r) + i
      BY <1>2, <2>1
    <3> QED
      BY <3>1, <3>2, <3>3
  <2>3. r[i] = IF j = Len(s) + 1 THEN x ELSE s[j]
    BY <1>2, <2>2
  <2> QED
    BY <2>1, <2>3
<1> QED
  BY <1>0, <1>1, <1>2, <1>4, <1>5, <1>7 DEF OneMore

LEMMA OpenIs == ASSUME FeedShaped, feed.open PROVE feed \in OpenFeeds
BY DEF FeedShaped, Closed

\* What is kept of a packet.
LEMMA Summary ==
    ASSUME NEW p \in Packets
    PROVE  /\ Summarize(p) \in Observations
           /\ Summarize(p).key = p.id /\ Summarize(p).timestamp = p.timestamp
<1>1. p.id \in Nat /\ p.timestamp \in Int /\ p.frame \in Frames
  BY DEF Packets
<1>2. PICK a, b, c, d, e, g, h :
        /\ Summarize(p) = [key |-> p.id, timestamp |-> a, decrypted |-> b, rssi |-> c, payloadType |-> d,
                           source |-> e, hops |-> g, width |-> h]
        /\ a = p.timestamp /\ b = p.frame.decrypted /\ c = p.frame.rssi
        /\ d \in {p.frame.type, p.frame.stated}
        /\ e = SourceInfo(p.frame) /\ g \in {p.frame.hops, 0} /\ h \in {p.frame.width, 0}
  BY DEF Summarize
<1>3. /\ b \in {f.decrypted : f \in Frames} /\ c \in {f.rssi : f \in Frames}
      /\ d \in {f.type : f \in Frames} \cup {f.stated : f \in Frames} /\ e \in {SourceInfo(f) : f \in Frames}
      /\ g \in {f.hops : f \in Frames} \cup {0} /\ h \in {f.width : f \in Frames} \cup {0}
  BY <1>1, <1>2
<1> QED
  BY <1>1, <1>2, <1>3 DEF Observations

LEMMA FeedStarts == ASSUME FeedInit PROVE FeedInv
<1>1. /\ feedClock = 0 /\ skew \in Skews /\ nextObservation = 1 /\ inProcess = {} /\ buffered = <<>>
      /\ announced = <<>>
      /\ session = [startedAt |-> 0, total |-> 0, trimmed |-> 0, observations |-> <<>>]
  BY DEF FeedInit
<1>2. feed \in {Closed} \cup OpenFeeds /\ (feed.open => feed.nowSec <= feedClock)
  <2>1. CASE feed = Closed
    BY <2>1 DEF Closed
  <2>2. ASSUME NEW w \in StartWindows, feed = [Opened(TRUE) EXCEPT !.window = w]
        PROVE  feed \in OpenFeeds /\ feed.nowSec <= feedClock
    <3>0. PICK yes \in BOOLEAN : yes = TRUE
      OBVIOUS
    <3>1. /\ w \in Windows /\ "none" \in HexKinds /\ feedClock \in Nat
      BY <1>1, FeedAssumption DEF HexKinds
    <3>2. feed = [open |-> yes, statsOpen |-> yes, window |-> w, nowSec |-> feedClock, selected |-> 0,
                  enabled |-> KnownTypes, hex |-> "none"]
      BY <2>2, <3>0 DEF Opened
    <3> QED
      BY <3>0, <3>1, <3>2 DEF OpenFeeds
  <2> QED
    BY <2>1, <2>2 DEF FeedInit
<1>3. FeedShaped
  BY <1>1, <1>2, FeedAssumption DEF FeedShaped
<1>4. session.total = 0 /\ session.trimmed = 0 /\ session.observations = <<>> /\ session.startedAt = 0
  BY <1>1
<1>5. SessionShaped
  <2>1. <<>> \in Seq(Observations) /\ Len(<<>>) = 0
    OBVIOUS
  <2> QED
    BY <1>1, <1>4, <2>1, FeedAssumption DEF SessionShaped
<1>6. IdsOnce
  BY <1>1, <1>4 DEF IdsOnce
<1>7. AnnouncedKept
  BY <1>1, <1>4 DEF AnnouncedKept
<1> QED
  BY <1>3, <1>5, <1>6, <1>7 DEF FeedInv

-----------------------------------------------------------------------------
(* The packet feed: the statistics, and the view                            *)

\* A packet recorded is counted, and what it displaces is counted as trimmed.
LEMMA Observed ==
    ASSUME SessionShaped, NEW p \in Packets, session' = ObservePacket(p),
           \A i \in DOMAIN session.observations : session.observations[i].key # p.id
    PROVE  \E d \in 0..1 :
             /\ SessionShaped'
             /\ session'.total = session.total + 1 /\ session'.trimmed = session.trimmed + d
             /\ Len(session'.observations) = Len(session.observations) + 1 - d
             /\ Len(session'.observations) \in Nat
             /\ \A n \in 1..Len(session'.observations) :
                  session'.observations[n] = IF d + n = Len(session.observations) + 1 THEN Summarize(p)
                                             ELSE session.observations[d + n]
<1>0. PICK o, x : o = session.observations /\ x = Summarize(p)
  OBVIOUS
<1>1. PICK t, r : o = session.observations /\ x = Summarize(p) /\ t = Append(o, x) /\ r = Newest(t, MaxObservations)
  BY <1>0
<1>2. /\ o \in Seq(Observations) /\ Len(o) \in Nat /\ Len(o) <= MaxObservations /\ MaxObservations \in Nat
      /\ MaxObservations > 0 /\ x \in Observations
  BY <1>1, Summary, FeedAssumption DEF SessionShaped
<1>3. /\ r \in Seq(Observations) /\ Len(r) \in Nat
      /\ Len(r) = IF Len(o) = MaxObservations THEN MaxObservations ELSE Len(o) + 1
      /\ Len(t) = Len(o) + 1
      /\ \A i \in 1..Len(r) : r[i] = IF Len(o) + 1 - Len(r) + i = Len(o) + 1 THEN x ELSE o[Len(o) + 1 - Len(r) + i]
  <2>1. OneMore(Observations, o, x, MaxObservations, Newest(Append(o, x), MaxObservations))
    BY <1>2, NewestOfMore
  <2> QED
    BY <1>1, <2>1 DEF OneMore
<1>4. PICK d \in 0..1 : d = Len(o) + 1 - Len(r)
  <2>1. CASE Len(o) = MaxObservations
    BY <1>2, <1>3, <2>1
  <2>2. CASE Len(o) # MaxObservations
    BY <1>2, <1>3, <2>2
  <2> QED
    BY <2>1, <2>2
<1>5. session' = [session EXCEPT !.total = @ + 1, !.observations = r, !.trimmed = @ + d]
  <2>1. ObservePacket(p) = [session EXCEPT !.total = @ + 1, !.observations = r, !.trimmed = @ + (Len(t) - Len(r))]
    BY <1>1 DEF ObservePacket
  <2>2. Len(t) - Len(r) = d
    BY <1>3, <1>4
  <2> QED
    BY <2>1, <2>2
<1>6. session \in [startedAt : {0}, total : Nat, trimmed : Nat, observations : Seq(Observations)]
      /\ session.total = session.trimmed + Len(o)
  BY <1>1 DEF SessionShaped
<1>7. /\ session'.total = session.total + 1 /\ session'.trimmed = session.trimmed + d /\ session'.observations = r
      /\ session' \in [startedAt : {0}, total : Nat, trimmed : Nat, observations : Seq(Observations)]
  <2>1. session.total + 1 \in Nat /\ session.trimmed + d \in Nat
    BY <1>6
  <2> QED
    BY <1>3, <1>5, <1>6, <2>1
<1>8. Len(r) = Len(o) + 1 - d /\ Len(r) <= MaxObservations
  BY <1>2, <1>3, <1>4
<1>9. session'.trimmed > 0 => Len(r) = MaxObservations
  <2>1. CASE d = 1
    BY <1>2, <1>3, <1>4, <2>1
  <2>2. CASE d = 0 /\ session.trimmed > 0
    <3>1. Len(o) = MaxObservations
      BY <1>1, <2>2 DEF SessionShaped
    <3> QED
      BY <1>2, <1>3, <3>1
  <2> QED
    BY <1>6, <1>7, <2>1, <2>2
<1>10. session'.total = session'.trimmed + Len(r)
  BY <1>2, <1>6, <1>7, <1>8
<1>11. SessionShaped'
  BY <1>7, <1>8, <1>9, <1>10 DEF SessionShaped
<1>12. \A n \in 1..Len(r) : r[n] = IF d + n = Len(o) + 1 THEN x ELSE o[d + n]
  BY <1>3, <1>4
<1>13. /\ Len(session'.observations) = Len(session.observations) + 1 - d
       /\ Len(session'.observations) \in Nat
       /\ \A n \in 1..Len(session'.observations) :
            session'.observations[n] = IF d + n = Len(session.observations) + 1 THEN Summarize(p)
                                       ELSE session.observations[d + n]
  BY <1>1, <1>3, <1>7, <1>8, <1>12
<1> QED
  BY <1>7, <1>11, <1>13

\* The view.
LEMMA ViewKept ==
    ASSUME FeedShaped, feedClock' = feedClock, FeedFollows
    PROVE  feed' \in {Closed} \cup OpenFeeds /\ (feed'.open => feed'.nowSec <= feedClock')
<1>1. CASE feed' = feed
  BY <1>1 DEF FeedShaped
<1>2. CASE feed.open /\ feed' = [feed EXCEPT !.nowSec = feedClock]
  <2>1. feed \in OpenFeeds /\ feedClock \in Nat
    BY <1>2, OpenIs DEF FeedShaped
  <2>2. feed' \in OpenFeeds /\ feed'.nowSec = feedClock
    BY <1>2, <2>1 DEF OpenFeeds
  <2> QED
    BY <2>1, <2>2
<1> QED
  BY <1>1, <1>2 DEF FeedFollows

LEMMA ViewStep ==
    ASSUME FeedShaped, [FeedNext]_feedVars
    PROVE  /\ feedClock' \in Nat
           /\ feed' \in {Closed} \cup OpenFeeds /\ (feed'.open => feed'.nowSec <= feedClock')
<1> DEFINE Fine == feedClock' \in Nat /\ feed' \in {Closed} \cup OpenFeeds /\ (feed'.open => feed'.nowSec <= feedClock')
<1>0. feedClock \in Nat /\ feed \in {Closed} \cup OpenFeeds /\ (feed.open => feed.nowSec <= feedClock)
  BY DEF FeedShaped
<1>1. CASE feed' = feed /\ feedClock' = feedClock
  BY <1>0, <1>1
<1>2. ASSUME NEW p \in inProcess, RecordRawPacket(p)
      PROVE  Fine
  BY <1>0, <1>2, ViewKept DEF RecordRawPacket
<1>3. CASE SocketReopens
  BY <1>0, <1>3, ViewKept DEF SocketReopens
<1>4. ASSUME NEW t \in Ticks, TimePasses(t)
      PROVE  Fine
  <2>1. t \in Nat /\ feedClock' = feedClock + t /\ feed' = feed
    BY <1>4, FeedAssumption DEF TimePasses
  <2>2. feed.open => feed.nowSec \in Nat
    BY OpenIs DEF OpenFeeds
  <2> QED
    BY <1>0, <2>1, <2>2
<1>5. ASSUME NEW wide \in BOOLEAN, OpenFeed(wide)
      PROVE  Fine
  <2>0. PICK yes \in BOOLEAN : yes = TRUE
    OBVIOUS
  <2>1. feed' = [open |-> yes, statsOpen |-> wide, window |-> "10m", nowSec |-> feedClock, selected |-> 0,
                 enabled |-> KnownTypes, hex |-> "none"] /\ feedClock' = feedClock
    BY <1>5, <2>0 DEF OpenFeed, Opened, feedRest
  <2>2. "10m" \in Windows /\ "none" \in HexKinds
    BY DEF Windows, HexKinds
  <2>3. feed' \in OpenFeeds /\ feed'.nowSec = feedClock
    BY <1>0, <2>0, <2>1, <2>2 DEF OpenFeeds
  <2> QED
    BY <1>0, <2>1, <2>3
<1>6. CASE LeaveFeed
  BY <1>0, <1>6 DEF LeaveFeed, feedRest, Closed
<1>7. CASE FeedInterval
  <2>1. feed \in OpenFeeds /\ feed' = [feed EXCEPT !.nowSec = feedClock] /\ feedClock' = feedClock
    BY <1>7, OpenIs DEF FeedInterval, feedRest
  <2>2. feed' \in OpenFeeds /\ feed'.nowSec = feedClock
    BY <1>0, <2>1 DEF OpenFeeds
  <2> QED
    BY <1>0, <2>1, <2>2
<1>8. ASSUME feed.open, feedClock' = feedClock,
             \/ feed' = [feed EXCEPT !.statsOpen = ~@]
             \/ \E w \in Windows : feed' = [feed EXCEPT !.window = w]
             \/ \E k \in SUBSET KnownTypes : feed' = [feed EXCEPT !.enabled = k]
             \/ \E h \in HexKinds : feed' = [feed EXCEPT !.hex = h]
             \/ \E n \in Nat : feed' = [feed EXCEPT !.selected = n]
      PROVE  Fine
  <2>1. feed \in OpenFeeds
    BY <1>8, OpenIs
  <2>2. feed' \in OpenFeeds /\ feed'.nowSec = feed.nowSec
    BY <1>8, <2>1 DEF OpenFeeds
  <2> QED
    BY <1>0, <1>8, <2>2
<1>9. CASE \/ ToggleStats \/ HandleToggleAll \/ CloseInspected
           \/ \E w \in Windows : SelectWindow(w)
           \/ \E t \in KnownTypes : HandleToggleType(t) \/ HandleOnly(t)
           \/ \E h \in HexKinds : TypeHex(h)
           \/ \E p \in ToSet(buffered) : SelectPacket(p)
  <2>1. feed.open /\ feedClock' = feedClock
    BY <1>9 DEF ToggleStats, HandleToggleAll, CloseInspected, SelectWindow, HandleToggleType, HandleOnly, TypeHex,
                SelectPacket, feedRest
  <2>2. feed \in OpenFeeds
    BY <2>1, OpenIs
  <2>3. CASE ToggleStats
    BY <1>8, <2>1, <2>3 DEF ToggleStats
  <2>4. CASE HandleToggleAll
    <3>1. \E k \in SUBSET KnownTypes : feed' = [feed EXCEPT !.enabled = k]
      BY <2>2, <2>4 DEF HandleToggleAll, OpenFeeds
    <3> QED
      BY <1>8, <2>1, <3>1
  <2>5. CASE CloseInspected
    BY <1>8, <2>1, <2>5 DEF CloseInspected
  <2>6. ASSUME NEW w \in Windows, SelectWindow(w)
        PROVE  Fine
    BY <1>8, <2>1, <2>6 DEF SelectWindow
  <2>7. ASSUME NEW t \in KnownTypes, HandleToggleType(t) \/ HandleOnly(t)
        PROVE  Fine
    <3>1. \E k \in SUBSET KnownTypes : feed' = [feed EXCEPT !.enabled = k]
      <4>1. feed.enabled \in SUBSET KnownTypes
        BY <2>2 DEF OpenFeeds
      <4>2. PICK k : k \in {{t}, feed.enabled \ {t}, feed.enabled \cup {t}} /\ feed' = [feed EXCEPT !.enabled = k]
        BY <2>2, <2>7 DEF HandleToggleType, HandleOnly, OpenFeeds
      <4> QED
        BY <4>1, <4>2
    <3> QED
      BY <1>8, <2>1, <3>1
  <2>8. ASSUME NEW h \in HexKinds, TypeHex(h)
        PROVE  Fine
    BY <1>8, <2>1, <2>8 DEF TypeHex
  <2>9. ASSUME NEW p \in ToSet(buffered), SelectPacket(p)
        PROVE  Fine
    <3>0. p \in Packets
      <4>1. PICK i \in DOMAIN buffered : p = buffered[i]
        BY DEF ToSet
      <4>2. buffered \in Seq(Packets)
        BY DEF FeedShaped
      <4> QED
        BY <4>1, <4>2
    <3>1. p.id \in Nat /\ feed' = [feed EXCEPT !.selected = p.id]
      BY <2>9, <3>0 DEF SelectPacket, Packets
    <3> QED
      BY <1>8, <2>1, <3>1
  <2> QED
    BY <1>9, <2>3, <2>4, <2>5, <2>6, <2>7, <2>8, <2>9
<1> HIDE DEF Fine
<1>10. Fine
  <2>1. CASE \/ \E f \in Frames : HearPacket(f)
             \/ SocketCloses \/ ServerRestarts \/ \E c \in FeedContacts : ContactLearned(c)
    <3>1. feed' = feed /\ feedClock' = feedClock
      BY <2>1 DEF HearPacket, SocketCloses, ServerRestarts, ContactLearned
    <3> QED
      BY <1>1, <3>1 DEF Fine
  <2>2. CASE UNCHANGED feedVars
    BY <1>1, <2>2 DEF Fine, feedVars
  <2> QED
    BY <1>2, <1>3, <1>4, <1>5, <1>6, <1>7, <1>9, <2>1, <2>2 DEF FeedNext, Fine
<1> QED
  BY <1>10 DEF Fine

-----------------------------------------------------------------------------
(* The packet feed: a packet is recorded                                    *)

\* The buffer.
LEMMA Buffered ==
    ASSUME FeedShaped, NEW p \in Packets, buffered' = AppendUnique(p),
           \A i, j \in DOMAIN buffered : buffered[i].id = buffered[j].id => i = j
    PROVE  /\ buffered' \in Seq(Packets) /\ Len(buffered') <= MaxBuffered
           /\ \A i, j \in DOMAIN buffered' : buffered'[i].id = buffered'[j].id => i = j
<1>1. buffered \in Seq(Packets) /\ Len(buffered) <= MaxBuffered /\ MaxBuffered \in Nat /\ Len(buffered) \in Nat
  BY FeedAssumption DEF FeedShaped
<1>2. CASE \E i \in DOMAIN buffered : buffered[i].id = p.id
  BY <1>1, <1>2 DEF AppendUnique
<1>3. CASE \A i \in DOMAIN buffered : buffered[i].id # p.id
  <2>1. PICK r : r = Newest(Append(buffered, p), MaxBuffered)
    OBVIOUS
  <2>2. buffered' = r
    BY <1>3, <2>1 DEF AppendUnique
  <2>3. OneMore(Packets, buffered, p, MaxBuffered, r)
    BY <1>1, <2>1, NewestOfMore
  <2>4. /\ r \in Seq(Packets) /\ Len(r) \in Nat
        /\ Len(r) = IF Len(buffered) = MaxBuffered THEN MaxBuffered ELSE Len(buffered) + 1
        /\ \A i \in 1..Len(r) : r[i] = IF Len(buffered) + 1 - Len(r) + i = Len(buffered) + 1 THEN p
                                       ELSE buffered[Len(buffered) + 1 - Len(r) + i]
    BY <2>3 DEF OneMore
  <2>5. PICK d \in 0..1 : d = Len(buffered) + 1 - Len(r)
    <3>1. CASE Len(buffered) = MaxBuffered
      BY <1>1, <2>4, <3>1
    <3>2. CASE Len(buffered) # MaxBuffered
      BY <1>1, <2>4, <3>2
    <3> QED
      BY <3>1, <3>2
  <2>6. Len(r) <= MaxBuffered
    BY <1>1, <2>4
  <2>7. \A i \in 1..Len(r) : /\ d + i \in 1..(Len(buffered) + 1)
                             /\ d + i = Len(buffered) + 1 => r[i] = p
                             /\ d + i # Len(buffered) + 1 => d + i \in DOMAIN buffered /\ r[i] = buffered[d + i]
    <3> TAKE i \in 1..Len(r)
    <3>1. d + i = Len(buffered) + 1 - Len(r) + i
      BY <2>5
    <3>2. r[i] = IF d + i = Len(buffered) + 1 THEN p ELSE buffered[d + i]
      BY <2>4, <3>1
    <3>3. d + i \in 1..(Len(buffered) + 1) /\ DOMAIN buffered = 1..Len(buffered)
      BY <1>1, <2>4, <2>5
    <3> QED
      BY <1>1, <3>2, <3>3
  <2>8. ASSUME NEW i \in 1..Len(r), NEW j \in 1..Len(r), r[i].id = r[j].id
        PROVE  i = j
    <3>1. d + i = d + j
      <4>1. CASE d + i = Len(buffered) + 1 /\ d + j # Len(buffered) + 1
        <5>1. d + j \in DOMAIN buffered /\ r[j] = buffered[d + j] /\ r[i] = p
          BY <1>1, <2>7, <4>1
        <5> QED
          BY <1>3, <2>8, <5>1
      <4>2. CASE d + i # Len(buffered) + 1 /\ d + j = Len(buffered) + 1
        <5>1. d + i \in DOMAIN buffered /\ r[i] = buffered[d + i] /\ r[j] = p
          BY <1>1, <2>7, <4>2
        <5> QED
          BY <1>3, <2>8, <5>1
      <4>3. CASE d + i # Len(buffered) + 1 /\ d + j # Len(buffered) + 1
        <5>1. /\ d + i \in DOMAIN buffered /\ r[i] = buffered[d + i]
              /\ d + j \in DOMAIN buffered /\ r[j] = buffered[d + j]
          BY <1>1, <2>7, <4>3
        <5> QED
          BY <2>8, <5>1
      <4> QED
        BY <4>1, <4>2, <4>3
    <3> QED
      BY <2>4, <2>5, <3>1
  <2>9. DOMAIN r = 1..Len(r)
    BY <2>4
  <2>10. \A i, j \in DOMAIN r : r[i].id = r[j].id => i = j
    BY <2>8, <2>9
  <2> QED
    BY <2>2, <2>4, <2>6, <2>10
<1> QED
  BY <1>2, <1>3

\* A packet that the session does not have yet is recorded.
LEMMA SessionRecorded ==
    ASSUME FeedInv, NEW p \in inProcess, session' = ObservePacket(p), announced' = Append(announced, p),
           inProcess' = inProcess \ {p}, UNCHANGED <<skew, nextObservation, restarted>>
    PROVE  /\ SessionShaped' /\ AnnouncedKept'
           /\ \A i, j \in DOMAIN session'.observations : session'.observations[i].key = session'.observations[j].key => i = j
<1>0. p \in Packets /\ p.id < nextObservation /\ p.timestamp >= skew
  BY DEF FeedInv, FeedShaped, IdsOnce
<1>1. PICK o : o = session.observations
  OBVIOUS
<1>2. /\ o \in Seq(Observations) /\ Len(o) \in Nat /\ DOMAIN o = 1..Len(o)
      /\ \A i, j \in DOMAIN o : o[i].key = o[j].key => i = j
      /\ session.total \in Nat /\ session.trimmed \in Nat /\ session.total = session.trimmed + Len(o)
  BY <1>1 DEF FeedInv, SessionShaped, IdsOnce
<1>3. ASSUME ~restarted
      PROVE  /\ session.total = Len(announced) /\ announced \in Seq(Packets) /\ Len(announced) \in Nat
             /\ \A i \in 1..Len(announced) : announced[i].id < nextObservation /\ announced[i].timestamp >= skew
             /\ \A i, j \in 1..Len(announced) : announced[i].id = announced[j].id => i = j
             /\ \A q \in inProcess : \A i \in 1..Len(announced) : announced[i].id # q.id
             /\ \A n \in 1..Len(o) : o[n] = Summarize(announced[session.trimmed + n])
  <2>1. /\ session.total = Len(announced) /\ announced \in Seq(Packets)
        /\ \A i \in DOMAIN announced : announced[i].id < nextObservation /\ announced[i].timestamp >= skew
        /\ \A i, j \in DOMAIN announced : announced[i].id = announced[j].id => i = j
        /\ \A q \in inProcess : \A i \in DOMAIN announced : announced[i].id # q.id
        /\ \A n \in DOMAIN session.observations : session.observations[n] = Summarize(announced[session.trimmed + n])
    BY <1>3 DEF FeedInv, FeedShaped, AnnouncedKept
  <2>2. Len(announced) \in Nat /\ DOMAIN announced = 1..Len(announced)
    BY <2>1
  <2> QED
    BY <1>1, <1>2, <2>1, <2>2
<1>4. CASE \E i \in DOMAIN o : o[i].key = p.id
  <2>1. session' = session
    BY <1>1, <1>4 DEF ObservePacket
  <2>2. restarted
    <3>1. SUFFICES ASSUME ~restarted
                   PROVE  FALSE
      OBVIOUS
    <3>2. PICK i \in 1..Len(o) : o[i].key = p.id
      BY <1>2, <1>4
    <3>3. session.trimmed + i \in 1..Len(announced)
      BY <1>2, <1>3, <3>1, <3>2
    <3>4. announced[session.trimmed + i] \in Packets
      BY <1>3, <3>1, <3>3
    <3>5. o[i] = Summarize(announced[session.trimmed + i])
      BY <1>3, <3>1
    <3>6. o[i].key = announced[session.trimmed + i].id
      BY <3>4, <3>5, Summary
    <3> QED
      BY <1>3, <3>1, <3>2, <3>3, <3>6
  <2> QED
    BY <2>1, <2>2 DEF FeedInv, SessionShaped, IdsOnce, AnnouncedKept
<1>5. CASE \A i \in DOMAIN o : o[i].key # p.id
  <2>1. PICK d \in 0..1 :
             /\ SessionShaped'
             /\ session'.total = session.total + 1 /\ session'.trimmed = session.trimmed + d
             /\ Len(session'.observations) = Len(session.observations) + 1 - d
             /\ Len(session'.observations) \in Nat
             /\ \A n \in 1..Len(session'.observations) :
                  session'.observations[n] = IF d + n = Len(session.observations) + 1 THEN Summarize(p)
                                             ELSE session.observations[d + n]
    BY <1>0, <1>1, <1>5, Observed DEF FeedInv
  <2>2. PICK r : r = session'.observations
    OBVIOUS
  <2>3. /\ DOMAIN r = 1..Len(r) /\ Len(r) \in Nat /\ Len(r) = Len(o) + 1 - d
        /\ \A n \in 1..Len(r) : r[n] = IF d + n = Len(o) + 1 THEN Summarize(p) ELSE o[d + n]
    <3>1. DOMAIN r = 1..Len(r)
      BY <2>1, <2>2 DEF SessionShaped
    <3> QED
      BY <1>1, <2>1, <2>2, <3>1
  <2>4. \A n \in 1..Len(r) : /\ d + n \in 1..(Len(o) + 1)
                             /\ d + n = Len(o) + 1 => r[n] = Summarize(p) /\ r[n].key = p.id
                             /\ d + n # Len(o) + 1 => d + n \in 1..Len(o) /\ r[n] = o[d + n]
    BY <1>0, <1>2, <2>3, Summary
  <2>5. ASSUME NEW i \in 1..Len(r), NEW j \in 1..Len(r), r[i].key = r[j].key
        PROVE  i = j
    <3>1. d + i = d + j
      <4>1. CASE d + i = Len(o) + 1 /\ d + j # Len(o) + 1
        <5>1. d + j \in DOMAIN o /\ r[j] = o[d + j] /\ r[i].key = p.id
          BY <1>2, <2>4, <4>1
        <5> QED
          BY <1>5, <2>5, <5>1
      <4>2. CASE d + i # Len(o) + 1 /\ d + j = Len(o) + 1
        <5>1. d + i \in DOMAIN o /\ r[i] = o[d + i] /\ r[j].key = p.id
          BY <1>2, <2>4, <4>2
        <5> QED
          BY <1>5, <2>5, <5>1
      <4>3. CASE d + i # Len(o) + 1 /\ d + j # Len(o) + 1
        <5>1. d + i \in DOMAIN o /\ d + j \in DOMAIN o /\ r[i] = o[d + i] /\ r[j] = o[d + j]
          BY <1>2, <2>4, <4>3
        <5> QED
          BY <1>2, <2>5, <5>1
      <4> QED
        BY <4>1, <4>2, <4>3
    <3> QED
      BY <2>3, <3>1
  <2>6. ASSUME ~restarted
        PROVE  AnnouncedKept'
    <3>1. PICK all : all = Append(announced, p)
      OBVIOUS
    <3>2. /\ announced' = all /\ Len(all) = Len(announced) + 1 /\ DOMAIN all = 1..(Len(announced) + 1)
          /\ \A i \in 1..Len(announced) : all[i] = announced[i]
          /\ all[Len(announced) + 1] = p /\ Len(announced) \in Nat
      BY <1>3, <2>6, <3>1
    <3>3. \A i \in DOMAIN all : all[i].id < nextObservation /\ all[i].timestamp >= skew
      BY <1>0, <1>3, <2>6, <3>2
    <3>4. \A i, j \in DOMAIN all : all[i].id = all[j].id => i = j
      BY <1>3, <2>6, <3>2
    <3>5. ASSUME NEW q \in inProcess \ {p}, NEW i \in DOMAIN all
          PROVE  all[i].id # q.id
      <4>1. p.id # q.id
        BY DEF FeedInv, IdsOnce
      <4> QED
        BY <1>3, <2>6, <3>2, <4>1
    <3>6. ASSUME NEW n \in 1..Len(r)
          PROVE  r[n] = Summarize(all[session'.trimmed + n])
      <4>1. session'.trimmed + n = session.trimmed + (d + n)
        BY <1>2, <2>1
      <4>2. CASE d + n = Len(o) + 1
        <5>1. session.trimmed + (d + n) = Len(announced) + 1
          BY <1>2, <1>3, <2>6, <4>2
        <5> QED
          BY <2>4, <3>2, <4>1, <4>2, <5>1
      <4>3. CASE d + n # Len(o) + 1
        <5>1. d + n \in 1..Len(o) /\ r[n] = o[d + n]
          BY <2>4, <4>3
        <5>2. o[d + n] = Summarize(announced[session.trimmed + (d + n)])
          BY <1>3, <2>6, <5>1
        <5>3. session.trimmed + (d + n) \in 1..Len(announced)
          BY <1>2, <1>3, <2>6, <5>1
        <5> QED
          BY <3>2, <4>1, <5>1, <5>2, <5>3
      <4> QED
        BY <4>2, <4>3
    <3>7. session'.total = Len(all)
      BY <1>3, <2>1, <2>6, <3>2
    <3> QED
      BY <2>2, <2>3, <3>2, <3>3, <3>4, <3>5, <3>6, <3>7 DEF AnnouncedKept
  <2>7. AnnouncedKept'
    <3>1. CASE restarted
      BY <3>1 DEF AnnouncedKept
    <3> QED
      BY <2>6, <3>1
  <2> QED
    BY <2>1, <2>2, <2>3, <2>5, <2>7
<1> QED
  BY <1>4, <1>5

-----------------------------------------------------------------------------
(* The packet feed: every step, and what the view tells                     *)

\* Steps that leave what was announced and observed as it is.
LEMMA NothingRecorded ==
    ASSUME FeedInv, FeedShaped', UNCHANGED session, UNCHANGED announced, UNCHANGED skew,
           buffered' \in {buffered, <<>>},
           \/ restarted' /\ inProcess' = {}
           \/ /\ UNCHANGED restarted /\ nextObservation' >= nextObservation
              /\ \A p \in inProcess' : p \in inProcess
    PROVE  FeedInv'
<1>1. SessionShaped'
  BY DEF FeedInv, SessionShaped
<1>2. nextObservation \in Nat /\ nextObservation' \in Nat /\ inProcess \subseteq Packets /\ announced \in Seq(Packets)
  BY DEF FeedInv, FeedShaped
<1>3. \A i, j \in DOMAIN buffered' : buffered'[i].id = buffered'[j].id => i = j
  BY DEF FeedInv, IdsOnce
<1>4. \A i \in DOMAIN announced : announced[i].id \in Nat
  <2>1. \A i \in DOMAIN announced : announced[i] \in Packets
    BY <1>2
  <2> QED
    BY <2>1 DEF Packets
<1>5. \A p \in inProcess : p.id \in Nat
  BY <1>2 DEF Packets
<1>6. IdsOnce'
  BY <1>2, <1>3, <1>5 DEF FeedInv, IdsOnce
<1>7. AnnouncedKept'
  BY <1>2, <1>4 DEF FeedInv, AnnouncedKept
<1> QED
  BY <1>1, <1>6, <1>7 DEF FeedInv

LEMMA PacketHeardBy ==
    ASSUME FeedInv, NEW f \in Frames, HearPacket(f)
    PROVE  FeedInv'
<1>1. PICK p : p = [id |-> nextObservation, timestamp |-> feedClock + skew, frame |-> f]
  OBVIOUS
<1>2. /\ inProcess' = inProcess \cup {p} /\ nextObservation' = nextObservation + 1
      /\ UNCHANGED <<feedClock, skew, buffered, session, feed, announced, restarted>>
  BY <1>1 DEF HearPacket
<1>3. /\ nextObservation \in Nat /\ feedClock \in Nat /\ skew \in Int /\ inProcess \subseteq Packets
      /\ announced \in Seq(Packets)
  BY DEF FeedInv, FeedShaped
<1>4. p \in Packets /\ p.id = nextObservation /\ p.timestamp >= skew
  BY <1>1, <1>3 DEF Packets
<1>5. FeedShaped'
  BY <1>2, <1>3, <1>4 DEF FeedInv, FeedShaped
<1>6. SessionShaped'
  BY <1>2 DEF FeedInv, SessionShaped
<1>7. \A q \in inProcess : q.id \in Nat /\ q.id < nextObservation
  BY <1>3 DEF FeedInv, IdsOnce, Packets
<1>8. IdsOnce'
  BY <1>2, <1>3, <1>4, <1>7 DEF FeedInv, IdsOnce
<1>9. \A i \in DOMAIN announced : announced[i].id \in Nat
  <2>1. \A i \in DOMAIN announced : announced[i] \in Packets
    BY <1>3
  <2> QED
    BY <2>1 DEF Packets
<1>10. AnnouncedKept'
  BY <1>2, <1>3, <1>4, <1>9 DEF FeedInv, AnnouncedKept
<1> QED
  BY <1>5, <1>6, <1>8, <1>10 DEF FeedInv

LEMMA PacketRecorded ==
    ASSUME FeedInv, NEW p \in inProcess, RecordRawPacket(p)
    PROVE  FeedInv'
<1>1. /\ inProcess' = inProcess \ {p} /\ feedClock' = feedClock
      /\ UNCHANGED <<skew, nextObservation, restarted>> /\ FeedFollows
  BY DEF RecordRawPacket
<1>2. feed' \in {Closed} \cup OpenFeeds /\ (feed'.open => feed'.nowSec <= feedClock')
  BY <1>1, ViewKept DEF FeedInv
<1>3. CASE UNCHANGED <<buffered, session, announced>>
  <2>1. FeedShaped'
    BY <1>1, <1>2, <1>3 DEF FeedInv, FeedShaped
  <2>2. nextObservation \in Nat /\ \A q \in inProcess' : q \in inProcess
    BY <1>1 DEF FeedInv, FeedShaped
  <2> QED
    BY <1>1, <1>3, <2>1, <2>2, NothingRecorded
<1>4. CASE buffered' = AppendUnique(p) /\ session' = ObservePacket(p) /\ announced' = Append(announced, p)
  <2>1. p \in Packets /\ announced \in Seq(Packets)
    BY DEF FeedInv, FeedShaped
  <2>2. /\ buffered' \in Seq(Packets) /\ Len(buffered') <= MaxBuffered
        /\ \A i, j \in DOMAIN buffered' : buffered'[i].id = buffered'[j].id => i = j
    BY <1>4, <2>1, Buffered DEF FeedInv, IdsOnce
  <2>3. FeedShaped'
    BY <1>1, <1>2, <1>4, <2>1, <2>2 DEF FeedInv, FeedShaped
  <2>4. /\ SessionShaped' /\ AnnouncedKept'
        /\ \A i, j \in DOMAIN session'.observations : session'.observations[i].key = session'.observations[j].key => i = j
    BY <1>1, <1>4, SessionRecorded
  <2>5. IdsOnce'
    BY <1>1, <2>2, <2>4 DEF FeedInv, IdsOnce
  <2> QED
    BY <2>3, <2>4, <2>5 DEF FeedInv
<1> QED
  BY <1>3, <1>4 DEF RecordRawPacket

LEMMA FeedStep ==
    ASSUME FeedInv, [FeedNext]_feedVars
    PROVE  FeedInv'
<1>1. /\ feedClock' \in Nat
      /\ feed' \in {Closed} \cup OpenFeeds /\ (feed'.open => feed'.nowSec <= feedClock')
  BY ViewStep DEF FeedInv
<1>2. CASE SocketReopens
  <2>1. /\ buffered' = <<>> /\ session' = session /\ announced' = announced /\ skew' = skew
        /\ restarted' = restarted /\ inProcess' = inProcess /\ nextObservation' = nextObservation
    BY <1>2 DEF SocketReopens
  <2>2. FeedShaped'
    BY <1>1, <2>1, FeedAssumption DEF FeedInv, FeedShaped
  <2>3. nextObservation \in Nat
    BY DEF FeedInv, FeedShaped
  <2> QED
    BY <2>1, <2>2, <2>3, NothingRecorded
<1>3. CASE ServerRestarts
  <2>1. /\ buffered' = buffered /\ session' = session /\ announced' = announced /\ skew' = skew
        /\ restarted' = TRUE /\ inProcess' = {} /\ nextObservation' = 1
    BY <1>3 DEF ServerRestarts
  <2>2. FeedShaped'
    BY <1>1, <2>1 DEF FeedInv, FeedShaped
  <2> QED
    BY <2>1, <2>2, NothingRecorded
<1>4. CASE /\ buffered' = buffered /\ session' = session /\ announced' = announced /\ skew' = skew
           /\ restarted' = restarted /\ inProcess' = inProcess /\ nextObservation' = nextObservation
  <2>1. FeedShaped'
    BY <1>1, <1>4 DEF FeedInv, FeedShaped
  <2>2. nextObservation \in Nat
    BY DEF FeedInv, FeedShaped
  <2> QED
    BY <1>4, <2>1, <2>2, NothingRecorded
<1>5. CASE \/ SocketCloses \/ \E t \in Ticks : TimePasses(t)
           \/ \E c \in FeedContacts : ContactLearned(c)
  BY <1>4, <1>5 DEF SocketCloses, TimePasses, ContactLearned
<1>6. CASE \/ \E wide \in BOOLEAN : OpenFeed(wide)
           \/ LeaveFeed \/ FeedInterval \/ ToggleStats \/ HandleToggleAll \/ CloseInspected
           \/ \E w \in Windows : SelectWindow(w)
           \/ \E t \in KnownTypes : HandleToggleType(t) \/ HandleOnly(t)
           \/ \E h \in HexKinds : TypeHex(h)
           \/ \E p \in ToSet(buffered) : SelectPacket(p)
  <2>1. UNCHANGED feedRest
    BY <1>6 DEF OpenFeed, LeaveFeed, FeedInterval, ToggleStats, HandleToggleAll, CloseInspected, SelectWindow,
                HandleToggleType, HandleOnly, TypeHex, SelectPacket
  <2> QED
    BY <1>4, <2>1 DEF feedRest
<1>7. CASE UNCHANGED feedVars
  BY <1>4, <1>7 DEF feedVars
<1> QED
  BY <1>2, <1>3, <1>5, <1>6, <1>7, PacketHeardBy, PacketRecorded DEF FeedNext

(***************************************************************************)
(* What the invariant says of the view.                                    *)
(***************************************************************************)
LEMMA FeedTypes == ASSUME FeedInv PROVE FeedTypeOK
<1>1. feed.open => feed \in OpenFeeds
  BY OpenIs DEF FeedInv
<1>2. Len(buffered) <= MaxBuffered /\ Len(session.observations) <= MaxObservations
  BY DEF FeedInv, FeedShaped, SessionShaped
<1>3. ASSUME feed.open
      PROVE  feed.window \in Windows /\ feed.enabled \subseteq KnownTypes /\ feed.nowSec \in 0..feedClock
  <2>1. feedClock \in Nat /\ feed.nowSec <= feedClock
    BY <1>3 DEF FeedInv, FeedShaped
  <2>2. feed \in OpenFeeds
    BY <1>1, <1>3
  <2>3. feed.nowSec \in Nat /\ feed.window \in Windows /\ feed.enabled \subseteq KnownTypes
    BY <2>2 DEF OpenFeeds
  <2> QED
    BY <2>1, <2>3
<1> QED
  BY <1>2, <1>3 DEF FeedTypeOK

LEMMA FeedAddsUp == ASSUME FeedInv PROVE PacketsAddUp
<1>1. session.total = session.trimmed + Len(session.observations) /\ (~restarted => session.total = Len(announced))
  BY DEF FeedInv, SessionShaped, AnnouncedKept
<1>2. IsInjective([i \in DOMAIN session.observations |-> session.observations[i].key])
  BY DEF FeedInv, IdsOnce, IsInjective
<1>3. IsInjective([i \in DOMAIN buffered |-> buffered[i].id])
  BY DEF FeedInv, IdsOnce, IsInjective
<1>4. ASSUME feed.open, feed.statsOpen
      PROVE  LET obs == InWindow(feed.window, feed.nowSec) IN
         /\ Total(PayloadCounts(obs)) = Len(obs) /\ Total(HopCounts(obs)) = Len(obs)
         /\ Total(HopWidthCounts(obs)) = Len(obs)
         /\ Total(RssiCounts(obs)) = Cardinality({i \in DOMAIN obs : obs[i].rssi # NoRssi})
         /\ Total(Timeline(feed.window, feed.nowSec)) = Len(obs)
  <2>1. feed.window \in Windows /\ feed.nowSec \in Int /\ SessionShaped
    BY <1>4, OpenIs DEF FeedInv, OpenFeeds
  <2>2. InWindow(feed.window, feed.nowSec) \in Seq(Observations)
    BY <2>1, WindowLists
  <2>3. Total(Timeline(feed.window, feed.nowSec)) = Len(InWindow(feed.window, feed.nowSec))
    BY <2>1, TimelineAddsUp
  <2>4. PICK obs : obs = InWindow(feed.window, feed.nowSec)
    OBVIOUS
  <2>5. /\ Total(PayloadCounts(obs)) = Len(obs) /\ Total(HopCounts(obs)) = Len(obs)
        /\ Total(HopWidthCounts(obs)) = Len(obs)
        /\ Total(RssiCounts(obs)) = Cardinality({i \in DOMAIN obs : obs[i].rssi # NoRssi})
    BY <2>2, <2>4, ChartsAddUp
  <2> QED
    BY <2>3, <2>4, <2>5
<1> QED
  BY <1>1, <1>2, <1>3, <1>4 DEF PacketsAddUp

LEMMA WindowWhole == ASSUME FeedInv PROVE CoveredWindowIsWhole
<1>1. SUFFICES ASSUME feed.open, ~restarted, AnnouncedInOrder, WindowFullyCovered(feed.window, feed.nowSec),
                      NEW i \in DOMAIN announced, NEW obs, obs = InWindow(feed.window, feed.nowSec)
               PROVE  \/ announced[i].id \in {obs[j].key : j \in DOMAIN obs}
                      \/ IF feed.window = "session" THEN skew < 0
                         ELSE announced[i].timestamp <= WindowStart(feed.window, feed.nowSec)
  BY DEF CoveredWindowIsWhole, CoverageTone
<1>2. PICK o : o = session.observations
  OBVIOUS
<1>3. /\ o \in Seq(Observations) /\ Len(o) \in Nat /\ DOMAIN o = 1..Len(o) /\ session.startedAt = 0
      /\ session.total \in Nat /\ session.trimmed \in Nat /\ session.total = session.trimmed + Len(o)
      /\ (session.trimmed > 0 => Len(o) = MaxObservations)
      /\ session.total = Len(announced) /\ announced \in Seq(Packets) /\ Len(announced) \in Nat
      /\ \A n \in DOMAIN o : o[n] = Summarize(announced[session.trimmed + n])
      /\ announced[i].timestamp >= skew /\ skew \in Int
  BY <1>1, <1>2 DEF FeedInv, FeedShaped, SessionShaped, AnnouncedKept
<1>4. feed.window \in Windows /\ feed.nowSec \in Int
  BY <1>1, OpenIs DEF FeedInv, OpenFeeds
<1>5. WindowStart(feed.window, feed.nowSec) \in Int
  <2>1. WindowSeconds(feed.window) \in Int
    BY <1>4 DEF WindowSeconds
  <2> QED
    BY <1>3, <1>4, <2>1 DEF WindowStart
<1>6. i \in 1..Len(announced) /\ announced[i] \in Packets /\ announced[i].timestamp \in Int
  <2>1. i \in 1..Len(announced) /\ announced[i] \in Packets
    BY <1>3
  <2> QED
    BY <2>1 DEF Packets
<1>7. CASE i <= session.trimmed
  <2>1. session.trimmed > 0 /\ feed.window # "session"
    BY <1>1, <1>3, <1>6, <1>7 DEF WindowFullyCovered
  <2>2. 1 \in DOMAIN o
    <3>1. Len(o) = MaxObservations
      BY <1>3, <2>1
    <3>2. MaxObservations \in Nat /\ MaxObservations > 0
      BY FeedAssumption
    <3>3. 1 \in 1..Len(o)
      BY <3>1, <3>2
    <3> QED
      BY <1>3, <3>3
  <2>3. session.trimmed + 1 \in DOMAIN announced
    BY <1>3, <2>2
  <2>4. o[1] = Summarize(announced[session.trimmed + 1]) /\ announced[session.trimmed + 1] \in Packets
    BY <1>3, <2>2, <2>3
  <2>5. o[1].timestamp = announced[session.trimmed + 1].timestamp
    BY <2>4, Summary
  <2>6. CoverageStart = o[1].timestamp /\ CoverageStart <= WindowStart(feed.window, feed.nowSec)
    BY <1>1, <1>2, <2>1 DEF WindowFullyCovered, CoverageStart
  <2>7. announced[i].timestamp <= announced[session.trimmed + 1].timestamp
    <3>1. i < session.trimmed + 1
      BY <1>3, <1>6, <1>7
    <3> QED
      BY <1>1, <2>3, <3>1 DEF AnnouncedInOrder
  <2>8. announced[session.trimmed + 1].timestamp \in Int
    BY <2>4 DEF Packets
  <2>9. announced[i].timestamp <= WindowStart(feed.window, feed.nowSec)
    BY <1>5, <1>6, <2>5, <2>6, <2>7, <2>8
  <2> QED
    BY <2>1, <2>9
<1>8. CASE i > session.trimmed
  <2>1. PICK n \in DOMAIN o : session.trimmed + n = i
    <3>1. i - session.trimmed \in 1..Len(o) /\ session.trimmed + (i - session.trimmed) = i
      BY <1>3, <1>6, <1>8
    <3> QED
      BY <1>3, <3>1
  <2>2. o[n] = Summarize(announced[i])
    BY <1>3, <2>1
  <2>3. o[n].key = announced[i].id /\ o[n].timestamp = announced[i].timestamp
    BY <1>6, <2>2, Summary
  <2>4. CASE announced[i].timestamp >= WindowStart(feed.window, feed.nowSec)
    <3>1. \A m \in DOMAIN o : o[m].timestamp >= WindowStart(feed.window, feed.nowSec) =>
             \E k \in DOMAIN obs : obs[k] = o[m]
      BY <1>1, <1>2, WindowLists DEF FeedInv
    <3>2. PICK k \in DOMAIN obs : obs[k] = o[n]
      BY <2>3, <2>4, <3>1
    <3> QED
      BY <2>3, <3>2
  <2>5. CASE ~(announced[i].timestamp >= WindowStart(feed.window, feed.nowSec))
    <3>1. CASE feed.window = "session"
      <4>1. WindowStart(feed.window, feed.nowSec) = 0
        BY <1>3, <3>1 DEF WindowStart
      <4>2. skew < 0
        BY <1>3, <1>6, <2>5, <4>1
      <4> QED
        BY <3>1, <4>2
    <3>2. CASE feed.window # "session"
      BY <1>5, <1>6, <2>5, <3>2
    <3> QED
      BY <3>1, <3>2
  <2> QED
    BY <2>4, <2>5
<1> QED
  BY <1>3, <1>6, <1>7, <1>8

LEMMA NeighborsRight == ASSUME FeedInv PROVE NeighborsMergeRight
<1>1. SUFFICES ASSUME NEW obs, obs = InWindow(feed.window, feed.nowSec),
                      NEW mode \in {"heard", "signal", "recent"}, NEW shown \in NeighborLists(mode, obs)
               PROVE  /\ \A row, other \in shown : row.key = other.key => row = other
                      /\ RowsAddUp(shown, obs)
                      /\ mode # "signal" /\ Cardinality(Neighbors(obs)) <= MaxRanked => RowsComplete(shown, obs)
  BY DEF NeighborsMergeRight
<1>2. obs \in Seq(Observations)
  BY <1>1, WindowLists DEF FeedInv
<1> QED
  BY <1>2, ListsMergeRight

LEMMA CheckboxForAll == EveryPacketHasCheckbox
BY FeedAssumption DEF EveryPacketHasCheckbox, Passes, PacketTypeName

LEMMA FeedTells == ASSUME FeedInv PROVE FeedTellsTruth
BY FeedAddsUp, WindowWhole, NeighborsRight, CheckboxForAll DEF FeedTellsTruth

===============================================================================
