------------------------- MODULE ForensicParsers_proofs -------------------------
(***************************************************************************)
(* Proofs about ForensicParsers, for every set of files.                   *)
(*                                                                         *)
(* The decoders are recursive functions and comprehensions over sequences. *)
(* Facts about all inputs of one are shown by induction in the form        *)
(* NaturalsInduct has: a set that holds 0 and, with a number, the next one *)
(* holds every number.  Recursion says that a recursive function whose     *)
(* calls have a smaller rank exists.                                       *)
(***************************************************************************)
EXTENDS ForensicParsers, FiniteSetTheorems, FunctionTheorems, SequenceTheorems,
        WellFoundedInduction, NaturalsInduction, TLAPS

-----------------------------------------------------------------------------
\* Numbers

LEMMA LeastNumber ==
    ASSUME NEW S, S \subseteq Nat, S # {}
    PROVE  \E x \in S : \A y \in S : x <= y
<1>1. PICK x \in S : \A y \in S : <<y, x>> \notin OpToRel(<, Nat)
  BY NatLessThanWellFounded, WFMin
<1>2. \A y \in S : ~(y < x)
  BY <1>1 DEF OpToRel
<1>. QED
  BY <1>2

LEMMA NaturalsInduct ==
    ASSUME NEW S, 0 \in S, \A n \in Nat : n \in S => n + 1 \in S
    PROVE  Nat \subseteq S
<1>. DEFINE T == Nat \ S
<1>1. SUFFICES ASSUME T # {} PROVE FALSE
  OBVIOUS
<1>2. PICK n \in T : \A m \in T : n <= m
  BY <1>1, LeastNumber
<1>3. n # 0 /\ n \in Nat
  BY <1>2
<1>4. n - 1 \in Nat /\ n - 1 \notin T /\ (n - 1) + 1 = n
  BY <1>2, <1>3
<1>5. n - 1 \in S
  BY <1>4
<1>. QED
  BY <1>2, <1>4, <1>5

-----------------------------------------------------------------------------
\* Recursive functions

\* F gives the value of a function at x from its values at arguments of a
\* smaller rank.
WellRanked(D, V, rank, F) ==
    /\ V # {}
    /\ rank \in [D -> Nat]
    /\ F \in [[D -> V] \X D -> V]
    /\ \A g, h \in [D -> V], x \in D :
          (\A y \in D : rank[y] < rank[x] => g[y] = h[y]) => F[<<g, x>>] = F[<<h, x>>]

Solvable(D, V, F) == \E f \in [D -> V] : \A x \in D : f[x] = F[<<f, x>>]

\* Such a function exists.
LEMMA Recursion ==
    ASSUME NEW D, NEW V, NEW rank, NEW F, WellRanked(D, V, rank, F)
    PROVE  Solvable(D, V, F)
<1>. USE DEF WellRanked
<1>. DEFINE Upto(n) == {g \in [D -> V] : \A x \in D : rank[x] < n => g[x] = F[<<g, x>>]}
            S == {n \in Nat : Upto(n) # {}}
<1>1. 0 \in S
  <2>1. PICK v \in V : TRUE
    OBVIOUS
  <2>2. [x \in D |-> v] \in Upto(0)
    BY <2>1
  <2>. QED
    BY <2>2
<1>2. ASSUME NEW n \in Nat, n \in S PROVE n + 1 \in S
  <2>1. PICK g \in Upto(n) : TRUE
    BY <1>2
  <2>. DEFINE h == [x \in D |-> F[<<g, x>>]]
  <2>2. h \in [D -> V]
    BY <2>1
  <2>3. ASSUME NEW x \in D, rank[x] < n + 1 PROVE h[x] = F[<<h, x>>]
    <3>1. \A y \in D : rank[y] < rank[x] => g[y] = h[y]
      BY <2>1, <2>3
    <3>. QED
      BY <2>1, <2>2, <3>1
  <2>4. h \in Upto(n + 1)
    BY <2>2, <2>3
  <2>. HIDE DEF Upto
  <2>. QED
    BY <2>4
<1>3. \A n \in Nat : Upto(n) # {}
  <2>. HIDE DEF Upto
  <2>1. Nat \subseteq S
    <3>. HIDE DEF S
    <3>. QED
      BY <1>1, <1>2, NaturalsInduct
  <2>. QED
    BY <2>1
\* Two approximations agree where both are right.
<1>4. ASSUME NEW n \in Nat, NEW m \in Nat, n <= m, NEW g \in Upto(n), NEW h \in Upto(m),
             NEW x \in D, rank[x] < n
      PROVE  g[x] = h[x]
  <2>. DEFINE Bad == {rank[y] : y \in {z \in D : rank[z] < n /\ g[z] # h[z]}}
  <2>1. SUFFICES ASSUME Bad # {} PROVE FALSE
    BY <1>4, SMTT(40)
  <2>2. PICK b \in Bad : \A c \in Bad : b <= c
    <3>1. Bad \subseteq Nat
      OBVIOUS
    <3>. HIDE DEF Bad
    <3>. QED
      BY <2>1, <3>1, LeastNumber
  <2>3. PICK y \in D : rank[y] = b /\ rank[y] < n /\ g[y] # h[y]
    BY <2>2
  <2>4. ASSUME NEW z \in D, rank[z] < rank[y] PROVE g[z] = h[z]
    <3>1. rank[z] < n /\ rank[z] \in Nat /\ rank[y] \in Nat
      BY <2>3, <2>4
    <3>2. rank[z] \in Bad => rank[y] <= rank[z]
      BY <2>2, <2>3
    <3>3. rank[z] \notin Bad
      BY <2>4, <3>1, <3>2
    <3>. QED
      BY <3>1, <3>3
  <2>5. F[<<g, y>>] = F[<<h, y>>]
    BY <1>4, <2>4
  <2>6. g[y] = F[<<g, y>>] /\ h[y] = F[<<h, y>>]
    BY <1>4, <2>3
  <2>. QED
    BY <2>3, <2>5, <2>6
<1>. DEFINE best == [n \in Nat |-> CHOOSE g : g \in Upto(n)]
            f == [x \in D |-> best[rank[x] + 1][x]]
<1>5. ASSUME NEW n \in Nat PROVE best[n] \in Upto(n)
  <2>. HIDE DEF Upto
  <2>. QED
    BY <1>3
<1>. HIDE DEF best
<1>6. ASSUME NEW x \in D
      PROVE  /\ rank[x] + 1 \in Nat /\ rank[x] < rank[x] + 1
             /\ best[rank[x] + 1] \in Upto(rank[x] + 1)
             /\ best[rank[x] + 1] \in [D -> V]
  <2>1. rank[x] + 1 \in Nat /\ rank[x] < rank[x] + 1
    OBVIOUS
  <2>2. best[rank[x] + 1] \in Upto(rank[x] + 1)
    BY <1>5, <2>1
  <2>. QED
    BY <2>1, <2>2
<1>7. f \in [D -> V]
  BY <1>6
<1>8. ASSUME NEW x \in D PROVE f[x] = F[<<f, x>>]
  <2>1. PICK g \in Upto(rank[x] + 1) : g = best[rank[x] + 1]
    BY <1>6
  <2>2. ASSUME NEW y \in D, rank[y] < rank[x] PROVE f[y] = g[y]
    <3>1. f[y] = best[rank[y] + 1][y]
      OBVIOUS
    <3>2. rank[y] + 1 <= rank[x] + 1
      BY <2>2
    <3>. HIDE DEF f, Upto
    <3>. QED
      BY <1>4, <1>6, <2>1, <3>1, <3>2
  <2>3. g[x] = F[<<g, x>>] /\ f[x] = g[x]
    BY <1>6, <2>1
  <2>4. F[<<f, x>>] = F[<<g, x>>]
    <3>. HIDE DEF f
    <3>. QED
      BY <1>7, <2>1, <2>2
  <2>. QED
    BY <2>3, <2>4
<1>. QED
  BY <1>7, <1>8 DEF Solvable

-----------------------------------------------------------------------------
\* Sums and concatenations

LEMMA MaxOfInterval ==
    ASSUME NEW k \in Nat, k >= 1
    PROVE  Max(1..k) = k /\ (1..k) \ {k} = 1..k - 1
<1>1. k \in 1..k /\ \A y \in 1..k : k >= y
  OBVIOUS
<1>2. Max(1..k) \in 1..k /\ \A y \in 1..k : Max(1..k) >= y
  BY <1>1 DEF Max
<1>. QED
  BY <1>1, <1>2

LEMMA MaxInSet ==
    ASSUME NEW n \in Nat, NEW S \in SUBSET (1..n), S # {}
    PROVE  Max(S) \in S /\ \A y \in S : Max(S) >= y
<1>. DEFINE D == {n - x : x \in S}
<1>1. PICK d \in D : \A e \in D : d <= e
  <2>1. \A x \in S : n - x \in Nat
    OBVIOUS
  <2>2. D \subseteq Nat /\ D # {}
    BY <2>1
  <2>. HIDE DEF D
  <2>. QED
    BY <2>2, LeastNumber
<1>2. PICK x \in S : d = n - x
  BY <1>1
<1>3. \A y \in S : x >= y
  <2>. TAKE y \in S
  <2>1. n - x <= n - y
    BY <1>1, <1>2
  <2>. QED
    BY <2>1
<1>. QED
  BY <1>2, <1>3 DEF Max

\* Total adds the counts up from the first one on.
LEMMA TotalIsASum ==
    ASSUME NEW n \in Nat, NEW counts \in [1..n -> Nat]
    PROVE  \E sum \in [0..n -> Nat] :
              /\ sum[0] = 0
              /\ \A k \in 1..n : sum[k] = sum[k - 1] + counts[k]
              /\ Total(counts) = sum[n]
<1>. DEFINE D == SUBSET (1..n)
            rank == [s \in D |-> Cardinality(s)]
            F == [p \in [D -> Nat] \X D |->
                     IF p[2] = {} THEN 0
                     ELSE p[1][p[2] \ {Max(p[2])}] + counts[Max(p[2])]]
            Eq(iter) == iter = [s \in D |-> IF s = {} THEN 0
                                            ELSE iter[s \ {Max(s)}] + counts[Max(s)]]
            iter == CHOOSE i : Eq(i)
<1>0. ASSUME NEW s \in D PROVE IsFiniteSet(s) /\ Cardinality(s) \in Nat
  <2>1. IsFiniteSet(1..n)
    BY FS_Interval
  <2>2. IsFiniteSet(s)
    BY <2>1, FS_Subset
  <2>. QED
    BY <2>2, FS_CardinalityType
<1>1. ASSUME NEW s \in D, s # {}
      PROVE  /\ Max(s) \in s /\ Max(s) \in 1..n /\ s \ {Max(s)} \in D
             /\ Cardinality(s \ {Max(s)}) < Cardinality(s)
  <2>1. Max(s) \in s
    BY <1>1, MaxInSet
  <2>2. Cardinality(s \ {Max(s)}) = Cardinality(s) - 1
    <3>. HIDE DEF D
    <3>. QED
      BY <1>0, <2>1, FS_RemoveElement
  <2>3. Cardinality(s \ {Max(s)}) < Cardinality(s)
    BY <1>0, <2>2
  <2>. QED
    BY <2>1, <2>3
<1>2. rank \in [D -> Nat]
  <2>. HIDE DEF D
  <2>. QED
    BY <1>0
<1>3. F \in [[D -> Nat] \X D -> Nat]
  <2>1. ASSUME NEW g \in [D -> Nat], NEW s \in D
        PROVE  (IF s = {} THEN 0 ELSE g[s \ {Max(s)}] + counts[Max(s)]) \in Nat
    <3>. HIDE DEF D
    <3>1. CASE s = {}
      BY <3>1
    <3>2. CASE s # {}
      <4>1. g[s \ {Max(s)}] \in Nat /\ counts[Max(s)] \in Nat
        BY <1>1, <3>2
      <4>. QED
        BY <3>2, <4>1
    <3>. QED
      BY <3>1, <3>2
  <2>. HIDE DEF D
  <2>. QED
    BY <2>1
<1>4. \A g, h \in [D -> Nat], x \in D :
         (\A y \in D : rank[y] < rank[x] => g[y] = h[y]) => F[<<g, x>>] = F[<<h, x>>]
  BY <1>1
<1>5. PICK f \in [D -> Nat] : \A s \in D : f[s] = F[<<f, s>>]
  <2>1. Nat # {}
    OBVIOUS
  <2>. HIDE DEF D, F, rank
  <2>2. WellRanked(D, Nat, rank, F)
    BY <1>2, <1>3, <1>4, <2>1 DEF WellRanked
  <2>3. Solvable(D, Nat, F)
    BY <2>2, Recursion
  <2>. QED
    BY <2>3 DEF Solvable
<1>6. Eq(f)
  <2>1. \A s \in D : f[s] = IF s = {} THEN 0 ELSE f[s \ {Max(s)}] + counts[Max(s)]
    <3>. HIDE DEF D
    <3>. QED
      BY <1>5
  <2>. HIDE DEF D
  <2>. QED
    BY <2>1
<1>7. Eq(iter)
  <2>. HIDE DEF Eq
  <2>. QED
    BY <1>6
<1>8. Total(counts) = iter[1..n]
  BY DEF Total, FoldLeft, MapThenFoldSet
<1>. DEFINE sum == [k \in 0..n |-> iter[1..k]]
<1>9. sum[0] = 0
  <2>1. sum[0] = iter[{}] /\ {} \in D
    OBVIOUS
  <2>2. iter[{}] = 0
    <3>. HIDE DEF iter, D
    <3>. QED
      BY <1>7, <2>1
  <2>. QED
    BY <2>1, <2>2
<1>10. ASSUME NEW k \in 1..n
       PROVE  sum[k] = sum[k - 1] + counts[k]
  <2>1. 1..k \in D /\ 1..k # {}
    OBVIOUS
  <2>2. iter[1..k] = iter[(1..k) \ {Max(1..k)}] + counts[Max(1..k)]
    <3>. HIDE DEF iter, D
    <3>. QED
      BY <1>7, <2>1
  <2>. HIDE DEF iter
  <2>3. Max(1..k) = k /\ (1..k) \ {k} = 1..k - 1
    BY MaxOfInterval
  <2>4. k \in 0..n /\ k - 1 \in 0..n
    OBVIOUS
  <2>. QED
    BY <2>2, <2>3, <2>4
<1>11. \A k \in 0..n : sum[k] \in Nat
  <2>. DEFINE S == {k \in Nat : k <= n => sum[k] \in Nat}
  <2>. HIDE DEF sum
  <2>1. 0 \in S
    BY <1>9
  <2>2. ASSUME NEW k \in Nat, k \in S PROVE k + 1 \in S
    BY <1>10, <2>2
  <2>3. Nat \subseteq S
    <3>. HIDE DEF S
    <3>. QED
      BY <2>1, <2>2, NaturalsInduct
  <2>. QED
    BY <2>3
<1>12. sum \in [0..n -> Nat] /\ sum[n] = iter[1..n]
  <2>1. sum = [k \in 0..n |-> sum[k]] /\ n \in 0..n
    OBVIOUS
  <2>. HIDE DEF iter
  <2>. QED
    BY <1>11, <2>1
<1>. QED
  <2>. HIDE DEF sum, iter
  <2>. QED
    BY <1>8, <1>9, <1>10, <1>12

\* FlattenSeq appends the sequences from the first one on.
LEMMA FlattenIsAConcatenation ==
    ASSUME NEW V, NEW n \in Nat, NEW seqs \in [1..n -> Seq(V)]
    PROVE  \E flat \in [0..n -> Seq(V)] :
              /\ flat[0] = <<>>
              /\ \A k \in 1..n : flat[k] = flat[k - 1] \o seqs[k]
              /\ FlattenSeq(seqs) = flat[n]
<1>. DEFINE D == 1..n
            rank == [k \in D |-> k]
            F == [p \in [D -> Seq(V)] \X D |->
                     IF p[2] = 1 THEN seqs[p[2]] ELSE p[1][p[2] - 1] \o seqs[p[2]]]
            Eq(flatten) == flatten = [i \in D |-> IF i = 1 THEN seqs[i]
                                                  ELSE flatten[i - 1] \o seqs[i]]
            flatten == CHOOSE i : Eq(i)
<1>1. Len(seqs) = n
  BY SMT
<1>2. F \in [[D -> Seq(V)] \X D -> Seq(V)]
  <2>1. ASSUME NEW g \in [D -> Seq(V)], NEW i \in D
        PROVE  (IF i = 1 THEN seqs[i] ELSE g[i - 1] \o seqs[i]) \in Seq(V)
    BY ConcatProperties
  <2>. HIDE DEF D
  <2>. QED
    BY <2>1
<1>3. \A g, h \in [D -> Seq(V)], x \in D :
         (\A y \in D : rank[y] < rank[x] => g[y] = h[y]) => F[<<g, x>>] = F[<<h, x>>]
  OBVIOUS
<1>4. PICK f \in [D -> Seq(V)] : \A i \in D : f[i] = F[<<f, i>>]
  <2>1. rank \in [D -> Nat]
    OBVIOUS
  <2>2. Seq(V) # {}
    BY EmptySeq
  <2>. HIDE DEF D, F, rank
  <2>3. WellRanked(D, Seq(V), rank, F)
    BY <1>2, <1>3, <2>1, <2>2 DEF WellRanked
  <2>4. Solvable(D, Seq(V), F)
    BY <2>3, Recursion
  <2>. QED
    BY <2>4 DEF Solvable
<1>5. Eq(f)
  <2>1. \A i \in D : f[i] = IF i = 1 THEN seqs[i] ELSE f[i - 1] \o seqs[i]
    <3>. HIDE DEF D
    <3>. QED
      BY <1>4
  <2>. HIDE DEF D
  <2>. QED
    BY <2>1
<1>6. Eq(flatten)
  <2>. HIDE DEF Eq
  <2>. QED
    BY <1>5
<1>. HIDE DEF flatten
<1>7. CASE n = 0
  <2>1. FlattenSeq(seqs) = <<>>
    BY <1>1, <1>7 DEF FlattenSeq
  <2>. DEFINE flat == [k \in 0..n |-> <<>>]
  <2>2. flat \in [0..n -> Seq(V)] /\ flat[0] = <<>> /\ flat[n] = <<>>
    BY <1>7, EmptySeq
  <2>3. \A k \in 1..n : flat[k] = flat[k - 1] \o seqs[k]
    BY <1>7
  <2>. HIDE DEF flat
  <2>. QED
    BY <2>1, <2>2, <2>3
<1>8. CASE n # 0
  <2>1. FlattenSeq(seqs) = flatten[n]
    BY <1>1, <1>8 DEF FlattenSeq, flatten
  <2>. DEFINE flat == [k \in 0..n |-> IF k = 0 THEN <<>> ELSE flatten[k]]
  <2>2. flat[0] = <<>> /\ flat[n] = flatten[n]
    BY <1>8
  <2>3. \A k \in D : flatten[k] = IF k = 1 THEN seqs[k] ELSE flatten[k - 1] \o seqs[k]
    <3>. HIDE DEF D
    <3>. QED
      BY <1>6
  <2>4. ASSUME NEW k \in 1..n PROVE flat[k] = flat[k - 1] \o seqs[k]
    <3>1. CASE k = 1
      BY <2>2, <2>3, <3>1, ConcatEmptySeq
    <3>2. CASE k # 1
      <4>1. k - 1 \in 0..n /\ k - 1 # 0 /\ k # 0 /\ k \in 0..n
        BY <3>2
      <4>2. flat[k] = flatten[k] /\ flat[k - 1] = flatten[k - 1]
        BY <4>1
      <4>. QED
        BY <2>3, <3>2, <4>2
    <3>. QED
      BY <3>1, <3>2
  <2>. HIDE DEF flat
  <2>5. \A k \in 0..n : flat[k] \in Seq(V)
    <3>. DEFINE S == {k \in Nat : k <= n => flat[k] \in Seq(V)}
    <3>1. 0 \in S
      BY <2>2, EmptySeq
    <3>2. ASSUME NEW k \in Nat, k \in S PROVE k + 1 \in S
      <4>1. CASE k + 1 <= n
        <5>1. k + 1 \in 1..n /\ (k + 1) - 1 = k /\ flat[k] \in Seq(V)
          BY <3>2, <4>1
        <5>2. flat[k + 1] = flat[k] \o seqs[k + 1]
          BY <2>4, <5>1
        <5>3. seqs[k + 1] \in Seq(V)
          BY <5>1
        <5>4. flat[k + 1] \in Seq(V)
          BY <5>1, <5>2, <5>3, ConcatProperties
        <5>. QED
          BY <5>4
      <4>. QED
        BY <4>1
    <3>3. Nat \subseteq S
      <4>. HIDE DEF S
      <4>. QED
        BY <3>1, <3>2, NaturalsInduct
    <3>. QED
      BY <3>3
  <2>6. flat \in [0..n -> Seq(V)]
    BY <2>5 DEF flat
  <2>. QED
    BY <2>1, <2>2, <2>4, <2>6
<1>. QED
  BY <1>7, <1>8

-----------------------------------------------------------------------------
\* Comprehensions over sequences

\* InOrder lists each number of a finite set once, the smaller ones first.
LEMMA InOrderAscends ==
    ASSUME NEW S, S \subseteq Nat, IsFiniteSet(S)
    PROVE  /\ Cardinality(S) \in Nat
           /\ InOrder(S) \in [1..Cardinality(S) -> S]
           /\ \A i \in S : \E k \in 1..Cardinality(S) : InOrder(S)[k] = i
           /\ \A k, l \in 1..Cardinality(S) : k < l => InOrder(S)[k] < InOrder(S)[l]
<1>. DEFINE n == Cardinality(S)
            below(i) == {j \in S : j < i}
            c(i) == Cardinality(below(i))
            place == [i \in S |-> c(i) + 1]
<1>1. n \in Nat
  BY FS_CardinalityType
<1>2. ASSUME NEW i \in S
      PROVE  /\ below(i) \in SUBSET S /\ IsFiniteSet(below(i)) /\ c(i) \in Nat
             /\ c(i) + 1 \in 1..n
  <2>1. below(i) \in SUBSET S
    OBVIOUS
  <2>2. IsFiniteSet(below(i)) /\ c(i) \in Nat /\ c(i) <= n /\ (c(i) = n => below(i) = S)
    BY <2>1, FS_Subset, FS_CardinalityType
  <2>3. i \notin below(i)
    OBVIOUS
  <2>. HIDE DEF below
  <2>. QED
    BY <1>1, <2>1, <2>2, <2>3
<1>3. ASSUME NEW i \in S, NEW j \in S, i < j
      PROVE  c(i) < c(j)
  <2>0. i \in Nat /\ j \in Nat /\ \A x \in S : x \in Nat
    OBVIOUS
  <2>1. below(i) \in SUBSET below(j) /\ i \in below(j) /\ i \notin below(i)
    <3>1. ASSUME NEW x \in below(i) PROVE x \in below(j)
      BY <1>3, <2>0
    <3>2. i \in below(j)
      BY <1>3
    <3>3. i \notin below(i)
      BY <2>0
    <3>. HIDE DEF below
    <3>. QED
      BY <3>1, <3>2, <3>3
  <2>. HIDE DEF below
  <2>2. c(i) <= c(j) /\ (c(i) = c(j) => below(i) = below(j))
    BY <1>2, <2>1, FS_Subset
  <2>. QED
    BY <1>2, <2>1, <2>2
<1>. HIDE DEF c
<1>0. ASSUME NEW i \in S, NEW j \in S, c(i) = c(j)
      PROVE  i = j
  <2>1. i \in Nat /\ j \in Nat /\ c(i) \in Nat
    BY <1>2
  <2>2. ~(i < j) /\ ~(j < i)
    BY <1>0, <1>3, <2>1
  <2>. QED
    BY <2>1, <2>2
<1>4. place \in Injection(S, 1..n)
  <2>1. place \in [S -> 1..n]
    BY <1>2
  <2>2. \A i, j \in S : place[i] = place[j] => i = j
    <3>. TAKE i, j \in S
    <3>1. place[i] = c(i) + 1 /\ place[j] = c(j) + 1 /\ c(i) \in Nat /\ c(j) \in Nat
      BY <1>2
    <3>. QED
      BY <1>0, <3>1
  <2>. HIDE DEF place
  <2>. QED
    BY <2>1, <2>2 DEF Injection, IsInjective
<1>5. \A k \in 1..n : \E i \in S : c(i) = k - 1
  <2>1. IsFiniteSet(1..n) /\ Cardinality(1..n) = n
    BY <1>1, FS_Interval
  <2>2. place \in Surjection(S, 1..n)
    <3>. HIDE DEF place, n
    <3>. QED
      BY <1>4, <2>1, FS_Injection DEF n
  <2>3. \A k \in 1..n : \E i \in S : place[i] = k
    <3>. HIDE DEF place
    <3>. QED
      BY <2>2 DEF Surjection
  <2>. TAKE k \in 1..n
  <2>4. PICK i \in S : place[i] = k
    BY <2>3
  <2>5. k = c(i) + 1 /\ c(i) \in Nat
    BY <1>2, <2>4
  <2>. QED
    BY <2>5
<1>6. ASSUME NEW k \in 1..n
      PROVE  InOrder(S)[k] \in S /\ c(InOrder(S)[k]) = k - 1
  <2>1. InOrder(S)[k] = CHOOSE i \in S : c(i) = k - 1
    BY DEF InOrder, c
  <2>. QED
    BY <1>5, <2>1
<1>7. InOrder(S) = [k \in 1..n |-> InOrder(S)[k]]
  <2>. DEFINE pick(k) == CHOOSE i \in S : Cardinality({j \in S : j < i}) = k - 1
  <2>1. InOrder(S) = [k \in 1..n |-> pick(k)]
    BY DEF InOrder
  <2>. HIDE DEF pick
  <2>. QED
    BY <2>1
<1>8. InOrder(S) \in [1..n -> S]
  BY <1>6, <1>7
<1>9. \A i \in S : \E k \in 1..n : InOrder(S)[k] = i
  <2>. TAKE i \in S
  <2>1. c(i) + 1 \in 1..n /\ c(i) \in Nat
    BY <1>2
  <2>2. PICK k \in 1..n : k = c(i) + 1
    BY <2>1
  <2>3. c(InOrder(S)[k]) = c(i) /\ InOrder(S)[k] \in S
    BY <1>6, <2>1, <2>2
  <2>. QED
    BY <1>0, <2>3
<1>10. ASSUME NEW k \in 1..n, NEW l \in 1..n, k < l
       PROVE  InOrder(S)[k] < InOrder(S)[l]
  <2>. DEFINE i == InOrder(S)[k]
              j == InOrder(S)[l]
  <2>1. i \in S /\ j \in S /\ c(i) = k - 1 /\ c(j) = l - 1
    BY <1>6
  <2>. HIDE DEF i, j
  <2>2. ~(c(j) < c(i)) /\ c(i) # c(j)
    BY <1>10, <2>1
  <2>3. ~(j < i) /\ i # j
    BY <1>3, <2>1, <2>2
  <2>4. i \in Nat /\ j \in Nat
    BY <2>1
  <2>5. i < j
    BY <2>3, <2>4
  <2>. QED
    BY <2>5 DEF i, j
<1>. QED
  BY <1>1, <1>8, <1>9, <1>10

LEMMA SubsetOfPositions ==
    ASSUME NEW n \in Nat, NEW P \in SUBSET (1..n)
    PROVE  /\ IsFiniteSet(P) /\ Cardinality(P) \in Nat /\ Cardinality(P) <= n
           /\ P \subseteq Nat
<1>1. IsFiniteSet(1..n) /\ Cardinality(1..n) = n
  BY FS_Interval
<1>2. IsFiniteSet(P) /\ Cardinality(P) <= n
  BY <1>1, FS_Subset
<1>3. Cardinality(P) \in Nat
  BY <1>2, FS_CardinalityType
<1>. QED
  BY <1>2, <1>3

\* KeepAt keeps the members at the given positions, in their order.
LEMMA KeepAtKeeps ==
    ASSUME NEW V, NEW s \in Seq(V), NEW P \in SUBSET DOMAIN s
    PROVE  /\ Cardinality(P) \in Nat /\ Cardinality(P) <= Len(s)
           /\ KeepAt(s, P) \in Seq(V) /\ Len(KeepAt(s, P)) = Cardinality(P)
           /\ \A k \in 1..Cardinality(P) :
                 /\ InOrder(P)[k] \in P
                 /\ KeepAt(s, P)[k] = s[InOrder(P)[k]]
<1>1. Len(s) \in Nat /\ P \in SUBSET (1..Len(s)) /\ s \in [1..Len(s) -> V]
  BY LenProperties
<1>2. Cardinality(P) \in Nat /\ Cardinality(P) <= Len(s)
  BY <1>1, SubsetOfPositions
<1>3. InOrder(P) \in [1..Cardinality(P) -> P]
  BY <1>1, SubsetOfPositions, InOrderAscends
<1>4. KeepAt(s, P) \in [1..Cardinality(P) -> V]
  BY <1>1, <1>3 DEF KeepAt
<1>5. KeepAt(s, P) \in Seq(V)
  BY <1>2, <1>4, SeqDef
<1>6. Len(KeepAt(s, P)) = Cardinality(P)
  BY <1>2, <1>4, <1>5, LenProperties
<1>7. \A k \in 1..Cardinality(P) :
         InOrder(P)[k] \in P /\ KeepAt(s, P)[k] = s[InOrder(P)[k]]
  BY <1>3 DEF KeepAt
<1>. QED
  BY <1>2, <1>5, <1>6, <1>7

LEMMA TotalIsNatural ==
    ASSUME NEW n \in Nat, NEW counts \in [1..n -> Nat]
    PROVE  Total(counts) \in Nat
BY TotalIsASum

\* A sequence has the members of n others, and no others.
SameMembers(flat, n, seqs) ==
    /\ \A k \in 1..Len(flat) : \E i \in 1..n : \E j \in 1..Len(seqs[i]) :
          flat[k] = seqs[i][j]
    /\ \A i \in 1..n : \A j \in 1..Len(seqs[i]) : \E k \in 1..Len(flat) :
          flat[k] = seqs[i][j]

\* What is flattened has as many members as the parts together, and no others.
LEMMA FlattenKeepsAll ==
    ASSUME NEW V, NEW n \in Nat, NEW seqs \in [1..n -> Seq(V)]
    PROVE  /\ FlattenSeq(seqs) \in Seq(V)
           /\ Len(FlattenSeq(seqs)) = Total([i \in 1..n |-> Len(seqs[i])])
           /\ SameMembers(FlattenSeq(seqs), n, seqs)
<1>. DEFINE lens == [i \in 1..n |-> Len(seqs[i])]
<1>1. lens \in [1..n -> Nat]
  BY LenProperties
<1>. HIDE DEF lens
<1>2. PICK sum \in [0..n -> Nat] : /\ sum[0] = 0
                                   /\ \A k \in 1..n : sum[k] = sum[k - 1] + lens[k]
                                   /\ Total(lens) = sum[n]
  BY <1>1, TotalIsASum
<1>3. PICK flat \in [0..n -> Seq(V)] : /\ flat[0] = <<>>
                                       /\ \A k \in 1..n : flat[k] = flat[k - 1] \o seqs[k]
                                       /\ FlattenSeq(seqs) = flat[n]
  BY FlattenIsAConcatenation
<1>. DEFINE Right(m) == /\ Len(flat[m]) = sum[m]
                        /\ \A k \in 1..Len(flat[m]) : \E i \in 1..m : \E j \in 1..Len(seqs[i]) :
                              flat[m][k] = seqs[i][j]
                        /\ \A i \in 1..m : \A j \in 1..Len(seqs[i]) : \E k \in 1..Len(flat[m]) :
                              flat[m][k] = seqs[i][j]
            S == {m \in Nat : m <= n => Right(m)}
<1>4. 0 \in S
  BY <1>2, <1>3, SMTT(40)
<1>5. ASSUME NEW m \in Nat, m \in S, m + 1 <= n PROVE Right(m + 1)
  <2>. DEFINE a == flat[m]
              b == seqs[m + 1]
  <2>1. m \in 0..n /\ m + 1 \in 1..n /\ (m + 1) - 1 = m /\ m <= n
    BY <1>5
  <2>2. a \in Seq(V) /\ b \in Seq(V) /\ flat[m + 1] = a \o b
    BY <1>3, <2>1
  <2>3. Right(m) /\ sum[m + 1] = sum[m] + Len(b)
    BY <1>2, <1>5, <2>1 DEF lens
  <2>4. /\ Len(a \o b) = Len(a) + Len(b)
        /\ Len(a) \in Nat /\ Len(b) \in Nat
        /\ \A i \in 1..Len(a) + Len(b) :
              (a \o b)[i] = IF i <= Len(a) THEN a[i] ELSE b[i - Len(a)]
    BY <2>2, ConcatProperties, LenProperties
  <2>5. Len(flat[m + 1]) = sum[m + 1]
    BY <2>2, <2>3, <2>4
  <2>6. ASSUME NEW k \in 1..Len(flat[m + 1])
        PROVE  \E i \in 1..m + 1 : \E j \in 1..Len(seqs[i]) : flat[m + 1][k] = seqs[i][j]
    <3>1. CASE k <= Len(a)
      <4>1. k \in 1..Len(a) /\ flat[m + 1][k] = a[k]
        BY <2>2, <2>4, <2>6, <3>1
      <4>2. PICK i \in 1..m : \E j \in 1..Len(seqs[i]) : a[k] = seqs[i][j]
        BY <2>3, <4>1
      <4>3. i \in 1..m + 1
        OBVIOUS
      <4>. QED
        BY <4>1, <4>2, <4>3
    <3>2. CASE ~(k <= Len(a))
      <4>1. k - Len(a) \in 1..Len(b) /\ flat[m + 1][k] = b[k - Len(a)]
        <5>1. k \in 1..Len(a) + Len(b)
          BY <2>2, <2>4
        <5>. HIDE DEF a, b
        <5>2. k - Len(a) \in 1..Len(b)
          BY <2>4, <3>2, <5>1
        <5>3. (a \o b)[k] = b[k - Len(a)]
          BY <2>4, <3>2, <5>1
        <5>. QED
          BY <2>2, <5>2, <5>3
      <4>2. m + 1 \in 1..m + 1
        OBVIOUS
      <4>. QED
        BY <4>1, <4>2
    <3>. QED
      BY <3>1, <3>2
  <2>7. ASSUME NEW i \in 1..m + 1, NEW j \in 1..Len(seqs[i])
        PROVE  \E k \in 1..Len(flat[m + 1]) : flat[m + 1][k] = seqs[i][j]
    <3>1. CASE i = m + 1
      <4>1. Len(a) + j \in 1..Len(a) + Len(b) /\ ~(Len(a) + j <= Len(a))
            /\ (Len(a) + j) - Len(a) = j
        <5>1. j \in 1..Len(b)
          BY <3>1
        <5>. HIDE DEF a, b
        <5>. QED
          BY <2>4, <5>1, SMTT(40)
      <4>2. (a \o b)[Len(a) + j] = seqs[i][j]
        BY <2>4, <3>1, <4>1
      <4>. QED
        BY <2>2, <2>4, <4>1, <4>2
    <3>2. CASE i # m + 1
      <4>1. i \in 1..m
        BY <3>2
      <4>2. PICK k \in 1..Len(a) : a[k] = seqs[i][j]
        BY <2>3, <4>1
      <4>3. k \in 1..Len(a) + Len(b) /\ k <= Len(a)
        <5>. HIDE DEF a, b
        <5>. QED
          BY <2>4
      <4>. QED
        BY <2>2, <2>4, <4>2, <4>3
    <3>. QED
      BY <3>1, <3>2
  <2>. QED
    BY <2>5, <2>6, <2>7
<1>6. Right(n)
  <2>. HIDE DEF Right
  <2>1. \A m \in Nat : m \in S => m + 1 \in S
    BY <1>5
  <2>2. Nat \subseteq S
    <3>. HIDE DEF S
    <3>. QED
      BY <1>4, <2>1, NaturalsInduct
  <2>. QED
    BY <2>2
<1>7. flat[n] \in Seq(V)
  BY <1>3
<1>8. SameMembers(flat[n], n, seqs)
  BY <1>6 DEF SameMembers
<1>. QED
  BY <1>2, <1>3, <1>6, <1>7, <1>8 DEF lens

LEMMA TotalsAddUp ==
    ASSUME NEW n \in Nat, NEW a \in [1..n -> Nat], NEW b \in [1..n -> Nat],
           NEW c \in [1..n -> Nat], \A i \in 1..n : c[i] = a[i] + b[i]
    PROVE  Total(c) = Total(a) + Total(b)
<1>1. PICK sa \in [0..n -> Nat] : /\ sa[0] = 0
                                  /\ \A k \in 1..n : sa[k] = sa[k - 1] + a[k]
                                  /\ Total(a) = sa[n]
  BY TotalIsASum
<1>2. PICK sb \in [0..n -> Nat] : /\ sb[0] = 0
                                  /\ \A k \in 1..n : sb[k] = sb[k - 1] + b[k]
                                  /\ Total(b) = sb[n]
  BY TotalIsASum
<1>3. PICK sc \in [0..n -> Nat] : /\ sc[0] = 0
                                  /\ \A k \in 1..n : sc[k] = sc[k - 1] + c[k]
                                  /\ Total(c) = sc[n]
  BY TotalIsASum
<1>. DEFINE S == {k \in Nat : k <= n => sc[k] = sa[k] + sb[k]}
<1>4. 0 \in S
  BY <1>1, <1>2, <1>3
<1>5. ASSUME NEW k \in Nat, k \in S, k + 1 <= n
      PROVE  sc[k + 1] = sa[k + 1] + sb[k + 1]
  <2>1. k + 1 \in 1..n /\ (k + 1) - 1 = k /\ k \in 0..n /\ sc[k] = sa[k] + sb[k]
    BY <1>5
  <2>2. /\ sc[k + 1] = sc[k] + c[k + 1] /\ sa[k + 1] = sa[k] + a[k + 1]
        /\ sb[k + 1] = sb[k] + b[k + 1] /\ c[k + 1] = a[k + 1] + b[k + 1]
    BY <1>1, <1>2, <1>3, <2>1
  <2>3. /\ sa[k] \in Nat /\ sb[k] \in Nat /\ a[k + 1] \in Nat /\ b[k + 1] \in Nat
    BY <2>1
  <2>. QED
    BY <2>1, <2>2, <2>3
<1>6. Nat \subseteq S
  <2>1. \A k \in Nat : k \in S => k + 1 \in S
    BY <1>5
  <2>. HIDE DEF S
  <2>. QED
    BY <1>4, <2>1, NaturalsInduct
<1>. QED
  BY <1>1, <1>2, <1>3, <1>6

-----------------------------------------------------------------------------
\* Results

LEMMA SequenceOf ==
    ASSUME NEW s, s \in Seq(ToSet(s))
    PROVE  Len(s) \in Nat /\ DOMAIN s = 1..Len(s) /\ \A i \in 1..Len(s) : s[i] \in ToSet(s)
BY LenProperties DEF ToSet

LEMMA CompletedMeetsContract ==
    ASSUME NEW records, NEW warnings \in Nat
    PROVE  MeetsContract(Completed(records, warnings))
BY DEF MeetsContract, Completed, Terminal

LEMMA WithoutMeetsContract ==
    MeetsContract(Without("FAILED")) /\ MeetsContract(Without("UNSUPPORTED"))
BY DEF MeetsContract, Without, Terminal

Formats == {"EVTX", "REGISTRY", "PREFETCH", "LNK", "NTFS_MFT"}

\* Each of the five formats has the parser that was registered for it.
LEMMA EveryFormatIsRegistered == \A f \in Formats : Registry[f] = f
<1>. DEFINE evtx     == Register(<< >>, "EVTX", {"EVTX"})
            registry == Register(evtx, "REGISTRY", {"REGISTRY"})
            prefetch == Register(registry, "PREFETCH", {"PREFETCH"})
            lnk      == Register(prefetch, "LNK", {"LNK"})
            mft      == Register(lnk, "NTFS_MFT", {"NTFS_MFT"})
<1>1. DOMAIN evtx = {"EVTX"} /\ evtx["EVTX"] = "EVTX"
  BY DEF Register
<1>. HIDE DEF evtx
<1>2. DOMAIN registry = {"EVTX", "REGISTRY"} /\ \A f \in DOMAIN registry : registry[f] = f
  BY <1>1 DEF Register
<1>. HIDE DEF registry
<1>3. DOMAIN prefetch = {"EVTX", "REGISTRY", "PREFETCH"}
      /\ \A f \in DOMAIN prefetch : prefetch[f] = f
  BY <1>2 DEF Register
<1>. HIDE DEF prefetch
<1>4. DOMAIN lnk = {"EVTX", "REGISTRY", "PREFETCH", "LNK"} /\ \A f \in DOMAIN lnk : lnk[f] = f
  BY <1>3 DEF Register
<1>. HIDE DEF lnk
<1>5. DOMAIN mft = Formats /\ \A f \in DOMAIN mft : mft[f] = f
  BY <1>4 DEF Register, Formats
<1>6. Registry = mft
  BY DEF Registry, evtx, registry, prefetch, lnk
<1>. QED
  BY <1>5, <1>6

LEMMA OutcomeByFormat ==
    ASSUME NEW j \in Jobs
    PROVE  /\ j.format \in Formats
           /\ j.format = "EVTX" => IsLog(j.file) /\ Outcome(j) = ParseEvtx(j.file)
           /\ j.format = "REGISTRY" => IsHive(j.file) /\ Outcome(j) = ParseHive(j.file)
           /\ j.format = "PREFETCH" => IsPrefetch(j.file) /\ Outcome(j) = ParsePrefetch(j.file)
           /\ j.format = "LNK" => IsLink(j.file) /\ Outcome(j) = ParseLnk(j.file)
           /\ j.format = "NTFS_MFT" => IsTable(j.file) /\ Outcome(j) = ParseMft(j.file)
BY JobsAssumption, EveryFormatIsRegistered DEF IsJob, Formats, Outcome

-----------------------------------------------------------------------------
\* Event logs

LogRecords == [xml : BOOLEAN, time : {"aware", "naive", "none", "garbled"},
               creation : BOOLEAN, names : Seq(Nat)]

ReadEvents == {NormalizeEvent(r) : r \in LogRecords}

IsChunk(chunk) == chunk.broken \in BOOLEAN /\ chunk.records \in Seq(LogRecords)

\* Of a chunk every record, and the end if it is broken, is an event or a warning.
ChunkRead(chunk) ==
    LET read == ReadChunk(chunk)
    IN  /\ read.records \in Seq(ReadEvents)
        /\ read.warnings \in Nat
        /\ Len(read.records) + read.warnings
             = Len(chunk.records) + (IF chunk.broken THEN 1 ELSE 0)

LEMMA ChunkIsRead ==
    ASSUME NEW chunk, IsChunk(chunk)
    PROVE  ChunkRead(chunk)
<1>. USE DEF IsChunk
<1>. DEFINE good == {i \in DOMAIN chunk.records : Normalizable(chunk.records[i])}
            kept == KeepAt(chunk.records, good)
            listed == [i \in DOMAIN kept |-> NormalizeEvent(kept[i])]
<1>1. /\ Cardinality(good) \in Nat /\ Cardinality(good) <= Len(chunk.records)
      /\ kept \in Seq(LogRecords) /\ Len(kept) = Cardinality(good)
  <2>1. good \in SUBSET DOMAIN chunk.records
    OBVIOUS
  <2>. HIDE DEF good
  <2>. QED
    BY <2>1, KeepAtKeeps
<1>2. ReadChunk(chunk) =
        [records |-> listed,
         warnings |-> Len(chunk.records) - Cardinality(good) + (IF chunk.broken THEN 1 ELSE 0)]
  BY DEF ReadChunk
<1>. HIDE DEF good, kept
<1>3. listed \in [1..Len(kept) -> ReadEvents] /\ Len(kept) \in Nat
  BY <1>1, LenProperties DEF ReadEvents
<1>4. listed \in Seq(ReadEvents) /\ Len(listed) = Len(kept)
  <2>. HIDE DEF listed
  <2>1. listed \in Seq(ReadEvents)
    BY <1>3, SeqDef
  <2>. QED
    BY <1>3, <2>1, LenProperties
<1>5. Len(chunk.records) \in Nat
  BY LenProperties
<1>6. ReadChunk(chunk).records \in Seq(ReadEvents)
  BY <1>2, <1>4
<1>. HIDE DEF listed
<1>7. /\ Len(ReadChunk(chunk).records) = Cardinality(good)
      /\ ReadChunk(chunk).warnings = Len(chunk.records) - Cardinality(good)
                                     + (IF chunk.broken THEN 1 ELSE 0)
  BY <1>1, <1>2, <1>4
<1>8. /\ ReadChunk(chunk).warnings \in Nat
      /\ Len(ReadChunk(chunk).records) + ReadChunk(chunk).warnings
           = Len(chunk.records) + (IF chunk.broken THEN 1 ELSE 0)
  <2>. DEFINE end == IF chunk.broken THEN 1 ELSE 0
  <2>1. end \in Nat
    OBVIOUS
  <2>. HIDE DEF end
  <2>2. /\ ReadChunk(chunk).warnings = Len(chunk.records) - Cardinality(good) + end
        /\ Len(ReadChunk(chunk).records) = Cardinality(good)
    BY <1>7 DEF end
  <2>3. /\ ReadChunk(chunk).warnings \in Nat
        /\ Len(ReadChunk(chunk).records) + ReadChunk(chunk).warnings = Len(chunk.records) + end
    BY <1>1, <1>5, <2>1, <2>2
  <2>. QED
    BY <2>3 DEF end
<1>. QED
  BY <1>6, <1>8 DEF ChunkRead

LEMMA LogIsRead ==
    ASSUME NEW file, IsLog(file)
    PROVE  \/ ParseEvtx(file) \in {Without("FAILED"), Without("UNSUPPORTED")}
           \/ \E records \in Seq(ReadEvents), warnings \in Nat :
                 /\ ParseEvtx(file) = Completed(records, warnings)
                 /\ Len(records) + warnings =
                       Total([i \in DOMAIN file.chunks |->
                                 Len(file.chunks[i].records)
                                 + (IF file.chunks[i].broken THEN 1 ELSE 0)])
<1>. DEFINE n == Len(file.chunks)
            read == [i \in DOMAIN file.chunks |-> ReadChunk(file.chunks[i])]
            parts == [i \in DOMAIN read |-> read[i].records]
            lens == [i \in 1..n |-> Len(parts[i])]
            warned == [i \in DOMAIN read |-> read[i].warnings]
            stored == [i \in DOMAIN file.chunks |->
                         Len(file.chunks[i].records)
                         + (IF file.chunks[i].broken THEN 1 ELSE 0)]
<1>1. /\ n \in Nat /\ DOMAIN file.chunks = 1..n
      /\ \A i \in 1..n : /\ file.chunks[i].broken \in BOOLEAN
                         /\ file.chunks[i].records \in Seq(LogRecords)
  BY SequenceOf DEF IsLog, LogRecords
<1>2. ASSUME NEW i \in 1..n
      PROVE  /\ parts[i] \in Seq(ReadEvents) /\ warned[i] \in Nat
             /\ lens[i] = Len(parts[i]) /\ lens[i] \in Nat
             /\ stored[i] \in Nat /\ stored[i] = lens[i] + warned[i]
  <2>1. /\ parts[i] = ReadChunk(file.chunks[i]).records
        /\ warned[i] = ReadChunk(file.chunks[i]).warnings
        /\ lens[i] = Len(parts[i])
        /\ stored[i] = Len(file.chunks[i].records) + (IF file.chunks[i].broken THEN 1 ELSE 0)
    BY <1>1
  <2>2. /\ ReadChunk(file.chunks[i]).records \in Seq(ReadEvents)
        /\ ReadChunk(file.chunks[i]).warnings \in Nat
        /\ Len(ReadChunk(file.chunks[i]).records) + ReadChunk(file.chunks[i]).warnings
             = Len(file.chunks[i].records) + (IF file.chunks[i].broken THEN 1 ELSE 0)
    <3>1. IsChunk(file.chunks[i])
      BY <1>1 DEF IsChunk
    <3>2. ChunkRead(file.chunks[i])
      BY <3>1, ChunkIsRead
    <3>. QED
      BY <3>2 DEF ChunkRead
  <2>. HIDE DEF parts, warned, lens, stored
  <2>3. Len(parts[i]) \in Nat /\ Len(file.chunks[i].records) \in Nat
    BY <1>1, <2>1, <2>2, LenProperties
  <2>4. stored[i] \in Nat
    <3>. DEFINE end == IF file.chunks[i].broken THEN 1 ELSE 0
    <3>1. end \in Nat
      OBVIOUS
    <3>2. stored[i] = Len(file.chunks[i].records) + end
      BY <2>1
    <3>. HIDE DEF end
    <3>. QED
      BY <2>3, <3>1, <3>2
  <2>. QED
    BY <2>1, <2>2, <2>3, <2>4
<1>3. /\ parts \in [1..n -> Seq(ReadEvents)] /\ warned \in [1..n -> Nat]
      /\ lens \in [1..n -> Nat] /\ stored \in [1..n -> Nat]
  <2>1. /\ parts = [i \in 1..n |-> parts[i]] /\ warned = [i \in 1..n |-> warned[i]]
        /\ lens = [i \in 1..n |-> lens[i]] /\ stored = [i \in 1..n |-> stored[i]]
    BY <1>1
  <2>. HIDE DEF parts, warned, lens, stored
  <2>. QED
    BY <1>2, <2>1
<1>4. ParseEvtx(file) = IF ~file.elf THEN Without("UNSUPPORTED")
                        ELSE IF file.stop # None THEN Without("FAILED")
                        ELSE Completed(FlattenSeq(parts), Total(warned))
  BY DEF ParseEvtx
<1>. HIDE DEF parts, warned, stored
<1>5. FlattenSeq(parts) \in Seq(ReadEvents) /\ Len(FlattenSeq(parts)) = Total(lens)
  BY <1>1, <1>3, FlattenKeepsAll
<1>. HIDE DEF lens
<1>6. Total(stored) = Total(lens) + Total(warned)
  <2>1. \A i \in 1..n : stored[i] = lens[i] + warned[i]
    BY <1>2
  <2>2. n \in Nat
    BY <1>1
  <2>. HIDE DEF n
  <2>. QED
    BY <1>3, <2>1, <2>2, TotalsAddUp
<1>7. Total(warned) \in Nat
  BY <1>1, <1>3, TotalIsNatural
<1>8. Len(FlattenSeq(parts)) + Total(warned) = Total(stored)
  BY <1>5, <1>6
<1>. QED
  BY <1>4, <1>5, <1>7, <1>8 DEF stored

-----------------------------------------------------------------------------
\* FILETIMEs

Pairs == {Filetime(v) : v \in Nat}

LEMMA FiletimeFacts ==
    ASSUME NEW v \in Nat
    PROVE  /\ Filetime(v) \in Pairs
           /\ Filetime(v).raw # None <=> v # 0
           /\ Unrepresentable(Filetime(v)) <=> v > MaxFiletime
BY FiletimeAssumption DEF Filetime, Unrepresentable, Pairs

-----------------------------------------------------------------------------
\* Prefetch files

\* What NothingLostSilently says of a prefetch file whose record is given.
NothingMissing(file, record) ==
    /\ file.declared # "less"
    /\ file.paths \in {"none", "sound"}
    /\ record.volumes = file.volumes.count
    /\ Len(record.times) =
          Cardinality({i \in 1..TimesOf(file.version) :
                          i <= Len(file.times) /\ file.times[i] # 0})
    /\ \A i \in 1..TimesOf(file.version) :
          i <= Len(file.times) /\ file.times[i] <= MaxFiletime

LEMMA ExecutionIsRead ==
    ASSUME NEW file, file.times \in Seq(Nat)
    PROVE  LET n == TimesOf(file.version)
               ran == Execution(file)
           IN  /\ n \in Nat /\ n >= 1
               /\ ran.times \in Seq(Pairs) /\ ran.warnings \in Nat
               /\ Len(file.times) < n => ran.warnings # 0
               /\ Len(file.times) >= n =>
                     /\ Len(ran.times) = n
                     /\ \A i \in 1..n : ran.times[i] = Filetime(file.times[i])
                     /\ ran.warnings = 0 <=> \A i \in 1..n : file.times[i] <= MaxFiletime
<1>. DEFINE n == TimesOf(file.version)
            times == [i \in 1..n |-> Filetime(file.times[i])]
<1>1. n \in Nat /\ n >= 1
  BY DEF TimesOf, ManyTimes
<1>2. Len(file.times) \in Nat
  BY LenProperties
<1>3. CASE Len(file.times) < n
  <2>1. Execution(file) = [times |-> <<>>, warnings |-> 1]
    BY <1>3 DEF Execution
  <2>. QED
    BY <1>1, <1>2, <1>3, <2>1, EmptySeq
<1>4. CASE Len(file.times) >= n
  <2>1. Execution(file) = [times |-> times,
                           warnings |-> IF \E i \in 1..n : Unrepresentable(times[i])
                                        THEN 1 ELSE 0]
    BY <1>1, <1>2, <1>4 DEF Execution
  <2>2. ASSUME NEW i \in 1..n
        PROVE  /\ times[i] = Filetime(file.times[i]) /\ times[i] \in Pairs
               /\ file.times[i] \in Nat
               /\ Unrepresentable(times[i]) <=> ~(file.times[i] <= MaxFiletime)
    <3>1. i \in 1..Len(file.times)
      BY <1>1, <1>2, <1>4
    <3>2. file.times[i] \in Nat
      BY <3>1, ElementOfSeq
    <3>. QED
      BY <3>2, FiletimeFacts, FiletimeAssumption
  <2>3. times \in [1..n -> Pairs]
    BY <2>2
  <2>. HIDE DEF times
  <2>4. times \in Seq(Pairs) /\ Len(times) = n
    <3>1. times \in Seq(Pairs)
      BY <1>1, <2>3, SeqDef
    <3>. QED
      BY <1>1, <2>3, <3>1, LenProperties
  <2>5. Execution(file).warnings \in {0, 1}
        /\ (Execution(file).warnings = 0 <=> \A i \in 1..n : file.times[i] <= MaxFiletime)
    BY <2>1, <2>2
  <2>. QED
    BY <1>1, <1>2, <1>4, <2>1, <2>2, <2>4, <2>5
<1>. QED
  BY <1>1, <1>2, <1>3, <1>4

LEMMA VolumesAreRead ==
    ASSUME NEW file, IsPrefetch(file)
    PROVE  /\ Volumes(file).warnings \in Nat
           /\ Volumes(file).warnings = 0 <=> Volumes(file).good = file.volumes.count
<1>. DEFINE entries == file.volumes.entries
            good == Cardinality({i \in DOMAIN entries : entries[i]})
<1>1. Len(entries) \in Nat /\ file.volumes.count = Len(entries) /\ DOMAIN entries = 1..Len(entries)
  BY LenProperties DEF IsPrefetch
<1>2. good \in Nat /\ good <= Len(entries)
  BY <1>1, SubsetOfPositions
<1>3. Volumes(file) = IF file.volumes.count = 0 THEN [good |-> 0, warnings |-> 0]
                      ELSE IF file.volumes.count > MaxVolumes \/ ~file.volumes.inside
                           THEN [good |-> 0, warnings |-> 1]
                      ELSE [good |-> good, warnings |-> file.volumes.count - good]
  BY DEF Volumes
<1>. HIDE DEF good, entries
<1>4. CASE file.volumes.count = 0
  BY <1>3, <1>4
<1>5. CASE file.volumes.count # 0 /\ (file.volumes.count > MaxVolumes \/ ~file.volumes.inside)
  BY <1>3, <1>5
<1>6. CASE file.volumes.count # 0 /\ ~(file.volumes.count > MaxVolumes \/ ~file.volumes.inside)
  BY <1>1, <1>2, <1>3, <1>6
<1>. QED
  BY <1>4, <1>5, <1>6

LEMMA PrefetchIsRead ==
    ASSUME NEW file, IsPrefetch(file)
    PROVE  \/ ParsePrefetch(file) \in {Without("FAILED"), Without("UNSUPPORTED")}
           \/ \E record : \E warnings \in Nat :
                 /\ ParsePrefetch(file) = Completed(<<record>>, warnings)
                 /\ record.times \in Seq(Pairs)
                 /\ \A i \in 1..Len(record.times) : record.times[i].raw # None
                 /\ warnings = 0 <=> NothingMissing(file, record)
<1>. SUFFICES ASSUME /\ file.sig = "SCCA" /\ file.version \in SupportedVersions
                     /\ NormalizePrefetch(file) # Malformed
              PROVE  \E record : \E warnings \in Nat :
                 /\ ParsePrefetch(file) = Completed(<<record>>, warnings)
                 /\ record.times \in Seq(Pairs)
                 /\ \A i \in 1..Len(record.times) : record.times[i].raw # None
                 /\ warnings = 0 <=> NothingMissing(file, record)
  BY DEF ParsePrefetch
<1>. DEFINE n == TimesOf(file.version)
            ran == Execution(file)
            set == {i \in DOMAIN ran.times : ran.times[i].raw # None}
            record == NormalizePrefetch(file)
            sizes == IF file.declared = "less" THEN 1 ELSE 0
<1>1. ParsePrefetch(file) = Completed(<<record>>, record.warnings)
  BY DEF ParsePrefetch
<1>2. record = [times |-> KeepAt(ran.times, set), volumes |-> Volumes(file).good,
                warnings |-> sizes + PathWarnings(file) + Volumes(file).warnings + ran.warnings]
  BY DEF NormalizePrefetch
<1>3. /\ n \in Nat /\ n >= 1
      /\ ran.times \in Seq(Pairs) /\ ran.warnings \in Nat
      /\ Len(file.times) \in Nat /\ file.times \in Seq(Nat)
      /\ Len(file.times) < n => ran.warnings # 0
      /\ Len(file.times) >= n =>
            /\ Len(ran.times) = n
            /\ \A i \in 1..n : ran.times[i] = Filetime(file.times[i])
            /\ ran.warnings = 0 <=> \A i \in 1..n : file.times[i] <= MaxFiletime
  <2>1. file.times \in Seq(Nat)
    BY DEF IsPrefetch
  <2>. QED
    BY <2>1, ExecutionIsRead, LenProperties
<1>4. /\ sizes \in Nat /\ (sizes = 0 <=> file.declared # "less")
      /\ PathWarnings(file) \in Nat
      /\ (PathWarnings(file) = 0 <=> file.paths \in {"none", "sound"})
  BY DEF PathWarnings, IsPrefetch
<1>5. /\ Volumes(file).warnings \in Nat
      /\ Volumes(file).warnings = 0 <=> Volumes(file).good = file.volumes.count
  BY VolumesAreRead
<1>. HIDE DEF record, ran, sizes, n
<1>6. /\ record.times \in Seq(Pairs) /\ Len(record.times) = Cardinality(set)
      /\ \A i \in 1..Len(record.times) : record.times[i].raw # None
  <2>1. set \in SUBSET DOMAIN ran.times
    OBVIOUS
  <2>2. \A i \in set : ran.times[i].raw # None
    OBVIOUS
  <2>. HIDE DEF set
  <2>3. /\ KeepAt(ran.times, set) \in Seq(Pairs) /\ Len(KeepAt(ran.times, set)) = Cardinality(set)
        /\ \A k \in 1..Cardinality(set) :
                 /\ InOrder(set)[k] \in set
                 /\ KeepAt(ran.times, set)[k] = ran.times[InOrder(set)[k]]
    BY <1>3, <2>1, KeepAtKeeps
  <2>. QED
    BY <1>2, <2>2, <2>3
<1>7. /\ record.warnings \in Nat
      /\ record.warnings = 0 <=> /\ file.declared # "less" /\ file.paths \in {"none", "sound"}
                                 /\ record.volumes = file.volumes.count
                                 /\ ran.warnings = 0
  <2>1. /\ record.warnings = sizes + PathWarnings(file) + Volumes(file).warnings + ran.warnings
        /\ record.volumes = Volumes(file).good
    BY <1>2
  <2>2. PICK a, b, c, d \in Nat : /\ a = sizes /\ b = PathWarnings(file)
                                  /\ c = Volumes(file).warnings /\ d = ran.warnings
    BY <1>3, <1>4, <1>5
  <2>3. record.warnings = a + b + c + d
    BY <2>1, <2>2
  <2>4. record.warnings \in Nat
    BY <2>3
  <2>5. record.warnings = 0 <=> a = 0 /\ b = 0 /\ c = 0 /\ d = 0
    BY <2>3
  <2>. QED
    BY <1>4, <1>5, <2>1, <2>2, <2>4, <2>5
<1>8. ran.warnings = 0 =>
        Len(record.times) = Cardinality({i \in 1..n : i <= Len(file.times) /\ file.times[i] # 0})
  <2>. SUFFICES ASSUME ran.warnings = 0
                PROVE  set = {i \in 1..n : i <= Len(file.times) /\ file.times[i] # 0}
    BY <1>6
  <2>1. Len(file.times) >= n /\ DOMAIN ran.times = 1..n
    BY <1>3, LenProperties
  <2>2. ASSUME NEW i \in 1..n
        PROVE  /\ i <= Len(file.times)
               /\ ran.times[i].raw # None <=> file.times[i] # 0
    <3>1. i \in 1..Len(file.times)
      BY <1>3, <2>1
    <3>2. file.times[i] \in Nat /\ ran.times[i] = Filetime(file.times[i])
      BY <1>3, <2>1, <3>1, ElementOfSeq
    <3>. QED
      BY <1>3, <3>1, <3>2, FiletimeFacts, SMTT(40)
  <2>. QED
    BY <2>1, <2>2
<1>9. ran.warnings = 0 <=> \A i \in 1..n : i <= Len(file.times) /\ file.times[i] <= MaxFiletime
  <2>1. CASE Len(file.times) < n
    <3>1. n \in 1..n /\ ~(n <= Len(file.times))
      BY <1>3, <2>1
    <3>. QED
      BY <1>3, <2>1, <3>1
  <2>2. CASE Len(file.times) >= n
    <3>1. \A i \in 1..n : i <= Len(file.times)
      BY <1>3, <2>2
    <3>. QED
      BY <1>3, <2>2, <3>1
  <2>. QED
    BY <1>3, <2>1, <2>2
<1>10. record.warnings = 0 <=> NothingMissing(file, record)
  BY <1>7, <1>8, <1>9 DEF NothingMissing, n
<1>. QED
  BY <1>1, <1>6, <1>7, <1>10


-----------------------------------------------------------------------------
\* Shell Links

\* What holds of an offset when it holds of those after it.
Inherited(n, T) == \A o \in 1..n : (\A k \in 1..n : k > o => k \in T) => o \in T

LEMMA BackwardInduction ==
    ASSUME NEW n \in Nat, NEW T, Inherited(n, T)
    PROVE  1..n \subseteq T
<1>. USE DEF Inherited
<1>. DEFINE S == {d \in Nat : \A o \in 1..n : n - o <= d => o \in T}
<1>1. 0 \in S
  <2>1. ASSUME NEW o \in 1..n, n - o <= 0 PROVE o \in T
    <3>1. \A k \in 1..n : ~(k > o)
      BY <2>1
    <3>. QED
      BY <3>1
  <2>. QED
    BY <2>1
<1>2. ASSUME NEW d \in Nat, d \in S PROVE d + 1 \in S
  <2>1. ASSUME NEW o \in 1..n, n - o <= d + 1 PROVE o \in T
    <3>1. \A k \in 1..n : k > o => n - k <= d
      BY <2>1
    <3>2. \A k \in 1..n : k > o => k \in T
      BY <1>2, <3>1
    <3>. QED
      BY <3>2
  <2>. QED
    BY <2>1
<1>3. Nat \subseteq S
  <2>. HIDE DEF S
  <2>. QED
    BY <1>1, <1>2, NaturalsInduct
<1>. QED
  BY <1>3

LEMMA FrontKeeps ==
    ASSUME NEW S, NEW s \in Seq(S), s # <<>>
    PROVE  /\ Front(s) \in Seq(S) /\ Len(Front(s)) = Len(s) - 1
           /\ \A i \in 1..Len(s) - 1 : Front(s)[i] = s[i]
<1>. DEFINE n == Len(s) - 1
<1>1. n \in Nat /\ 1 \in Int /\ n \in Int /\ \A i \in 1..n : s[i] \in S
  <2>1. Len(s) \in Nat /\ Len(s) >= 1 /\ \A i \in 1..Len(s) : s[i] \in S
    BY LenProperties, EmptySeq, ElementOfSeq
  <2>. QED
    BY <2>1
<1>. HIDE DEF n
<1>2. /\ SubSeq(s, 1, n) \in Seq(S)
      /\ Len(SubSeq(s, 1, n)) = IF 1 <= n THEN n - 1 + 1 ELSE 0
      /\ \A i \in 1..n - 1 + 1 : SubSeq(s, 1, n)[i] = s[1 + i - 1]
  BY <1>1, SubSeqProperties
<1>3. /\ Len(SubSeq(s, 1, n)) = n
      /\ \A i \in 1..n : SubSeq(s, 1, n)[i] = s[i]
  BY <1>1, <1>2
<1>. QED
  BY <1>2, <1>3 DEF Front, n

NumberStep(bytes, above, f, s) ==
    IF s = {} THEN above ELSE bytes[Min(s)] + 256 * f[s \ {Min(s)}]

\* The values of the last bytes of a number, read from the last one on.
NumberWalk(bytes, above, value) ==
    /\ value \in [1..Len(bytes) + 1 -> Int]
    /\ Number(bytes, above) = value[1] /\ value[Len(bytes) + 1] = above
    /\ \A k \in 1..Len(bytes) : value[k] = bytes[k] + 256 * value[k + 1]

LEMMA NumberIsWalked ==
    ASSUME NEW bytes \in Seq(Nat), NEW above \in Int
    PROVE  \E value : NumberWalk(bytes, above, value)
<1>. DEFINE n == Len(bytes)
            D == SUBSET (1..n)
            rank == [s \in D |-> Cardinality(s)]
            F == [p \in [D -> Int] \X D |-> NumberStep(bytes, above, p[1], p[2])]
            Eq(iter) == iter = [s \in D |-> NumberStep(bytes, above, iter, s)]
            iter == CHOOSE i : Eq(i)
<1>0. n \in Nat /\ DOMAIN bytes = 1..n /\ \A i \in 1..n : bytes[i] \in Nat
  BY LenProperties, ElementOfSeq
<1>. HIDE DEF n
<1>1. ASSUME NEW s \in D PROVE IsFiniteSet(s) /\ Cardinality(s) \in Nat
  <2>1. IsFiniteSet(1..n)
    BY <1>0, FS_Interval
  <2>2. IsFiniteSet(s)
    BY <2>1, FS_Subset
  <2>. QED
    BY <2>2, FS_CardinalityType
<1>2. ASSUME NEW s \in D, s # {}
      PROVE  /\ Min(s) \in s /\ Min(s) \in 1..n /\ s \ {Min(s)} \in D
             /\ Cardinality(s \ {Min(s)}) < Cardinality(s)
  <2>1. Min(s) \in s
    <3>1. s \subseteq Nat
      BY <1>0
    <3>2. \E x \in s : \A y \in s : x <= y
      BY <1>2, <3>1, LeastNumber
    <3>. QED
      BY <3>2 DEF Min
  <2>2. Cardinality(s \ {Min(s)}) = Cardinality(s) - 1
    <3>. HIDE DEF D
    <3>. QED
      BY <1>1, <2>1, FS_RemoveElement
  <2>3. Cardinality(s \ {Min(s)}) < Cardinality(s)
    BY <1>1, <2>2
  <2>. QED
    BY <2>1, <2>3
<1>3. rank \in [D -> Nat]
  <2>. HIDE DEF D
  <2>. QED
    BY <1>1
<1>4. F \in [[D -> Int] \X D -> Int]
  <2>1. ASSUME NEW g \in [D -> Int], NEW s \in D
        PROVE  NumberStep(bytes, above, g, s) \in Int
    <3>1. CASE s = {}
      BY <3>1 DEF NumberStep
    <3>2. CASE s # {}
      <4>. HIDE DEF D
      <4>0. s \ {Min(s)} \in D /\ Min(s) \in 1..n
        BY <1>2, <3>2
      <4>1. s \ {Min(s)} \in D /\ bytes[Min(s)] \in Int
        BY <1>0, <4>0
      <4>2. g[s \ {Min(s)}] \in Int
        BY <4>1
      <4>. QED
        BY <3>2, <4>1, <4>2 DEF NumberStep
    <3>. QED
      BY <3>1, <3>2
  <2>. HIDE DEF D
  <2>. QED
    BY <2>1
<1>5. \A g, h \in [D -> Int], x \in D :
         (\A y \in D : rank[y] < rank[x] => g[y] = h[y]) => F[<<g, x>>] = F[<<h, x>>]
  <2>1. ASSUME NEW g \in [D -> Int], NEW h \in [D -> Int], NEW x \in D,
               \A y \in D : rank[y] < rank[x] => g[y] = h[y]
        PROVE  NumberStep(bytes, above, g, x) = NumberStep(bytes, above, h, x)
    BY <1>2, <2>1 DEF NumberStep
  <2>2. \A g \in [D -> Int], x \in D : F[<<g, x>>] = NumberStep(bytes, above, g, x)
    <3>. HIDE DEF D
    <3>. QED
      OBVIOUS
  <2>. HIDE DEF D, rank, F
  <2>. TAKE g, h \in [D -> Int], x \in D
  <2>. HAVE \A y \in D : rank[y] < rank[x] => g[y] = h[y]
  <2>3. NumberStep(bytes, above, g, x) = NumberStep(bytes, above, h, x)
    BY <2>1
  <2>. QED
    BY <2>2, <2>3
<1>6. PICK f \in [D -> Int] : \A s \in D : f[s] = F[<<f, s>>]
  <2>1. Int # {}
    OBVIOUS
  <2>. HIDE DEF D, F, rank
  <2>2. WellRanked(D, Int, rank, F)
    BY <1>3, <1>4, <1>5, <2>1 DEF WellRanked
  <2>3. Solvable(D, Int, F)
    BY <2>2, Recursion
  <2>. QED
    BY <2>3 DEF Solvable
<1>7. Eq(f)
  <2>1. \A s \in D : f[s] = NumberStep(bytes, above, f, s)
    <3>. HIDE DEF D
    <3>. QED
      BY <1>6
  <2>. HIDE DEF D
  <2>. QED
    BY <2>1
<1>8. Eq(iter)
  <2>. HIDE DEF Eq
  <2>. QED
    BY <1>7
<1>9. Number(bytes, above) = iter[1..n]
  BY <1>0 DEF Number, FoldRight, MapThenFoldSet, NumberStep
<1>. HIDE DEF iter
<1>10. iter[n + 1..n] = above
  <2>1. n + 1..n = {} /\ {} \in D
    BY <1>0
  <2>. HIDE DEF D
  <2>. QED
    BY <1>8, <2>1 DEF NumberStep
<1>11. ASSUME NEW o \in 1..n
       PROVE  iter[o..n] = bytes[o] + 256 * iter[o + 1..n] /\ bytes[o] \in Int
  <2>1. o..n \in D /\ o \in o..n /\ (o..n) \ {o} = o + 1..n /\ \A y \in o..n : o <= y
    BY <1>0
  <2>2. Min(o..n) = o
    <3>1. Min(o..n) \in o..n /\ \A y \in o..n : Min(o..n) <= y
      BY <2>1 DEF Min
    <3>. QED
      BY <1>0, <2>1, <3>1
  <2>3. iter[o..n] = NumberStep(bytes, above, iter, o..n)
    <3>. HIDE DEF D
    <3>. QED
      BY <1>8, <2>1
  <2>4. NumberStep(bytes, above, iter, o..n) = bytes[o] + 256 * iter[o + 1..n]
    <3>1. o..n # {} /\ (o..n) \ {Min(o..n)} = o + 1..n
      BY <2>1, <2>2
    <3>. QED
      BY <2>2, <3>1 DEF NumberStep
  <2>. QED
    BY <1>0, <2>3, <2>4
<1>. DEFINE T == {k \in 1..n + 1 : iter[k..n] \in Int}
<1>12. ASSUME NEW o \in 1..n + 1, \A k \in 1..n + 1 : k > o => k \in T
       PROVE  o \in T
  <2>1. CASE o = n + 1
    BY <1>10, <2>1
  <2>2. CASE o # n + 1
    <3>1. o \in 1..n /\ o + 1 \in 1..n + 1 /\ o + 1 > o
      BY <1>0, <2>2
    <3>2. o + 1 \in T
      <4>. HIDE DEF T
      <4>. QED
        BY <1>12, <3>1
    <3>. QED
      BY <1>11, <3>1, <3>2
  <2>. QED
    BY <2>1, <2>2
<1>. HIDE DEF T
<1>13. 1..n + 1 \subseteq T
  <2>1. n + 1 \in Nat
    BY <1>0
  <2>2. Inherited(n + 1, T)
    BY <1>12 DEF Inherited
  <2>. QED
    BY <2>1, <2>2, BackwardInduction
<1>. DEFINE value == [k \in 1..n + 1 |-> iter[k..n]]
<1>14. value \in [1..n + 1 -> Int]
  BY <1>13 DEF T
<1>15. Number(bytes, above) = value[1] /\ value[n + 1] = above
  BY <1>0, <1>9, <1>10
<1>16. \A k \in 1..n : value[k] = bytes[k] + 256 * value[k + 1]
  BY <1>0, <1>11
<1>. HIDE DEF value
<1>17. NumberWalk(bytes, above, value)
  BY <1>14, <1>15, <1>16 DEF NumberWalk, n
<1>. QED
  BY <1>17

LEMMA NumberIsRead ==
    ASSUME NEW bytes \in Seq(Nat), NEW above \in Int
    PROVE  Number(bytes, above) \in Int
<1>1. PICK value : NumberWalk(bytes, above, value)
  BY NumberIsWalked
<1>2. 1 \in 1..Len(bytes) + 1
  BY LenProperties
<1>3. value \in [1..Len(bytes) + 1 -> Int] /\ Number(bytes, above) = value[1]
  BY <1>1 DEF NumberWalk
<1>. QED
  BY <1>2, <1>3

LEMMA DivideByteWise ==
    /\ \A a \in Int : /\ a \div 256 \in Int /\ a % 256 \in Int
                      /\ a = (a % 256) + 256 * (a \div 256)
    /\ \A a \in 0..255 : a % 256 = a /\ a \div 256 = 0
    /\ \A a \in -128..127 : a = IF a % 256 < 128 THEN a % 256 ELSE (a % 256) - 256
  OBVIOUS

\* Digits of a value, down to what is left of it after the others.
Digits(bytes, above, left) ==
    /\ left \in [1..Len(bytes) + 1 -> Int] /\ left[Len(bytes) + 1] = above
    /\ \A k \in 1..Len(bytes) : bytes[k] = left[k] % 256 /\ left[k + 1] = left[k] \div 256

LEMMA DigitsRead ==
    ASSUME NEW bytes \in Seq(Nat), NEW above \in Int, NEW left, Digits(bytes, above, left)
    PROVE  Number(bytes, above) = left[1]
<1>. USE DEF Digits
<1>. DEFINE n == Len(bytes)
<1>1. n \in Nat
  BY LenProperties
<1>0. PICK value : NumberWalk(bytes, above, value)
  BY NumberIsWalked
<1>2. /\ value \in [1..n + 1 -> Int]
      /\ Number(bytes, above) = value[1] /\ value[n + 1] = above
      /\ \A k \in 1..n : value[k] = bytes[k] + 256 * value[k + 1]
  BY <1>0 DEF NumberWalk
<1>. DEFINE T == {k \in 1..n + 1 : value[k] = left[k]}
<1>. HIDE DEF n
<1>3. ASSUME NEW k \in 1..n + 1, \A i \in 1..n + 1 : i > k => i \in T
      PROVE  k \in T
  <2>1. CASE k = n + 1
    BY <1>2, <2>1 DEF n
  <2>2. CASE k # n + 1
    <3>1. k \in 1..n /\ k + 1 \in 1..n + 1 /\ k + 1 > k
      BY <1>1, <2>2
    <3>2. value[k + 1] = left[k + 1]
      BY <1>3, <3>1
    <3>. HIDE DEF n
    <3>3. value[k] = (left[k] % 256) + 256 * (left[k] \div 256)
      BY <1>2, <3>1, <3>2 DEF n
    <3>4. left[k] \in Int
      BY <3>1, ZenonT(60) DEF n
    <3>5. left[k] = (left[k] % 256) + 256 * (left[k] \div 256)
      BY <3>4, DivideByteWise
    <3>. QED
      BY <3>1, <3>3, <3>5
  <2>. QED
    BY <2>1, <2>2
<1>4. 1..n + 1 \subseteq T
  <2>1. n + 1 \in Nat
    BY <1>1
  <2>. HIDE DEF T
  <2>2. Inherited(n + 1, T)
    BY <1>3 DEF Inherited
  <2>. QED
    BY <2>1, <2>2, BackwardInduction
<1>5. 1 \in T
  <2>1. 1 \in 1..n + 1
    BY <1>1
  <2>. HIDE DEF T
  <2>. QED
    BY <1>4, <2>1
<1>. QED
  BY <1>2, <1>5

\* The same as IsNumber has it.
NumberLeft(bytes, value) ==
    CHOOSE f : f = [i \in 1..Len(bytes) |-> IF i = 1 THEN value ELSE f[i - 1] \div 256]

LEMMA WhatIsLeft ==
    ASSUME NEW bytes \in Seq(Nat), NEW value \in Int
    PROVE  LET left == NumberLeft(bytes, value)
           IN  /\ left \in [1..Len(bytes) -> Int]
               /\ \A i \in 1..Len(bytes) :
                     left[i] = IF i = 1 THEN value ELSE left[i - 1] \div 256
<1>. DEFINE D == 1..Len(bytes)
            Step(f, i) == IF i = 1 THEN value ELSE f[i - 1] \div 256
            rank == [i \in D |-> i]
            F == [p \in [D -> Int] \X D |-> Step(p[1], p[2])]
            Eq(f) == f = [i \in D |-> Step(f, i)]
            left == CHOOSE f : Eq(f)
<1>1. Len(bytes) \in Nat
  BY LenProperties
<1>2. rank \in [D -> Nat] /\ Int # {}
  BY <1>1
<1>3. ASSUME NEW g \in [D -> Int], NEW i \in D
      PROVE  Step(g, i) \in Int
  <2>1. CASE i = 1
    BY <2>1
  <2>2. CASE i # 1
    <3>1. i - 1 \in D
      BY <1>1, <2>2
    <3>2. g[i - 1] \in Int
      <4>. HIDE DEF D
      <4>. QED
        BY <3>1
    <3>. QED
      BY <2>2, <3>2, DivideByteWise
  <2>. QED
    BY <2>1, <2>2
<1>4. ASSUME NEW g \in [D -> Int], NEW h \in [D -> Int], NEW i \in D,
             \A k \in D : rank[k] < rank[i] => g[k] = h[k]
      PROVE  Step(g, i) = Step(h, i)
  <2>1. CASE i = 1
    BY <2>1
  <2>2. CASE i # 1
    <3>1. i - 1 \in D /\ rank[i - 1] < rank[i]
      BY <1>1, <2>2
    <3>2. g[i - 1] = h[i - 1]
      <4>. HIDE DEF D, rank
      <4>. QED
        BY <1>4, <3>1
    <3>. QED
      BY <3>2
  <2>. QED
    BY <2>1, <2>2
<1>. HIDE DEF D, rank
<1>5. \A g \in [D -> Int], i \in D : F[<<g, i>>] = Step(g, i)
  <2>. HIDE DEF Step
  <2>. QED
    OBVIOUS
<1>6. F \in [[D -> Int] \X D -> Int]
  <2>. HIDE DEF Step
  <2>. QED
    BY <1>3
<1>. HIDE DEF F
<1>7. \A g, h \in [D -> Int], i \in D :
         (\A k \in D : rank[k] < rank[i] => g[k] = h[k]) => F[<<g, i>>] = F[<<h, i>>]
  <2>. HIDE DEF Step
  <2>. TAKE g, h \in [D -> Int], i \in D
  <2>. HAVE \A k \in D : rank[k] < rank[i] => g[k] = h[k]
  <2>1. Step(g, i) = Step(h, i)
    BY <1>4
  <2>. QED
    BY <1>5, <2>1
<1>8. PICK f \in [D -> Int] : \A i \in D : f[i] = Step(f, i)
  <2>1. WellRanked(D, Int, rank, F)
    BY <1>2, <1>6, <1>7 DEF WellRanked
  <2>2. Solvable(D, Int, F)
    BY <2>1, Recursion
  <2>3. PICK f \in [D -> Int] : \A i \in D : f[i] = F[<<f, i>>]
    BY <2>2 DEF Solvable
  <2>. HIDE DEF Step
  <2>. QED
    BY <1>5, <2>3
<1>9. Eq(left)
  <2>1. Eq(f)
    <3>. HIDE DEF Step
    <3>. QED
      BY <1>8
  <2>. HIDE DEF Eq
  <2>. QED
    BY <2>1
<1>10. left = NumberLeft(bytes, value)
  BY DEF NumberLeft, D
<1>. HIDE DEF left
<1>11. \A i \in D : left[i] = Step(left, i)
  <2>. HIDE DEF Step
  <2>. QED
    BY <1>9
<1>. DEFINE T == {d \in Nat : d + 1 \in D => left[d + 1] \in Int}
<1>12. 0 \in T
  BY <1>11
<1>13. ASSUME NEW d \in Nat, d \in T PROVE d + 1 \in T
  <2>. SUFFICES ASSUME d + 1 + 1 \in D PROVE left[d + 1 + 1] \in Int
    OBVIOUS
  <2>1. d + 1 \in D /\ d + 1 + 1 # 1 /\ d + 1 + 1 - 1 = d + 1
    BY <1>1 DEF D
  <2>2. left[d + 1] \in Int
    BY <1>13, <2>1
  <2>3. left[d + 1 + 1] = left[d + 1] \div 256
    BY <1>11, <2>1
  <2>. QED
    BY <2>2, <2>3, DivideByteWise
<1>14. \A d \in Nat : d \in T
  <2>. HIDE DEF T
  <2>. QED
    BY <1>12, <1>13, NaturalsInduct
<1>15. \A i \in D : left[i] \in Int
  <2>. TAKE i \in D
  <2>1. i - 1 \in Nat /\ i - 1 + 1 = i
    BY <1>1 DEF D
  <2>2. i - 1 \in T
    <3>. HIDE DEF T
    <3>. QED
      BY <1>14, <2>1
  <2>. QED
    BY <2>1, <2>2
<1>16. left \in [D -> Int]
  <2>1. left = [i \in D |-> left[i]]
    <3>. HIDE DEF Step
    <3>. QED
      BY <1>9, <1>11
  <2>. QED
    BY <1>15, <2>1
<1>. QED
  BY <1>10, <1>11, <1>16 DEF D

\* What is read from the digits of a value is that value.
LEMMA DigitsReadBack ==
    ASSUME NEW bytes \in Seq(Nat), bytes # <<>>, NEW value \in Int
    PROVE  /\ IsNumber(bytes, value, 0..255) => LittleEndian(bytes) = value
           /\ IsNumber(bytes, value, -128..127) => Signed(bytes) = value
<1>. DEFINE n == Len(bytes)
            left == NumberLeft(bytes, value)
<1>1. n \in Nat /\ n >= 1 /\ DOMAIN bytes = 1..n /\ \A k \in 1..n : bytes[k] \in Nat
  BY LenProperties, ElementOfSeq, EmptySeq
<1>2. /\ left \in [1..n -> Int]
      /\ \A i \in 1..n : left[i] = IF i = 1 THEN value ELSE left[i - 1] \div 256
  BY WhatIsLeft
<1>3. ASSUME NEW given, IsNumber(bytes, value, given)
      PROVE  /\ \A k \in 1..n : bytes[k] = left[k] % 256
             /\ left[n] \in given
  BY <1>3 DEF IsNumber, NumberLeft
<1>. HIDE DEF left, n
<1>4. /\ left[1] = value /\ n \in 1..n /\ left[n] \in Int
      /\ \A k \in 1..n - 1 : k \in 1..n /\ left[k + 1] = left[k] \div 256
  <2>1. 1 \in 1..n /\ n \in 1..n
    BY <1>1
  <2>2. \A k \in 1..n - 1 : k \in 1..n /\ k + 1 \in 1..n /\ k + 1 # 1 /\ k + 1 - 1 = k
    BY <1>1
  <2>. QED
    BY <1>2, <2>1, <2>2
<1>5. ASSUME IsNumber(bytes, value, 0..255)
      PROVE  LittleEndian(bytes) = value
  <2>. DEFINE all == [k \in 1..n + 1 |-> IF k = n + 1 THEN 0 ELSE left[k]]
  <2>1. all \in [1..n + 1 -> Int] /\ all[n + 1] = 0 /\ all[1] = value
    <3>1. \A k \in 1..n + 1 : k # n + 1 => k \in 1..n
      BY <1>1
    <3>2. 1 \in 1..n + 1 /\ n + 1 \in 1..n + 1 /\ 1 # n + 1
      BY <1>1
    <3>. QED
      BY <1>2, <1>4, <3>1, <3>2
  <2>2. ASSUME NEW k \in 1..n
        PROVE  bytes[k] = all[k] % 256 /\ all[k + 1] = all[k] \div 256
    <3>1. k \in 1..n + 1 /\ k # n + 1 /\ k + 1 \in 1..n + 1 /\ all[k] = left[k]
      BY <1>1
    <3>2. bytes[k] = left[k] % 256 /\ left[n] \in 0..255
      BY <1>3, <1>5
    <3>3. CASE k = n
      <4>1. left[n] \div 256 = 0
        <5>1. left[n] \in 0..255
          BY <3>2
        <5>2. \A a \in 0..255 : a \div 256 = 0
          BY DivideByteWise
        <5>. QED
          BY <5>1, <5>2, Zenon
      <4>. QED
        BY <3>1, <3>2, <3>3, <4>1
    <3>4. CASE k # n
      <4>1. k \in 1..n - 1 /\ k + 1 # n + 1
        BY <1>1, <3>4
      <4>. QED
        BY <1>4, <3>1, <3>2, <4>1
    <3>. QED
      BY <3>3, <3>4
  <2>. HIDE DEF all
  <2>3. Number(bytes, 0) = all[1]
    <3>1. Digits(bytes, 0, all)
      BY <2>1, <2>2 DEF Digits, n
    <3>2. 0 \in Int
      OBVIOUS
    <3>. QED
      BY <3>1, <3>2, DigitsRead
  <2>. QED
    BY <2>1, <2>3 DEF LittleEndian
<1>6. ASSUME IsNumber(bytes, value, -128..127)
      PROVE  Signed(bytes) = value
  <2>. DEFINE front == Front(bytes)
  <2>1. /\ front \in Seq(Nat) /\ Len(front) = n - 1
        /\ \A k \in 1..n - 1 : front[k] = bytes[k]
    BY FrontKeeps DEF n
  <2>2. Last(bytes) = bytes[n]
    BY DEF Last, n
  <2>3. left[n] = IF Last(bytes) < 128 THEN Last(bytes) ELSE Last(bytes) - 256
    <3>1. bytes[n] = left[n] % 256 /\ left[n] \in -128..127
      BY <1>3, <1>4, <1>6
    <3>2. left[n] = IF left[n] % 256 < 128 THEN left[n] % 256 ELSE (left[n] % 256) - 256
      <4>1. left[n] \in -128..127
        BY <3>1
      <4>2. \A x \in -128..127 : x = IF x % 256 < 128 THEN x % 256 ELSE (x % 256) - 256
        BY DivideByteWise
      <4>. QED
        BY <4>1, <4>2, Zenon
    <3>. QED
      BY <2>2, <3>1, <3>2
  <2>. HIDE DEF front
  <2>4. left \in [1..Len(front) + 1 -> Int] /\ left[Len(front) + 1] = left[n]
    BY <1>1, <1>2, <2>1
  <2>5. ASSUME NEW k \in 1..Len(front)
        PROVE  front[k] = left[k] % 256 /\ left[k + 1] = left[k] \div 256
    <3>1. k \in 1..n - 1 /\ k \in 1..n
      BY <1>4, <2>1
    <3>2. bytes[k] = left[k] % 256
      BY <1>3, <1>6, <3>1
    <3>. QED
      BY <1>4, <2>1, <3>1, <3>2
  <2>6. Number(front, left[n]) = left[1]
    <3>1. Digits(front, left[n], left)
      BY <2>4, <2>5 DEF Digits
    <3>. QED
      BY <1>4, <2>1, <3>1, DigitsRead
  <2>. QED
    BY <1>4, <2>3, <2>6 DEF Signed, front
<1>. QED
  BY <1>5, <1>6

\* A number is 0 if all its bytes are.
LEMMA NoDigitsIsZero ==
    ASSUME NEW bytes \in Seq(Nat)
    PROVE  LittleEndian(bytes) # 0 <=> \E k \in 1..Len(bytes) : bytes[k] # 0
<1>. DEFINE n == Len(bytes)
<1>1. n \in Nat /\ \A k \in 1..n : bytes[k] \in Nat
  BY LenProperties, ElementOfSeq
<1>0. PICK value : NumberWalk(bytes, 0, value)
  <2>1. 0 \in Int
    OBVIOUS
  <2>. QED
    BY <2>1, NumberIsWalked
<1>2. /\ value \in [1..n + 1 -> Int]
      /\ Number(bytes, 0) = value[1] /\ value[n + 1] = 0
      /\ \A k \in 1..n : value[k] = bytes[k] + 256 * value[k + 1]
  BY <1>0 DEF NumberWalk
<1>. HIDE DEF n
<1>. DEFINE T == {k \in 1..n + 1 : /\ value[k] >= 0
                                   /\ value[k] # 0 <=> \E i \in k..n : bytes[i] # 0}
<1>3. ASSUME NEW k \in 1..n + 1, \A i \in 1..n + 1 : i > k => i \in T
      PROVE  k \in T
  <2>1. CASE k = n + 1
    <3>1. k..n = {}
      BY <1>1, <2>1
    <3>. QED
      BY <1>2, <2>1, <3>1
  <2>2. CASE k # n + 1
    <3>1. k \in 1..n /\ k + 1 \in 1..n + 1 /\ k + 1 > k /\ k..n = {k} \union (k + 1..n)
      BY <1>1, <2>2
    <3>2. k + 1 \in T
      <4>. HIDE DEF T
      <4>. QED
        BY <1>3, <3>1
    <3>3. /\ value[k + 1] >= 0 /\ value[k + 1] \in Int /\ bytes[k] \in Nat
          /\ value[k] = bytes[k] + 256 * value[k + 1]
      BY <1>1, <1>2, <3>1, <3>2, SMTT(40)
    <3>4. value[k] >= 0 /\ (value[k] # 0 <=> bytes[k] # 0 \/ value[k + 1] # 0)
      BY <3>3
    <3>5. value[k] # 0 <=> \E i \in k..n : bytes[i] # 0
      BY <3>1, <3>2, <3>4
    <3>. QED
      BY <3>4, <3>5
  <2>. QED
    BY <2>1, <2>2
<1>4. 1..n + 1 \subseteq T
  <2>1. n + 1 \in Nat
    BY <1>1
  <2>. HIDE DEF T
  <2>2. Inherited(n + 1, T)
    BY <1>3 DEF Inherited
  <2>. QED
    BY <2>1, <2>2, BackwardInduction
<1>5. 1 \in T
  <2>1. 1 \in 1..n + 1
    BY <1>1
  <2>. HIDE DEF T
  <2>. QED
    BY <1>4, <2>1
<1>. QED
  BY <1>2, <1>5 DEF LittleEndian, n

Chunks == [items : Seq(Seq(Nat)), warnings : Nat]

\* A size that is whole, and the bytes it is read from.
LEMMA SizeIsRead ==
    ASSUME NEW data \in Seq(Nat), NEW width \in Nat, width >= 1,
           NEW o \in Nat, o >= 1, o + width - 1 <= Len(data)
    PROVE  LET field == SubSeq(data, o, o + width - 1)
           IN  /\ field \in Seq(Nat) /\ Len(field) = width /\ field # <<>>
               /\ \A k \in 1..width : field[k] = data[o + k - 1]
               /\ SizeAt(data, o, width) \in Int
               /\ SizeAt(data, o, width) # 0 <=> \E k \in 1..width : data[o + k - 1] # 0
<1>. DEFINE to == o + width - 1
            field == SubSeq(data, o, to)
<1>1. /\ Len(data) \in Nat /\ to \in Int /\ o \in Int /\ o <= to /\ to - o + 1 = width
      /\ \A k \in o..to : data[k] \in Nat
  <2>1. Len(data) \in Nat /\ \A k \in 1..Len(data) : data[k] \in Nat
    BY LenProperties, ElementOfSeq
  <2>. QED
    BY <2>1
<1>. HIDE DEF to
<1>2. /\ field \in Seq(Nat) /\ Len(field) = width
      /\ \A k \in 1..width : field[k] = data[o + k - 1]
  <2>1. /\ field \in Seq(Nat) /\ Len(field) = IF o <= to THEN to - o + 1 ELSE 0
        /\ \A k \in 1..to - o + 1 : field[k] = data[o + k - 1]
    BY <1>1, SubSeqProperties, SMTT(40)
  <2>. HIDE DEF field
  <2>. QED
    BY <1>1, <2>1
<1>. HIDE DEF field
<1>3. field # <<>>
  BY <1>2, EmptySeq
<1>4. LittleEndian(field) \in Int
  BY <1>2, NumberIsRead DEF LittleEndian
<1>5. LittleEndian(field) # 0 <=> \E k \in 1..width : data[o + k - 1] # 0
  BY <1>2, NoDigitsIsZero
<1>. QED
  BY <1>2, <1>3, <1>4, <1>5 DEF field, to, SizeAt

\* One turn of the walk over the units, f being the walk.
UnitsStep(data, width, least, f, o) ==
    LET size == SizeAt(data, o, width)
    IN  IF o + width - 1 > Len(data) THEN [items |-> <<>>, warnings |-> Trailing(data, o)]
        ELSE IF size = 0 THEN [items |-> <<>>, warnings |-> 0]
        ELSE IF size < least \/ ~Fits(data, o, size) THEN [items |-> <<>>, warnings |-> 1]
        ELSE [items |-> <<SubSeq(data, o, o + size - 1)>> \o f[o + size].items,
              warnings |-> f[o + size].warnings]

\* The turns after which the walk goes on.
GoesOn(data, width, least, o) ==
    /\ ~(o + width - 1 > Len(data))
    /\ ~(SizeAt(data, o, width) < least) /\ SizeAt(data, o, width) # 0
    /\ Fits(data, o, SizeAt(data, o, width))

\* The walk exists, and gives at every position what the next turn makes of
\* what follows.
LEMMA UnitsAreWalked ==
    ASSUME NEW data \in Seq(Nat), NEW width \in Nat, width >= 1,
           NEW least \in Nat, least >= 1
    PROVE  \E walk : /\ Units(data, width, least) = walk[1]
                     /\ \A o \in 1..Len(data) + 1 :
                           /\ walk[o] = UnitsStep(data, width, least, walk, o)
                           /\ walk[o] \in Chunks
<1>. DEFINE D == 1..Len(data) + 1
            rank == [o \in D |-> Len(data) + 1 - o]
            Step(f, o) == UnitsStep(data, width, least, f, o)
            F == [p \in [D -> Chunks] \X D |-> Step(p[1], p[2])]
            Eq(f) == f = [o \in D |-> Step(f, o)]
            walk == CHOOSE f : Eq(f)
            size(o) == SizeAt(data, o, width)
            More(f, o) == [items |-> <<SubSeq(data, o, o + size(o) - 1)>>
                                        \o f[o + size(o)].items,
                           warnings |-> f[o + size(o)].warnings]
<1>1. Len(data) \in Nat /\ \A o \in 1..Len(data) : data[o] \in Nat
  BY LenProperties, ElementOfSeq
<1>2. Units(data, width, least) = walk[1]
  BY DEF Units, UnitsStep
<1>3. ASSUME NEW o \in D, GoesOn(data, width, least, o)
      PROVE  /\ size(o) \in Int /\ o + size(o) \in D /\ o + size(o) > o
             /\ rank[o + size(o)] < rank[o]
             /\ SubSeq(data, o, o + size(o) - 1) \in Seq(Nat)
  <2>1. o \in Nat /\ o >= 1 /\ o + width - 1 <= Len(data)
    BY <1>1, <1>3 DEF GoesOn
  <2>2. size(o) \in Int
    BY <2>1, SizeIsRead
  <2>3. size(o) >= least /\ o + size(o) <= Len(data) + 1
    BY <1>3, <2>2 DEF GoesOn, Fits
  <2>. HIDE DEF size
  <2>4. o + size(o) \in D /\ o + size(o) > o
    BY <1>1, <2>1, <2>2, <2>3
  <2>5. rank[o + size(o)] < rank[o]
    <3>1. rank[o + size(o)] = Len(data) + 1 - (o + size(o)) /\ rank[o] = Len(data) + 1 - o
      BY <2>4
    <3>. HIDE DEF rank
    <3>. QED
      BY <1>1, <2>2, <2>4, <3>1
  <2>6. SubSeq(data, o, o + size(o) - 1) \in Seq(Nat)
    <3>. DEFINE to == o + size(o) - 1
    <3>1. o \in Int /\ to \in Int /\ \A i \in o..to : data[i] \in Nat
      BY <1>1, <2>1, <2>2, <2>3, SMTT(40)
    <3>. HIDE DEF to
    <3>2. SubSeq(data, o, to) \in Seq(Nat)
      BY <3>1, SubSeqProperties
    <3>. QED
      BY <3>2 DEF to
  <2>. QED
    BY <2>2, <2>4, <2>5, <2>6 DEF size
<1>. HIDE DEF rank, size
<1>4. ASSUME NEW o \in D, NEW f
      PROVE  /\ GoesOn(data, width, least, o) => Step(f, o) = More(f, o)
             /\ ~GoesOn(data, width, least, o) =>
                   /\ Step(f, o) \in Chunks
                   /\ \A h : Step(h, o) = Step(f, o)
  <2>1. Trailing(data, o) \in Nat
    BY DEF Trailing
  <2>2. ASSUME NEW n \in Nat
        PROVE  [items |-> <<>>, warnings |-> n] \in Chunks
    BY DEF Chunks
  <2>3. /\ [items |-> <<>>, warnings |-> Trailing(data, o)] \in Chunks
        /\ [items |-> <<>>, warnings |-> 0] \in Chunks
        /\ [items |-> <<>>, warnings |-> 1] \in Chunks
    BY <2>1, <2>2
  <2>4. ASSUME GoesOn(data, width, least, o)
        PROVE  Step(f, o) = More(f, o)
    BY <2>4, Zenon DEF UnitsStep, GoesOn, size
  <2>5. ASSUME ~GoesOn(data, width, least, o), NEW h
        PROVE  Step(h, o) \in Chunks /\ Step(h, o) = Step(f, o)
    BY <2>3, <2>5, Zenon DEF UnitsStep, GoesOn
  <2>. QED
    BY <2>4, <2>5
<1>. HIDE DEF Step, More
<1>5. ASSUME NEW o \in D, NEW f, \A k \in D : k > o => f[k] \in Chunks
      PROVE  Step(f, o) \in Chunks
  <2>1. CASE GoesOn(data, width, least, o)
    <3>. DEFINE next == o + size(o)
                unit == SubSeq(data, o, o + size(o) - 1)
    <3>1. f[next] \in Chunks /\ unit \in Seq(Nat)
      <4>1. next \in D /\ next > o /\ unit \in Seq(Nat)
        BY <1>3, <2>1
      <4>. HIDE DEF D, next, unit
      <4>. QED
        BY <1>5, <4>1
    <3>2. Step(f, o) = [items |-> <<unit>> \o f[next].items, warnings |-> f[next].warnings]
      BY <1>4, <2>1 DEF More
    <3>. HIDE DEF next, unit
    <3>3. <<unit>> \o f[next].items \in Seq(Seq(Nat)) /\ f[next].warnings \in Nat
      BY <3>1, ConcatProperties DEF Chunks
    <3>. QED
      BY <3>2, <3>3 DEF Chunks
  <2>2. CASE ~GoesOn(data, width, least, o)
    BY <1>4, <2>2
  <2>. QED
    BY <2>1, <2>2
<1>6. \E f \in [D -> Chunks] : Eq(f)
  <2>1. Chunks # {} /\ rank \in [D -> Nat]
    <3>1. [items |-> <<>>, warnings |-> 0] \in Chunks
      BY DEF Chunks
    <3>. QED
      BY <1>1, <3>1 DEF rank
  <2>2. F \in [[D -> Chunks] \X D -> Chunks]
    <3>1. ASSUME NEW g \in [D -> Chunks], NEW o \in D
          PROVE  Step(g, o) \in Chunks
      BY <1>5
    <3>. HIDE DEF D
    <3>. QED
      BY <3>1
  <2>3. ASSUME NEW g \in [D -> Chunks], NEW h \in [D -> Chunks], NEW o \in D,
               \A k \in D : rank[k] < rank[o] => g[k] = h[k]
        PROVE  Step(g, o) = Step(h, o)
    <3>1. CASE GoesOn(data, width, least, o)
      <4>1. g[o + size(o)] = h[o + size(o)]
        <5>. HIDE DEF D
        <5>. QED
          BY <1>3, <2>3, <3>1
      <4>2. Step(g, o) = More(g, o) /\ Step(h, o) = More(h, o)
        BY <1>4, <3>1
      <4>. HIDE DEF D
      <4>. QED
        BY <4>1, <4>2 DEF More
    <3>2. CASE ~GoesOn(data, width, least, o)
      BY <1>4, <3>2
    <3>. QED
      BY <3>1, <3>2
  <2>4. \A g, h \in [D -> Chunks], o \in D :
          (\A k \in D : rank[k] < rank[o] => g[k] = h[k]) => F[<<g, o>>] = F[<<h, o>>]
    <3>. TAKE g, h \in [D -> Chunks], o \in D
    <3>. HAVE \A k \in D : rank[k] < rank[o] => g[k] = h[k]
    <3>1. Step(g, o) = Step(h, o)
      <4>. HIDE DEF D
      <4>. QED
        BY <2>3
    <3>2. F[<<g, o>>] = Step(g, o) /\ F[<<h, o>>] = Step(h, o)
      <4>. HIDE DEF D
      <4>. QED
        OBVIOUS
    <3>. QED
      BY <3>1, <3>2
  <2>5. \A g \in [D -> Chunks], o \in D : F[<<g, o>>] = Step(g, o)
    <3>. HIDE DEF D
    <3>. QED
      OBVIOUS
  <2>. HIDE DEF D, F
  <2>6. WellRanked(D, Chunks, rank, F)
    BY <2>1, <2>2, <2>4 DEF WellRanked
  <2>7. Solvable(D, Chunks, F)
    BY <2>6, Recursion
  <2>8. PICK f \in [D -> Chunks] : \A o \in D : f[o] = F[<<f, o>>]
    BY <2>7 DEF Solvable
  <2>9. \A o \in D : f[o] = Step(f, o)
    BY <2>5, <2>8
  <2>. QED
    BY <2>8, <2>9
<1>7. Eq(walk)
  <2>. HIDE DEF Eq
  <2>. QED
    BY <1>6
<1>. HIDE DEF walk
<1>8. ASSUME NEW o \in D, \A k \in D : k > o => walk[k] \in Chunks
      PROVE  walk[o] \in Chunks
  <2>1. Step(walk, o) \in Chunks
    BY <1>5, <1>8
  <2>. QED
    BY <1>7, <2>1
<1>. DEFINE T == {o \in D : walk[o] \in Chunks}
<1>9. D \subseteq T
  <2>1. Inherited(Len(data) + 1, T)
    BY <1>8 DEF Inherited
  <2>2. Len(data) + 1 \in Nat
    BY <1>1
  <2>. HIDE DEF T
  <2>. QED
    BY <2>1, <2>2, BackwardInduction
<1>10. \A o \in D : walk[o] = Step(walk, o) /\ walk[o] \in Chunks
  BY <1>7, <1>9
<1>. QED
  BY <1>2, <1>10 DEF Step

LEMMA UnitsAreRead ==
    ASSUME NEW data \in Seq(Nat), NEW width \in Nat, width >= 1, NEW least \in Nat, least >= 1
    PROVE  Units(data, width, least) \in Chunks
<1>1. PICK walk : /\ Units(data, width, least) = walk[1]
                  /\ \A o \in 1..Len(data) + 1 :
                        /\ walk[o] = UnitsStep(data, width, least, walk, o)
                        /\ walk[o] \in Chunks
  BY UnitsAreWalked
<1>2. 1 \in 1..Len(data) + 1
  BY LenProperties
<1>. QED
  BY <1>1, <1>2

LEMMA IdListIsRead ==
    ASSUME NEW data \in Seq(Nat)
    PROVE  IdList(data).warnings \in Nat
<1>. DEFINE all == Units(data, ItemWidth, LeastItem)
            limit == Len(all.items) >= MaxItems
            items == IF limit THEN SubSeq(all.items, 1, MaxItems) ELSE all.items
            odd == {i \in DOMAIN items : Unclassified(items[i])}
            ended == IF limit THEN 1 ELSE all.warnings
<1>1. all \in Chunks
  BY UnitsAreRead DEF LeastItem, ItemWidth
<1>2. IdList(data).warnings = ended + Cardinality(odd)
  BY DEF IdList, FirstItems
<1>. HIDE DEF all
<1>3. Len(all.items) \in Nat /\ all.warnings \in Nat /\ all.items \in Seq(Seq(Nat))
  BY <1>1, LenProperties DEF Chunks
<1>4. ended \in Nat
  BY <1>3
<1>5. \E n \in Nat : DOMAIN items = 1..n
  <2>1. CASE limit
    <3>1. \A i \in 1..MaxItems : all.items[i] \in Seq(Nat)
      BY <1>3, <2>1, ElementOfSeq DEF MaxItems
    <3>2. items \in Seq(Seq(Nat))
      BY <2>1, <3>1, SubSeqProperties DEF MaxItems
    <3>. QED
      BY <3>2, LenProperties
  <2>2. CASE ~limit
    BY <1>3, <2>2, LenProperties
  <2>. QED
    BY <2>1, <2>2
<1>6. Cardinality(odd) \in Nat
  <2>1. PICK n \in Nat : DOMAIN items = 1..n
    BY <1>5
  <2>2. odd \in SUBSET (1..n)
    BY <2>1
  <2>. HIDE DEF odd
  <2>. QED
    BY <2>2, SubsetOfPositions
<1>. HIDE DEF ended, odd
<1>. QED
  BY <1>2, <1>4, <1>6

\* A section that can be read moves the offset on and counts its warnings.
LEMMA SectionIsRead ==
    ASSUME NEW section, NEW body \in Seq(Nat), NEW o \in Nat, o >= 1,
           ReadSection(section, body, o) # Malformed
    PROVE  /\ ReadSection(section, body, o).next \in Nat
           /\ ReadSection(section, body, o).next >= 1
           /\ ReadSection(section, body, o).warnings \in Nat
<1>1. Len(body) \in Nat /\ \A k \in 1..Len(body) : body[k] \in Nat
  BY LenProperties, ElementOfSeq
<1>2. CASE section = "ids"
  <2>. DEFINE data == SubSeq(body, o + 1, o + body[o])
              list == IdList(data)
  <2>1. o <= Len(body) /\ body[o] \in Nat /\ o + body[o] <= Len(body)
    BY <1>1, <1>2 DEF ReadSection, TargetIds
  <2>2. data \in Seq(Nat)
    <3>1. o + 1 \in Int /\ o + body[o] \in Int
          /\ \A k \in o + 1..o + body[o] : body[k] \in Nat
      BY <1>1, <2>1
    <3>. QED
      BY <3>1, SubSeqProperties
  <2>3. ReadSection(section, body, o)
          = [value |-> list.items, next |-> o + 1 + body[o], warnings |-> list.warnings]
    BY <1>1, <1>2, <2>1 DEF ReadSection, TargetIds
  <2>. HIDE DEF data
  <2>4. list.warnings \in Nat
    BY <2>2, IdListIsRead
  <2>. HIDE DEF list
  <2>. QED
    BY <2>1, <2>3, <2>4
<1>3. CASE section = "info"
  <2>. DEFINE lost == {k \in {3, 4} : body[o + k] = Undecodable}
  <2>1. o <= Len(body) /\ body[o] \in Nat
    BY <1>1, <1>3, SMTT(40) DEF ReadSection, LinkInfo
  <2>2. /\ ReadSection(section, body, o).next = o + body[o]
        /\ ReadSection(section, body, o).warnings = Cardinality(lost)
    BY <1>1, <1>3, <2>1 DEF ReadSection, LinkInfo
  <2>3. lost \in SUBSET (1..4)
    OBVIOUS
  <2>. HIDE DEF lost
  <2>4. Cardinality(lost) \in Nat
    BY <2>3, SubsetOfPositions
  <2>. QED
    BY <2>1, <2>2, <2>4
<1>4. CASE section \notin {"ids", "info"}
  <2>1. o <= Len(body) /\ body[o] \in Nat
    BY <1>1, <1>4 DEF ReadSection, StringData
  <2>2. /\ ReadSection(section, body, o).next = o + 1 + body[o]
        /\ ReadSection(section, body, o).warnings = 0
    BY <1>1, <1>4, <2>1 DEF ReadSection, StringData
  <2>. QED
    BY <2>1, <2>2
<1>. QED
  BY <1>2, <1>3, <1>4

\* What is known of a link some sections of which were read.
SoFar(read) ==
    read # Malformed => /\ read.next \in Nat /\ read.next >= 1
                        /\ read.warnings \in Nat

LEMMA NextIsRead ==
    ASSUME NEW link, NEW sofar, NEW section, link.body \in Seq(Nat), SoFar(sofar)
    PROVE  SoFar(ReadNext(link, sofar, section))
<1>. DEFINE read == ReadSection(section, link.body, sofar.next)
<1>1. CASE sofar = Malformed \/ section \notin link.flags \/ read = Malformed
  BY <1>1 DEF ReadNext, With, SoFar
<1>2. CASE sofar # Malformed /\ section \in link.flags /\ read # Malformed
  <2>1. read.next \in Nat /\ read.next >= 1 /\ read.warnings \in Nat
    BY <1>2, SectionIsRead DEF SoFar
  <2>2. ReadNext(link, sofar, section)
          = [next |-> read.next, warnings |-> sofar.warnings + read.warnings,
             values |-> [sofar.values EXCEPT ![section] = read.value]]
    BY <1>2 DEF ReadNext, With
  <2>3. sofar.warnings \in Nat
    BY <1>2 DEF SoFar
  <2>. HIDE DEF read
  <2>. QED
    BY <2>1, <2>2, <2>3 DEF SoFar
<1>. QED
  BY <1>1, <1>2

LEMMA LinkIsRead ==
    ASSUME NEW file, IsLink(file)
    PROVE  \/ ParseLnk(file) \in {Without("FAILED"), Without("UNSUPPORTED")}
           \/ \E record : \E warnings \in Nat :
                 /\ ParseLnk(file) = Completed(<<record>>, warnings)
                 /\ record.times \in [1..3 -> Pairs]
<1>. SUFFICES ASSUME file.signed, file.header, NormalizeLink(file) # Malformed
              PROVE  \E record : \E warnings \in Nat :
                        /\ ParseLnk(file) = Completed(<<record>>, warnings)
                        /\ record.times \in [1..3 -> Pairs]
  BY DEF ParseLnk, LinkResult, IsLink
<1>. DEFINE times == [i \in DOMAIN file.times |-> Filetime(file.times[i])]
            lost == {i \in DOMAIN times : Unrepresentable(times[i])}
            begin == [next |-> 1, warnings |-> Cardinality(lost), values |-> NoValues]
            ids == ReadNext(file, begin, "ids")
            info == ReadNext(file, ids, "info")
            relative == ReadNext(file, info, "relative")
            read == ReadNext(file, relative, "arguments")
            rest == SubSeq(file.body, read.next, Len(file.body))
            extra == ExtraData(rest)
            record == NormalizeLink(file)
<1>1. ParseLnk(file) = Completed(<<record>>, record.warnings)
  BY DEF ParseLnk, LinkResult
<1>2. times \in [1..3 -> Pairs]
  <2>1. \A i \in 1..3 : file.times[i] \in Nat /\ DOMAIN file.times = 1..3
    BY DEF IsLink
  <2>. QED
    BY <2>1, FiletimeFacts
<1>3. Cardinality(lost) \in Nat
  <2>1. DOMAIN times = 1..3
    BY <1>2
  <2>2. lost \in SUBSET (1..3)
    BY <2>1
  <2>. HIDE DEF lost
  <2>. QED
    BY <2>2, SubsetOfPositions
<1>4. read # Malformed
  BY DEF NormalizeLink, UnlessTruncated
<1>5. /\ record.times = times
      /\ record.warnings = read.warnings + extra.warnings
  BY <1>4 DEF NormalizeLink, UnlessTruncated, LinkRecord
<1>6. SoFar(read)
  <2>1. SoFar(begin)
    <3>. HIDE DEF lost
    <3>. QED
      BY <1>3 DEF SoFar
  <2>2. file.body \in Seq(Nat)
    BY DEF IsLink
  <2>. HIDE DEF begin
  <2>3. SoFar(ids)
    BY <2>1, <2>2, NextIsRead
  <2>. HIDE DEF ids
  <2>4. SoFar(info)
    BY <2>2, <2>3, NextIsRead
  <2>. HIDE DEF info
  <2>5. SoFar(relative)
    BY <2>2, <2>4, NextIsRead
  <2>. HIDE DEF relative
  <2>. QED
    BY <2>2, <2>5, NextIsRead
<1>. HIDE DEF read, record, times
<1>7. read.next \in Nat /\ read.next >= 1 /\ read.warnings \in Nat
  BY <1>4, <1>6 DEF SoFar
<1>8. rest \in Seq(Nat)
  <2>1. Len(file.body) \in Nat /\ \A k \in 1..Len(file.body) : file.body[k] \in Nat
    BY LenProperties, ElementOfSeq DEF IsLink
  <2>2. \A k \in read.next..Len(file.body) : file.body[k] \in Nat
    BY <1>7, <2>1
  <2>. QED
    BY <1>7, <2>1, <2>2, SubSeqProperties
<1>. HIDE DEF rest
<1>9. extra.warnings \in Nat
  <2>1. extra \in Chunks
    BY <1>8, UnitsAreRead DEF ExtraData, LeastBlock, BlockWidth
  <2>. QED
    BY <2>1 DEF Chunks
<1>. HIDE DEF extra
<1>10. record.warnings \in Nat
  BY <1>5, <1>7, <1>9
<1>. QED
  BY <1>1, <1>2, <1>5, <1>10


-----------------------------------------------------------------------------
\* Master file tables

Chains(A) == Seq(A) \union {Malformed}

\* One turn of the walk over the attributes, f being the walk.
AttributesStep(area, f, o) ==
    IF o > Len(area) THEN Malformed
    ELSE IF area[o].type = "END" THEN <<>>
    ELSE IF area[o].length < 1 \/ o + area[o].length > Len(area) + 1 THEN Malformed
    ELSE IF ~Sound(area[o]) THEN Malformed
    ELSE IF f[o + area[o].length] = Malformed THEN Malformed
         ELSE <<area[o]>> \o f[o + area[o].length]

\* The attributes of a record are taken from its area, the sound ones only.
SoundIn(area) == {a \in ToSet(area) : Sound(a)}

LEMMA AttributesAreRead ==
    ASSUME NEW area, area \in Seq(ToSet(area)), \A a \in ToSet(area) : a.length \in Nat
    PROVE  Attributes(area) \in Chains(SoundIn(area))
<1>. DEFINE D == 1..Len(area) + 1
            A == SoundIn(area)
            V == Chains(A)
            rank == [o \in D |-> Len(area) + 1 - o]
            F == [p \in [D -> V] \X D |-> AttributesStep(area, p[1], p[2])]
            Eq(f) == f = [o \in D |-> AttributesStep(area, f, o)]
            walk == CHOOSE f : Eq(f)
<1>1. Len(area) \in Nat
      /\ \A o \in 1..Len(area) : (Sound(area[o]) => area[o] \in A) /\ area[o].length \in Nat
  BY SequenceOf DEF SoundIn
<1>. HIDE DEF A
<1>2. Attributes(area) = AtMost(MaxAttributes, walk[1])
  BY DEF Attributes, AttributesStep
<1>3. ASSUME NEW o \in D, NEW f, \A k \in D : k > o => f[k] \in V
      PROVE  AttributesStep(area, f, o) \in V
  <2>1. Malformed \in V /\ <<>> \in V
    BY DEF Chains
  <2>2. ASSUME o <= Len(area), ~(area[o].length < 1), ~(o + area[o].length > Len(area) + 1),
               Sound(area[o]), f[o + area[o].length] # Malformed
        PROVE  <<area[o]>> \o f[o + area[o].length] \in V
    <3>1. o \in 1..Len(area) /\ area[o].length \in Nat /\ area[o] \in A
      BY <1>1, <2>2
    <3>2. o + area[o].length \in D /\ o + area[o].length > o
      BY <1>1, <2>2, <3>1
    <3>3. f[o + area[o].length] \in Seq(A)
      BY <1>3, <2>2, <3>2 DEF Chains
    <3>4. <<area[o]>> \o f[o + area[o].length] \in Seq(A)
      BY <3>1, <3>3, ConcatProperties
    <3>. QED
      BY <3>4 DEF Chains
  <2>. HIDE DEF V
  <2>. QED
    BY <1>1, <2>1, <2>2 DEF AttributesStep
<1>4. \E f \in [D -> V] : Eq(f)
  <2>1. V # {} /\ rank \in [D -> Nat]
    BY <1>1 DEF Chains
  <2>2. F \in [[D -> V] \X D -> V]
    <3>1. ASSUME NEW g \in [D -> V], NEW o \in D
          PROVE  AttributesStep(area, g, o) \in V
      <4>. HIDE DEF V
      <4>. QED
        BY <1>3
    <3>. HIDE DEF D, V
    <3>. QED
      BY <3>1
  <2>3. ASSUME NEW g \in [D -> V], NEW h \in [D -> V], NEW o \in D,
               \A k \in D : rank[k] < rank[o] => g[k] = h[k]
        PROVE  AttributesStep(area, g, o) = AttributesStep(area, h, o)
    <3>1. ASSUME o <= Len(area), ~(area[o].length < 1), ~(o + area[o].length > Len(area) + 1)
          PROVE  g[o + area[o].length] = h[o + area[o].length]
      <4>1. o \in 1..Len(area) /\ area[o].length \in Nat
        BY <1>1, <3>1
      <4>2. o + area[o].length \in D /\ rank[o + area[o].length] < rank[o]
        BY <1>1, <3>1, <4>1
      <4>. HIDE DEF D, rank
      <4>. QED
        BY <2>3, <4>2
    <3>2. CASE o <= Len(area) /\ ~(area[o].length < 1) /\ ~(o + area[o].length > Len(area) + 1)
      BY <3>1, <3>2 DEF AttributesStep
    <3>3. CASE o > Len(area) \/ area[o].length < 1 \/ o + area[o].length > Len(area) + 1
      BY <1>1, <3>3 DEF AttributesStep
    <3>. QED
      BY <1>1, <3>2, <3>3
  <2>4. \A g, h \in [D -> V], o \in D :
          (\A k \in D : rank[k] < rank[o] => g[k] = h[k]) => F[<<g, o>>] = F[<<h, o>>]
    <3>. TAKE g, h \in [D -> V], o \in D
    <3>. HAVE \A k \in D : rank[k] < rank[o] => g[k] = h[k]
    <3>1. AttributesStep(area, g, o) = AttributesStep(area, h, o)
      <4>. HIDE DEF D, V, rank
      <4>. QED
        BY <2>3
    <3>2. F[<<g, o>>] = AttributesStep(area, g, o) /\ F[<<h, o>>] = AttributesStep(area, h, o)
      <4>. HIDE DEF D, V, rank
      <4>. QED
        OBVIOUS
    <3>. QED
      BY <3>1, <3>2
  <2>5. \A g \in [D -> V], o \in D : F[<<g, o>>] = AttributesStep(area, g, o)
    <3>. HIDE DEF D, V
    <3>. QED
      OBVIOUS
  <2>. HIDE DEF D, V, rank, F
  <2>6. WellRanked(D, V, rank, F)
    BY <2>1, <2>2, <2>4 DEF WellRanked
  <2>7. Solvable(D, V, F)
    BY <2>6, Recursion
  <2>8. PICK f \in [D -> V] : \A o \in D : f[o] = F[<<f, o>>]
    BY <2>7 DEF Solvable
  <2>9. \A o \in D : f[o] = AttributesStep(area, f, o)
    BY <2>5, <2>8
  <2>. QED
    BY <2>8, <2>9
<1>5. Eq(walk)
  <2>. HIDE DEF Eq
  <2>. QED
    BY <1>4
<1>. HIDE DEF walk
<1>6. ASSUME NEW o \in D, \A k \in D : k > o => walk[k] \in V
      PROVE  walk[o] \in V
  <2>1. AttributesStep(area, walk, o) \in V
    BY <1>3, <1>6
  <2>. QED
    BY <1>5, <2>1
<1>. DEFINE T == {o \in D : walk[o] \in V}
<1>7. D \subseteq T
  <2>1. Inherited(Len(area) + 1, T)
    BY <1>6 DEF Inherited
  <2>2. Len(area) + 1 \in Nat
    BY <1>1
  <2>. HIDE DEF T
  <2>. QED
    BY <2>1, <2>2, BackwardInduction
<1>. HIDE DEF walk
<1>8. walk[1] \in V /\ AtMost(MaxAttributes, walk[1]) \in {walk[1], Malformed}
  BY <1>1, <1>7 DEF AtMost
<1>. HIDE DEF V
<1>9. Malformed \in V
  BY DEF V, Chains
<1>. QED
  BY <1>2, <1>8, <1>9 DEF V, A

\* What is kept of a record: two families of times, and warnings.
IsRecord(r) ==
    /\ "boot" \notin DOMAIN r
    /\ r.warnings \in Nat
    /\ r.si # None => r.si \in Seq(Pairs)
    /\ r.fns \in Seq(Seq(Pairs))

LEMMA TimestampsAreRead ==
    ASSUME NEW values \in Seq(Nat)
    PROVE  /\ Timestamps(values) \in Seq(Pairs)
           /\ Cardinality(Unrepresented(Timestamps(values))) \in Nat
<1>1. Len(values) \in Nat /\ DOMAIN values = 1..Len(values)
      /\ \A i \in 1..Len(values) : values[i] \in Nat
  BY LenProperties, ElementOfSeq
<1>2. Timestamps(values) \in [1..Len(values) -> Pairs]
  BY <1>1, FiletimeFacts DEF Timestamps
<1>3. Timestamps(values) \in Seq(Pairs)
  BY <1>1, <1>2, SeqDef, SMTT(40)
<1>4. Unrepresented(Timestamps(values)) \in SUBSET (1..Len(values))
  BY <1>2 DEF Unrepresented
<1>. QED
  BY <1>1, <1>3, <1>4, SubsetOfPositions

LEMMA RecordIsRead ==
    ASSUME NEW A, \A a \in A : IsAttribute(a), NEW attributes \in Seq(A), NEW fixed,
           RecordFrom(fixed, attributes) # None
    PROVE  IsRecord(RecordFrom(fixed, attributes))
<1>. DEFINE standard == OfType(attributes, "SI")
            names == OfType(attributes, "FN")
            data == OfType(attributes, "DATA")
            both == standard \o names
            places == {i \in DOMAIN both : both[i].resident}
            resident == KeepAt(both, places)
            counts == [i \in DOMAIN resident |->
                          Cardinality(Unrepresented(Timestamps(resident[i].times)))]
            si == IF standard = <<>> THEN None ELSE Timestamps(standard[1].times)
            runs == [i \in DOMAIN data |-> DataRuns(data[i].runs)]
            fns == [i \in DOMAIN names |-> Timestamps(names[i].times)]
<1>1. RecordFrom(fixed, attributes)
        = [words |-> fixed, si |-> si, data |-> runs, fns |-> fns, warnings |-> Total(counts)]
  BY DEF RecordFrom
<1>2. ASSUME NEW t PROVE OfType(attributes, t) \in Seq(A)
  BY KeepAtKeeps DEF OfType
<1>3. standard \in Seq(A) /\ names \in Seq(A)
  BY <1>2
<1>. HIDE DEF standard, names, data
<1>4. both \in Seq(A)
  BY <1>3, ConcatProperties
<1>5. resident \in Seq(A)
  <2>1. places \in SUBSET DOMAIN both
    OBVIOUS
  <2>. HIDE DEF both, places
  <2>. QED
    BY <1>4, <2>1, KeepAtKeeps
<1>. HIDE DEF resident
<1>6. ASSUME NEW s \in Seq(A), NEW i \in 1..Len(s)
      PROVE  /\ Timestamps(s[i].times) \in Seq(Pairs)
             /\ Cardinality(Unrepresented(Timestamps(s[i].times))) \in Nat
  <2>1. s[i].times \in Seq(Nat)
    BY ElementOfSeq DEF IsAttribute
  <2>. QED
    BY <2>1, TimestampsAreRead
<1>7. Total(counts) \in Nat
  <2>1. Len(resident) \in Nat /\ DOMAIN resident = 1..Len(resident)
    BY <1>5, LenProperties
  <2>2. counts \in [1..Len(resident) -> Nat]
    BY <1>5, <1>6, <2>1
  <2>. HIDE DEF counts
  <2>. QED
    BY <2>1, <2>2, TotalIsNatural
<1>8. fns \in Seq(Seq(Pairs))
  <2>1. Len(names) \in Nat /\ DOMAIN names = 1..Len(names)
    BY <1>3, LenProperties
  <2>2. fns \in [1..Len(names) -> Seq(Pairs)]
    BY <1>3, <1>6, <2>1
  <2>. HIDE DEF fns
  <2>. QED
    BY <2>1, <2>2, SeqDef
<1>9. si # None => si \in Seq(Pairs)
  <2>. SUFFICES ASSUME standard # <<>>
                PROVE  Timestamps(standard[1].times) \in Seq(Pairs)
    OBVIOUS
  <2>1. 1 \in 1..Len(standard)
    BY <1>3, EmptySeq, LenProperties
  <2>. QED
    BY <1>3, <1>6, <2>1
<1>. HIDE DEF si, runs, fns, counts
<1>. QED
  BY <1>1, <1>7, <1>8, <1>9 DEF IsRecord

IsSlot(s) ==
    /\ s.sig \in {"FILE", "zero", "other"}
    /\ s.area \in Seq(ToSet(s.area))
    /\ \A a \in ToSet(s.area) : IsAttribute(a)

\* A slot is no record, raises, or gives one.
LEMMA SlotIsRead ==
    ASSUME NEW slot, IsSlot(slot), NEW sectorSize,
           RecordOf(slot, sectorSize) \notin {None, Malformed}
    PROVE  IsRecord(RecordOf(slot, sectorSize))
<1>. DEFINE attributes == Attributes(slot.area)
            fixed == ApplyFixup(slot, sectorSize)
<1>1. attributes \in Chains(SoundIn(slot.area))
  BY AttributesAreRead DEF IsSlot, IsAttribute
<1>. HIDE DEF attributes, fixed
<1>2. attributes # Malformed /\ RecordOf(slot, sectorSize) = RecordFrom(fixed, attributes)
  BY DEF RecordOf, UnlessMalformed, attributes, fixed
<1>3. attributes \in Seq(SoundIn(slot.area))
  BY <1>1, <1>2 DEF Chains
<1>4. \A a \in SoundIn(slot.area) : IsAttribute(a)
  BY DEF IsSlot, SoundIn
<1>. QED
  BY <1>2, <1>3, <1>4, RecordIsRead

LEMMA DisjointPositions ==
    ASSUME NEW n \in Nat, NEW P \in SUBSET (1..n), NEW Q \in SUBSET (1..n), P \cap Q = {}
    PROVE  Cardinality(P \union Q) = Cardinality(P) + Cardinality(Q)
<1>1. /\ IsFiniteSet(P) /\ IsFiniteSet(Q)
      /\ Cardinality(P) \in Nat /\ Cardinality(Q) \in Nat
  BY SubsetOfPositions
<1>2. Cardinality(P \union Q) = Cardinality(P) + Cardinality(Q) - Cardinality(P \cap Q)
  BY <1>1, FS_Union
<1>3. Cardinality(P \cap Q) = 0
  BY FS_EmptySet
<1>. QED
  BY <1>1, <1>2, <1>3

\* What the records of a table are: the boot record of a volume first, k of
\* them, then n records; and what is missing is a warning.
TableRead(file, records, warnings, k, n) ==
    /\ DOMAIN records = 1..k + n
    /\ \A i \in 1..k : "boot" \in DOMAIN records[i]
    /\ \A i \in k + 1..k + n : IsRecord(records[i])
    /\ n + warnings >= Cardinality({i \in DOMAIN Examined(file) : Examined(file)[i].sig # "zero"})

LEMMA ExaminedSlots ==
    ASSUME NEW file, IsTable(file)
    PROVE  /\ Examined(file) \in Seq(ToSet(file.slots))
           /\ Len(Examined(file)) \in Nat /\ DOMAIN Examined(file) = 1..Len(Examined(file))
           /\ \A i \in 1..Len(Examined(file)) : IsSlot(Examined(file)[i])
<1>. DEFINE slots == file.slots
            S == ToSet(file.slots)
            last == IF slots = <<>> THEN 0 ELSE 1
<1>1. slots \in Seq(S) /\ \A s \in S : IsSlot(s)
  BY DEF IsTable, IsSlot
<1>. HIDE DEF slots, S
<1>2. Examined(file) = IF file.layout = "volume" THEN SubSeq(slots, 1, last) ELSE slots
  BY DEF Examined, slots
<1>3. SubSeq(slots, 1, last) \in Seq(S)
  <2>1. Len(slots) \in Nat /\ (slots # <<>> => Len(slots) >= 1)
    BY <1>1, LenProperties, EmptySeq
  <2>2. last \in Int /\ \A i \in 1..last : i \in 1..Len(slots)
    BY <2>1
  <2>3. \A i \in 1..last : slots[i] \in S
    BY <1>1, <2>2, ElementOfSeq
  <2>. HIDE DEF last
  <2>. QED
    BY <2>2, <2>3, SubSeqProperties
<1>4. Examined(file) \in Seq(S)
  <2>. HIDE DEF last
  <2>. QED
    BY <1>1, <1>2, <1>3
<1>5. \A i \in 1..Len(Examined(file)) : Examined(file)[i] \in S
  BY <1>4, ElementOfSeq
<1>. QED
  BY <1>1, <1>4, <1>5, LenProperties DEF S

LEMMA TableIsRead ==
    ASSUME NEW file, IsTable(file)
    PROVE  \/ ParseMft(file) \in {None, Without("FAILED"), Without("UNSUPPORTED")}
           \/ \E records : \E warnings \in Nat, k \in {0, 1}, n \in Nat :
                 /\ ParseMft(file) = Completed(records, warnings)
                 /\ TableRead(file, records, warnings, k, n)
<1>. DEFINE examined == Examined(file)
            m == Len(examined)
            files == WithSignature(examined, "FILE")
            others == WithSignature(examined, "other")
            slots == KeepAt(examined, files)
            outcomes == Outcomes(file)
            bad == {i \in DOMAIN outcomes : outcomes[i] = Malformed}
            good == {i \in DOMAIN outcomes : outcomes[i] # Malformed}
            kept == KeepAt(outcomes, good)
            counts == [i \in DOMAIN kept |-> kept[i].warnings]
            trailing == IF file.layout = "stream" /\ file.trailing THEN 1 ELSE 0
            first == [boot |-> TRUE]
            boot == IF file.layout = "volume" THEN <<first>> ELSE <<>>
            warnings == Skipped(file, outcomes) + Total(counts) + trailing
            records == boot \o kept
            S == ToSet(file.slots)
            R == {RecordOf(s, file.sectorSize) : s \in S}
            n == Len(kept)
            k == Len(boot)
<1>1. SUFFICES ASSUME ParseMft(file) = Completed(records, warnings),
                      ~(\E i \in DOMAIN outcomes : outcomes[i] = None)
               PROVE  \E w \in Nat, j \in {0, 1}, l \in Nat :
                         /\ ParseMft(file) = Completed(records, w)
                         /\ TableRead(file, records, w, j, l)
  BY DEF ParseMft, ParseRecords
<1>2. /\ examined \in Seq(S)
      /\ m \in Nat /\ DOMAIN examined = 1..m
      /\ \A i \in 1..m : IsSlot(examined[i])
  BY ExaminedSlots
<1>3. trailing \in Nat
  OBVIOUS
<1>4. /\ files \in SUBSET (1..m) /\ others \in SUBSET (1..m) /\ files \cap others = {}
      /\ {i \in DOMAIN examined : examined[i].sig # "zero"} = files \union others
  BY <1>2 DEF WithSignature, IsSlot
<1>5. /\ Cardinality(files) \in Nat /\ Cardinality(others) \in Nat
      /\ Cardinality({i \in DOMAIN examined : examined[i].sig # "zero"})
           = Cardinality(files) + Cardinality(others)
  <2>. HIDE DEF examined, files, others
  <2>1. m \in Nat /\ files \in SUBSET (1..m) /\ others \in SUBSET (1..m) /\ files \cap others = {}
    BY <1>2, <1>4
  <2>. HIDE DEF m
  <2>2. Cardinality(files \union others) = Cardinality(files) + Cardinality(others)
    BY <2>1, DisjointPositions
  <2>3. Cardinality(files) \in Nat /\ Cardinality(others) \in Nat
    BY <2>1, SubsetOfPositions
  <2>. QED
    BY <1>4, <2>2, <2>3
<1>6. outcomes = [i \in DOMAIN slots |-> RecordOf(slots[i], file.sectorSize)]
  BY DEF Outcomes
<1>7. Skipped(file, outcomes) = Cardinality(others) + Cardinality(bad)
  BY DEF Skipped
<1>. HIDE DEF examined, files, others, trailing, outcomes, S
<1>8. /\ slots \in Seq(S) /\ Len(slots) = Cardinality(files) /\ DOMAIN slots = 1..Len(slots)
      /\ \A i \in 1..Len(slots) : IsSlot(slots[i])
  <2>1. /\ slots \in Seq(S) /\ Len(slots) = Cardinality(files)
        /\ \A i \in 1..Cardinality(files) :
              InOrder(files)[i] \in files /\ slots[i] = examined[InOrder(files)[i]]
    BY <1>2, <1>4, KeepAtKeeps
  <2>. HIDE DEF slots
  <2>. QED
    BY <1>2, <1>4, <2>1, LenProperties
<1>. HIDE DEF slots
<1>9. /\ outcomes \in Seq(R) /\ Len(outcomes) = Cardinality(files)
      /\ DOMAIN outcomes = 1..Cardinality(files)
      /\ \A i \in 1..Cardinality(files) :
            outcomes[i] \notin {None, Malformed} => IsRecord(outcomes[i])
  <2>1. DOMAIN outcomes = 1..Cardinality(files)
    BY <1>6, <1>8
  <2>2. ASSUME NEW i \in 1..Cardinality(files)
        PROVE  /\ outcomes[i] \in R
               /\ outcomes[i] \notin {None, Malformed} => IsRecord(outcomes[i])
    <3>1. IsSlot(slots[i]) /\ slots[i] \in S /\ outcomes[i] = RecordOf(slots[i], file.sectorSize)
      BY <1>6, <1>8, ElementOfSeq
    <3>. QED
      BY <3>1, SlotIsRead
  <2>. HIDE DEF R
  <2>3. outcomes \in [1..Cardinality(files) -> R]
    BY <1>6, <1>8, <2>1, <2>2
  <2>4. outcomes \in Seq(R)
    BY <1>5, <2>3, SeqDef
  <2>. QED
    BY <1>5, <2>1, <2>2, <2>4, LenProperties
<1>. HIDE DEF R
<1>10. /\ good \in SUBSET DOMAIN outcomes /\ bad \in SUBSET DOMAIN outcomes
       /\ good \cap bad = {} /\ good \union bad = DOMAIN outcomes
       /\ \A i \in good : outcomes[i] # Malformed
  OBVIOUS
<1>. HIDE DEF good, bad
<1>11. /\ Cardinality(good) \in Nat /\ Cardinality(bad) \in Nat
       /\ Cardinality(good) + Cardinality(bad) = Cardinality(files)
  <2>1. Cardinality(1..Cardinality(files)) = Cardinality(files)
    BY <1>5, FS_Interval
  <2>2. /\ Cardinality(files) \in Nat
        /\ good \in SUBSET (1..Cardinality(files)) /\ bad \in SUBSET (1..Cardinality(files))
    BY <1>5, <1>9, <1>10
  <2>3. Cardinality(good) \in Nat /\ Cardinality(bad) \in Nat
    BY <2>2, SubsetOfPositions
  <2>4. Cardinality(good \union bad) = Cardinality(good) + Cardinality(bad)
    <3>. DEFINE l == Cardinality(files)
    <3>1. /\ l \in Nat /\ good \in SUBSET (1..l) /\ bad \in SUBSET (1..l)
          /\ good \cap bad = {}
      BY <1>10, <2>2
    <3>. HIDE DEF l
    <3>. QED
      BY <3>1, DisjointPositions
  <2>. QED
    BY <1>9, <1>10, <2>1, <2>3, <2>4
<1>12. /\ kept \in Seq(R) /\ n = Cardinality(good) /\ DOMAIN kept = 1..n
       /\ \A i \in 1..n : IsRecord(kept[i])
  <2>1. /\ kept \in Seq(R) /\ Len(kept) = Cardinality(good)
        /\ \A i \in 1..Cardinality(good) :
              InOrder(good)[i] \in good /\ kept[i] = outcomes[InOrder(good)[i]]
    BY <1>9, <1>10, KeepAtKeeps
  <2>. HIDE DEF kept
  <2>2. ASSUME NEW i \in 1..n PROVE IsRecord(kept[i])
    BY <1>1, <1>9, <1>10, <2>1
  <2>. QED
    BY <2>1, <2>2, LenProperties
<1>. HIDE DEF kept
<1>13. Total(counts) \in Nat
  <2>1. n \in Nat /\ counts \in [1..n -> Nat]
    BY <1>11, <1>12 DEF IsRecord
  <2>. HIDE DEF counts, n
  <2>. QED
    BY <2>1, TotalIsNatural
<1>. HIDE DEF counts
<1>14. /\ warnings \in Nat
       /\ n + warnings >= Cardinality({i \in DOMAIN examined : examined[i].sig # "zero"})
  BY <1>3, <1>5, <1>7, <1>11, <1>12, <1>13
<1>15. /\ boot \in Seq(R \union {first}) /\ k \in {0, 1}
       /\ \A i \in 1..k : "boot" \in DOMAIN boot[i]
  <2>1. "boot" \in DOMAIN first
    OBVIOUS
  <2>. HIDE DEF first
  <2>2. CASE file.layout = "volume"
    BY <2>1, <2>2
  <2>3. CASE file.layout # "volume"
    BY <2>3
  <2>. QED
    BY <2>2, <2>3
<1>. HIDE DEF boot, warnings
<1>16. /\ DOMAIN records = 1..k + n
       /\ \A i \in 1..k : records[i] = boot[i]
       /\ \A i \in k + 1..k + n : i - k \in 1..n /\ records[i] = kept[i - k]
  <2>1. kept \in Seq(R \union {first})
    BY <1>12, ElementOfSeq, SeqDef
  <2>2. /\ records \in Seq(R \union {first})
        /\ Len(records) = k + n
        /\ \A i \in 1..k + n : records[i] = IF i <= k THEN boot[i] ELSE kept[i - k]
    BY <1>15, <2>1, ConcatProperties
  <2>. HIDE DEF records
  <2>3. n \in Nat /\ k \in Nat
    BY <1>11, <1>12, <1>15
  <2>. HIDE DEF n, k
  <2>. QED
    BY <2>2, <2>3, LenProperties
<1>17. TableRead(file, records, warnings, k, n)
  <2>1. /\ \A i \in 1..k : "boot" \in DOMAIN records[i]
        /\ \A i \in k + 1..k + n : IsRecord(records[i])
    BY <1>12, <1>15, <1>16
  <2>. HIDE DEF records, n, k
  <2>. QED
    BY <1>14, <1>16, <2>1 DEF TableRead, examined
<1>. HIDE DEF records
<1>. QED
  BY <1>1, <1>11, <1>12, <1>14, <1>15, <1>17


-----------------------------------------------------------------------------
\* Registry hives: the order of the key paths

LEMMA PrefixMeans ==
    ASSUME NEW p \in Seq(Nat), NEW q \in Seq(Nat)
    PROVE  IsPrefix(p, q) <=> /\ Len(p) <= Len(q)
                              /\ \A i \in 1..Len(p) : p[i] = q[i]
<1>1. /\ Len(p) \in Nat /\ Len(q) \in Nat
      /\ \A i \in 1..Len(p) : p[i] \in Nat
      /\ \A i \in 1..Len(q) : q[i] \in Nat
  BY LenProperties, ElementOfSeq
<1>2. SUFFICES ASSUME Len(p) <= Len(q)
               PROVE  SubSeq(p, 1, Len(p)) = SubSeq(q, 1, Len(p))
                        <=> \A i \in 1..Len(p) : p[i] = q[i]
  BY <1>1 DEF IsPrefix
<1>3. /\ Len(SubSeq(p, 1, Len(p))) = Len(p) /\ SubSeq(p, 1, Len(p)) \in Seq(Nat)
      /\ \A i \in 1..Len(p) : SubSeq(p, 1, Len(p))[i] = p[i]
  <2>. DEFINE l == Len(p)
  <2>1. 1 \in Int /\ l \in Int /\ \A i \in 1..l : p[i] \in Nat
    BY <1>1
  <2>. HIDE DEF l
  <2>2. /\ SubSeq(p, 1, l) \in Seq(Nat)
        /\ Len(SubSeq(p, 1, l)) = IF 1 <= l THEN l - 1 + 1 ELSE 0
        /\ \A i \in 1..l - 1 + 1 : SubSeq(p, 1, l)[i] = p[1 + i - 1]
    BY <2>1, SubSeqProperties
  <2>3. l \in Nat
    BY <1>1 DEF l
  <2>. QED
    BY <2>2, <2>3 DEF l
<1>4. /\ Len(SubSeq(q, 1, Len(p))) = Len(p) /\ SubSeq(q, 1, Len(p)) \in Seq(Nat)
      /\ \A i \in 1..Len(p) : SubSeq(q, 1, Len(p))[i] = q[i]
  <2>. DEFINE l == Len(p)
  <2>1. l \in Nat /\ 1 \in Int /\ l \in Int /\ \A i \in 1..l : q[i] \in Nat
    BY <1>1, <1>2
  <2>. HIDE DEF l
  <2>2. /\ SubSeq(q, 1, l) \in Seq(Nat)
        /\ Len(SubSeq(q, 1, l)) = IF 1 <= l THEN l - 1 + 1 ELSE 0
        /\ \A i \in 1..l - 1 + 1 : SubSeq(q, 1, l)[i] = q[1 + i - 1]
    BY <2>1, SubSeqProperties
  <2>. QED
    BY <2>1, <2>2 DEF l
<1>. DEFINE a == SubSeq(p, 1, Len(p))
            b == SubSeq(q, 1, Len(p))
<1>5. (\A i \in 1..Len(p) : a[i] = b[i]) => a = b
  <2>. HIDE DEF a, b
  <2>1. /\ a \in Seq(Nat) /\ b \in Seq(Nat) /\ Len(a) = Len(p) /\ Len(b) = Len(p)
    BY <1>3, <1>4 DEF a, b
  <2>. QED
    BY <2>1, SeqEqual
<1>. QED
  BY <1>3, <1>4, <1>5

\* The first difference of two paths is a smaller name in p.
Left(p, q) ==
    \E i \in DOMAIN p \intersect DOMAIN q :
        /\ p[i] < q[i]
        /\ \A j \in 1..i - 1 : p[j] = q[j]

LEMMA BeforeExtends ==
    ASSUME NEW p \in Seq(Nat), NEW q \in Seq(Nat), NEW r \in Seq(Nat),
           Before(p, q), IsPrefix(q, r)
    PROVE  Before(p, r)
<1>1. /\ Len(q) \in Nat /\ Len(r) \in Nat /\ Len(p) \in Nat /\ Len(q) <= Len(r)
      /\ \A i \in 1..Len(q) : q[i] = r[i]
      /\ DOMAIN p = 1..Len(p) /\ DOMAIN q = 1..Len(q) /\ DOMAIN r = 1..Len(r)
  BY PrefixMeans, LenProperties
<1>2. CASE IsStrictPrefix(p, q)
  <2>1. IsPrefix(p, q) /\ p # q
    BY <1>2 DEF IsStrictPrefix
  <2>2. Len(p) <= Len(q) /\ \A i \in 1..Len(p) : p[i] = q[i]
    BY <2>1, PrefixMeans
  <2>3. \A i \in 1..Len(p) : p[i] = r[i]
    BY <1>1, <2>2
  <2>4. IsPrefix(p, r)
    BY <1>1, <2>2, <2>3, PrefixMeans, SMTT(40)
  <2>5. p # r
    <3>1. SUFFICES ASSUME p = r PROVE FALSE
      OBVIOUS
    <3>2. Len(p) = Len(q)
      <4>1. Len(p) = Len(r)
        BY <3>1
      <4>2. Len(p) \in Nat /\ Len(q) \in Nat /\ Len(q) <= Len(r) /\ Len(p) <= Len(q)
        BY <1>1, <2>2
      <4>. QED
        BY <4>1, <4>2
    <3>3. p = q
      BY <2>2, <3>2, SeqEqual
    <3>. QED
      BY <2>1, <3>3
  <2>. QED
    BY <2>4, <2>5 DEF Before, IsStrictPrefix
<1>3. CASE Left(p, q)
  <2>1. PICK i \in DOMAIN p \intersect DOMAIN q :
             p[i] < q[i] /\ \A j \in 1..i - 1 : p[j] = q[j]
    BY <1>3 DEF Left
  <2>2. i \in DOMAIN p \intersect DOMAIN r /\ p[i] < r[i]
    BY <1>1, <2>1
  <2>3. \A j \in 1..i - 1 : j \in 1..Len(q)
    BY <1>1, <2>1
  <2>4. \A j \in 1..i - 1 : p[j] = r[j]
    BY <1>1, <2>1, <2>3
  <2>. QED
    BY <2>2, <2>4 DEF Before
<1>. QED
  BY <1>2, <1>3 DEF Before, Left

LEMMA LeftExtends ==
    ASSUME NEW p \in Seq(Nat), NEW q \in Seq(Nat), NEW r \in Seq(Nat),
           Left(p, q), IsPrefix(p, r)
    PROVE  Left(r, q)
<1>1. /\ Len(q) \in Nat /\ Len(r) \in Nat /\ Len(p) \in Nat /\ Len(p) <= Len(r)
      /\ \A i \in 1..Len(p) : p[i] = r[i]
      /\ DOMAIN p = 1..Len(p) /\ DOMAIN q = 1..Len(q) /\ DOMAIN r = 1..Len(r)
  BY PrefixMeans, LenProperties
<1>2. PICK i \in DOMAIN p \intersect DOMAIN q :
           p[i] < q[i] /\ \A j \in 1..i - 1 : p[j] = q[j]
  BY DEF Left
<1>3. i \in DOMAIN r \intersect DOMAIN q /\ r[i] < q[i]
  BY <1>1, <1>2
<1>4. \A j \in 1..i - 1 : j \in 1..Len(p)
  BY <1>1, <1>2
<1>5. \A j \in 1..i - 1 : r[j] = q[j]
  BY <1>1, <1>2, <1>4
<1>. QED
  BY <1>3, <1>5 DEF Left

LEMMA NeverBeforeItself ==
    ASSUME NEW p \in Seq(Nat)
    PROVE  ~Before(p, p)
<1>1. \A i \in DOMAIN p : p[i] \in Nat
  BY LenProperties, ElementOfSeq
<1>. QED
  BY <1>1 DEF Before, IsStrictPrefix

\* A subkey is its parent's path and a name.
LEMMA AppendedPath ==
    ASSUME NEW p \in Seq(Nat), NEW x \in Nat
    PROVE  /\ Append(p, x) \in Seq(Nat) /\ Len(Append(p, x)) = Len(p) + 1
           /\ IsStrictPrefix(p, Append(p, x))
           /\ Last(Append(p, x)) = x
           /\ \A q \in Seq(Nat) : IsStrictPrefix(q, Append(p, x)) =>
                                     q = p \/ IsStrictPrefix(q, p)
<1>. DEFINE s == Append(p, x)
<1>1. /\ Len(p) \in Nat /\ s \in Seq(Nat) /\ Len(s) = Len(p) + 1
      /\ \A i \in 1..Len(p) : s[i] = p[i]
      /\ s[Len(p) + 1] = x
  BY AppendProperties, LenProperties
<1>. HIDE DEF s
<1>2. IsPrefix(p, s)
  BY <1>1, PrefixMeans
<1>3. p # s
  BY <1>1
<1>4. ASSUME NEW q \in Seq(Nat), IsStrictPrefix(q, s) PROVE q = p \/ IsStrictPrefix(q, p)
  <2>1. Len(q) \in Nat /\ IsPrefix(q, s) /\ q # s
    BY <1>4, LenProperties DEF IsStrictPrefix
  <2>2. Len(q) <= Len(s) /\ \A i \in 1..Len(q) : q[i] = s[i]
    BY <1>1, <2>1, PrefixMeans
  <2>3. Len(q) # Len(s)
    BY <1>1, <2>1, <2>2, SeqEqual
  <2>4. Len(q) <= Len(p) /\ \A i \in 1..Len(q) : q[i] = p[i]
    BY <1>1, <2>1, <2>2, <2>3
  <2>. QED
    BY <2>4, PrefixMeans DEF IsStrictPrefix
<1>. QED
  BY <1>1, <1>2, <1>3, <1>4 DEF s, Last, IsStrictPrefix

LEMMA SubkeyPath ==
    ASSUME NEW p \in Seq(Nat), NEW k \in Seq(Nat), Len(k) = Len(p) + 1, IsPrefix(p, k)
    PROVE  Last(k) \in Nat /\ k = Append(p, Last(k))
<1>1. /\ Len(p) \in Nat /\ Len(k) \in Nat
      /\ \A i \in 1..Len(p) : p[i] = k[i]
  BY PrefixMeans, LenProperties
<1>2. Last(k) = k[Len(p) + 1] /\ Len(p) + 1 \in 1..Len(k)
  BY <1>1 DEF Last
<1>3. Last(k) \in Nat
  BY <1>2, ElementOfSeq
<1>. DEFINE s == Append(p, Last(k))
<1>4. /\ s \in Seq(Nat) /\ Len(s) = Len(p) + 1
      /\ \A i \in 1..Len(p) : s[i] = p[i]
      /\ s[Len(p) + 1] = Last(k)
  BY <1>3, AppendProperties
<1>. HIDE DEF s
<1>5. \A i \in 1..Len(k) : k[i] = s[i]
  BY <1>1, <1>2, <1>4, SMTT(40)
<1>6. k = s
  BY <1>4, <1>5, SeqEqual
<1>. QED
  BY <1>3, <1>6 DEF s

LEMMA SiblingsInOrder ==
    ASSUME NEW p \in Seq(Nat), NEW x \in Nat, NEW y \in Nat, x < y
    PROVE  Left(Append(p, x), Append(p, y))
<1>1. /\ Len(p) \in Nat
      /\ DOMAIN Append(p, x) = 1..Len(p) + 1 /\ DOMAIN Append(p, y) = 1..Len(p) + 1
      /\ \A i \in 1..Len(p) : Append(p, x)[i] = p[i] /\ Append(p, y)[i] = p[i]
      /\ Append(p, x)[Len(p) + 1] = x /\ Append(p, y)[Len(p) + 1] = y
  BY AppendProperties, LenProperties
<1>. QED
  BY <1>1 DEF Left

\* The names of the keys below a key.
NamesBelow(hive, key) == {Last(k) : k \in Subkeys(hive, key)}

LEMMA SubkeysByName ==
    ASSUME NEW hive, IsHive(hive), NEW key \in hive.keys
    PROVE  /\ NamesBelow(hive, key) \subseteq Nat /\ IsFiniteSet(NamesBelow(hive, key))
           /\ \A x \in NamesBelow(hive, key) : Append(key, x) \in hive.keys
           /\ \A k \in hive.keys : Len(k) = Len(key) + 1 /\ IsPrefix(key, k) =>
                 \E x \in NamesBelow(hive, key) : k = Append(key, x)
<1>1. hive.keys \subseteq Seq(Nat) /\ IsFiniteSet(hive.keys)
  BY DEF IsHive
<1>2. ASSUME NEW k \in Subkeys(hive, key)
      PROVE  Last(k) \in Nat /\ k = Append(key, Last(k)) /\ k \in hive.keys
  BY <1>1, SubkeyPath DEF Subkeys
<1>3. IsFiniteSet(NamesBelow(hive, key))
  <2>1. Subkeys(hive, key) \in SUBSET hive.keys
    BY DEF Subkeys
  <2>2. IsFiniteSet(Subkeys(hive, key))
    BY <1>1, <2>1, FS_Subset
  <2>. DEFINE last == [k \in Subkeys(hive, key) |-> Last(k)]
  <2>3. last \in Surjection(Subkeys(hive, key), NamesBelow(hive, key))
    BY DEF Surjection, NamesBelow
  <2>. QED
    BY <2>2, <2>3, FS_Surjection
<1>4. \A x \in NamesBelow(hive, key) : \E k \in Subkeys(hive, key) : x = Last(k)
  BY DEF NamesBelow
<1>5. \A k \in hive.keys : Len(k) = Len(key) + 1 /\ IsPrefix(key, k) =>
                              k \in Subkeys(hive, key)
  BY DEF Subkeys
<1>6. \A k \in Subkeys(hive, key) : Last(k) \in NamesBelow(hive, key)
  BY DEF NamesBelow
<1>. QED
  BY <1>2, <1>3, <1>4, <1>5, <1>6

\* Subkeys come on top of the stack, the first of them last.
Stacked(stack, front, key, names) ==
    /\ Len(stack) \in Nat /\ Len(stack) >= Len(front)
    /\ \A i \in 1..Len(front) : stack[i] = front[i]
    /\ \A i \in Len(front) + 1..Len(stack) : \E x \in names : stack[i] = Append(key, x)
    /\ \A x \in names : \E i \in Len(front) + 1..Len(stack) : stack[i] = Append(key, x)
    /\ \A i, j \in Len(front) + 1..Len(stack) : i < j => Left(stack[j], stack[i])

LEMMA PushStacks ==
    ASSUME NEW K, NEW front \in Seq(K), NEW key \in Seq(Nat),
           NEW names, names \subseteq Nat, IsFiniteSet(names),
           \A x \in names : Append(key, x) \in K
    PROVE  /\ Push(front, key, names) \in Seq(K)
           /\ Stacked(Push(front, key, names), front, key, names)
<1>. DEFINE m == Cardinality(names)
            l == Len(front)
            order == InOrder(names)
            sorted == Sorted(key, names)
            top == Reverse(sorted)
            stack == Push(front, key, names)
<1>1. /\ m \in Nat /\ l \in Nat
      /\ order \in [1..m -> names]
      /\ \A x \in names : \E k \in 1..m : order[k] = x
      /\ \A i, j \in 1..m : i < j => order[i] < order[j]
  BY InOrderAscends, LenProperties
<1>2. sorted = [i \in 1..m |-> Append(key, order[i])]
  BY DEF Sorted
<1>3. stack = front \o top
  BY DEF Push
<1>. HIDE DEF order, m, sorted, l
<1>4. sorted \in [1..m -> K] /\ Len(sorted) = m
  <2>1. \A i \in 1..m : order[i] \in names
    BY <1>1
  <2>2. sorted \in [1..m -> K]
    BY <1>2, <2>1
  <2>3. sorted \in Seq(K)
    BY <1>1, <2>2, SeqDef
  <2>. QED
    BY <1>1, <2>2, <2>3, LenProperties
<1>5. top = [i \in 1..m |-> sorted[m - i + 1]]
  BY <1>4 DEF Reverse
<1>6. ASSUME NEW i \in 1..m
      PROVE  /\ m - i + 1 \in 1..m /\ top[i] \in K
             /\ order[m - i + 1] \in names /\ order[m - i + 1] \in Nat
             /\ top[i] = Append(key, order[m - i + 1])
  <2>1. m - i + 1 \in 1..m
    BY <1>1
  <2>. QED
    BY <1>1, <1>2, <1>4, <1>5, <2>1
<1>. HIDE DEF top
<1>7. top \in Seq(K) /\ Len(top) = m
  <2>1. top \in [1..m -> K]
    BY <1>5, <1>6
  <2>2. top \in Seq(K)
    BY <1>1, <2>1, SeqDef
  <2>. QED
    BY <1>1, <2>1, <2>2, LenProperties
<1>8. /\ stack \in Seq(K) /\ Len(stack) = l + m
      /\ \A i \in 1..l : stack[i] = front[i]
      /\ \A i \in l + 1..l + m : i - l \in 1..m /\ stack[i] = top[i - l]
  <2>1. /\ front \o top \in Seq(K) /\ Len(front \o top) = l + m
        /\ \A i \in 1..l + m : (front \o top)[i] = IF i <= l THEN front[i] ELSE top[i - l]
    BY <1>7, ConcatProperties DEF l
  <2>. QED
    BY <1>1, <1>3, <2>1
<1>. HIDE DEF stack
<1>9. ASSUME NEW i \in l + 1..l + m
      PROVE  \E x \in names : stack[i] = Append(key, x)
  <2>. DEFINE j == i - l
              x == order[m - j + 1]
  <2>1. j \in 1..m /\ stack[i] = top[j]
    BY <1>8
  <2>. HIDE DEF j
  <2>2. x \in names /\ top[j] = Append(key, x)
    BY <1>6, <2>1
  <2>. HIDE DEF x
  <2>. QED
    BY <2>1, <2>2
<1>10. ASSUME NEW x \in names
       PROVE  \E i \in l + 1..l + m : stack[i] = Append(key, x)
  <2>1. PICK k \in 1..m : order[k] = x
    BY <1>1
  <2>2. m - k + 1 \in 1..m /\ m - (m - k + 1) + 1 = k
    BY <1>1
  <2>3. top[m - k + 1] = Append(key, x)
    BY <1>6, <2>1, <2>2
  <2>. DEFINE i == l + (m - k + 1)
  <2>4. i \in l + 1..l + m /\ i - l = m - k + 1
    BY <1>1
  <2>. HIDE DEF i
  <2>. QED
    BY <1>8, <2>3, <2>4
<1>11. ASSUME NEW i \in l + 1..l + m, NEW j \in l + 1..l + m, i < j
       PROVE  Left(stack[j], stack[i])
  <2>. DEFINE a == i - l
              b == j - l
  <2>1. a \in 1..m /\ b \in 1..m /\ a < b /\ stack[i] = top[a] /\ stack[j] = top[b]
    BY <1>1, <1>8, <1>11
  <2>. HIDE DEF a, b
  <2>2. m - b + 1 \in 1..m /\ m - a + 1 \in 1..m /\ m - b + 1 < m - a + 1
    BY <1>1, <2>1
  <2>3. order[m - b + 1] < order[m - a + 1]
    BY <1>1, <2>2
  <2>4. Left(Append(key, order[m - b + 1]), Append(key, order[m - a + 1]))
    BY <1>6, <2>1, <2>3, SiblingsInOrder
  <2>. QED
    BY <1>6, <2>1, <2>4
<1>. QED
  BY <1>1, <1>8, <1>9, <1>10, <1>11 DEF Stacked, l, stack

\* Every path above a key is a key.
LEMMA AncestorsAreKeys ==
    ASSUME NEW hive, IsHive(hive), NEW key \in hive.keys, NEW p \in Seq(Nat), IsPrefix(p, key)
    PROVE  p \in hive.keys
<1>1. hive.keys \subseteq Seq(Nat) /\ \A k \in hive.keys \ {Root} : Front(k) \in hive.keys
  BY DEF IsHive
<1>. DEFINE S == {d \in Nat : \A k \in hive.keys : IsPrefix(p, k) /\ Len(k) = Len(p) + d =>
                                 p \in hive.keys}
<1>2. 0 \in S
  <2>1. ASSUME NEW k \in hive.keys, IsPrefix(p, k), Len(k) = Len(p) + 0
        PROVE  p \in hive.keys
    <3>1. Len(k) = Len(p) /\ \A i \in 1..Len(p) : p[i] = k[i]
      BY <1>1, <2>1, PrefixMeans, LenProperties
    <3>2. p = k
      BY <1>1, <3>1, SeqEqual
    <3>. QED
      BY <3>2
  <2>. QED
    BY <2>1
<1>3. ASSUME NEW d \in Nat, d \in S PROVE d + 1 \in S
  <2>1. ASSUME NEW k \in hive.keys, IsPrefix(p, k), Len(k) = Len(p) + (d + 1)
        PROVE  p \in hive.keys
    <3>1. /\ k \in Seq(Nat) /\ Len(k) \in Nat /\ Len(p) \in Nat /\ Len(k) >= 1
          /\ \A i \in 1..Len(p) : p[i] = k[i]
      BY <1>1, <2>1, PrefixMeans, LenProperties, SMTT(40)
    <3>2. k # Root
      BY <3>1 DEF Root
    <3>3. Front(k) \in hive.keys
      BY <1>1, <3>2
    <3>4. /\ Front(k) \in Seq(Nat) /\ Len(Front(k)) = Len(k) - 1
          /\ \A i \in 1..Len(k) - 1 : Front(k)[i] = k[i]
      BY <3>1, <3>2, FrontKeeps DEF Root
    <3>5. Len(Front(k)) = Len(p) + d /\ \A i \in 1..Len(p) : p[i] = Front(k)[i]
      BY <2>1, <3>1, <3>4
    <3>6. IsPrefix(p, Front(k))
      BY <3>1, <3>4, <3>5, PrefixMeans
    <3>. QED
      BY <1>3, <3>3, <3>5, <3>6
  <2>. QED
    BY <2>1
<1>4. Nat \subseteq S
  <2>. HIDE DEF S
  <2>. QED
    BY <1>2, <1>3, NaturalsInduct
<1>. DEFINE d == Len(key) - Len(p)
<1>5. d \in Nat /\ Len(key) = Len(p) + d
  <2>1. Len(key) \in Nat /\ Len(p) \in Nat /\ Len(p) <= Len(key)
    BY <1>1, PrefixMeans, LenProperties
  <2>. QED
    BY <2>1
<1>. HIDE DEF d
<1>. QED
  BY <1>4, <1>5


-----------------------------------------------------------------------------
\* Registry hives: the walk

HiveRecords(hive) == [type : {"key", "value"}, key : hive.keys, aware : {hive.aware}]

WalkStates(hive) ==
    [pending : Seq(hive.keys), records : Seq(HiveRecords(hive)), warnings : Nat]

\* The records of a visited key follow those before, the key's own first.
Recorded(records, before, key) ==
    /\ Len(records) \in Nat /\ Len(records) >= Len(before) + 1
    /\ \A i \in 1..Len(before) : records[i] = before[i]
    /\ records[Len(before) + 1].type = "key" /\ records[Len(before) + 1].key = key
    /\ \A i \in Len(before) + 2..Len(records) : records[i].type = "value"

Entered(hive, key) ==
    IF "subkeys" \in hive.unreadable[key] THEN {} ELSE NamesBelow(hive, key)

LEMMA VisitIsTyped ==
    ASSUME NEW hive, IsHive(hive), NEW w \in WalkStates(hive), w.pending # <<>>
    PROVE  LET key == Last(w.pending)
               front == Front(w.pending)
           IN  /\ Visit(hive, w) \in WalkStates(hive)
               /\ key \in hive.keys /\ key = w.pending[Len(w.pending)]
               /\ Len(w.pending) \in Nat /\ Len(w.pending) >= 1
               /\ front \in Seq(hive.keys) /\ Len(front) = Len(w.pending) - 1
               /\ \A i \in 1..Len(front) : front[i] = w.pending[i]
               /\ Stacked(Visit(hive, w).pending, front, key, Entered(hive, key))
               /\ Recorded(Visit(hive, w).records, w.records, key)
<1>. DEFINE key == Last(w.pending)
            front == Front(w.pending)
            names == Entered(hive, key)
            faults == hive.unreadable[key]
            values == IF "values" \in faults THEN [good |-> 0, bad |-> 1] ELSE hive.values[key]
            below == IF "subkeys" \in faults THEN {} ELSE Subkeys(hive, key)
            first == [type |-> "key", key |-> key, aware |-> hive.aware]
            other == [type |-> "value", key |-> key, aware |-> hive.aware]
            rest == [i \in 1..values.good |-> other]
            lost == IF "subkeys" \in faults THEN 1 ELSE 0
            stack == Push(front, key, names)
            records == w.records \o <<first>> \o rest
<1>1. /\ w.pending \in Seq(hive.keys) /\ w.records \in Seq(HiveRecords(hive)) /\ w.warnings \in Nat
      /\ hive.keys \subseteq Seq(Nat)
      /\ \A k \in hive.keys : hive.values[k] \in [good : Nat, bad : Nat]
  BY DEF WalkStates, IsHive
<1>2. /\ Len(w.pending) \in Nat /\ Len(w.pending) >= 1
      /\ key \in hive.keys /\ key = w.pending[Len(w.pending)]
  <2>1. Len(w.pending) \in Nat /\ Len(w.pending) >= 1
    BY <1>1, EmptySeq, LenProperties
  <2>. QED
    BY <1>1, <2>1, ElementOfSeq DEF Last
<1>3. /\ front \in Seq(hive.keys) /\ Len(front) = Len(w.pending) - 1
      /\ \A i \in 1..Len(front) : front[i] = w.pending[i]
  BY <1>1, FrontKeeps
<1>4. {Last(k) : k \in below} = names
  BY DEF Entered, NamesBelow
<1>5. Visit(hive, w) = [pending |-> stack, records |-> records,
                        warnings |-> w.warnings + values.bad + lost]
  BY <1>4 DEF Visit
<1>6. /\ names \subseteq Nat /\ IsFiniteSet(names)
      /\ \A x \in names : Append(key, x) \in hive.keys
  BY <1>2, SubkeysByName, FS_EmptySet DEF Entered
<1>7. values.good \in Nat /\ values.bad \in Nat
  BY <1>1, <1>2
<1>8. lost \in Nat
  OBVIOUS
<1>9. first \in HiveRecords(hive) /\ other \in HiveRecords(hive)
      /\ first.type = "key" /\ first.key = key /\ other.type = "value"
  BY <1>2 DEF HiveRecords
<1>. HIDE DEF key, front, names, faults, values, lost, first, other
<1>10. stack \in Seq(hive.keys) /\ Stacked(stack, front, key, names)
  <2>1. key \in Seq(Nat)
    BY <1>1, <1>2
  <2>. QED
    BY <1>3, <1>6, <2>1, PushStacks
<1>11. rest \in Seq(HiveRecords(hive)) /\ Len(rest) = values.good
       /\ \A i \in 1..values.good : rest[i].type = "value"
  <2>. DEFINE n == values.good
  <2>1. n \in Nat /\ rest \in [1..n -> HiveRecords(hive)] /\ \A i \in 1..n : rest[i] = other
    BY <1>7, <1>9
  <2>. HIDE DEF n, rest
  <2>2. rest \in Seq(HiveRecords(hive)) /\ Len(rest) = n
    BY <2>1, SeqDef, LenProperties
  <2>. QED
    BY <1>9, <2>1, <2>2 DEF n
<1>. HIDE DEF rest
<1>12. records \in Seq(HiveRecords(hive)) /\ Recorded(records, w.records, key)
  <2>. DEFINE R == HiveRecords(hive)
              old == w.records
              a == old \o <<first>>
  <2>1. old \in Seq(R) /\ <<first>> \in Seq(R) /\ Len(<<first>>) = 1 /\ Len(old) \in Nat
    BY <1>1, <1>9, LenProperties
  <2>0. rest \in Seq(R)
    BY <1>11
  <2>. HIDE DEF R, old
  <2>2. a \in Seq(R) /\ Len(a) = Len(old) + 1
        /\ \A i \in 1..Len(old) + 1 : a[i] = IF i <= Len(old) THEN old[i] ELSE <<first>>[i - Len(old)]
    BY <2>1, ConcatProperties
  <2>3. /\ \A i \in 1..Len(old) : a[i] = old[i]
        /\ a[Len(old) + 1] = first
        /\ a \in Seq(R)
    BY <2>1, <2>2
  <2>. HIDE DEF a
  <2>4. a \o rest \in Seq(R) /\ Len(a \o rest) = Len(a) + Len(rest)
        /\ \A i \in 1..Len(a) + Len(rest) :
              (a \o rest)[i] = IF i <= Len(a) THEN a[i] ELSE rest[i - Len(a)]
    BY <2>0, <2>3, ConcatProperties
  <2>5. records = a \o rest /\ values.good \in Nat /\ Len(rest) = values.good
    BY <1>7, <1>11 DEF a, old
  <2>. HIDE DEF records
  <2>6. /\ Len(records) = Len(old) + 1 + values.good
        /\ \A i \in 1..Len(old) : records[i] = old[i]
        /\ records[Len(old) + 1] = first
        /\ \A i \in Len(old) + 2..Len(old) + 1 + values.good :
              i - (Len(old) + 1) \in 1..values.good /\ records[i] = rest[i - (Len(old) + 1)]
    BY <2>1, <2>2, <2>3, <2>4, <2>5
  <2>7. \A i \in Len(old) + 2..Len(records) : records[i].type = "value"
    BY <1>11, <2>6
  <2>8. Len(records) \in Nat /\ Len(records) >= Len(old) + 1
    BY <2>1, <2>5, <2>6
  <2>. QED
    BY <1>9, <2>4, <2>5, <2>6, <2>7, <2>8 DEF Recorded, R, old
<1>. HIDE DEF stack, records
<1>13. Visit(hive, w) \in WalkStates(hive)
  <2>. DEFINE total == w.warnings + values.bad + lost
  <2>1. total \in Nat
    BY <1>1, <1>7, <1>8
  <2>. HIDE DEF total
  <2>. QED
    BY <1>5, <1>10, <1>12, <2>1 DEF WalkStates, total
<1>. QED
  BY <1>2, <1>3, <1>5, <1>10, <1>12, <1>13 DEF key, front, names

KeyRecords(records) == {i \in DOMAIN records : records[i].type = "key"}

Visited(records) == {records[i].key : i \in KeyRecords(records)}

\* The walk after n turns: every visited key comes before the next and before
\* those on the stack, the stack goes down in the order of the paths and no
\* key on it is below another, and a key that is not visited yet is on the
\* stack or below a key that is.
Walked(hive, n, w) ==
    /\ w \in WalkStates(hive)
    /\ Visited(w.records) \subseteq Reachable(hive)
    /\ \A i, j \in KeyRecords(w.records) :
          i < j => Before(w.records[i].key, w.records[j].key)
    /\ \A i \in 1..Len(w.pending) : w.pending[i] \in Reachable(hive)
    /\ \A i, j \in 1..Len(w.pending) : i < j => Left(w.pending[j], w.pending[i])
    /\ \A r \in Visited(w.records), i \in 1..Len(w.pending) : Before(r, w.pending[i])
    /\ \A k \in Reachable(hive) :
          \/ k \in Visited(w.records)
          \/ \E i \in 1..Len(w.pending) : IsPrefix(w.pending[i], k)
    /\ w.pending = <<>> \/ Cardinality(Visited(w.records)) = n

LEMMA RecordedKeys ==
    ASSUME NEW hive, NEW before \in Seq(HiveRecords(hive)), NEW records \in Seq(HiveRecords(hive)),
           NEW key, Recorded(records, before, key)
    PROVE  /\ \A i \in KeyRecords(records) :
                 \/ i \in KeyRecords(before) /\ i <= Len(before) /\ records[i] = before[i]
                 \/ i = Len(before) + 1 /\ records[i].key = key
           /\ Visited(records) = Visited(before) \union {key}
<1>1. /\ Len(before) \in Nat /\ Len(records) \in Nat
      /\ DOMAIN before = 1..Len(before) /\ DOMAIN records = 1..Len(records)
  BY LenProperties
<1>2. ASSUME NEW i \in KeyRecords(records)
      PROVE  \/ i \in KeyRecords(before) /\ i <= Len(before) /\ records[i] = before[i]
             \/ i = Len(before) + 1 /\ records[i].key = key
  <2>1. i \in 1..Len(records) /\ records[i].type = "key"
    BY <1>1 DEF KeyRecords
  <2>2. i \notin Len(before) + 2..Len(records)
    BY <2>1 DEF Recorded
  <2>3. i \in 1..Len(before) \/ i = Len(before) + 1
    BY <1>1, <2>1, <2>2
  <2>. QED
    BY <1>1, <2>1, <2>3 DEF Recorded, KeyRecords
<1>3. ASSUME NEW i \in KeyRecords(before)
      PROVE  i \in KeyRecords(records) /\ records[i] = before[i]
  BY <1>1 DEF Recorded, KeyRecords
<1>4. Len(before) + 1 \in KeyRecords(records) /\ records[Len(before) + 1].key = key
  BY <1>1 DEF Recorded, KeyRecords
<1>5. Visited(records) = Visited(before) \union {key}
  <2>1. \A k \in Visited(records) : \E i \in KeyRecords(records) : k = records[i].key
    BY DEF Visited
  <2>2. \A k \in Visited(before) : \E i \in KeyRecords(before) : k = before[i].key
    BY DEF Visited
  <2>3. \A i \in KeyRecords(records) : records[i].key \in Visited(records)
    BY DEF Visited
  <2>4. \A i \in KeyRecords(before) : before[i].key \in Visited(before)
    BY DEF Visited
  <2>. QED
    BY <1>2, <1>3, <1>4, <2>1, <2>2, <2>3, <2>4
<1>. QED
  BY <1>2, <1>5

LEMMA VisitKeepsWalked ==
    ASSUME NEW hive, IsHive(hive), NEW n \in Nat, NEW w, Walked(hive, n, w), w.pending # <<>>
    PROVE  Walked(hive, n + 1, Visit(hive, w))
<1>. DEFINE key == Last(w.pending)
            front == Front(w.pending)
            names == Entered(hive, key)
            v == Visit(hive, w)
            old == w.pending
            new == v.pending
            l == Len(front)
<1>1. /\ w \in WalkStates(hive) /\ v \in WalkStates(hive)
      /\ key \in hive.keys /\ key = old[Len(old)]
      /\ Len(old) \in Nat /\ Len(old) >= 1
      /\ l = Len(old) - 1
      /\ \A i \in 1..l : front[i] = old[i]
      /\ Stacked(new, front, key, names)
      /\ Recorded(v.records, w.records, key)
  BY VisitIsTyped DEF Walked
<1>. HIDE DEF key, front, names, v
<1>2. /\ hive.keys \subseteq Seq(Nat) /\ IsFiniteSet(hive.keys)
      /\ Reachable(hive) \subseteq hive.keys
      /\ w.records \in Seq(HiveRecords(hive)) /\ v.records \in Seq(HiveRecords(hive))
      /\ old \in Seq(hive.keys)
  BY <1>1 DEF IsHive, Reachable, WalkStates
<1>3. /\ \A i \in KeyRecords(v.records) :
             \/ i \in KeyRecords(w.records) /\ i <= Len(w.records) /\ v.records[i] = w.records[i]
             \/ i = Len(w.records) + 1 /\ v.records[i].key = key
      /\ Visited(v.records) = Visited(w.records) \union {key}
  BY <1>1, <1>2, RecordedKeys, SMTT(40)
<1>4. key \in Reachable(hive) /\ key \in Seq(Nat)
  BY <1>1, <1>2 DEF Walked
<1>5. ASSUME NEW x \in names
      PROVE  /\ x \in Nat /\ Append(key, x) \in Reachable(hive) /\ Append(key, x) \in Seq(Nat)
             /\ IsStrictPrefix(key, Append(key, x))
  <2>1. x \in NamesBelow(hive, key) /\ "subkeys" \notin hive.unreadable[key]
    BY DEF names, Entered
  <2>2. x \in Nat /\ Append(key, x) \in hive.keys
    BY <1>1, <2>1, SubkeysByName
  <2>3. \A p \in hive.keys : IsStrictPrefix(p, Append(key, x)) => "subkeys" \notin hive.unreadable[p]
    <3>1. \A p \in Seq(Nat) : IsStrictPrefix(p, Append(key, x)) => p = key \/ IsStrictPrefix(p, key)
      BY <1>4, <2>2, AppendedPath
    <3>2. \A p \in hive.keys : IsStrictPrefix(p, key) => "subkeys" \notin hive.unreadable[p]
      BY <1>4 DEF Reachable
    <3>. QED
      BY <1>2, <2>1, <3>1, <3>2
  <2>4. Append(key, x) \in Reachable(hive)
    BY <2>2, <2>3 DEF Reachable
  <2>. QED
    BY <1>4, <2>2, <2>4, AppendedPath
<1>6. ASSUME NEW i \in 1..l
      PROVE  /\ i \in 1..Len(old) /\ new[i] = old[i]
             /\ old[i] \in Seq(Nat) /\ Left(key, old[i])
  <2>1. i \in 1..Len(old) /\ Len(old) \in 1..Len(old) /\ i < Len(old)
    BY <1>1
  <2>2. Left(key, old[i])
    BY <1>1, <2>1 DEF Walked
  <2>3. new[i] = old[i]
    BY <1>1 DEF Stacked
  <2>. QED
    BY <1>2, <2>1, <2>2, <2>3, ElementOfSeq
<1>7. /\ Len(new) \in Nat /\ l \in Nat /\ l <= Len(new)
      /\ \A i \in 1..Len(new) : i \in 1..l \/ i \in l + 1..Len(new)
  BY <1>1 DEF Stacked
<1>8. ASSUME NEW i \in l + 1..Len(new)
      PROVE  /\ new[i] \in Reachable(hive) /\ new[i] \in Seq(Nat)
             /\ IsStrictPrefix(key, new[i]) /\ IsPrefix(key, new[i])
  <2>1. PICK x \in names : new[i] = Append(key, x)
    BY <1>1 DEF Stacked
  <2>. QED
    BY <1>5, <2>1 DEF IsStrictPrefix
<1>9. \A r \in Visited(w.records) : r \in Seq(Nat) /\ Before(r, key)
  <2>1. Len(old) \in 1..Len(old)
    BY <1>1
  <2>2. \A r \in Visited(w.records) : Before(r, old[Len(old)])
    BY <2>1 DEF Walked
  <2>3. Visited(w.records) \subseteq Reachable(hive)
    BY DEF Walked
  <2>. QED
    BY <1>1, <1>2, <2>2, <2>3
<1>10. Visited(v.records) \subseteq Reachable(hive)
  BY <1>3, <1>4 DEF Walked
<1>11. \A i, j \in KeyRecords(v.records) :
          i < j => Before(v.records[i].key, v.records[j].key)
  <2>. SUFFICES ASSUME NEW i \in KeyRecords(v.records), NEW j \in KeyRecords(v.records), i < j
                PROVE  Before(v.records[i].key, v.records[j].key)
    OBVIOUS
  <2>1. Len(w.records) \in Nat /\ i \in Int /\ j \in Int
    BY <1>2, LenProperties DEF KeyRecords
  <2>2. i \in KeyRecords(w.records) /\ v.records[i] = w.records[i]
    <3>1. i # Len(w.records) + 1
      BY <1>3, <2>1
    <3>. QED
      BY <1>3, <3>1
  <2>3. CASE j \in KeyRecords(w.records) /\ v.records[j] = w.records[j]
    BY <2>2, <2>3 DEF Walked
  <2>4. CASE v.records[j].key = key
    <3>1. w.records[i].key \in Visited(w.records)
      BY <2>2 DEF Visited
    <3>. QED
      BY <1>9, <2>2, <2>4, <3>1
  <2>. QED
    BY <1>3, <2>3, <2>4
<1>12. \A i \in 1..Len(new) : new[i] \in Reachable(hive)
  BY <1>6, <1>7, <1>8 DEF Walked
<1>13. \A i, j \in 1..Len(new) : i < j => Left(new[j], new[i])
  <2>. SUFFICES ASSUME NEW i \in 1..Len(new), NEW j \in 1..Len(new), i < j
                PROVE  Left(new[j], new[i])
    OBVIOUS
  <2>1. CASE i \in 1..l /\ j \in 1..l
    BY <1>6, <2>1 DEF Walked
  <2>2. CASE i \in 1..l /\ j \in l + 1..Len(new)
    <3>1. Left(key, old[i]) /\ old[i] \in Seq(Nat) /\ new[i] = old[i]
      BY <1>6, <2>2
    <3>2. new[j] \in Seq(Nat) /\ IsPrefix(key, new[j])
      BY <1>8, <2>2
    <3>. QED
      BY <1>4, <3>1, <3>2, LeftExtends
  <2>3. CASE i \in l + 1..Len(new) /\ j \in l + 1..Len(new)
    BY <1>1, <2>3 DEF Stacked
  <2>. QED
    BY <1>7, <2>1, <2>2, <2>3
<1>14. \A r \in Visited(v.records), i \in 1..Len(new) : Before(r, new[i])
  <2>. SUFFICES ASSUME NEW r \in Visited(v.records), NEW i \in 1..Len(new)
                PROVE  Before(r, new[i])
    OBVIOUS
  <2>1. CASE r \in Visited(w.records) /\ i \in 1..l
    BY <1>6, <2>1 DEF Walked
  <2>2. CASE r \in Visited(w.records) /\ i \in l + 1..Len(new)
    BY <1>4, <1>8, <1>9, <2>2, BeforeExtends
  <2>3. CASE r = key /\ i \in 1..l
    <3>1. Left(key, old[i]) /\ new[i] = old[i]
      BY <1>6, <2>3
    <3>2. Before(key, old[i])
      BY <3>1 DEF Before, Left
    <3>. QED
      BY <2>3, <3>1, <3>2
  <2>4. CASE r = key /\ i \in l + 1..Len(new)
    BY <1>8, <2>4 DEF Before
  <2>. QED
    BY <1>3, <1>7, <2>1, <2>2, <2>3, <2>4
<1>15. \A k \in Reachable(hive) :
          \/ k \in Visited(v.records)
          \/ \E i \in 1..Len(new) : IsPrefix(new[i], k)
  <2>. SUFFICES ASSUME NEW k \in Reachable(hive), k \notin Visited(v.records)
                PROVE  \E i \in 1..Len(new) : IsPrefix(new[i], k)
    OBVIOUS
  <2>1. PICK i \in 1..Len(old) : IsPrefix(old[i], k)
    BY <1>3 DEF Walked
  <2>2. CASE i \in 1..l
    <3>1. i \in 1..Len(new) /\ new[i] = old[i]
      BY <1>6, <1>7, <2>2
    <3>. QED
      BY <2>1, <3>1
  <2>3. CASE i = Len(old)
    <3>1. IsPrefix(key, k) /\ k # key /\ k \in hive.keys /\ k \in Seq(Nat)
      BY <1>1, <1>2, <1>3, <2>1, <2>3
    <3>2. "subkeys" \notin hive.unreadable[key]
      BY <1>1, <3>1 DEF Reachable, IsStrictPrefix
    <3>3. names = NamesBelow(hive, key)
      BY <3>2 DEF names, Entered
    <3>4. /\ Len(key) \in Nat /\ Len(k) \in Nat /\ Len(key) <= Len(k)
          /\ \A j \in 1..Len(key) : key[j] = k[j]
      BY <1>4, <3>1, PrefixMeans, LenProperties
    <3>5. Len(key) < Len(k)
      <4>1. Len(key) # Len(k)
        BY <1>4, <3>1, <3>4, SeqEqual
      <4>. QED
        BY <3>4, <4>1
    <3>. DEFINE m == Len(key) + 1
                c == SubSeq(k, 1, m)
    <3>6. /\ c \in Seq(Nat) /\ Len(c) = m
          /\ \A j \in 1..m : c[j] = k[j]
      <4>1. m \in Nat /\ 1 \in Int /\ m \in Int /\ \A j \in 1..m : k[j] \in Nat
        <5>1. \A j \in 1..m : j \in 1..Len(k)
          BY <3>4, <3>5
        <5>. QED
          BY <3>1, <3>4, <5>1, ElementOfSeq
      <4>. HIDE DEF m
      <4>2. /\ SubSeq(k, 1, m) \in Seq(Nat)
            /\ Len(SubSeq(k, 1, m)) = IF 1 <= m THEN m - 1 + 1 ELSE 0
            /\ \A j \in 1..m - 1 + 1 : SubSeq(k, 1, m)[j] = k[1 + j - 1]
        BY <4>1, SubSeqProperties
      <4>. QED
        BY <4>1, <4>2
    <3>. HIDE DEF c
    <3>7. IsPrefix(c, k) /\ IsPrefix(key, c)
      <4>1. Len(c) <= Len(k) /\ \A j \in 1..Len(c) : c[j] = k[j]
        BY <3>4, <3>5, <3>6
      <4>2. \A j \in 1..Len(key) : j \in 1..m
        BY <3>4
      <4>3. Len(key) <= Len(c) /\ \A j \in 1..Len(key) : key[j] = c[j]
        BY <3>4, <3>6, <4>2, SMTT(40)
      <4>. HIDE DEF m
      <4>. QED
        BY <1>4, <3>1, <3>6, <4>1, <4>3, PrefixMeans
    <3>8. c \in hive.keys
      BY <3>1, <3>6, <3>7, AncestorsAreKeys
    <3>9. PICK x \in names : c = Append(key, x)
      BY <1>1, <3>3, <3>6, <3>7, <3>8, SubkeysByName, SMTT(40)
    <3>10. PICK j \in l + 1..Len(new) : new[j] = Append(key, x)
      BY <1>1 DEF Stacked
    <3>11. j \in 1..Len(new)
      BY <1>7
    <3>. QED
      BY <3>7, <3>9, <3>10, <3>11
  <2>. QED
    BY <1>1, <2>2, <2>3
<1>16. Cardinality(Visited(v.records)) = n + 1
  <2>1. Cardinality(Visited(w.records)) = n
    BY DEF Walked
  <2>2. IsFiniteSet(Visited(w.records))
    <3>1. Visited(w.records) \in SUBSET hive.keys
      BY <1>2 DEF Walked
    <3>. QED
      BY <1>2, <3>1, FS_Subset
  <2>3. key \notin Visited(w.records)
    BY <1>4, <1>9, NeverBeforeItself
  <2>. QED
    BY <1>3, <2>1, <2>2, <2>3, FS_AddElement
<1>. HIDE DEF old, new, l
<1>17. Walked(hive, n + 1, v)
  BY <1>1, <1>10, <1>11, <1>12, <1>13, <1>14, <1>15, <1>16 DEF Walked, new
<1>. QED
  BY <1>17 DEF v

\* One turn of the walk, f being the walk.
WalkStep(hive, f, n) ==
    IF n = 0 THEN [pending |-> <<Root>>, records |-> <<>>, warnings |-> 0]
    ELSE IF f[n - 1] = None THEN None
    ELSE IF f[n - 1].pending = <<>> THEN f[n - 1]
    ELSE IF "key" \in hive.unreadable[Last(f[n - 1].pending)] THEN None
    ELSE Visit(hive, f[n - 1])

LEMMA WalkBegins ==
    ASSUME NEW hive, IsHive(hive)
    PROVE  Walked(hive, 0, [pending |-> <<Root>>, records |-> <<>>, warnings |-> 0])
<1>. DEFINE w == [pending |-> <<Root>>, records |-> <<>>, warnings |-> 0]
<1>1. hive.keys \subseteq Seq(Nat) /\ Root \in hive.keys /\ Root \in Seq(Nat) /\ Len(Root) = 0
  BY EmptySeq DEF IsHive, Root
<1>2. w \in WalkStates(hive)
  <2>1. <<Root>> \in Seq(hive.keys)
    <3>. DEFINE K == hive.keys
    <3>1. Root \in K
      BY <1>1
    <3>. HIDE DEF K
    <3>2. <<Root>> \in Seq(K)
      BY <3>1
    <3>. QED
      BY <3>2 DEF K
  <2>2. <<>> \in Seq(HiveRecords(hive))
    BY EmptySeq
  <2>. QED
    BY <2>1, <2>2 DEF WalkStates
<1>3. KeyRecords(w.records) = {} /\ Visited(w.records) = {}
  BY DEF KeyRecords, Visited
<1>4. Len(w.pending) = 1 /\ w.pending[1] = Root
  OBVIOUS
<1>5. Root \in Reachable(hive)
  <2>1. \A p \in hive.keys : ~IsStrictPrefix(p, Root)
    <3>. SUFFICES ASSUME NEW p \in hive.keys, IsStrictPrefix(p, Root) PROVE FALSE
      OBVIOUS
    <3>1. p \in Seq(Nat) /\ Len(p) \in Nat /\ Len(p) <= 0 /\ p # Root
      BY <1>1, PrefixMeans, LenProperties DEF IsStrictPrefix
    <3>2. Len(p) = 0
      BY <3>1
    <3>. QED
      BY <3>1, <3>2, EmptySeq DEF Root
  <2>. QED
    BY <1>1, <2>1 DEF Reachable
<1>6. \A k \in Reachable(hive) : IsPrefix(Root, k)
  <2>. SUFFICES ASSUME NEW k \in Reachable(hive) PROVE IsPrefix(Root, k)
    OBVIOUS
  <2>1. k \in Seq(Nat) /\ Len(k) \in Nat
    BY <1>1, LenProperties DEF Reachable
  <2>. QED
    BY <1>1, <2>1, PrefixMeans
<1>7. Cardinality({}) = 0
  BY FS_EmptySet
<1>. HIDE DEF w
<1>8. Walked(hive, 0, w)
  BY <1>2, <1>3, <1>4, <1>5, <1>6, <1>7 DEF Walked
<1>. QED
  BY <1>8 DEF w

LEMMA WalkGoesOn ==
    ASSUME NEW hive, IsHive(hive)
    PROVE  \E f : /\ Walk(hive) = f[Cardinality(hive.keys)]
                  /\ \A n \in Nat : f[n] = WalkStep(hive, f, n)
<1>. DEFINE V == WalkStates(hive) \union {None}
            rank == [n \in Nat |-> n]
            F == [p \in [Nat -> V] \X Nat |-> WalkStep(hive, p[1], p[2])]
            Eq(f) == f = [n \in Nat |-> WalkStep(hive, f, n)]
            after == CHOOSE f : Eq(f)
<1>1. Walk(hive) = after[Cardinality(hive.keys)]
  BY DEF Walk, WalkStep
<1>2. ASSUME NEW g \in [Nat -> V], NEW n \in Nat
      PROVE  WalkStep(hive, g, n) \in V
  <2>1. [pending |-> <<Root>>, records |-> <<>>, warnings |-> 0] \in V
    BY WalkBegins DEF Walked
  <2>2. CASE n # 0
    <3>1. n - 1 \in Nat /\ g[n - 1] \in V
      BY <2>2
    <3>2. g[n - 1] # None /\ g[n - 1].pending # <<>> => Visit(hive, g[n - 1]) \in V
      BY <3>1, VisitIsTyped
    <3>. HIDE DEF V
    <3>3. None \in V
      BY DEF V
    <3>. QED
      BY <2>2, <3>1, <3>2, <3>3 DEF WalkStep
  <2>3. CASE n = 0
    BY <2>1, <2>3 DEF WalkStep
  <2>. QED
    BY <2>2, <2>3
<1>. HIDE DEF V
<1>3. V # {} /\ rank \in [Nat -> Nat]
  BY DEF V
<1>4. F \in [[Nat -> V] \X Nat -> V]
  BY <1>2
<1>5. ASSUME NEW g \in [Nat -> V], NEW h \in [Nat -> V], NEW n \in Nat,
             \A k \in Nat : rank[k] < rank[n] => g[k] = h[k]
      PROVE  WalkStep(hive, g, n) = WalkStep(hive, h, n)
  <2>1. n # 0 => g[n - 1] = h[n - 1]
    <3>1. n # 0 => n - 1 \in Nat /\ rank[n - 1] < rank[n]
      OBVIOUS
    <3>. HIDE DEF rank
    <3>. QED
      BY <1>5, <3>1
  <2>2. CASE n = 0
    BY <2>2 DEF WalkStep
  <2>3. CASE n # 0
    BY <2>1, <2>3 DEF WalkStep
  <2>. QED
    BY <2>2, <2>3
<1>6. \A g, h \in [Nat -> V], n \in Nat :
        (\A k \in Nat : rank[k] < rank[n] => g[k] = h[k]) => F[<<g, n>>] = F[<<h, n>>]
  <2>. TAKE g, h \in [Nat -> V], n \in Nat
  <2>. HAVE \A k \in Nat : rank[k] < rank[n] => g[k] = h[k]
  <2>1. WalkStep(hive, g, n) = WalkStep(hive, h, n)
    <3>. HIDE DEF rank
    <3>. QED
      BY <1>5
  <2>. QED
    BY <2>1
<1>7. \A g \in [Nat -> V], n \in Nat : F[<<g, n>>] = WalkStep(hive, g, n)
  OBVIOUS
<1>8. \E f \in [Nat -> V] : Eq(f)
  <2>. HIDE DEF rank, F
  <2>1. WellRanked(Nat, V, rank, F)
    BY <1>3, <1>4, <1>6 DEF WellRanked
  <2>2. Solvable(Nat, V, F)
    BY <2>1, Recursion
  <2>3. PICK f \in [Nat -> V] : \A n \in Nat : f[n] = F[<<f, n>>]
    BY <2>2 DEF Solvable
  <2>4. \A n \in Nat : f[n] = WalkStep(hive, f, n)
    BY <1>7, <2>3
  <2>. QED
    BY <2>3, <2>4
<1>9. Eq(after)
  <2>. HIDE DEF Eq
  <2>. QED
    BY <1>8
<1>10. \A n \in Nat : after[n] = WalkStep(hive, after, n)
  <2>. HIDE DEF after
  <2>. QED
    BY <1>9
<1>. HIDE DEF after
<1>. QED
  BY <1>1, <1>10

\* A walk that no exception leaves has visited every reachable key, each
\* before the keys that come after it in the order of the paths.
LEMMA WalkIsComplete ==
    ASSUME NEW hive, IsHive(hive), Walk(hive) # None
    PROVE  LET w == Walk(hive)
           IN  /\ w \in WalkStates(hive)
               /\ Visited(w.records) = Reachable(hive)
               /\ \A i, j \in KeyRecords(w.records) :
                     i < j => Before(w.records[i].key, w.records[j].key)
<1>. DEFINE N == Cardinality(hive.keys)
<1>1. PICK f : /\ Walk(hive) = f[N]
               /\ \A n \in Nat : f[n] = WalkStep(hive, f, n)
  BY WalkGoesOn
<1>2. /\ IsFiniteSet(hive.keys) /\ hive.keys \subseteq Seq(Nat) /\ N \in Nat
  BY FS_CardinalityType DEF IsHive
<1>. DEFINE S == {n \in Nat : f[n] = None \/ Walked(hive, n, f[n])}
<1>3. 0 \in S
  <2>1. f[0] = WalkStep(hive, f, 0)
    BY <1>1
  <2>. QED
    BY <2>1, WalkBegins DEF WalkStep
<1>4. ASSUME NEW n \in Nat, n \in S PROVE n + 1 \in S
  <2>1. /\ n + 1 \in Nat /\ n + 1 # 0 /\ n + 1 - 1 = n
        /\ f[n + 1] = WalkStep(hive, f, n + 1)
    BY <1>1
  <2>2. CASE f[n] = None
    BY <2>1, <2>2 DEF WalkStep
  <2>3. CASE f[n] # None /\ f[n].pending = <<>>
    <3>1. f[n + 1] = f[n] /\ Walked(hive, n, f[n])
      BY <1>4, <2>1, <2>3 DEF WalkStep
    <3>2. Walked(hive, n + 1, f[n])
      BY <2>3, <3>1 DEF Walked
    <3>. QED
      BY <3>1, <3>2
  <2>4. CASE f[n] # None /\ f[n].pending # <<>>
    <3>1. f[n + 1] = None \/ f[n + 1] = Visit(hive, f[n])
      BY <2>1, <2>4 DEF WalkStep
    <3>2. Walked(hive, n + 1, Visit(hive, f[n]))
      BY <1>4, <2>4, VisitKeepsWalked
    <3>. QED
      BY <3>1, <3>2
  <2>. QED
    BY <2>2, <2>3, <2>4
<1>5. Walked(hive, N, f[N])
  <2>1. Nat \subseteq S
    <3>. HIDE DEF S
    <3>. QED
      BY <1>3, <1>4, NaturalsInduct
  <2>. HIDE DEF N
  <2>. QED
    BY <1>1, <1>2, <2>1
<1>. DEFINE w == f[N]
<1>. HIDE DEF N
<1>6. w.pending = <<>>
  <2>. SUFFICES ASSUME w.pending # <<>> PROVE FALSE
    OBVIOUS
  <2>1. Cardinality(Visited(w.records)) = N /\ Visited(w.records) \subseteq Reachable(hive)
    BY <1>5 DEF Walked
  <2>2. Reachable(hive) \subseteq hive.keys
    BY DEF Reachable
  <2>3. Visited(w.records) = hive.keys
    <3>1. Visited(w.records) \in SUBSET hive.keys
      BY <2>1, <2>2
    <3>. QED
      BY <1>2, <2>1, <3>1, FS_Subset DEF N
  <2>4. w.pending \in Seq(hive.keys)
    BY <1>5 DEF Walked, WalkStates
  <2>5. 1 \in 1..Len(w.pending)
    BY <2>4, EmptySeq, LenProperties
  <2>6. w.pending[1] \in hive.keys
    BY <2>4, <2>5, ElementOfSeq
  <2>7. Before(w.pending[1], w.pending[1])
    BY <1>5, <2>3, <2>5, <2>6 DEF Walked
  <2>. QED
    BY <1>2, <2>6, <2>7, NeverBeforeItself
<1>7. Visited(w.records) = Reachable(hive)
  <2>1. \A i \in 1..Len(w.pending) : FALSE
    BY <1>6
  <2>. QED
    BY <1>5, <2>1 DEF Walked
<1>. HIDE DEF w
<1>8. Walk(hive) = w /\ Walked(hive, N, w)
  BY <1>1, <1>5 DEF w
<1>. QED
  BY <1>7, <1>8 DEF Walked

LEMMA HiveIsRead ==
    ASSUME NEW file, IsHive(file)
    PROVE  \/ ParseHive(file) \in {Without("FAILED"), Without("UNSUPPORTED")}
           \/ \E records : \E warnings \in Nat :
                 /\ ParseHive(file) = Completed(records, warnings)
                 /\ records \in Seq(HiveRecords(file))
                 /\ Visited(records) = Reachable(file)
                 /\ \A i, j \in KeyRecords(records) :
                       i < j => Before(records[i].key, records[j].key)
<1>. DEFINE w == Walk(file)
            odd == IF file.known THEN 0 ELSE 1
<1>1. SUFFICES ASSUME w # None, ParseHive(file) = Completed(w.records, w.warnings + odd)
               PROVE  \E records : \E warnings \in Nat :
                 /\ ParseHive(file) = Completed(records, warnings)
                 /\ records \in Seq(HiveRecords(file))
                 /\ Visited(records) = Reachable(file)
                 /\ \A i, j \in KeyRecords(records) :
                       i < j => Before(records[i].key, records[j].key)
  BY DEF ParseHive
<1>2. /\ w \in WalkStates(file)
      /\ Visited(w.records) = Reachable(file)
      /\ \A i, j \in KeyRecords(w.records) :
            i < j => Before(w.records[i].key, w.records[j].key)
  BY <1>1, WalkIsComplete
<1>3. odd \in Nat
  OBVIOUS
<1>. HIDE DEF w, odd
<1>4. w.warnings + odd \in Nat /\ w.records \in Seq(HiveRecords(file))
  BY <1>2, <1>3 DEF WalkStates
<1>. QED
  BY <1>1, <1>2, <1>4


-----------------------------------------------------------------------------
\* The timeline

Identities(listed) == {LogicalIdentity(listed[k]) : k \in DOMAIN listed}

TimesThatAreSet(times) == {i \in DOMAIN times : times[i].raw # None}

OneEventPerTime(format, record) ==
    Cardinality(Identities(Normalize(format, record).events)) = SourceTimes(record, format)

LEMMA CountOfAnImage ==
    ASSUME NEW S, IsFiniteSet(S), NEW T, NEW f \in [S -> T],
           \A x, y \in S : f[x] = f[y] => x = y,
           \A t \in T : \E x \in S : f[x] = t
    PROVE  IsFiniteSet(T) /\ Cardinality(T) = Cardinality(S)
<1>1. f \in Surjection(S, T)
  BY DEF Surjection
<1>2. f \in Injection(S, T)
  BY DEF Injection, IsInjective
<1>. QED
  BY <1>1, <1>2, FS_Surjection

LEMMA NoEvents == Identities(<<>>) = {} /\ Cardinality({}) = 0
BY FS_EmptySet DEF Identities

LEMMA SingleEvent ==
    ASSUME NEW e
    PROVE  Cardinality(Identities(<<e>>)) = 1
<1>1. Identities(<<e>>) = {LogicalIdentity(e)}
  BY DEF Identities
<1>. QED
  BY <1>1, FS_Singleton

LEMMA LogEvents ==
    ASSUME NEW record
    PROVE  OneEventPerTime("EVTX", record)
<1>. DEFINE e == Event("EVTX_EVENT", "evtx", 0,
                       IF record.text = "aware" THEN 1 ELSE record.eventTime, record.text)
<1>1. Normalize("EVTX", record) = EvtxEvents(record)
  BY DEF Normalize
<1>2. SourceTimes(record, "EVTX") = IF record.text = None THEN 0 ELSE 1
  BY DEF SourceTimes
<1>3. CASE record.text = None
  <2>1. Normalize("EVTX", record).events = <<>>
    BY <1>1, <1>3 DEF EvtxEvents, Events
  <2>. QED
    BY <1>2, <1>3, <2>1, NoEvents DEF OneEventPerTime
<1>4. CASE record.text # None
  <2>1. Normalize("EVTX", record).events = <<e>>
    BY <1>1, <1>4 DEF EvtxEvents, Events
  <2>. HIDE DEF e
  <2>. QED
    BY <1>2, <1>4, <2>1, SingleEvent DEF OneEventPerTime
<1>. QED
  BY <1>3, <1>4

LEMMA KeyEvents ==
    ASSUME NEW record
    PROVE  OneEventPerTime("REGISTRY", record)
<1>. DEFINE e == Event("REGISTRY_KEY_LAST_WRITE", "registry", 0,
                       IF record.aware THEN 1 ELSE None, record.key)
<1>1. Normalize("REGISTRY", record) = RegistryEvents(record)
  BY DEF Normalize
<1>2. SourceTimes(record, "REGISTRY") = IF record.type = "key" THEN 1 ELSE 0
  BY DEF SourceTimes
<1>3. CASE record.type # "key"
  <2>1. Normalize("REGISTRY", record).events = <<>>
    BY <1>1, <1>3 DEF RegistryEvents, Events
  <2>. QED
    BY <1>2, <1>3, <2>1, NoEvents DEF OneEventPerTime
<1>4. CASE record.type = "key"
  <2>1. Normalize("REGISTRY", record).events = <<e>>
    BY <1>1, <1>4 DEF RegistryEvents, Events
  <2>. HIDE DEF e
  <2>. QED
    BY <1>2, <1>4, <2>1, SingleEvent DEF OneEventPerTime
<1>. QED
  BY <1>3, <1>4

\* Events in the order of the times, numbered by their places, differ.
LEMMA NumberedEvents ==
    ASSUME NEW S, S \subseteq Nat, IsFiniteSet(S), NEW listed,
           DOMAIN listed = 1..Cardinality(S),
           \A k \in 1..Cardinality(S) : listed[k].ordinal = InOrder(S)[k]
    PROVE  Cardinality(Identities(listed)) = Cardinality(S)
<1>. DEFINE D == 1..Cardinality(S)
            f == [k \in D |-> LogicalIdentity(listed[k])]
<1>1. /\ Cardinality(S) \in Nat
      /\ \A k \in D : InOrder(S)[k] \in Nat
      /\ \A k, l \in D : k < l => InOrder(S)[k] < InOrder(S)[l]
  BY InOrderAscends
<1>2. IsFiniteSet(D) /\ Cardinality(D) = Cardinality(S)
  BY <1>1, FS_Interval
<1>3. \A k, l \in D : f[k] = f[l] => k = l
  <2>. SUFFICES ASSUME NEW k \in D, NEW l \in D, f[k] = f[l] PROVE k = l
    OBVIOUS
  <2>1. listed[k].ordinal = listed[l].ordinal
    BY DEF LogicalIdentity
  <2>2. InOrder(S)[k] = InOrder(S)[l]
    BY <2>1
  <2>3. ~(k < l) /\ ~(l < k)
    BY <1>1, <2>2
  <2>. QED
    BY <1>1, <2>3
<1>4. /\ f \in [D -> Identities(listed)]
      /\ \A t \in Identities(listed) : \E k \in D : f[k] = t
  BY DEF Identities
<1>. HIDE DEF D, f
<1>. QED
  BY <1>2, <1>3, <1>4, CountOfAnImage

LEMMA TimesThatAreSetFinite ==
    ASSUME NEW times \in Seq(Pairs)
    PROVE  /\ TimesThatAreSet(times) \subseteq Nat /\ IsFiniteSet(TimesThatAreSet(times))
           /\ TimesThatAreSet(times) \in SUBSET (1..Len(times)) /\ Len(times) \in Nat
           /\ Cardinality(TimesThatAreSet(times)) \in Nat
           /\ Cardinality(TimesThatAreSet(times)) = TimesSet(times)
<1>1. Len(times) \in Nat /\ DOMAIN times = 1..Len(times)
  BY LenProperties
<1>2. TimesThatAreSet(times) \in SUBSET (1..Len(times))
  BY <1>1 DEF TimesThatAreSet
<1>. QED
  BY <1>1, <1>2, SubsetOfPositions DEF TimesSet, TimesThatAreSet

LEMMA ProgramEvents ==
    ASSUME NEW record, record.times \in Seq(Pairs)
    PROVE  OneEventPerTime("PREFETCH", record)
<1>. DEFINE times == record.times
            S == TimesThatAreSet(times)
            listed == Normalize("PREFETCH", record).events
<1>1. /\ S \subseteq Nat /\ IsFiniteSet(S) /\ Cardinality(S) \in Nat
      /\ SourceTimes(record, "PREFETCH") = Cardinality(S)
  BY TimesThatAreSetFinite DEF SourceTimes
<1>2. CASE times = <<>>
  <2>1. listed = <<>> /\ S = {}
    BY <1>2 DEF Normalize, PrefetchEvents, Events, TimesThatAreSet
  <2>. HIDE DEF listed, S
  <2>. QED
    BY <1>1, <2>1, NoEvents DEF OneEventPerTime, listed
<1>3. CASE times # <<>>
  <2>1. listed = [k \in 1..Cardinality(S) |->
                     Event("PREFETCH_EXECUTION", InOrder(S)[k], InOrder(S)[k],
                           times[InOrder(S)[k]].iso, times[InOrder(S)[k]].raw)]
    BY <1>3 DEF Normalize, PrefetchEvents, Events, PerTime, TimesThatAreSet
  <2>. HIDE DEF listed, S
  <2>2. /\ DOMAIN listed = 1..Cardinality(S)
        /\ \A k \in 1..Cardinality(S) : listed[k].ordinal = InOrder(S)[k]
    BY <2>1 DEF Event
  <2>3. Cardinality(Identities(listed)) = Cardinality(S)
    BY <1>1, <2>2, NumberedEvents
  <2>. QED
    BY <1>1, <2>3 DEF OneEventPerTime, listed
<1>. QED
  BY <1>2, <1>3

LEMMA LinkEvents ==
    ASSUME NEW record, record.times \in [1..3 -> Pairs]
    PROVE  OneEventPerTime("LNK", record)
<1>. DEFINE times == record.times
            S == TimesThatAreSet(times)
            listed == Normalize("LNK", record).events
<1>1. times \in Seq(Pairs)
  BY SeqDef
<1>2. /\ S \subseteq Nat /\ IsFiniteSet(S) /\ Cardinality(S) \in Nat
      /\ SourceTimes(record, "LNK") = Cardinality(S)
  BY <1>1, TimesThatAreSetFinite DEF SourceTimes
<1>3. listed = [k \in 1..Cardinality(S) |->
                   Event(LnkFields[InOrder(S)[k]], "header", InOrder(S)[k],
                         times[InOrder(S)[k]].iso, times[InOrder(S)[k]].raw)]
  BY DEF Normalize, LnkEvents, Events, PerTime, TimesThatAreSet
<1>. HIDE DEF listed, S
<1>4. /\ DOMAIN listed = 1..Cardinality(S)
      /\ \A k \in 1..Cardinality(S) : listed[k].ordinal = InOrder(S)[k]
  BY <1>3 DEF Event
<1>5. Cardinality(Identities(listed)) = Cardinality(S)
  BY <1>2, <1>4, NumberedEvents
<1>. QED
  BY <1>2, <1>5 DEF OneEventPerTime, listed


MaybeNat == Nat \union {None}

FamilyEvents ==
    [type : {"SI", "FN"}, source : Nat, ordinal : Nat, time : MaybeNat, raw : MaybeNat]

\* The identities a family of times gives: one for each that is set.
FamilyIdentities(family, ordinal, S) == {<<family, i, ordinal>> : i \in S}

LEMMA FamilyIsRead ==
    ASSUME NEW times \in Seq(Pairs), NEW family \in {"SI", "FN"}, NEW ordinal \in Nat
    PROVE  LET listed == NtfsFamily(times, family, ordinal)
               S == TimesThatAreSet(times)
           IN  /\ listed \in Seq(FamilyEvents)
               /\ Len(listed) = Cardinality(S)
               /\ Identities(listed) = FamilyIdentities(family, ordinal, S)
<1>. DEFINE listed == NtfsFamily(times, family, ordinal)
            S == TimesThatAreSet(times)
            n == Cardinality(S)
<1>1. /\ S \subseteq Nat /\ IsFiniteSet(S) /\ n \in Nat
      /\ \A i \in S : i \in 1..Len(times)
  BY TimesThatAreSetFinite
<1>2. listed = [k \in 1..n |->
                   Event(family, InOrder(S)[k], ordinal,
                         times[InOrder(S)[k]].iso, times[InOrder(S)[k]].raw)]
  BY DEF NtfsFamily, PerTime, TimesThatAreSet
<1>. HIDE DEF listed, S
<1>3. /\ InOrder(S) \in [1..n -> S]
      /\ \A i \in S : \E k \in 1..n : InOrder(S)[k] = i
  BY <1>1, InOrderAscends
<1>. HIDE DEF n
<1>4. ASSUME NEW i \in S
      PROVE  times[i].iso \in MaybeNat /\ times[i].raw \in MaybeNat /\ i \in Nat
  <2>1. times[i] \in Pairs
    BY <1>1, ElementOfSeq
  <2>. QED
    BY <1>1, <2>1 DEF Pairs, Filetime, MaybeNat
<1>5. ASSUME NEW k \in 1..n
      PROVE  /\ InOrder(S)[k] \in S
             /\ listed[k] \in FamilyEvents
             /\ LogicalIdentity(listed[k]) = <<family, InOrder(S)[k], ordinal>>
  <2>1. InOrder(S)[k] \in S
    BY <1>3
  <2>2. listed[k] = Event(family, InOrder(S)[k], ordinal,
                          times[InOrder(S)[k]].iso, times[InOrder(S)[k]].raw)
    BY <1>2
  <2>. QED
    BY <1>4, <2>1, <2>2 DEF Event, LogicalIdentity, FamilyEvents
<1>6. listed \in [1..n -> FamilyEvents]
  BY <1>2, <1>5
<1>7. listed \in Seq(FamilyEvents) /\ Len(listed) = n /\ DOMAIN listed = 1..n
  BY <1>1, <1>6, SeqDef, LenProperties
<1>8. Identities(listed) = FamilyIdentities(family, ordinal, S)
  <2>1. \A t \in Identities(listed) : \E k \in 1..n : t = LogicalIdentity(listed[k])
    BY <1>7 DEF Identities
  <2>2. \A k \in 1..n : LogicalIdentity(listed[k]) \in Identities(listed)
    BY <1>7 DEF Identities
  <2>3. \A i \in S : <<family, i, ordinal>> \in Identities(listed)
    BY <1>3, <1>5, <2>2
  <2>. QED
    BY <1>5, <2>1, <2>3 DEF FamilyIdentities
<1>. QED
  BY <1>7, <1>8 DEF listed, S, n

LEMMA FamilyCount ==
    ASSUME NEW S, IsFiniteSet(S), NEW family, NEW ordinal
    PROVE  /\ IsFiniteSet(FamilyIdentities(family, ordinal, S))
           /\ Cardinality(FamilyIdentities(family, ordinal, S)) = Cardinality(S)
<1>. DEFINE T == FamilyIdentities(family, ordinal, S)
            f == [i \in S |-> <<family, i, ordinal>>]
<1>1. /\ f \in [S -> T]
      /\ \A x, y \in S : f[x] = f[y] => x = y
      /\ \A t \in T : \E x \in S : f[x] = t
  BY DEF FamilyIdentities
<1>. HIDE DEF T, f
<1>. QED
  BY <1>1, CountOfAnImage DEF T

\* The names of a record: those of each attribute under its own number.
NameIdentities(fns, k) ==
    UNION {FamilyIdentities("FN", i - 1, TimesThatAreSet(fns[i])) : i \in 1..k}

LEMMA NamesCount ==
    ASSUME NEW fns \in Seq(Seq(Pairs))
    PROVE  /\ IsFiniteSet(NameIdentities(fns, Len(fns)))
           /\ Cardinality(NameIdentities(fns, Len(fns)))
                = Total([i \in DOMAIN fns |-> TimesSet(fns[i])])
<1>. DEFINE n == Len(fns)
            counts == [i \in DOMAIN fns |-> TimesSet(fns[i])]
            B(k) == NameIdentities(fns, k)
            C(k) == FamilyIdentities("FN", k - 1, TimesThatAreSet(fns[k]))
<1>1. n \in Nat /\ DOMAIN fns = 1..n /\ \A i \in 1..n : fns[i] \in Seq(Pairs)
  BY LenProperties, ElementOfSeq
<1>2. ASSUME NEW i \in 1..n
      PROVE  /\ counts[i] \in Nat /\ IsFiniteSet(C(i)) /\ Cardinality(C(i)) = counts[i]
  BY <1>1, TimesThatAreSetFinite, FamilyCount
<1>3. counts \in [1..n -> Nat]
  BY <1>1, <1>2
<1>. HIDE DEF counts, n
<1>4. PICK sum \in [0..n -> Nat] :
             /\ sum[0] = 0
             /\ \A k \in 1..n : sum[k] = sum[k - 1] + counts[k]
             /\ Total(counts) = sum[n]
  BY <1>1, <1>3, TotalIsASum
<1>5. ASSUME NEW k \in Nat
      PROVE  B(k + 1) = B(k) \union C(k + 1) /\ B(k) \cap C(k + 1) = {}
  <2>1. 1..k + 1 = (1..k) \union {k + 1}
    OBVIOUS
  <2>2. B(k + 1) = B(k) \union C(k + 1)
    BY <2>1 DEF NameIdentities
  <2>3. \A t \in B(k) : t[3] < k
    BY DEF NameIdentities, FamilyIdentities
  <2>4. \A t \in C(k + 1) : t[3] = k
    BY DEF FamilyIdentities
  <2>. HIDE DEF B, C
  <2>. QED
    BY <2>2, <2>3, <2>4
<1>6. B(0) = {}
  BY DEF NameIdentities
<1>. HIDE DEF B, C
<1>. DEFINE S == {k \in Nat : k <= n => IsFiniteSet(B(k)) /\ Cardinality(B(k)) = sum[k]}
<1>7. 0 \in S
  BY <1>4, <1>6, FS_EmptySet
<1>8. ASSUME NEW k \in Nat, k \in S PROVE k + 1 \in S
  <2>. SUFFICES ASSUME k + 1 <= n
                PROVE  IsFiniteSet(B(k + 1)) /\ Cardinality(B(k + 1)) = sum[k + 1]
    OBVIOUS
  <2>1. k + 1 \in 1..n /\ k <= n /\ k \in 0..n /\ k + 1 - 1 = k
    BY <1>1
  <2>2. /\ IsFiniteSet(B(k)) /\ Cardinality(B(k)) = sum[k]
        /\ IsFiniteSet(C(k + 1)) /\ Cardinality(C(k + 1)) = counts[k + 1]
    BY <1>2, <1>8, <2>1
  <2>3. /\ IsFiniteSet(B(k) \union C(k + 1))
        /\ Cardinality(B(k) \union C(k + 1))
             = Cardinality(B(k)) + Cardinality(C(k + 1)) - Cardinality(B(k) \cap C(k + 1))
    BY <2>2, FS_Union
  <2>4. Cardinality(B(k) \cap C(k + 1)) = 0
    BY <1>5, FS_EmptySet
  <2>5. sum[k] \in Nat /\ counts[k + 1] \in Nat
    BY <1>3, <1>4, <2>1
  <2>6. sum[k + 1] = sum[k] + counts[k + 1]
    <3>. DEFINE m == k + 1
    <3>1. m \in 1..n /\ m - 1 = k
      BY <2>1
    <3>. HIDE DEF m
    <3>2. sum[m] = sum[k] + counts[m]
      BY <1>4, <3>1
    <3>. QED
      BY <3>2 DEF m
  <2>7. Cardinality(B(k) \union C(k + 1)) = sum[k + 1]
    BY <2>2, <2>3, <2>4, <2>5, <2>6
  <2>. QED
    BY <1>5, <2>3, <2>7
<1>9. Nat \subseteq S
  <2>. HIDE DEF S
  <2>. QED
    BY <1>7, <1>8, NaturalsInduct
<1>10. IsFiniteSet(B(n)) /\ Cardinality(B(n)) = Total(counts)
  BY <1>1, <1>4, <1>9
<1>. QED
  BY <1>10 DEF B, n, counts

LEMMA NameEvents ==
    ASSUME NEW fns \in Seq(Seq(Pairs))
    PROVE  LET flat == FlattenSeq([i \in DOMAIN fns |-> NtfsFamily(fns[i], "FN", i - 1)])
           IN  /\ flat \in Seq(FamilyEvents)
               /\ Identities(flat) = NameIdentities(fns, Len(fns))
<1>. DEFINE n == Len(fns)
            seqs == [i \in DOMAIN fns |-> NtfsFamily(fns[i], "FN", i - 1)]
            flat == FlattenSeq(seqs)
            C(i) == FamilyIdentities("FN", i - 1, TimesThatAreSet(fns[i]))
<1>1. n \in Nat /\ DOMAIN fns = 1..n /\ \A i \in 1..n : fns[i] \in Seq(Pairs)
  BY LenProperties, ElementOfSeq
<1>2. ASSUME NEW i \in 1..n
      PROVE  seqs[i] \in Seq(FamilyEvents) /\ Identities(seqs[i]) = C(i)
  <2>1. fns[i] \in Seq(Pairs) /\ i - 1 \in Nat /\ seqs[i] = NtfsFamily(fns[i], "FN", i - 1)
    BY <1>1
  <2>. QED
    BY <2>1, FamilyIsRead
<1>3. seqs \in [1..n -> Seq(FamilyEvents)]
  BY <1>1, <1>2
<1>. HIDE DEF seqs, n
<1>4. flat \in Seq(FamilyEvents) /\ SameMembers(flat, n, seqs)
  BY <1>1, <1>3, FlattenKeepsAll
<1>. HIDE DEF flat
<1>5. /\ DOMAIN flat = 1..Len(flat)
      /\ \A i \in 1..n : DOMAIN seqs[i] = 1..Len(seqs[i])
  BY <1>2, <1>4, LenProperties
<1>6. ASSUME NEW t \in Identities(flat) PROVE \E i \in 1..n : t \in C(i)
  <2>1. PICK k \in 1..Len(flat) : t = LogicalIdentity(flat[k])
    BY <1>5 DEF Identities
  <2>2. PICK i \in 1..n : \E j \in 1..Len(seqs[i]) : flat[k] = seqs[i][j]
    BY <1>4 DEF SameMembers
  <2>3. t \in Identities(seqs[i])
    BY <1>5, <2>1, <2>2 DEF Identities
  <2>. QED
    BY <1>2, <2>3
<1>7. ASSUME NEW i \in 1..n, NEW t \in C(i) PROVE t \in Identities(flat)
  <2>1. t \in Identities(seqs[i])
    BY <1>2
  <2>2. PICK j \in 1..Len(seqs[i]) : t = LogicalIdentity(seqs[i][j])
    BY <1>5, <2>1 DEF Identities
  <2>3. PICK k \in 1..Len(flat) : flat[k] = seqs[i][j]
    BY <1>4 DEF SameMembers
  <2>. QED
    BY <1>5, <2>2, <2>3 DEF Identities
<1>. HIDE DEF C
<1>8. NameIdentities(fns, n) = UNION {C(i) : i \in 1..n}
  BY DEF NameIdentities, C
<1>9. Identities(flat) = NameIdentities(fns, n)
  BY <1>6, <1>7, <1>8
<1>. QED
  BY <1>4, <1>9 DEF flat, seqs, n

LEMMA FileRecordEvents ==
    ASSUME NEW record, "boot" \in DOMAIN record \/ IsRecord(record)
    PROVE  OneEventPerTime("NTFS_MFT", record)
<1>. DEFINE listed == Normalize("NTFS_MFT", record).events
            si == IF record.si = None THEN <<>> ELSE NtfsFamily(record.si, "SI", 0)
            S == IF record.si = None THEN {} ELSE TimesThatAreSet(record.si)
            A == FamilyIdentities("SI", 0, S)
            B == NameIdentities(record.fns, Len(record.fns))
            flat == FlattenSeq([i \in DOMAIN record.fns |->
                                   NtfsFamily(record.fns[i], "FN", i - 1)])
            named == Total([i \in DOMAIN record.fns |-> TimesSet(record.fns[i])])
<1>1. CASE "boot" \in DOMAIN record
  <2>1. listed = <<>> /\ SourceTimes(record, "NTFS_MFT") = 0
    BY <1>1 DEF Normalize, NtfsEvents, Events, SourceTimes
  <2>. HIDE DEF listed
  <2>. QED
    BY <2>1, NoEvents DEF OneEventPerTime, listed
<1>2. CASE "boot" \notin DOMAIN record
  <2>1. /\ record.si # None => record.si \in Seq(Pairs)
        /\ record.fns \in Seq(Seq(Pairs))
    BY <1>2 DEF IsRecord
  <2>2. listed = si \o flat
    BY <1>2 DEF Normalize, NtfsEvents, Events
  <2>3. SourceTimes(record, "NTFS_MFT")
          = (IF record.si = None THEN 0 ELSE TimesSet(record.si)) + named
    BY <1>2 DEF SourceTimes
  <2>4. /\ si \in Seq(FamilyEvents) /\ Identities(si) = A
        /\ IsFiniteSet(S)
        /\ Cardinality(S) = IF record.si = None THEN 0 ELSE TimesSet(record.si)
    <3>1. CASE record.si = None
      <4>1. Identities(<<>>) = {} /\ FamilyIdentities("SI", 0, {}) = {}
        BY NoEvents DEF FamilyIdentities
      <4>. QED
        BY <3>1, <4>1, FS_EmptySet, EmptySeq
    <3>2. CASE record.si # None
      BY <2>1, <3>2, FamilyIsRead, TimesThatAreSetFinite
    <3>. QED
      BY <3>1, <3>2
  <2>5. flat \in Seq(FamilyEvents) /\ Identities(flat) = B
    BY <2>1, NameEvents
  <2>6. IsFiniteSet(B) /\ Cardinality(B) = named
    BY <2>1, NamesCount
  <2>7. IsFiniteSet(A) /\ Cardinality(A) = Cardinality(S)
    <3>. HIDE DEF S
    <3>. QED
      BY <2>4, FamilyCount
  <2>8. A \cap B = {}
    <3>1. \A t \in A : t[1] = "SI"
      BY DEF FamilyIdentities
    <3>2. \A t \in B : t[1] = "FN"
      BY DEF NameIdentities, FamilyIdentities
    <3>. HIDE DEF A, B
    <3>. QED
      BY <3>1, <3>2
  <2>. HIDE DEF listed, si, S, A, B, flat, named
  <2>9. Identities(listed) = A \union B
    <3>1. /\ Len(si) \in Nat /\ Len(flat) \in Nat
          /\ DOMAIN si = 1..Len(si) /\ DOMAIN flat = 1..Len(flat)
      BY <2>4, <2>5, LenProperties
    <3>2. /\ listed \in Seq(FamilyEvents) /\ Len(listed) = Len(si) + Len(flat)
          /\ \A k \in 1..Len(si) + Len(flat) :
                listed[k] = IF k <= Len(si) THEN si[k] ELSE flat[k - Len(si)]
      BY <2>2, <2>4, <2>5, ConcatProperties
    <3>3. DOMAIN listed = 1..Len(si) + Len(flat)
      BY <3>2, LenProperties
    <3>4. ASSUME NEW t \in Identities(listed)
          PROVE  t \in Identities(si) \/ t \in Identities(flat)
      <4>1. PICK k \in 1..Len(si) + Len(flat) : t = LogicalIdentity(listed[k])
        BY <3>3 DEF Identities
      <4>2. CASE k <= Len(si)
        <5>1. k \in DOMAIN si /\ listed[k] = si[k]
          BY <3>1, <3>2, <4>2
        <5>. QED
          BY <4>1, <5>1 DEF Identities
      <4>3. CASE ~(k <= Len(si))
        <5>1. k - Len(si) \in DOMAIN flat /\ listed[k] = flat[k - Len(si)]
          BY <3>1, <3>2, <4>3
        <5>. QED
          BY <4>1, <5>1 DEF Identities
      <4>. QED
        BY <4>2, <4>3
    <3>5. ASSUME NEW t \in Identities(si) PROVE t \in Identities(listed)
      <4>1. PICK k \in 1..Len(si) : t = LogicalIdentity(si[k])
        BY <3>1 DEF Identities
      <4>2. k \in DOMAIN listed /\ listed[k] = si[k]
        BY <3>1, <3>2, <3>3
      <4>. QED
        BY <4>1, <4>2 DEF Identities
    <3>6. ASSUME NEW t \in Identities(flat) PROVE t \in Identities(listed)
      <4>1. PICK k \in 1..Len(flat) : t = LogicalIdentity(flat[k])
        BY <3>1 DEF Identities
      <4>. DEFINE l == Len(si) + k
      <4>2. l \in 1..Len(si) + Len(flat) /\ ~(l <= Len(si)) /\ l - Len(si) = k
        BY <3>1
      <4>. HIDE DEF l
      <4>3. l \in DOMAIN listed /\ listed[l] = flat[k]
        BY <3>2, <3>3, <4>2
      <4>. QED
        BY <4>1, <4>3 DEF Identities
    <3>. QED
      BY <2>4, <2>5, <3>4, <3>5, <3>6
  <2>10. Cardinality(A \union B) = Cardinality(A) + Cardinality(B)
    <3>1. Cardinality(A \union B) = Cardinality(A) + Cardinality(B) - Cardinality(A \cap B)
      BY <2>6, <2>7, FS_Union
    <3>2. Cardinality(A \cap B) = 0 /\ Cardinality(A) \in Nat /\ Cardinality(B) \in Nat
      BY <2>6, <2>7, <2>8, FS_EmptySet, FS_CardinalityType
    <3>. QED
      BY <3>1, <3>2
  <2>. QED
    BY <2>3, <2>4, <2>6, <2>7, <2>9, <2>10 DEF OneEventPerTime, listed
<1>. QED
  BY <1>1, <1>2


-----------------------------------------------------------------------------
\* What was written to a master file table

\* The fixup accepts a record only if all sectors come from one write, and then
\* undoes what that write did to it.
LEMMA FixupReadsBack ==
    ASSUME NEW slot, IsStored(slot), slot.words \in Seq(Nat), NEW sectorSize,
           ApplyFixup(slot, sectorSize) # Malformed
    PROVE  ~Torn(slot) /\ ApplyFixup(slot, sectorSize) = slot.written.words
<1>. DEFINE sectors == Len(slot.written.numbers)
            size == Len(slot.words) \div sectors
            written == slot.written.words
            fixed == [k \in DOMAIN slot.words |->
                         IF k % size = 0 THEN slot.usa[1 + k \div size] ELSE slot.words[k]]
<1>1. /\ slot.written.numbers \in Seq(Nat) /\ written \in Seq(Nat)
      /\ Len(slot.usa) = sectors + 1
      /\ Len(written) = Len(slot.words)
      /\ slot.usa[1] = slot.written.numbers[1]
      /\ \A i \in 1..sectors : slot.words[i * size] = slot.written.numbers[i]
      /\ ~Torn(slot) => \A k \in DOMAIN slot.words :
            IF k % size = 0 THEN slot.usa[1 + k \div size] = written[k]
            ELSE slot.words[k] = written[k]
  BY DEF IsStored
<1>2. sectors \in Nat /\ Len(slot.usa) - 1 = sectors
  BY <1>1, LenProperties
<1>3. /\ \A i \in 1..sectors : slot.words[i * size] = slot.usa[1]
      /\ ApplyFixup(slot, sectorSize) = fixed
  BY <1>2 DEF ApplyFixup
<1>4. ~Torn(slot)
  <2>1. DOMAIN slot.written.numbers = 1..sectors
    BY <1>1, LenProperties
  <2>. HIDE DEF sectors, size
  <2>. QED
    BY <1>1, <1>3, <2>1 DEF Torn
<1>5. fixed = [k \in DOMAIN slot.words |-> written[k]]
  <2>. HIDE DEF size, written
  <2>. QED
    BY <1>1, <1>4
<1>6. DOMAIN slot.words = DOMAIN written /\ written = [k \in DOMAIN written |-> written[k]]
  BY <1>1, LenProperties
<1>. HIDE DEF fixed, written
<1>. QED
  BY <1>3, <1>4, <1>5, <1>6 DEF written

\* Bytes of a run list read as numbers.
LEMMA BytesAreRead ==
    ASSUME NEW data \in Seq(Nat), NEW a \in Nat, NEW b \in Nat, a >= 1, b <= Len(data)
    PROVE  /\ LittleEndian(SubSeq(data, a, b)) \in Int
           /\ a <= b => Signed(SubSeq(data, a, b)) \in Int
<1>. DEFINE bytes == SubSeq(data, a, b)
<1>1. Len(data) \in Nat /\ \A i \in 1..Len(data) : data[i] \in Nat
  BY LenProperties, ElementOfSeq
<1>2. bytes \in Seq(Nat) /\ (a <= b => Len(bytes) = b - a + 1)
  <2>1. \A i \in a..b : data[i] \in Nat
    BY <1>1
  <2>. QED
    BY <2>1, SubSeqProperties
<1>. HIDE DEF bytes
<1>3. LittleEndian(bytes) \in Int
  BY <1>2, NumberIsRead DEF LittleEndian
<1>4. ASSUME a <= b
      PROVE  Signed(bytes) \in Int
  <2>1. Len(bytes) \in 1..Len(bytes) /\ bytes # <<>>
    <3>1. Len(bytes) \in Nat /\ Len(bytes) >= 1
      BY <1>2, <1>4
    <3>. QED
      BY <3>1, EmptySeq
  <2>2. Last(bytes) \in Nat
    BY <1>2, <2>1, ElementOfSeq DEF Last
  <2>3. Front(bytes) \in Seq(Nat)
    BY <1>2, <2>1, FrontKeeps
  <2>4. (IF Last(bytes) < 128 THEN Last(bytes) ELSE Last(bytes) - 256) \in Int
    BY <2>2
  <2>. QED
    BY <2>3, <2>4, NumberIsRead DEF Signed
<1>. QED
  BY <1>3, <1>4 DEF bytes

\* Some of the bytes of a run list.
LEMMA BytesOf ==
    ASSUME NEW data \in Seq(0..255), NEW o \in Nat, NEW size \in Nat, o + size <= Len(data)
    PROVE  LET bytes == SubSeq(data, o + 1, o + size)
           IN  /\ bytes \in Seq(Nat) /\ Len(bytes) = size
               /\ \A k \in 1..size : bytes[k] = data[o + k]
               /\ size >= 1 => bytes # <<>>
<1>. DEFINE a == o + 1
            b == o + size
            bytes == SubSeq(data, a, b)
<1>1. Len(data) \in Nat /\ \A i \in 1..Len(data) : data[i] \in 0..255
  BY LenProperties, ElementOfSeq
<1>2. \A i \in a..b : data[i] \in Nat
  <2>1. \A i \in o + 1..o + size : i \in 1..Len(data)
    BY <1>1
  <2>2. \A x \in 0..255 : x \in Nat
    OBVIOUS
  <2>. QED
    BY <1>1, <2>1, <2>2, Zenon
<1>3. a \in Int /\ b \in Int
  OBVIOUS
<1>4. /\ bytes \in Seq(Nat)
      /\ Len(bytes) = IF a <= b THEN b - a + 1 ELSE 0
      /\ \A k \in 1..b - a + 1 : bytes[k] = data[a + k - 1]
  <2>. HIDE DEF a, b
  <2>. QED
    BY <1>2, <1>3, SubSeqProperties
<1>. HIDE DEF bytes
<1>5. Len(bytes) = size /\ \A k \in 1..size : bytes[k] = data[o + k]
  <2>1. \A k \in 1..size : k \in 1..b - a + 1 /\ a + k - 1 = o + k
    OBVIOUS
  <2>2. \A k \in 1..size : bytes[k] = data[o + k]
    BY <1>4, <2>1
  <2>3. (IF a <= b THEN b - a + 1 ELSE 0) = size
    OBVIOUS
  <2>. HIDE DEF a, b
  <2>. QED
    BY <1>4, <2>2, <2>3
<1>6. size >= 1 => bytes # <<>>
  BY <1>5, EmptySeq
<1>. QED
  BY <1>4, <1>5, <1>6 DEF bytes

RunRecords == [count : Int, lcn : Int \union {None}]

\* The size of a run, its length, and where it leaves the position.
Length(data, o) == data[o] % 16

Offset(data, o) == data[o] \div 16

Count(data, o) == LittleEndian(SubSeq(data, o + 1, o + Length(data, o)))

NextBase(data, o, base) ==
    IF Offset(data, o) = 0 THEN base
    ELSE base + Signed(SubSeq(data, o + Length(data, o) + 1,
                              o + Length(data, o) + Offset(data, o)))

NextAt(data, o, base) ==
    <<o + 1 + Length(data, o) + Offset(data, o), NextBase(data, o, base)>>

\* A run at o that can be read.
Readable(data, o) ==
    /\ Length(data, o) # 0 /\ ~(Length(data, o) > 8) /\ ~(Offset(data, o) > 8)
    /\ ~(o + Length(data, o) + Offset(data, o) > Len(data))
    /\ Count(data, o) # 0

RunAt(data, o, base) ==
    [count |-> Count(data, o),
     lcn |-> IF Offset(data, o) = 0 THEN None ELSE NextBase(data, o, base)]

RunsStep(data, f, at) ==
    IF at[1] > Len(data) THEN <<>>
    ELSE IF data[at[1]] = 0 THEN <<>>
    ELSE IF ~Readable(data, at[1]) THEN Malformed
    ELSE IF f[NextAt(data, at[1], at[2])] = Malformed THEN Malformed
    ELSE <<RunAt(data, at[1], at[2])>> \o f[NextAt(data, at[1], at[2])]

\* The same as _data_runs has it.
DataRunsTurn(data, f, at) ==
    LET o == at[1]
        n == data[o] % 16
        m == data[o] \div 16
        count == LittleEndian(SubSeq(data, o + 1, o + n))
        next == IF m = 0 THEN at[2]
                ELSE at[2] + Signed(SubSeq(data, o + n + 1, o + n + m))
    IN  IF o > Len(data) THEN <<>>
        ELSE IF data[o] = 0 THEN <<>>
        ELSE IF n = 0 \/ n > 8 \/ m > 8 THEN Malformed
        ELSE IF o + n + m > Len(data) THEN Malformed
        ELSE IF count = 0 THEN Malformed
        ELSE LET rest == f[<<o + 1 + n + m, next>>]
             IN  IF rest = Malformed THEN Malformed
                 ELSE <<[count |-> count,
                         lcn |-> IF m = 0 THEN None ELSE next]>> \o rest

LEMMA TurnIsAStep ==
    ASSUME NEW data, NEW f, NEW at
    PROVE  DataRunsTurn(data, f, at) = RunsStep(data, f, at)
<1>. DEFINE o == at[1]
            n == Length(data, o)
            m == Offset(data, o)
            next == NextBase(data, o, at[2])
<1>1. next = IF m = 0 THEN at[2]
             ELSE at[2] + Signed(SubSeq(data, o + n + 1, o + n + m))
  BY DEF NextBase
<1>2. NextAt(data, o, at[2]) = <<o + 1 + n + m, next>>
  BY DEF NextAt
<1>3. RunAt(data, o, at[2]) = [count |-> Count(data, o),
                               lcn |-> IF m = 0 THEN None ELSE next]
  BY DEF RunAt
<1>4. DataRunsTurn(data, f, at) =
        IF o > Len(data) THEN <<>>
        ELSE IF data[o] = 0 THEN <<>>
        ELSE IF n = 0 \/ n > 8 \/ m > 8 THEN Malformed
        ELSE IF o + n + m > Len(data) THEN Malformed
        ELSE IF Count(data, o) = 0 THEN Malformed
        ELSE IF f[<<o + 1 + n + m, next>>] = Malformed THEN Malformed
        ELSE <<[count |-> Count(data, o), lcn |-> IF m = 0 THEN None ELSE next]>>
             \o f[<<o + 1 + n + m, next>>]
  BY DEF DataRunsTurn, Count, Length, Offset, NextBase
<1>5. Readable(data, o) <=> /\ ~(n = 0 \/ n > 8 \/ m > 8) /\ ~(o + n + m > Len(data))
                            /\ Count(data, o) # 0
  BY DEF Readable
<1>. HIDE DEF n, m, next
<1>. QED
  BY <1>2, <1>3, <1>4, <1>5 DEF RunsStep

Positions(data) == (1..Len(data) + 1) \X Int

\* The next position is one, and lies further on.
LEMMA RunsGoOn ==
    ASSUME NEW data \in Seq(0..255), NEW o \in 1..Len(data), NEW base \in Int,
           Readable(data, o)
    PROVE  /\ NextAt(data, o, base) \in Positions(data)
           /\ NextAt(data, o, base)[1] > o
           /\ RunAt(data, o, base) \in RunRecords
<1>. DEFINE n == Length(data, o)
            m == Offset(data, o)
<1>1. Len(data) \in Nat /\ data[o] \in 0..255 /\ data \in Seq(Nat)
  <2>1. Len(data) \in Nat /\ \A i \in 1..Len(data) : data[i] \in 0..255
    BY LenProperties, ElementOfSeq
  <2>2. data \in [1..Len(data) -> 0..255]
    BY LenProperties
  <2>3. \A x \in 0..255 : x \in Nat
    OBVIOUS
  <2>4. \A i \in 1..Len(data) : data[i] \in Nat
    BY <2>1, <2>3, Zenon
  <2>5. data \in [1..Len(data) -> Nat]
    BY <2>2, <2>4
  <2>. QED
    BY <2>1, <2>5, SeqDef
<1>2. n \in Nat /\ m \in Nat
  BY <1>1 DEF Length, Offset
<1>3. n >= 1 /\ o + n + m <= Len(data)
  BY <1>1, <1>2 DEF Readable
<1>4. Count(data, o) \in Int
  <2>1. o + 1 \in Nat /\ o + n \in Nat /\ o + 1 >= 1 /\ o + n <= Len(data)
    BY <1>1, <1>2, <1>3
  <2>. HIDE DEF n
  <2>2. LittleEndian(SubSeq(data, o + 1, o + n)) \in Int
    BY <1>1, <2>1, BytesAreRead
  <2>. QED
    BY <2>2 DEF Count, n
<1>5. NextBase(data, o, base) \in Int
  <2>1. CASE m = 0
    BY <2>1 DEF NextBase
  <2>2. CASE m # 0
    <3>. HIDE DEF n, m
    <3>1. /\ o + n + 1 \in Nat /\ o + n + m \in Nat /\ o + n + 1 >= 1
          /\ o + n + m <= Len(data) /\ o + n + 1 <= o + n + m
      BY <1>1, <1>2, <1>3, <2>2
    <3>2. Signed(SubSeq(data, o + n + 1, o + n + m)) \in Int
      BY <1>1, <3>1, BytesAreRead
    <3>. QED
      BY <2>2, <3>2 DEF NextBase, n, m
  <2>. QED
    BY <2>1, <2>2
<1>. HIDE DEF n, m
<1>6. o + 1 + n + m \in 1..Len(data) + 1 /\ o + 1 + n + m > o
  BY <1>1, <1>2, <1>3
<1>7. NextAt(data, o, base) = <<o + 1 + n + m, NextBase(data, o, base)>>
  BY DEF NextAt, n, m
<1>8. NextAt(data, o, base) \in Positions(data) /\ NextAt(data, o, base)[1] > o
  BY <1>5, <1>6, <1>7 DEF Positions
<1>. QED
  BY <1>4, <1>5, <1>8 DEF RunAt, RunRecords

\* The walk over a run list exists, and gives at every position what the next
\* turn makes of what follows.
LEMMA RunsAreWalked ==
    ASSUME NEW data \in Seq(0..255)
    PROVE  \E walk : /\ DataRuns(data) = AtMost(MaxRuns, walk[<<1, 0>>])
                     /\ \A at \in Positions(data) :
                           walk[at] = RunsStep(data, walk, at)
<1>. DEFINE D == Positions(data)
            V == Chains(RunRecords)
            rank == [at \in D |-> Len(data) + 1 - at[1]]
            F == [p \in [D -> V] \X D |-> RunsStep(data, p[1], p[2])]
            Eq(f) == f = [at \in D |-> DataRunsTurn(data, f, at)]
            walk == CHOOSE f : Eq(f)
<1>1. Len(data) \in Nat
  BY LenProperties
<1>2. DataRuns(data) = AtMost(MaxRuns, walk[<<1, 0>>])
  BY DEF DataRuns, DataRunsTurn, Positions
<1>3. ASSUME NEW at \in D
      PROVE  /\ at[1] \in 1..Len(data) + 1 /\ at[2] \in Int
             /\ at[1] <= Len(data) /\ Readable(data, at[1]) =>
                   /\ NextAt(data, at[1], at[2]) \in D
                   /\ NextAt(data, at[1], at[2])[1] > at[1]
                   /\ RunAt(data, at[1], at[2]) \in RunRecords
  <2>1. at[1] \in 1..Len(data) + 1 /\ at[2] \in Int
    BY DEF Positions
  <2>2. at[1] <= Len(data) => at[1] \in 1..Len(data)
    BY <1>1, <2>1
  <2>. QED
    BY <2>1, <2>2, RunsGoOn
<1>4. rank \in [D -> Nat]
  <2>1. \A at \in D : Len(data) + 1 - at[1] \in Nat
    BY <1>1, <1>3
  <2>. HIDE DEF D
  <2>. QED
    BY <2>1
<1>. HIDE DEF D
<1>5. ASSUME NEW g \in [D -> V], NEW at \in D
      PROVE  RunsStep(data, g, at) \in V
  <2>1. Malformed \in V /\ <<>> \in V
    BY DEF Chains
  <2>2. ASSUME at[1] <= Len(data), Readable(data, at[1]),
               g[NextAt(data, at[1], at[2])] # Malformed
        PROVE  <<RunAt(data, at[1], at[2])>> \o g[NextAt(data, at[1], at[2])] \in V
    <3>1. g[NextAt(data, at[1], at[2])] \in Seq(RunRecords)
      <4>1. g[NextAt(data, at[1], at[2])] \in V
        BY <1>3, <2>2
      <4>. QED
        BY <2>2, <4>1 DEF Chains
    <3>2. RunAt(data, at[1], at[2]) \in RunRecords
      BY <1>3, <2>2
    <3>3. <<RunAt(data, at[1], at[2])>> \o g[NextAt(data, at[1], at[2])] \in Seq(RunRecords)
      BY <3>1, <3>2, ConcatProperties
    <3>. QED
      BY <3>3 DEF Chains
  <2>3. at[1] > Len(data) \/ at[1] <= Len(data)
    BY <1>1, <1>3
  <2>. HIDE DEF V
  <2>. QED
    BY <2>1, <2>2, <2>3 DEF RunsStep
<1>6. ASSUME NEW g \in [D -> V], NEW h \in [D -> V], NEW at \in D,
             \A k \in D : rank[k] < rank[at] => g[k] = h[k]
      PROVE  RunsStep(data, g, at) = RunsStep(data, h, at)
  <2>1. ASSUME at[1] <= Len(data), Readable(data, at[1])
        PROVE  g[NextAt(data, at[1], at[2])] = h[NextAt(data, at[1], at[2])]
    <3>. DEFINE next == NextAt(data, at[1], at[2])
    <3>1. next \in D /\ next[1] > at[1]
      BY <1>3, <2>1
    <3>. HIDE DEF next
    <3>2. rank[next] = Len(data) + 1 - next[1] /\ rank[at] = Len(data) + 1 - at[1]
      BY <3>1
    <3>3. next[1] \in Int /\ at[1] \in Int
      BY <1>3, <3>1
    <3>4. rank[next] < rank[at]
      <4>. HIDE DEF rank
      <4>. QED
        BY <1>1, <3>1, <3>2, <3>3
    <3>. HIDE DEF rank
    <3>5. g[next] = h[next]
      BY <1>6, <3>1, <3>4
    <3>. QED
      BY <3>5 DEF next
  <2>2. at[1] > Len(data) \/ at[1] <= Len(data)
    BY <1>1, <1>3
  <2>. QED
    BY <2>1, <2>2 DEF RunsStep
<1>7. \A g \in [D -> V], at \in D : F[<<g, at>>] = RunsStep(data, g, at)
  <2>. HIDE DEF V
  <2>. QED
    OBVIOUS
<1>8. PICK f \in [D -> V] : \A at \in D : f[at] = RunsStep(data, f, at)
  <2>1. V # {}
    BY DEF Chains
  <2>2. F \in [[D -> V] \X D -> V]
    <3>. HIDE DEF V
    <3>. QED
      BY <1>5
  <2>. HIDE DEF V, rank, F
  <2>3. \A g, h \in [D -> V], at \in D :
          (\A k \in D : rank[k] < rank[at] => g[k] = h[k]) => F[<<g, at>>] = F[<<h, at>>]
    <3>. TAKE g, h \in [D -> V], at \in D
    <3>. HAVE \A k \in D : rank[k] < rank[at] => g[k] = h[k]
    <3>1. RunsStep(data, g, at) = RunsStep(data, h, at)
      BY <1>6
    <3>. QED
      BY <1>7, <3>1
  <2>4. WellRanked(D, V, rank, F)
    BY <1>4, <2>1, <2>2, <2>3 DEF WellRanked
  <2>5. Solvable(D, V, F)
    BY <2>4, Recursion
  <2>6. PICK f \in [D -> V] : \A at \in D : f[at] = F[<<f, at>>]
    BY <2>5 DEF Solvable
  <2>. QED
    BY <1>7, <2>6
<1>9. Eq(walk)
  <2>1. Eq(f)
    <3>1. \A at \in D : f[at] = DataRunsTurn(data, f, at)
      BY <1>8, TurnIsAStep
    <3>. HIDE DEF V
    <3>. QED
      BY <3>1
  <2>. HIDE DEF Eq
  <2>. QED
    BY <2>1
<1>. HIDE DEF walk
<1>10. \A at \in D : walk[at] = RunsStep(data, walk, at)
  BY <1>9, TurnIsAStep
<1>. QED
  BY <1>2, <1>10 DEF D

WrittenRuns == [count : Nat, lcn : Int \union {None}]

\* The position a run is relative to moves with every run that has one.
LEMMA BaseMoves ==
    ASSUME NEW runs \in Seq(WrittenRuns)
    PROVE  /\ Base(runs, 1) = 0
           /\ \A i \in 1..Len(runs) + 1 : Base(runs, i) \in Int
           /\ \A i \in 1..Len(runs) :
                 Base(runs, i + 1) = IF runs[i].lcn = None THEN Base(runs, i)
                                     ELSE runs[i].lcn
<1>. DEFINE real(i) == {j \in 1..i - 1 : runs[j].lcn # None}
<1>1. Len(runs) \in Nat /\ \A j \in 1..Len(runs) : runs[j].lcn \in Int \union {None}
  <2>1. Len(runs) \in Nat /\ \A j \in 1..Len(runs) : runs[j] \in WrittenRuns
    BY LenProperties, ElementOfSeq
  <2>2. \A r \in WrittenRuns : r.lcn \in Int \union {None}
    BY DEF WrittenRuns
  <2>. QED
    BY <2>1, <2>2
<1>2. \A i : Base(runs, i) = IF real(i) = {} THEN 0 ELSE runs[Max(real(i))].lcn
  BY DEF Base
<1>3. real(1) = {}
  OBVIOUS
<1>4. ASSUME NEW i \in 1..Len(runs) + 1
      PROVE  Base(runs, i) \in Int
  <2>1. CASE real(i) = {}
    <3>1. Base(runs, i) = 0
      BY <1>2, <2>1
    <3>. QED
      BY <3>1
  <2>2. CASE real(i) # {}
    <3>1. i - 1 \in Nat /\ real(i) \in SUBSET (1..i - 1)
      BY <1>1
    <3>2. Max(real(i)) \in real(i)
      <4>. HIDE DEF real
      <4>. QED
        BY <2>2, <3>1, MaxInSet
    <3>3. Max(real(i)) \in 1..Len(runs) /\ runs[Max(real(i))].lcn # None
      BY <1>1, <3>2
    <3>. HIDE DEF real
    <3>. QED
      BY <1>1, <1>2, <2>2, <3>3
  <2>. QED
    BY <2>1, <2>2
<1>5. ASSUME NEW i \in 1..Len(runs)
      PROVE  Base(runs, i + 1) = IF runs[i].lcn = None THEN Base(runs, i) ELSE runs[i].lcn
  <2>1. i \in Nat /\ 1..i + 1 - 1 = (1..i - 1) \union {i}
    BY <1>1
  <2>2. CASE runs[i].lcn = None
    <3>1. real(i + 1) = real(i)
      BY <2>1, <2>2
    <3>. HIDE DEF real
    <3>. QED
      BY <1>2, <2>2, <3>1
  <2>3. CASE runs[i].lcn # None
    <3>1. i \in real(i + 1) /\ \A j \in real(i + 1) : j \in Int /\ i >= j
      BY <2>1, <2>3
    <3>2. Max(real(i + 1)) \in real(i + 1)
          /\ \A j \in real(i + 1) : Max(real(i + 1)) >= j
      <4>. HIDE DEF real
      <4>. QED
        BY <3>1 DEF Max
    <3>. HIDE DEF real
    <3>3. Max(real(i + 1)) = i
      BY <3>1, <3>2
    <3>. QED
      BY <1>2, <2>3, <3>1, <3>3
  <2>. QED
    BY <2>2, <2>3
<1>. HIDE DEF real
<1>. QED
  BY <1>2, <1>3, <1>4, <1>5

LEMMA HalfBytes ==
    /\ \A d \in 0..255 : d % 16 \in Nat /\ d \div 16 \in Nat
    /\ \A k \in Nat : k \in 1..8 <=> (k # 0 /\ ~(k > 8))
    /\ \A k \in Nat : k \in 0..8 <=> ~(k > 8)
    /\ \A k, l \in Nat : k <= l <=> ~(k > l)
  OBVIOUS

\* A run list reads back as it was written, and is refused if it was cut short or
\* is too long.
LEMMA RunListReadsBack ==
    ASSUME NEW data \in Seq(0..255), NEW written, IsRunList(data, written)
    PROVE  DataRuns(data) = AtMost(MaxRuns, IF written.whole THEN written.runs ELSE Malformed)
<1>. DEFINE runs == written.runs
            cuts == written.cuts
            n == Len(runs)
            Rest(i) == IF written.whole THEN SubSeq(runs, i, n) ELSE Malformed
<1>1. /\ runs \in Seq(WrittenRuns) /\ cuts \in Seq(1..Len(data) + 1)
      /\ Len(cuts) = n + 1 /\ cuts[1] = 1
      /\ \A i \in DOMAIN runs :
            /\ cuts[i] <= Len(data) /\ data[cuts[i]] # 0
            /\ IsRun(data, cuts[i], runs, i)
            /\ cuts[i + 1] = cuts[i] + 1 + (data[cuts[i]] % 16) + (data[cuts[i]] \div 16)
      /\ IF written.whole THEN cuts[n + 1] = Len(data) + 1 \/ data[cuts[n + 1]] = 0
         ELSE /\ cuts[n + 1] <= Len(data) /\ data[cuts[n + 1]] # 0
              /\ ~RunFits(data, cuts[n + 1])
  BY DEF IsRunList, WrittenRuns
<1>. HIDE DEF runs, cuts
<1>2. /\ n \in Nat /\ Len(data) \in Nat /\ DOMAIN runs = 1..n
      /\ \A o \in 1..Len(data) : data[o] \in 0..255
      /\ \A i \in 1..n + 1 : cuts[i] \in 1..Len(data) + 1
      /\ \A i \in 1..n : runs[i] \in WrittenRuns
  BY <1>1, LenProperties, ElementOfSeq
<1>. HIDE DEF n
<1>3. /\ Malformed \notin Seq(WrittenRuns) /\ None \notin Int
  BY WrittenAssumption, FiletimeAssumption DEF WrittenRuns
<1>4. PICK walk : /\ DataRuns(data) = AtMost(MaxRuns, walk[<<1, 0>>])
                  /\ \A at \in Positions(data) : walk[at] = RunsStep(data, walk, at)
  BY RunsAreWalked
<1>5. ASSUME NEW i \in 1..n + 1
      PROVE  walk[<<cuts[i], Base(runs, i)>>]
               = RunsStep(data, walk, <<cuts[i], Base(runs, i)>>)
  <2>1. cuts[i] \in 1..Len(data) + 1 /\ Base(runs, i) \in Int
    BY <1>1, <1>2, BaseMoves DEF n
  <2>. QED
    BY <1>4, <2>1 DEF Positions
<1>6. ASSUME NEW o \in 1..Len(data)
      PROVE  RunFits(data, o) <=> Readable(data, o)
  <2>1. Length(data, o) \in Nat /\ Offset(data, o) \in Nat
    <3>1. data[o] \in 0..255
      BY <1>2
    <3>. QED
      BY <3>1, HalfBytes DEF Length, Offset
  <2>2. RunFits(data, o) <=>
           /\ Length(data, o) \in 1..8 /\ Offset(data, o) \in 0..8
           /\ o + Length(data, o) + Offset(data, o) <= Len(data)
           /\ \E k \in 1..Length(data, o) : data[o + k] # 0
    BY DEF RunFits, Length, Offset
  <2>3. ASSUME o + Length(data, o) + Offset(data, o) <= Len(data)
        PROVE  Count(data, o) # 0 <=> \E k \in 1..Length(data, o) : data[o + k] # 0
    <3>. DEFINE size == Length(data, o)
                bytes == SubSeq(data, o + 1, o + size)
    <3>1. bytes \in Seq(Nat) /\ Len(bytes) = size /\ \A k \in 1..size : bytes[k] = data[o + k]
      <4>1. o + size <= Len(data) /\ size \in Nat /\ Offset(data, o) \in Nat
        <5>. HIDE DEF size
        <5>. QED
          BY <1>2, <2>1, <2>3 DEF size
      <4>2. o \in Nat /\ o + size \in Int
        BY <4>1
      <4>. HIDE DEF size
      <4>. QED
        BY <4>1, <4>2, BytesOf
    <3>2. Count(data, o) = LittleEndian(bytes)
      BY DEF Count
    <3>. HIDE DEF bytes, size
    <3>3. LittleEndian(bytes) # 0 <=> \E k \in 1..size : bytes[k] # 0
      BY <3>1, NoDigitsIsZero
    <3>. QED
      BY <3>1, <3>2, <3>3 DEF size
  <2>. QED
    <3>1. Len(data) \in Nat
      BY <1>2
    <3>3. o + Length(data, o) + Offset(data, o) \in Nat
      BY <2>1, <3>1
    <3>2. /\ Length(data, o) \in 1..8 <=> (Length(data, o) # 0 /\ ~(Length(data, o) > 8))
          /\ Offset(data, o) \in 0..8 <=> ~(Offset(data, o) > 8)
          /\ o + Length(data, o) + Offset(data, o) <= Len(data)
               <=> ~(o + Length(data, o) + Offset(data, o) > Len(data))
      BY <2>1, <3>1, <3>3, HalfBytes
    <3>. QED
      BY <2>2, <2>3, <3>2 DEF Readable
<1>7. walk[<<cuts[n + 1], Base(runs, n + 1)>>] = Rest(n + 1)
  <2>1. n + 1 \in 1..n + 1 /\ cuts[n + 1] \in 1..Len(data) + 1
    BY <1>2
  <2>2. walk[<<cuts[n + 1], Base(runs, n + 1)>>]
          = IF cuts[n + 1] > Len(data) THEN <<>>
            ELSE IF data[cuts[n + 1]] = 0 THEN <<>>
            ELSE IF ~Readable(data, cuts[n + 1]) THEN Malformed
            ELSE walk[<<cuts[n + 1], Base(runs, n + 1)>>]
    BY <1>5, <2>1 DEF RunsStep
  <2>3. CASE written.whole
    <3>1. walk[<<cuts[n + 1], Base(runs, n + 1)>>] = <<>>
      BY <1>1, <1>2, <2>1, <2>2, <2>3
    <3>2. SubSeq(runs, n + 1, n) = <<>>
      BY <1>2, SubSeqEmpty
    <3>. QED
      BY <2>3, <3>1, <3>2
  <2>4. CASE ~written.whole
    <3>1. cuts[n + 1] \in 1..Len(data) /\ data[cuts[n + 1]] # 0
          /\ ~Readable(data, cuts[n + 1])
      BY <1>1, <1>2, <1>6, <2>1, <2>4
    <3>. QED
      BY <1>2, <2>2, <2>4, <3>1
  <2>. QED
    BY <2>3, <2>4
<1>8. ASSUME NEW i \in 1..n, walk[<<cuts[i + 1], Base(runs, i + 1)>>] = Rest(i + 1)
      PROVE  walk[<<cuts[i], Base(runs, i)>>] = Rest(i)
  <2>. DEFINE o == cuts[i]
              base == Base(runs, i)
  <2>1. /\ o \in 1..Len(data) /\ data[o] # 0 /\ i \in 1..n + 1
        /\ IsRun(data, o, runs, i)
        /\ cuts[i + 1] = o + 1 + Length(data, o) + Offset(data, o)
    <3>1. i \in DOMAIN runs /\ i \in 1..n + 1
      BY <1>2
    <3>2. /\ o <= Len(data) /\ data[o] # 0 /\ IsRun(data, o, runs, i)
          /\ cuts[i + 1] = o + 1 + (data[o] % 16) + (data[o] \div 16)
      BY <1>1, <3>1
    <3>3. o \in 1..Len(data) + 1
      BY <1>2, <3>1
    <3>4. o \in 1..Len(data)
      <4>. HIDE DEF o
      <4>. QED
        BY <1>2, <3>2, <3>3
    <3>. HIDE DEF o
    <3>. QED
      BY <3>1, <3>2, <3>4 DEF Length, Offset
  <2>2. base \in Int
    BY <1>1, <2>1, BaseMoves DEF n
  <2>. HIDE DEF o, base
  <2>3. RunFits(data, o) /\ Readable(data, o)
    BY <1>6, <2>1 DEF IsRun
  <2>4. /\ runs[i].count = Count(data, o)
        /\ runs[i].lcn = IF Offset(data, o) = 0 THEN None ELSE NextBase(data, o, base)
    <3>. DEFINE n1 == Length(data, o)
                m1 == Offset(data, o)
                count == SubSeq(data, o + 1, o + n1)
                offset == SubSeq(data, o + n1 + 1, o + n1 + m1)
    <3>1. /\ IsNumber(count, runs[i].count, 0..255)
          /\ IF m1 = 0 THEN runs[i].lcn = None
             ELSE /\ runs[i].lcn # None
                  /\ IsNumber(offset, runs[i].lcn - base, -128..127)
      BY <2>1 DEF IsRun, Length, Offset, base
    <3>2. n1 \in Nat /\ n1 >= 1 /\ m1 \in Nat /\ o + n1 + m1 <= Len(data)
      <4>1. n1 \in Nat /\ m1 \in Nat
        <5>1. data[o] \in 0..255
          BY <1>2, <2>1
        <5>. QED
          BY <5>1, HalfBytes DEF Length, Offset
      <4>. HIDE DEF n1, m1
      <4>2. ~(n1 = 0) /\ ~(o + n1 + m1 > Len(data))
        BY <2>3 DEF Readable, n1, m1
      <4>. QED
        BY <1>2, <2>1, <4>1, <4>2
    <3>3. runs[i].count \in Nat /\ runs[i].lcn \in Int \union {None}
      BY <1>2 DEF WrittenRuns
    <3>4. runs[i].count = Count(data, o)
      <4>1. count \in Seq(Nat) /\ count # <<>>
        <5>1. o \in Nat /\ n1 \in Nat /\ n1 >= 1 /\ o + n1 <= Len(data)
          <6>. HIDE DEF n1, m1
          <6>. QED
            BY <1>2, <2>1, <3>2
        <5>. HIDE DEF n1
        <5>. QED
          BY <5>1, BytesOf
      <4>2. runs[i].count \in Int
        BY <3>3
      <4>. HIDE DEF count
      <4>3. LittleEndian(count) = runs[i].count
        BY <3>1, <4>1, <4>2, DigitsReadBack
      <4>. QED
        BY <4>3 DEF Count, count
    <3>5. ASSUME m1 # 0
          PROVE  runs[i].lcn = NextBase(data, o, base)
      <4>1. offset \in Seq(Nat) /\ offset # <<>>
        <5>1. /\ o + n1 \in Nat /\ o + n1 + m1 = (o + n1) + m1 /\ m1 >= 1
              /\ o + n1 + m1 <= Len(data)
          <6>. HIDE DEF n1, m1
          <6>. QED
            BY <1>2, <2>1, <3>2, <3>5
        <5>. HIDE DEF n1, m1
        <5>. QED
          BY <3>2, <5>1, BytesOf
      <4>2. runs[i].lcn \in Int /\ runs[i].lcn - base \in Int
        BY <2>2, <3>1, <3>3, <3>5
      <4>. HIDE DEF offset
      <4>3. Signed(offset) = runs[i].lcn - base
        BY <3>1, <3>5, <4>1, <4>2, DigitsReadBack
      <4>4. runs[i].lcn = base + Signed(offset)
        BY <2>2, <4>2, <4>3
      <4>. QED
        BY <3>5, <4>4 DEF NextBase, offset
    <3>. QED
      BY <3>1, <3>4, <3>5
  <2>5. RunAt(data, o, base) = runs[i]
    <3>1. runs[i] = [count |-> runs[i].count, lcn |-> runs[i].lcn]
      BY <1>2 DEF WrittenRuns
    <3>. QED
      BY <2>4, <3>1 DEF RunAt
  <2>6. NextAt(data, o, base) = <<cuts[i + 1], Base(runs, i + 1)>>
    <3>1. NextAt(data, o, base) \in Positions(data)
      BY <2>1, <2>2, <2>3, RunsGoOn
    <3>2. NextBase(data, o, base) \in Int
      BY <3>1 DEF NextAt, Positions
    <3>3. Base(runs, i + 1) = IF runs[i].lcn = None THEN base ELSE runs[i].lcn
      BY <1>1, BaseMoves DEF n, base
    <3>4. Base(runs, i + 1) = NextBase(data, o, base)
      <4>1. CASE Offset(data, o) = 0
        BY <2>4, <3>3, <4>1 DEF NextBase
      <4>2. CASE Offset(data, o) # 0
        BY <1>3, <2>4, <3>2, <3>3, <4>2
      <4>. QED
        BY <4>1, <4>2
    <3>. QED
      BY <2>1, <3>4 DEF NextAt
  <2>7. walk[<<o, base>>]
          = IF Rest(i + 1) = Malformed THEN Malformed ELSE <<runs[i]>> \o Rest(i + 1)
    <3>1. walk[<<o, base>>] = RunsStep(data, walk, <<o, base>>)
      BY <1>5, <2>1 DEF o, base
    <3>2. ~(o > Len(data))
      BY <1>2, <2>1
    <3>. HIDE DEF Rest
    <3>3. RunsStep(data, walk, <<o, base>>)
            = IF walk[NextAt(data, o, base)] = Malformed THEN Malformed
              ELSE <<RunAt(data, o, base)>> \o walk[NextAt(data, o, base)]
      BY <2>1, <2>3, <3>2 DEF RunsStep
    <3>. QED
      BY <1>8, <2>5, <2>6, <3>1, <3>3
  <2>8. CASE written.whole
    <3>1. SubSeq(runs, i + 1, n) \in Seq(WrittenRuns)
      <4>1. \A j \in i + 1..n : runs[j] \in WrittenRuns
        BY <1>2
      <4>. QED
        BY <1>2, <4>1, SubSeqProperties
    <3>2. SubSeq(runs, i, n) = <<runs[i]>> \o SubSeq(runs, i + 1, n)
      <4>1. i \in 1..Len(runs) /\ n \in i..Len(runs)
        BY <1>2 DEF n
      <4>. QED
        BY <1>1, <4>1, SubSeqRecursiveFirst
    <3>. QED
      BY <1>3, <2>7, <2>8, <3>1, <3>2 DEF o, base
  <2>9. CASE ~written.whole
    BY <2>7, <2>9 DEF o, base
  <2>. QED
    BY <2>8, <2>9
<1>. DEFINE T == {i \in 1..n + 1 : walk[<<cuts[i], Base(runs, i)>>] = Rest(i)}
<1>. HIDE DEF Rest
<1>9. 1..n + 1 \subseteq T
  <2>1. n + 1 \in Nat
    BY <1>2
  <2>2. ASSUME NEW i \in 1..n + 1, \A k \in 1..n + 1 : k > i => k \in T
        PROVE  i \in T
    <3>1. CASE i = n + 1
      BY <1>7, <3>1
    <3>2. CASE i # n + 1
      <4>1. i \in 1..n /\ i + 1 \in 1..n + 1 /\ i + 1 > i
        BY <1>2, <3>2
      <4>2. i + 1 \in T
        <5>. HIDE DEF T
        <5>. QED
          BY <2>2, <4>1
      <4>. QED
        BY <1>8, <4>1, <4>2
    <3>. QED
      BY <3>1, <3>2
  <2>3. Inherited(n + 1, T)
    <3>. HIDE DEF T
    <3>. QED
      BY <2>2 DEF Inherited
  <2>. HIDE DEF T
  <2>. QED
    BY <2>1, <2>3, BackwardInduction
<1>10. walk[<<1, 0>>] = Rest(1)
  <2>1. 1 \in T
    <3>. HIDE DEF T
    <3>1. 1 \in 1..n + 1
      BY <1>2
    <3>. QED
      BY <1>9, <3>1
  <2>2. Base(runs, 1) = 0
    BY <1>1, BaseMoves
  <2>. QED
    BY <1>1, <2>1, <2>2
<1>11. SubSeq(runs, 1, n) = runs
  BY <1>1, SubSeqFull DEF n
<1>. QED
  BY <1>4, <1>10, <1>11 DEF Rest, runs

-----------------------------------------------------------------------------
\* Shell Links: reading back what was written

\* A part of the first elements of a sequence is a part of the sequence.
LEMMA PartOfPart ==
    ASSUME NEW S, NEW data \in Seq(S), NEW n \in 0..Len(data)
    PROVE  /\ SubSeq(data, 1, n) \in Seq(S) /\ Len(SubSeq(data, 1, n)) = n
           /\ \A k \in 1..n : SubSeq(data, 1, n)[k] = data[k]
           /\ \A a, b \in Int : 1 <= a /\ b <= n =>
                 /\ SubSeq(data, a, b) \in Seq(S)
                 /\ SubSeq(SubSeq(data, 1, n), a, b) = SubSeq(data, a, b)
<1>. DEFINE part == SubSeq(data, 1, n)
<1>1. Len(data) \in Nat /\ n \in Nat /\ \A k \in 1..Len(data) : data[k] \in S
  BY LenProperties, ElementOfSeq
<1>2. \A k \in 1..n : data[k] \in S
  BY <1>1
<1>3. part \in Seq(S) /\ Len(part) = n /\ \A k \in 1..n : part[k] = data[k]
  BY <1>1, <1>2, SubSeqProperties
<1>. HIDE DEF part
<1>4. ASSUME NEW a \in Int, NEW b \in Int, 1 <= a, b <= n
      PROVE  SubSeq(data, a, b) \in Seq(S) /\ SubSeq(part, a, b) = SubSeq(data, a, b)
  <2>1. \A i \in a..b : i \in 1..n /\ data[i] \in S /\ part[i] = data[i]
    BY <1>1, <1>2, <1>3, <1>4
  <2>2. /\ SubSeq(data, a, b) \in Seq(S)
        /\ Len(SubSeq(data, a, b)) = IF a <= b THEN b - a + 1 ELSE 0
        /\ \A i \in 1..b - a + 1 : SubSeq(data, a, b)[i] = data[a + i - 1]
    BY <2>1, SubSeqProperties
  <2>3. /\ SubSeq(part, a, b) \in Seq(S)
        /\ Len(SubSeq(part, a, b)) = IF a <= b THEN b - a + 1 ELSE 0
        /\ \A i \in 1..b - a + 1 : SubSeq(part, a, b)[i] = part[a + i - 1]
    <3>1. \A i \in a..b : part[i] \in S
      BY <2>1
    <3>. QED
      BY <3>1, SubSeqProperties
  <2>4. \A i \in 1..Len(SubSeq(part, a, b)) : SubSeq(part, a, b)[i] = SubSeq(data, a, b)[i]
    <3>. TAKE i \in 1..Len(SubSeq(part, a, b))
    <3>1. i \in 1..b - a + 1 /\ a + i - 1 \in a..b
      BY <2>3
    <3>. QED
      BY <2>1, <2>2, <2>3, <3>1
  <2>. QED
    BY <2>2, <2>3, <2>4, SeqEqual
<1>. QED
  BY <1>3, <1>4 DEF part

\* The first m of some units are those that are whole in n bytes of them: they
\* are read, with a warning unless the n bytes end there or a terminator follows.
ReadOf(data, units, cuts, width, least, n, m) ==
    /\ Units(SubSeq(data, 1, n), width, least)
         = [items |-> SubSeq(units, 1, m),
            warnings |-> IF Terminated(SubSeq(data, 1, n), cuts[m + 1], width) THEN 0 ELSE 1]
    /\ \A k \in 1..Len(units) : k <= m <=> cuts[k + 1] <= n + 1

\* A size reads back from its bytes.
LEMMA SizeReadsBack ==
    ASSUME NEW data \in Seq(Nat), NEW width \in Nat, width >= 1,
           NEW o \in Nat, o >= 1, o + width - 1 <= Len(data), NEW size \in Int,
           IsNumber(SubSeq(data, o, o + width - 1), size, 0..255)
    PROVE  SizeAt(data, o, width) = size
<1>. DEFINE field == SubSeq(data, o, o + width - 1)
<1>1. field \in Seq(Nat) /\ field # <<>>
  BY SizeIsRead
<1>2. IsNumber(field, size, 0..255)
  OBVIOUS
<1>. HIDE DEF field
<1>3. LittleEndian(field) = size
  BY <1>1, <1>2, DigitsReadBack
<1>. QED
  BY <1>3 DEF SizeAt, field

LEMMA UnitsReadBack ==
    ASSUME NEW data \in Seq(Nat), NEW units, NEW cuts, NEW width \in Nat, width >= 1,
           NEW least \in Nat, least >= width,
           IsUnits(data, units, cuts, width, least), NEW n \in 0..Len(data)
    PROVE  \E m \in 0..Len(units) : ReadOf(data, units, cuts, width, least, n, m)
<1>. DEFINE part == SubSeq(data, 1, n)
            last == Len(units)
            whole == {i \in 1..last + 1 : cuts[i] <= n + 1}
            m == Max(whole)
            field(o) == SubSeq(data, o, o + width - 1)
            x == IF Terminated(part, cuts[m], width) THEN 0 ELSE 1
            Rest(i) == [items |-> SubSeq(units, i, m - 1), warnings |-> x]
<1>1. /\ units \in Seq(Seq(Nat)) /\ cuts \in Seq(1..Len(data) + 1)
      /\ Len(cuts) = last + 1 /\ cuts[1] = 1
      /\ \A i \in DOMAIN units :
            /\ Len(units[i]) >= least /\ cuts[i + 1] = cuts[i] + Len(units[i])
            /\ units[i] = SubSeq(data, cuts[i], cuts[i + 1] - 1)
            /\ IsNumber(field(cuts[i]), Len(units[i]), 0..255)
      /\ \/ cuts[last + 1] + width - 1 > Len(data)
         \/ \E size \in DamagedSizes :
               /\ size \notin least..Len(data) + 1 - cuts[last + 1]
               /\ IsNumber(field(cuts[last + 1]), size, 0..255)
  BY DEF IsUnits
<1>2. /\ last \in Nat /\ DOMAIN units = 1..last /\ Len(data) \in Nat /\ n \in Nat
      /\ \A i \in 1..last + 1 : cuts[i] \in 1..Len(data) + 1
      /\ \A i \in 1..last : units[i] \in Seq(Nat) /\ Len(units[i]) \in Nat
  <2>1. last \in Nat /\ DOMAIN units = 1..last
    BY <1>1, LenProperties
  <2>2. Len(data) \in Nat /\ n \in Nat
    BY LenProperties
  <2>3. \A i \in 1..last + 1 : cuts[i] \in 1..Len(data) + 1
    <3>. HIDE DEF last
    <3>. QED
      BY <1>1, ElementOfSeq
  <2>4. ASSUME NEW i \in 1..last
        PROVE  units[i] \in Seq(Nat) /\ Len(units[i]) \in Nat
    <3>1. units[i] \in Seq(Nat)
      BY <1>1, ElementOfSeq
    <3>. QED
      BY <3>1, LenProperties
  <2>. QED
    BY <2>1, <2>2, <2>3, <2>4
<1>. HIDE DEF last, field
<1>3. /\ part \in Seq(Nat) /\ Len(part) = n /\ \A k \in 1..n : part[k] = data[k]
      /\ \A a, b \in Int : 1 <= a /\ b <= n => SubSeq(part, a, b) = SubSeq(data, a, b)
  BY PartOfPart
<1>. HIDE DEF part
<1>4. /\ m \in 1..last + 1 /\ cuts[m] <= n + 1
      /\ \A i \in 1..last + 1 : cuts[i] <= n + 1 => i <= m
  <2>1. 1 \in whole /\ whole \in SUBSET (1..last + 1) /\ last + 1 \in Nat
    BY <1>1, <1>2
  <2>2. m \in whole /\ \A i \in whole : m >= i
    <3>. HIDE DEF whole
    <3>. QED
      BY <2>1, MaxInSet
  <2>. HIDE DEF m
  <2>. QED
    BY <1>2, <2>2
<1>. HIDE DEF m, whole, x
<1>5. PICK walk : /\ Units(part, width, least) = walk[1]
                  /\ \A o \in 1..n + 1 : walk[o] = UnitsStep(part, width, least, walk, o)
  <2>1. least >= 1
    OBVIOUS
  <2>2. PICK walk : /\ Units(part, width, least) = walk[1]
                    /\ \A o \in 1..Len(part) + 1 :
                          /\ walk[o] = UnitsStep(part, width, least, walk, o)
                          /\ walk[o] \in Chunks
    BY <1>3, <2>1, UnitsAreWalked
  <2>. QED
    BY <1>3, <2>2
\* What is read in n bytes is what is read in all of them.
<1>6. ASSUME NEW o \in Nat, o >= 1, o + width - 1 <= n, NEW size \in Int,
             IsNumber(field(o), size, 0..255)
      PROVE  /\ SizeAt(part, o, width) = size
             /\ size # 0 <=> \E k \in 1..width : part[o + k - 1] # 0
  <2>. DEFINE to == o + width - 1
  <2>1. o \in Int /\ to \in Int /\ 1 <= o /\ to <= n
    BY <1>6
  <2>. HIDE DEF to
  <2>2. SubSeq(part, o, to) = SubSeq(data, o, to)
    BY <1>3, <2>1
  <2>3. IsNumber(SubSeq(part, o, o + width - 1), size, 0..255)
    BY <1>6, <2>2 DEF field, to
  <2>4. SizeAt(part, o, width) = size
    BY <1>3, <1>6, <2>3, SizeReadsBack
  <2>5. SizeAt(part, o, width) # 0 <=> \E k \in 1..width : part[o + k - 1] # 0
    BY <1>3, <1>6, SizeIsRead
  <2>. QED
    BY <2>4, <2>5
\* Behind the last unit that is whole, no unit can be read.
<1>7. ASSUME cuts[m] + width - 1 <= n
      PROVE  \E size \in Int : /\ IsNumber(field(cuts[m]), size, 0..255)
                               /\ size = 0 \/ size < least \/ cuts[m] + size > n + 1
  <2>0. cuts[m] \in Nat /\ cuts[m] >= 1
    BY <1>2, <1>4
  <2>1. CASE m = last + 1
    <3>. DEFINE c == cuts[last + 1]
    <3>1. c + width - 1 <= n /\ c \in Nat
      BY <1>7, <2>0, <2>1
    <3>2. PICK size \in DamagedSizes :
             size \notin least..Len(data) + 1 - c /\ IsNumber(field(c), size, 0..255)
      <4>. HIDE DEF c
      <4>1. ~(c + width - 1 > Len(data))
        BY <1>2, <3>1
      <4>. QED
        BY <1>1, <4>1 DEF c
    <3>. HIDE DEF c
    <3>3. size \in Int /\ (size < least \/ c + size > n + 1)
      <4>1. size \in Nat
        BY <3>2 DEF DamagedSizes
      <4>. QED
        BY <1>2, <3>1, <3>2, <4>1
    <3>. QED
      BY <2>1, <3>2, <3>3 DEF c
  <2>2. CASE m # last + 1
    <3>. DEFINE size == Len(units[m])
    <3>1. m \in 1..last /\ m + 1 \in 1..last + 1 /\ ~(m + 1 <= m)
      BY <1>2, <1>4, <2>2
    <3>2. size \in Int /\ IsNumber(field(cuts[m]), size, 0..255) /\ cuts[m + 1] = cuts[m] + size
      <4>1. size \in Int /\ m \in DOMAIN units
        BY <1>2, <3>1
      <4>. QED
        BY <1>1, <4>1
    <3>3. ~(cuts[m + 1] <= n + 1)
      BY <1>4, <3>1
    <3>. HIDE DEF size
    <3>4. cuts[m] + size > n + 1
      BY <1>2, <2>0, <3>2, <3>3
    <3>. QED
      BY <3>2, <3>4
  <2>. QED
    BY <2>1, <2>2
<1>8. walk[cuts[m]] = Rest(m)
  <2>. DEFINE o == cuts[m]
  <2>1. o \in 1..n + 1
    BY <1>2, <1>4
  <2>2. SubSeq(units, m, m - 1) = <<>>
    BY <1>4, SubSeqEmpty
  <2>3. walk[o] = UnitsStep(part, width, least, walk, o)
    BY <1>5, <2>1
  <2>4. CASE o + width - 1 > n
    <3>1. walk[o] = [items |-> <<>>, warnings |-> Trailing(part, o)]
      BY <1>3, <2>3, <2>4 DEF UnitsStep
    <3>2. Trailing(part, o) = x
      <4>1. Terminated(part, o, width) <=> o > n
        <5>. HIDE DEF o
        <5>1. ~(o + width - 1 <= n)
          BY <1>2, <2>1, <2>4
        <5>. QED
          BY <1>3, <5>1 DEF Terminated
      <4>. QED
        BY <1>3, <4>1 DEF Trailing, x
    <3>. QED
      BY <2>2, <3>1, <3>2
  <2>5. CASE ~(o + width - 1 > n)
    <3>0. o + width - 1 <= n /\ o \in Nat /\ o >= 1
      <4>. HIDE DEF o
      <4>. QED
        BY <1>2, <2>1, <2>5
    <3>1. PICK size \in Int : /\ IsNumber(field(o), size, 0..255)
                              /\ size = 0 \/ size < least \/ o + size > n + 1
      BY <1>7, <3>0
    <3>. HIDE DEF o
    <3>2. /\ SizeAt(part, o, width) = size
          /\ size # 0 <=> \E k \in 1..width : part[o + k - 1] # 0
      BY <1>6, <3>0, <3>1
    <3>3. Terminated(part, o, width) <=> size = 0
      <4>1. ~(o > n)
        BY <1>2, <3>0
      <4>. QED
        BY <1>3, <3>0, <3>2, <4>1, Zenon DEF Terminated
    <3>4. x = IF size = 0 THEN 0 ELSE 1
      BY <3>3 DEF x, o
    <3>5. size = 0 \/ size < least \/ ~Fits(part, o, size)
      <4>1. Fits(part, o, size) <=> o + size <= n + 1
        BY <1>3 DEF Fits
      <4>. QED
        BY <1>2, <3>0, <3>1, <4>1
    <3>6. walk[o] = [items |-> <<>>, warnings |-> IF size = 0 THEN 0 ELSE 1]
      BY <1>3, <2>3, <2>5, <3>2, <3>5, Zenon DEF UnitsStep
    <3>. QED
      BY <2>2, <3>4, <3>6 DEF o
  <2>. QED
    BY <2>4, <2>5
<1>. DEFINE T == {i \in 1..m : cuts[i] <= n + 1 /\ walk[cuts[i]] = Rest(i)}
<1>9. ASSUME NEW i \in 1..m, i < m, i + 1 \in T
      PROVE  i \in T
  <2>. DEFINE o == cuts[i]
              size == Len(units[i])
  <2>1. i \in 1..last /\ i \in 1..last + 1
    BY <1>2, <1>4, <1>9
  <2>2. /\ o \in 1..Len(data) + 1 /\ size \in Nat /\ size >= width /\ size >= least
        /\ cuts[i + 1] = o + size
        /\ units[i] = SubSeq(data, o, cuts[i + 1] - 1)
        /\ IsNumber(field(o), size, 0..255)
    <3>1. o \in 1..Len(data) + 1 /\ size \in Nat
      BY <1>2, <2>1
    <3>2. /\ size >= least /\ cuts[i + 1] = o + size
          /\ units[i] = SubSeq(data, o, cuts[i + 1] - 1)
          /\ IsNumber(field(o), size, 0..255)
      BY <1>1, <1>2, <2>1
    <3>. HIDE DEF o, size
    <3>3. size >= width
      BY <3>1, <3>2
    <3>. QED
      BY <3>1, <3>2, <3>3
  <2>3. cuts[i + 1] <= n + 1 /\ walk[cuts[i + 1]] = Rest(i + 1)
    BY <1>9
  <2>. HIDE DEF Rest, T, o, size
  <2>4. /\ o \in 1..n + 1 /\ o \in Nat /\ o >= 1 /\ o <= n + 1 /\ o + width - 1 <= n
        /\ ~(o + width - 1 > n)
    BY <1>2, <2>2, <2>3
  <2>5. SizeAt(part, o, width) = size /\ Fits(part, o, size) /\ ~(size < least) /\ size # 0
    <3>1. SizeAt(part, o, width) = size
      BY <1>6, <2>2, <2>4
    <3>2. o + size <= n + 1
      BY <2>2, <2>3
    <3>. QED
      BY <1>2, <1>3, <2>2, <3>1, <3>2 DEF Fits
  <2>6. SubSeq(part, o, o + size - 1) = units[i]
    <3>. DEFINE to == o + size - 1
    <3>1. /\ o \in Int /\ to \in Int /\ 1 <= o /\ to <= n
          /\ cuts[i + 1] - 1 = to
      BY <1>2, <2>2, <2>3, <2>4
    <3>. HIDE DEF to
    <3>2. SubSeq(part, o, to) = SubSeq(data, o, to)
      BY <1>3, <3>1
    <3>3. units[i] = SubSeq(data, o, to)
      BY <2>2, <3>1
    <3>. QED
      BY <3>2, <3>3 DEF to
  <2>7. walk[o] = [items |-> <<units[i]>> \o Rest(i + 1).items, warnings |-> Rest(i + 1).warnings]
    <3>1. walk[o] = UnitsStep(part, width, least, walk, o)
      BY <1>5, <2>4
    <3>2. walk[o + size] = Rest(i + 1)
      BY <2>2, <2>3
    <3>. QED
      BY <1>3, <2>4, <2>5, <2>6, <3>1, <3>2, Zenon DEF UnitsStep
  <2>8. SubSeq(units, i, m - 1) = <<units[i]>> \o SubSeq(units, i + 1, m - 1)
    <3>1. i \in 1..Len(units) /\ m - 1 \in i..Len(units)
      BY <1>2, <1>4, <1>9, <2>1 DEF last
    <3>. QED
      BY <1>1, <3>1, SubSeqRecursiveFirst, ZenonT(60)
  <2>9. walk[o] = Rest(i)
    BY <2>7, <2>8 DEF Rest
  <2>. QED
    BY <2>4, <2>9 DEF T, o
<1>10. 1..m \subseteq T
  <2>1. m \in Nat
    BY <1>2, <1>4
  <2>2. m \in T
    BY <1>4, <1>8, <2>1
  <2>. HIDE DEF T
  <2>3. ASSUME NEW i \in 1..m, \A k \in 1..m : k > i => k \in T
        PROVE  i \in T
    <3>1. CASE i = m
      BY <2>2, <3>1
    <3>2. CASE i # m
      <4>1. i < m /\ i + 1 \in 1..m /\ i + 1 > i
        BY <2>1, <3>2
      <4>2. i + 1 \in T
        BY <2>3, <4>1
      <4>. QED
        BY <1>9, <4>1, <4>2
    <3>. QED
      BY <3>1, <3>2
  <2>4. Inherited(m, T)
    BY <2>3 DEF Inherited
  <2>. QED
    BY <2>1, <2>4, BackwardInduction
<1>11. Units(part, width, least) = Rest(1)
  <2>1. 1 \in T
    <3>. HIDE DEF T
    <3>1. 1 \in 1..m
      BY <1>2, <1>4
    <3>. QED
      BY <1>10, <3>1
  <2>. QED
    BY <1>1, <1>5, <2>1
<1>12. ASSUME NEW k \in 1..last
       PROVE  k <= m - 1 <=> cuts[k + 1] <= n + 1
  <2>1. k + 1 \in 1..last + 1 /\ (k <= m - 1 <=> k + 1 <= m)
    BY <1>2, <1>4
  <2>2. k + 1 <= m => k + 1 \in T
    <3>1. k + 1 <= m => k + 1 \in 1..m
      BY <1>2, <1>4
    <3>. HIDE DEF T
    <3>. QED
      BY <1>10, <3>1
  <2>. QED
    BY <1>4, <2>1, <2>2
<1>13. m - 1 \in 0..last /\ m - 1 + 1 = m
  BY <1>2, <1>4
<1>. HIDE DEF T
<1>14. Units(part, width, least)
         = [items |-> SubSeq(units, 1, m - 1),
            warnings |-> IF Terminated(part, cuts[m - 1 + 1], width) THEN 0 ELSE 1]
  BY <1>11, <1>13 DEF x
<1>15. ReadOf(data, units, cuts, width, least, n, m - 1)
  BY <1>12, <1>14 DEF ReadOf, part, last
<1>. QED
  BY <1>13, <1>15 DEF last

\* Where the sections of a link begin is in its bytes, or right behind them.
LEMMA SectionsAreInside ==
    ASSUME NEW link, IsWritten(link)
    PROVE  LET w == link.written
           IN  /\ Len(w.body) \in Nat
               /\ \A s \in Sections \union {"extra"} : w.at[s] \in 1..Len(w.body) + 1
<1>. DEFINE w == link.written
            end == Len(w.body)
<1>1. /\ end \in Nat /\ w.at.ids = 1
      /\ \A o \in 1..end : w.body[o] \in Nat
  BY LenProperties, ElementOfSeq DEF IsWritten
<1>2. ASSUME NEW s \in Sections, w.at[s] \in 1..end + 1
      PROVE  w.at[After[s]] \in 1..end + 1
  <2>1. IF s \in link.flags THEN IsSection(s, w, w.at[s], w.at[After[s]])
        ELSE w.at[After[s]] = w.at[s]
    BY <1>2 DEF IsWritten
  <2>2. CASE s \notin link.flags
    BY <1>2, <2>1, <2>2
  <2>3. CASE s \in link.flags
    <3>. DEFINE o == w.at[s]
                to == w.at[After[s]]
    <3>1. o <= end /\ to <= end + 1 /\ (to = o + 1 + w.body[o] \/ to = o + w.body[o])
      BY <2>1, <2>3 DEF IsSection, IsIdList, IsInfo, IsString
    <3>2. o \in 1..end /\ w.body[o] \in Nat
      <4>1. o \in 1..end + 1
        BY <1>2
      <4>. HIDE DEF o, end
      <4>2. o \in 1..end
        BY <1>1, <3>1, <4>1
      <4>. QED
        BY <1>1, <4>2
    <3>. HIDE DEF o, to, end
    <3>3. to \in 1..end + 1
      BY <1>1, <3>1, <3>2
    <3>. QED
      BY <3>3 DEF to
  <2>. QED
    BY <2>2, <2>3
<1>3. w.at.ids \in 1..end + 1
  BY <1>1
<1>4. w.at.info \in 1..end + 1
  BY <1>2, <1>3 DEF Sections, After
<1>5. w.at.relative \in 1..end + 1
  BY <1>2, <1>4 DEF Sections, After
<1>6. w.at.arguments \in 1..end + 1
  BY <1>2, <1>5 DEF Sections, After
<1>7. w.at.extra \in 1..end + 1
  BY <1>2, <1>6 DEF Sections, After
<1>. HIDE DEF end
<1>8. \A s \in Sections \union {"extra"} : w.at[s] \in 1..end + 1
  BY <1>3, <1>4, <1>5, <1>6, <1>7 DEF Sections
<1>. QED
  BY <1>1, <1>8 DEF end

\* All the bytes of some units.
LEMMA AllUnitsReadBack ==
    ASSUME NEW data \in Seq(Nat), NEW units, NEW cuts, NEW width \in Nat, width >= 1,
           NEW least \in Nat, least >= width,
           IsUnits(data, units, cuts, width, least)
    PROVE  Units(data, width, least)
             = [items |-> units,
                warnings |-> IF Terminated(data, cuts[Len(units) + 1], width) THEN 0 ELSE 1]
<1>1. Len(data) \in Nat /\ SubSeq(data, 1, Len(data)) = data
  BY LenProperties, SubSeqFull
<1>2. Len(data) \in 0..Len(data)
  BY <1>1
<1>3. PICK m \in 0..Len(units) : ReadOf(data, units, cuts, width, least, Len(data), m)
  BY <1>2, UnitsReadBack
<1>4. SubSeq(units, 1, Len(units)) = units /\ Len(units) \in Nat
  BY SubSeqFull, LenProperties DEF IsUnits
<1>5. m = Len(units)
  <2>. SUFFICES ASSUME m # Len(units) PROVE FALSE
    OBVIOUS
  <2>. DEFINE last == Len(units)
  <2>1. last \in 1..last /\ ~(last <= m) /\ last + 1 \in 1..last + 1
    <3>1. last \in Nat /\ m \in 0..last /\ m # last
      BY <1>4
    <3>. HIDE DEF last
    <3>. QED
      BY <3>1, SMTT(40)
  <2>2. cuts \in Seq(1..Len(data) + 1) /\ last + 1 \in 1..Len(cuts)
    <3>1. cuts \in Seq(1..Len(data) + 1) /\ Len(cuts) = last + 1
      BY DEF IsUnits
    <3>. QED
      BY <2>1, <3>1
  <2>3. cuts[Len(units) + 1] \in 1..Len(data) + 1
    BY <2>2, ElementOfSeq
  <2>. QED
    BY <1>1, <1>3, <2>1, <2>3 DEF ReadOf
<1>. QED
  BY <1>1, <1>3, <1>4, <1>5 DEF ReadOf

LEMMA IdListReadsBack ==
    ASSUME NEW w, w.body \in Seq(Nat), NEW from \in 1..Len(w.body), NEW to \in Nat,
           to <= Len(w.body) + 1, IsIdList(w, from, to)
    PROVE  IdList(SubSeq(w.body, from + 1, from + w.body[from]))
             = [items |-> w.values.ids, warnings |-> w.warned.ids]
<1>. DEFINE data == SubSeq(w.body, from + 1, to - 1)
            items == w.values.ids
            odd == {i \in DOMAIN items : Unclassified(items[i])}
            full == Len(w.items) >= MaxItems
            last == w.cuts.items[Len(w.items) + 1]
            ended == Terminated(data, last, ItemWidth)
<1>1. /\ Len(w.body) \in Nat /\ w.body[from] \in Nat
      /\ to = from + 1 + w.body[from]
      /\ IsUnits(data, w.items, w.cuts.items, ItemWidth, LeastItem)
      /\ w.values.ids = IF Len(w.items) < MaxItems THEN w.items ELSE SubSeq(w.items, 1, MaxItems)
      /\ w.warned.ids = Cardinality({i \in DOMAIN w.values.ids : Unclassified(w.values.ids[i])})
                        + (IF Len(w.items) < MaxItems /\ ended THEN 0 ELSE 1)
  BY LenProperties, ElementOfSeq DEF IsIdList
<1>2. from + w.body[from] = to - 1 /\ to - 1 \in Int /\ to - 1 <= Len(w.body)
  <2>. DEFINE size == w.body[from]
  <2>1. size \in Nat /\ to = from + 1 + size /\ Len(w.body) \in Nat
    BY <1>1
  <2>. HIDE DEF size
  <2>2. from + size = to - 1 /\ to - 1 \in Int /\ to - 1 <= Len(w.body)
    BY <2>1
  <2>. QED
    BY <2>2 DEF size
<1>3. data \in Seq(Nat)
  <2>1. Len(w.body) \in 0..Len(w.body) /\ from + 1 \in Int /\ 1 <= from + 1
    BY <1>1, SMTT(40)
  <2>. QED
    BY <1>2, <2>1, PartOfPart
<1>. HIDE DEF data
<1>4. Units(data, ItemWidth, LeastItem)
        = [items |-> w.items, warnings |-> IF ended THEN 0 ELSE 1]
  <2>1. /\ ItemWidth \in Nat /\ ItemWidth >= 1
        /\ LeastItem \in Nat /\ LeastItem >= ItemWidth
    BY DEF LeastItem, ItemWidth
  <2>2. data \in Seq(Nat) /\ IsUnits(data, w.items, w.cuts.items, ItemWidth, LeastItem)
    BY <1>1, <1>3
  <2>. HIDE DEF data
  <2>. QED
    BY <2>1, <2>2, AllUnitsReadBack, ZenonT(60)
<1>. HIDE DEF ended
<1>5. w.items \in Seq(Seq(Nat)) /\ Len(w.items) \in Nat
  BY <1>1, LenProperties DEF IsUnits
<1>6. full <=> ~(Len(w.items) < MaxItems)
  BY <1>5 DEF MaxItems
<1>7. items = IF full THEN SubSeq(w.items, 1, MaxItems) ELSE w.items
  BY <1>1, <1>6
<1>8. Cardinality(odd) \in Nat
  <2>1. PICK n \in Nat : DOMAIN items = 1..n
    <3>1. CASE full
      <4>1. MaxItems \in 0..Len(w.items)
        BY <1>5, <3>1 DEF MaxItems
      <4>2. items \in Seq(Seq(Nat))
        BY <1>5, <1>7, <3>1, <4>1, PartOfPart
      <4>. QED
        BY <4>2, LenProperties
    <3>2. CASE ~full
      BY <1>5, <1>7, <3>2, LenProperties
    <3>. QED
      BY <3>1, <3>2
  <2>2. odd \in SUBSET (1..n)
    BY <2>1
  <2>. HIDE DEF odd
  <2>. QED
    BY <2>2, SubsetOfPositions
<1>9. FirstItems([items |-> w.items, warnings |-> IF ended THEN 0 ELSE 1])
        = [items |-> items,
           warnings |-> (IF full THEN 1 ELSE IF ended THEN 0 ELSE 1) + Cardinality(odd)]
  BY <1>7 DEF FirstItems
<1>10. w.warned.ids = Cardinality(odd) + (IF ~full /\ ended THEN 0 ELSE 1)
  BY <1>1, <1>6
<1>. HIDE DEF odd, full, items
<1>11. w.warned.ids = (IF full THEN 1 ELSE IF ended THEN 0 ELSE 1) + Cardinality(odd)
  BY <1>8, <1>10
<1>12. IdList(data) = [items |-> items, warnings |-> w.warned.ids]
  BY <1>4, <1>9, <1>11 DEF IdList
<1>. QED
  BY <1>2, <1>12 DEF data, items

\* What reading a section gives when it was written as one.
Expected(w, section) ==
    [value |-> w.values[section], next |-> w.at[After[section]],
     warnings |-> w.warned[section]]

\* A section reads back as it was written, or is refused because its end is
\* missing or its text cannot be decoded.
LEMMA SectionReadsBack ==
    ASSUME NEW link, IsWritten(link), link.body \in Seq(Nat),
           NEW s \in Sections, s \in link.flags
    PROVE  LET w == link.written
               read == ReadSection(s, link.body, w.at[s])
           IN  read = Expected(w, s) \/ (link.cut /\ read = Malformed)
<1>. DEFINE w == link.written
            n == Len(link.body)
            end == Len(w.body)
            o == w.at[s]
            to == w.at[After[s]]
            size == w.body[o]
            read == ReadSection(s, link.body, o)
<1>1. /\ w.body \in Seq(Nat) /\ IsSection(s, w, o, to)
      /\ n <= end /\ link.body = SubSeq(w.body, 1, n)
      /\ ~link.cut => n = end /\ Undecodable \notin NeededText(w, s, o, to)
  BY DEF IsWritten
<1>2. /\ end \in Nat /\ o \in 1..end /\ to \in 1..end + 1
  <2>1. After[s] \in Sections \union {"extra"}
    BY DEF After, Sections
  <2>2. /\ end \in Nat
        /\ \A x \in Sections \union {"extra"} : w.at[x] \in 1..end + 1
    BY SectionsAreInside
  <2>3. o \in 1..end + 1 /\ to \in 1..end + 1 /\ o <= end
    BY <1>1, <2>1, <2>2 DEF IsSection
  <2>. HIDE DEF o, to, end
  <2>. QED
    BY <2>2, <2>3
<1>3. n \in 0..end /\ size \in Nat
  <2>1. n \in Nat /\ size \in Nat
    BY <1>1, <1>2, LenProperties, ElementOfSeq
  <2>. HIDE DEF n, end, size
  <2>. QED
    BY <1>1, <1>2, <2>1
<1>4. /\ \A k \in 1..n : link.body[k] = w.body[k]
      /\ \A a, b \in Int : 1 <= a /\ b <= n =>
            SubSeq(link.body, a, b) = SubSeq(w.body, a, b)
  BY <1>1, <1>3, PartOfPart
<1>5. CASE s = "ids"
  <2>1. to = o + 1 + size /\ IsIdList(w, o, to)
    BY <1>1, <1>5 DEF IsSection, IsIdList
  <2>2. IdList(SubSeq(w.body, o + 1, o + size))
          = [items |-> w.values.ids, warnings |-> w.warned.ids]
    <3>1. to \in Nat /\ to <= end + 1
      <4>. HIDE DEF to, end
      <4>. QED
        BY <1>2
    <3>. QED
      BY <1>1, <1>2, <2>1, <3>1, IdListReadsBack
  <2>3. read = TargetIds(link.body, o)
    BY <1>5 DEF ReadSection
  <2>4. CASE o > n \/ o + size > n
    <3>1. link.cut
      <4>. HIDE DEF n, end, o, to, size, w
      <4>. QED
        BY <1>1, <1>2, <1>3, <2>1, <2>4
    <3>2. o > n \/ (o <= n /\ link.body[o] = size)
      <4>1. o \in 1..n => link.body[o] = size
        BY <1>4
      <4>. HIDE DEF n, o, size
      <4>. QED
        BY <1>2, <1>3, <4>1
    <3>3. read = Malformed
      <4>. HIDE DEF o, size, read
      <4>. QED
        BY <2>3, <2>4, <3>2 DEF TargetIds
    <3>. QED
      BY <3>1, <3>3
  <2>5. CASE ~(o > n \/ o + size > n)
    <3>1. /\ o \in 1..n /\ o + 1 \in Int /\ o + size \in Int
          /\ 1 <= o + 1 /\ o + size <= n
      <4>. HIDE DEF n, o, size
      <4>. QED
        BY <1>2, <1>3, <2>5
    <3>2. link.body[o] = size /\ SubSeq(link.body, o + 1, o + size)
                                   = SubSeq(w.body, o + 1, o + size)
      <4>1. link.body[o] = size
        BY <1>4, <3>1
      <4>. HIDE DEF o, size, n
      <4>. QED
        BY <1>4, <3>1, <4>1
    <3>. DEFINE list == IdList(SubSeq(w.body, o + 1, o + size))
    <3>3. read = [value |-> list.items, next |-> o + 1 + size, warnings |-> list.warnings]
      <4>. HIDE DEF o, size, read, w
      <4>. QED
        BY <2>3, <2>5, <3>2 DEF TargetIds
    <3>4. read = [value |-> w.values.ids, next |-> to, warnings |-> w.warned.ids]
      BY <2>1, <2>2, <3>3
    <3>. QED
      BY <1>5, <3>4 DEF Expected
  <2>. QED
    BY <2>4, <2>5
<1>6. CASE s = "info"
  <2>1. /\ IsInfo(w, o, to) /\ to = o + size /\ size >= InfoSize
    BY <1>1, <1>6 DEF IsSection, IsInfo
  <2>2. read = LinkInfo(link.body, o)
    BY <1>6 DEF ReadSection
  <2>3. CASE o > n \/ o + size > n + 1
    <3>1. link.cut
      <4>. HIDE DEF n, end, o, to, size, w
      <4>. QED
        BY <1>1, <1>2, <1>3, <2>1, <2>3
    <3>2. o > n \/ (o <= n /\ link.body[o] = size)
      <4>1. o \in 1..n => link.body[o] = size
        BY <1>4
      <4>. HIDE DEF n, o, size
      <4>. QED
        BY <1>2, <1>3, <4>1
    <3>3. read = Malformed
      <4>. HIDE DEF o, size, read
      <4>. QED
        BY <2>2, <2>3, <3>2 DEF LinkInfo
    <3>. QED
      BY <3>1, <3>3
  <2>4. CASE ~(o > n \/ o + size > n + 1)
    <3>1. o \in 1..n /\ \A k \in 0..4 : o + k \in 1..n
      <4>. HIDE DEF n, o, size
      <4>. QED
        BY <1>2, <1>3, <2>1, <2>4 DEF InfoSize
    <3>2. /\ link.body[o] = size /\ ~(size < InfoSize)
          /\ link.body[o + 1] = w.body[o + 1] /\ link.body[o + 2] = w.body[o + 2]
          /\ link.body[o + 3] = w.body[o + 3] /\ link.body[o + 4] = w.body[o + 4]
      <4>1. \A k \in 0..4 : link.body[o + k] = w.body[o + k]
        BY <1>4, <3>1
      <4>2. link.body[o] = size /\ ~(size < InfoSize)
        <5>1. link.body[o] = size
          BY <1>4, <3>1
        <5>. HIDE DEF size
        <5>. QED
          BY <1>3, <2>1, <5>1 DEF InfoSize
      <4>. QED
        BY <4>1, <4>2
    <3>3. CASE Undecodable \in {w.body[o + 1], w.body[o + 2]}
      <4>1. NeededText(w, s, o, to) = {w.body[o + 1], w.body[o + 2]}
        BY <1>6 DEF NeededText
      <4>2. link.cut
        BY <1>1, <3>3, <4>1
      <4>3. read = Malformed
        <5>. HIDE DEF read, o, size, w
        <5>. QED
          BY <2>2, <2>4, <3>2, <3>3, SMTT(40) DEF LinkInfo
      <4>. QED
        BY <4>2, <4>3
    <3>4. CASE Undecodable \notin {w.body[o + 1], w.body[o + 2]}
      <4>. DEFINE lost == {k \in {3, 4} : w.body[o + k] = Undecodable}
                  info == [local |-> Text(w.body[o + 1]), suffix |-> Text(w.body[o + 2]),
                           volume |-> IF w.body[o + 3] = Undecodable THEN None
                                      ELSE Text(w.body[o + 3]),
                           share |-> IF w.body[o + 4] = Undecodable THEN None
                                     ELSE Text(w.body[o + 4])]
      <4>1. w.values.info = info /\ w.warned.info = Cardinality(lost)
        BY <2>1 DEF IsInfo
      <4>2. {k \in {3, 4} : link.body[o + k] = Undecodable} = lost
        BY <3>2
      <4>3. read = [value |-> info, next |-> o + size, warnings |-> Cardinality(lost)]
        <5>. HIDE DEF read, o, size, w, lost
        <5>. QED
          BY <2>2, <2>4, <3>2, <3>4, <4>2 DEF LinkInfo
      <4>. QED
        BY <1>6, <2>1, <4>1, <4>3 DEF Expected
    <3>. QED
      BY <3>3, <3>4
  <2>. QED
    BY <2>3, <2>4
<1>7. CASE s \notin {"ids", "info"}
  <2>1. to = o + 1 + size /\ w.values[s] = SubSeq(w.body, o + 1, to - 1) /\ w.warned[s] = 0
    BY <1>1, <1>7 DEF IsSection, IsString
  <2>2. read = StringData(link.body, o)
    BY <1>7 DEF ReadSection
  <2>3. CASE o > n \/ o + size > n
    <3>1. link.cut
      <4>. HIDE DEF n, end, o, to, size, w
      <4>. QED
        BY <1>1, <1>2, <1>3, <2>1, <2>3, SMTT(40)
    <3>2. o > n \/ (o <= n /\ link.body[o] = size)
      <4>1. o \in 1..n => link.body[o] = size
        BY <1>4
      <4>. HIDE DEF n, o, size
      <4>. QED
        BY <1>2, <1>3, <4>1
    <3>3. read = Malformed
      <4>. HIDE DEF o, size, read
      <4>. QED
        BY <2>2, <2>3, <3>2 DEF StringData
    <3>. QED
      BY <3>1, <3>3
  <2>4. CASE ~(o > n \/ o + size > n)
    <3>1. /\ o \in 1..n /\ o + 1 \in Int /\ o + size \in Int
          /\ 1 <= o + 1 /\ o + size <= n /\ to - 1 = o + size
          /\ \A k \in 1..size : o + k \in 1..n
      <4>. HIDE DEF n, o, size, to
      <4>. QED
        BY <1>2, <1>3, <2>1, <2>4
    <3>2. /\ link.body[o] = size
          /\ SubSeq(link.body, o + 1, o + size) = SubSeq(w.body, o + 1, o + size)
          /\ \A k \in 1..size : link.body[o + k] = w.body[o + k]
      <4>1. link.body[o] = size
        BY <1>4, <3>1
      <4>. HIDE DEF o, size, n
      <4>. QED
        BY <1>4, <3>1, <4>1
    <3>3. CASE \E k \in 1..size : w.body[o + k] = Undecodable
      <4>1. NeededText(w, s, o, to) = {w.body[k] : k \in o + 1..to - 1}
        BY <1>7 DEF NeededText
      <4>2. PICK k \in 1..size : w.body[o + k] = Undecodable
        BY <3>3
      <4>3. o + k \in o + 1..to - 1
        <5>. HIDE DEF o, size, to
        <5>. QED
          BY <1>2, <1>3, <2>1
      <4>4. link.cut
        BY <1>1, <4>1, <4>2, <4>3
      <4>5. read = Malformed
        <5>. HIDE DEF read, o, size, w
        <5>. QED
          BY <2>2, <2>4, <3>2, <4>2 DEF StringData
      <4>. QED
        BY <4>4, <4>5
    <3>4. CASE ~\E k \in 1..size : w.body[o + k] = Undecodable
      <4>1. read = [value |-> SubSeq(w.body, o + 1, o + size), next |-> o + 1 + size,
                    warnings |-> 0]
        <5>. HIDE DEF read, o, size, w
        <5>. QED
          BY <2>2, <2>4, <3>2, <3>4 DEF StringData
      <4>. QED
        BY <2>1, <3>1, <4>1 DEF Expected
    <3>. QED
      BY <3>3, <3>4
  <2>. QED
    BY <2>3, <2>4
<1>. QED
  BY <1>5, <1>6, <1>7

\* The link as far as some sections have been read.
ReadUpTo(w, done, next, warnings) ==
    [next |-> w.at[next], warnings |-> warnings,
     values |-> [t \in Sections |-> IF t \in done THEN w.values[t] ELSE NoValues[t]]]

LEMMA ReadUpToIsARecord ==
    ASSUME NEW link, IsWritten(link), NEW s \in Sections \union {"extra"},
           NEW done, done \subseteq Sections, NEW warnings \in Nat
    PROVE  /\ ReadUpTo(link.written, done, s, warnings).values \in LinkValues
           /\ ReadUpTo(link.written, done, s, warnings) # Malformed
<1>. DEFINE w == link.written
            at(t) == IF t \in done THEN w.values[t] ELSE NoValues[t]
            values == [t \in Sections |-> at(t)]
            sofar == ReadUpTo(w, done, s, warnings)
<1>1. w.at \in [Sections \union {"extra"} -> Nat] /\ w.values \in LinkValues
  BY DEF IsWritten
<1>2. NoValues \in LinkValues
  BY EmptySeq DEF NoValues, NoInfo, LinkValues, InfoValues, Texts
<1>3. sofar = [next |-> w.at[s], warnings |-> warnings, values |-> values]
  BY DEF ReadUpTo
<1>4. values \in LinkValues
  <2>1. values = [ids |-> at("ids"), info |-> at("info"),
                  relative |-> at("relative"), arguments |-> at("arguments")]
    BY DEF Sections
  <2>2. /\ at("ids") \in Seq(Seq(Nat)) /\ at("info") \in InfoValues
        /\ at("relative") \in Texts /\ at("arguments") \in Texts
    BY <1>1, <1>2 DEF LinkValues
  <2>. HIDE DEF values, at
  <2>. QED
    BY <2>1, <2>2 DEF LinkValues
<1>5. w.at[s] \in Nat
  BY <1>1
<1>. HIDE DEF values, w
<1>6. sofar \in [next : Nat, warnings : Nat, values : LinkValues]
  BY <1>3, <1>4, <1>5
<1>. QED
  BY <1>3, <1>4, <1>6, WrittenAssumption DEF w

LEMMA NextReadsBack ==
    ASSUME NEW link, IsWritten(link), link.body \in Seq(Nat), NEW s \in Sections,
           NEW done, done \subseteq Sections, NEW warnings \in Nat
    PROVE  LET w == link.written
               read == ReadNext(link, ReadUpTo(w, done, s, warnings), s)
           IN  \/ read = ReadUpTo(w, done \union {s}, After[s], warnings + w.warned[s])
               \/ link.cut /\ read = Malformed
<1>. DEFINE w == link.written
            sofar == ReadUpTo(w, done, s, warnings)
            values == [t \in Sections |-> IF t \in done THEN w.values[t] ELSE NoValues[t]]
            then == ReadUpTo(w, done \union {s}, After[s], warnings + w.warned[s])
            read == ReadSection(s, link.body, w.at[s])
<1>1. /\ w.at \in [Sections \union {"extra"} -> Nat]
      /\ w.values \in LinkValues /\ w.warned \in [Sections -> Nat]
      /\ s \notin link.flags =>
            w.at[After[s]] = w.at[s] /\ w.values[s] = NoValues[s] /\ w.warned[s] = 0
  BY DEF IsWritten
<1>2. w.at[After[s]] \in Nat /\ w.warned[s] \in Nat
  <2>1. After[s] \in Sections \union {"extra"}
    BY DEF After, Sections
  <2>. HIDE DEF w
  <2>. QED
    BY <1>1, <2>1
<1>3. [values EXCEPT ![s] = w.values[s]]
        = [t \in Sections |-> IF t \in done \union {s} THEN w.values[t] ELSE NoValues[t]]
  OBVIOUS
<1>4. sofar = [next |-> w.at[s], warnings |-> warnings, values |-> values]
  BY DEF ReadUpTo
<1>. HIDE DEF values
<1>5. sofar # Malformed
  BY ReadUpToIsARecord
<1>6. CASE s \notin link.flags
  <2>1. ReadNext(link, sofar, s) = sofar
    BY <1>6 DEF ReadNext
  <2>2. [t \in Sections |-> IF t \in done \union {s} THEN w.values[t] ELSE NoValues[t]] = values
    BY <1>1, <1>6 DEF values
  <2>3. warnings + w.warned[s] = warnings
    BY <1>1, <1>6
  <2>4. then = sofar
    BY <1>1, <1>4, <1>6, <2>2, <2>3 DEF ReadUpTo
  <2>. QED
    BY <2>1, <2>4
<1>7. CASE s \in link.flags
  <2>1. ReadNext(link, sofar, s) = With(sofar, s, read)
    BY <1>4, <1>5, <1>7 DEF ReadNext
  <2>2. read = Expected(w, s) \/ (link.cut /\ read = Malformed)
    BY <1>7, SectionReadsBack
  <2>3. CASE read = Malformed /\ link.cut
    BY <2>1, <2>3 DEF With
  <2>4. CASE read = Expected(w, s)
    <3>1. Expected(w, s) # Malformed
      <4>1. w.values[s] \in Seq(Seq(Nat)) \union InfoValues \union Texts
        BY <1>1 DEF LinkValues, Sections
      <4>2. Expected(w, s) \in [value : Seq(Seq(Nat)) \union InfoValues \union Texts,
                                next : Nat, warnings : Nat]
        BY <1>2, <4>1 DEF Expected
      <4>. QED
        BY <4>2, WrittenAssumption
    <3>2. With(sofar, s, Expected(w, s))
            = [next |-> w.at[After[s]], warnings |-> warnings + w.warned[s],
               values |-> [values EXCEPT ![s] = w.values[s]]]
      BY <1>4, <3>1 DEF With, Expected
    <3>3. With(sofar, s, Expected(w, s)) = then
      BY <1>3, <3>2 DEF ReadUpTo
    <3>. QED
      BY <2>1, <2>4, <3>3
  <2>. QED
    BY <2>2, <2>3, <2>4
<1>. QED
  BY <1>6, <1>7

\* A suffix that is one character is the end of a path of one character only
\* if they are the same; a path is a text of one character.
LEMMA TargetReadsBack ==
    ASSUME NEW values \in LinkValues, NEW b, NEW c,
           values.info.local \in {None, <<b>>}, values.info.suffix \in {None, <<c>>}
    PROVE  TargetPath(values.info, values.relative) = PathOf(values)
<1>. DEFINE info == values.info
<1>1. CASE info.local # None /\ info.suffix # None
  <2>1. /\ info.local = <<b>> /\ info.suffix = <<c>>
        /\ info.local \in Seq(Nat) /\ info.suffix \in Seq(Nat)
    BY <1>1 DEF LinkValues, InfoValues, Texts
  <2>2. IsSuffix(<<c>>, <<b>>) <=> c = b
    <3>1. <<c>> \in Seq({b, c}) /\ Len(<<c>>) = 1 /\ <<b>> \in Seq({b, c}) /\ Len(<<b>>) = 1
      OBVIOUS
    <3>2. Reverse(<<c>>) = <<c>> /\ Reverse(<<b>>) = <<b>>
      BY <3>1 DEF Reverse
    <3>3. SubSeq(<<c>>, 1, 1) = <<c>> /\ SubSeq(<<b>>, 1, 1) = <<b>>
      BY <3>1, SubSeqFull
    <3>4. IsPrefix(<<c>>, <<b>>) <=> <<c>> = <<b>>
      BY <3>1, <3>3 DEF IsPrefix
    <3>. QED
      BY <3>2, <3>4 DEF IsSuffix
  <2>3. IsSuffix(info.suffix, info.local) <=> info.suffix = info.local
    BY <2>1, <2>2
  <2>. QED
    BY <1>1, <2>3 DEF TargetPath, PathOf
<1>2. CASE info.local = None \/ info.suffix = None
  BY <1>2 DEF TargetPath, PathOf
<1>. QED
  BY <1>1, <1>2

\* The tracker of some blocks is the last of those that are one.
LEMMA TrackerIsTheLast ==
    ASSUME NEW blocks \in Seq(Seq(Nat))
    PROVE  IsTracker(Tracker(blocks), blocks)
<1>. DEFINE trackers == {i \in DOMAIN blocks :
                            /\ blocks[i][BlockWidth + 1] = TrackerSignature
                            /\ Len(blocks[i]) >= TrackerSize}
            n == Len(blocks)
<1>1. n \in Nat /\ trackers \in SUBSET (1..n)
  BY LenProperties
<1>2. /\ Tracker(blocks) = IF trackers = {} THEN None ELSE blocks[Max(trackers)]
      /\ IsTracker(Tracker(blocks), blocks)
           <=> IF trackers = {} THEN Tracker(blocks) = None
               ELSE \E i \in trackers : /\ Tracker(blocks) = blocks[i]
                                        /\ \A k \in trackers : k <= i
  BY DEF Tracker, IsTracker
<1>. HIDE DEF trackers, n
<1>3. trackers # {} => /\ Max(trackers) \in trackers
                       /\ \A k \in trackers : Max(trackers) >= k
  BY <1>1, MaxInSet
<1>4. trackers # {} => \A k \in trackers : k <= Max(trackers)
  BY <1>1, <1>3
<1>. QED
  BY <1>2, <1>3, <1>4

\* Reading the sections one after the other.
AllSections(link, begin) ==
    ReadNext(link,
        ReadNext(link, ReadNext(link, ReadNext(link, begin, "ids"), "info"), "relative"),
        "arguments")

LEMMA SectionsReadBack ==
    ASSUME NEW link, IsWritten(link), link.body \in Seq(Nat), NEW late \in Nat
    PROVE  LET w == link.written
               read == AllSections(link, [next |-> 1, warnings |-> late, values |-> NoValues])
           IN  \/ /\ read = [next |-> w.at.extra, values |-> w.values,
                             warnings |-> late + w.warned.ids + w.warned.info]
                  /\ read # Malformed
               \/ link.cut /\ read = Malformed
<1>. DEFINE w == link.written
            begin == [next |-> 1, warnings |-> late, values |-> NoValues]
            ids == ReadNext(link, begin, "ids")
            info == ReadNext(link, ids, "info")
            relative == ReadNext(link, info, "relative")
            read == ReadNext(link, relative, "arguments")
<1>1. /\ w.at.ids = 1 /\ w.values \in LinkValues /\ w.warned \in [Sections -> Nat]
      /\ \A s \in Sections : s \notin {"ids", "info"} => w.warned[s] = 0
  <2>1. /\ w.at.ids = 1 /\ w.values \in LinkValues /\ w.warned \in [Sections -> Nat]
        /\ \A s \in Sections :
              IF s \in link.flags THEN IsSection(s, w, w.at[s], w.at[After[s]])
              ELSE w.warned[s] = 0
    BY DEF IsWritten
  <2>. HIDE DEF w
  <2>. QED
    BY <2>1 DEF IsSection, IsString
<1>2. /\ w.warned.ids \in Nat /\ w.warned.info \in Nat
      /\ w.warned.relative = 0 /\ w.warned.arguments = 0
  BY <1>1 DEF Sections
<1>3. begin = ReadUpTo(w, {}, "ids", late)
  <2>1. NoValues = [t \in Sections |-> NoValues[t]]
    BY DEF NoValues, Sections
  <2>. QED
    BY <1>1, <2>1 DEF ReadUpTo
<1>4. /\ ReadNext(link, Malformed, "info") = Malformed
      /\ ReadNext(link, Malformed, "relative") = Malformed
      /\ ReadNext(link, Malformed, "arguments") = Malformed
  BY DEF ReadNext
<1>. DEFINE n == late + w.warned.ids
            m == n + w.warned.info
<1>5. n \in Nat /\ m \in Nat /\ m + 0 = m
  <2>1. n \in Nat
    BY <1>2
  <2>. HIDE DEF n
  <2>. QED
    BY <1>2, <2>1
<1>. HIDE DEF begin
<1>6. \/ ids = ReadUpTo(w, {"ids"}, "info", n)
      \/ link.cut /\ ids = Malformed
  <2>1. "ids" \in Sections /\ {} \subseteq Sections /\ After["ids"] = "info"
        /\ {} \union {"ids"} = {"ids"}
    BY DEF Sections, After
  <2>. QED
    BY <1>3, <2>1, NextReadsBack
<1>. HIDE DEF ids
<1>7. \/ info = ReadUpTo(w, {"ids", "info"}, "relative", m)
      \/ link.cut /\ info = Malformed
  <2>1. "info" \in Sections /\ {"ids"} \subseteq Sections /\ After["info"] = "relative"
        /\ {"ids"} \union {"info"} = {"ids", "info"}
    BY DEF Sections, After
  <2>. HIDE DEF n
  <2>2. \/ ReadNext(link, ReadUpTo(w, {"ids"}, "info", n), "info")
             = ReadUpTo(w, {"ids", "info"}, "relative", m)
        \/ link.cut /\ ReadNext(link, ReadUpTo(w, {"ids"}, "info", n), "info") = Malformed
    BY <1>5, <2>1, NextReadsBack
  <2>. QED
    BY <1>4, <1>6, <2>2
<1>. HIDE DEF info, m
<1>8. \/ relative = ReadUpTo(w, {"ids", "info", "relative"}, "arguments", m)
      \/ link.cut /\ relative = Malformed
  <2>1. "relative" \in Sections /\ {"ids", "info"} \subseteq Sections
        /\ After["relative"] = "arguments"
        /\ {"ids", "info"} \union {"relative"} = {"ids", "info", "relative"}
    BY DEF Sections, After
  <2>2. \/ ReadNext(link, ReadUpTo(w, {"ids", "info"}, "relative", m), "relative")
             = ReadUpTo(w, {"ids", "info", "relative"}, "arguments", m + w.warned.relative)
        \/ link.cut /\ ReadNext(link, ReadUpTo(w, {"ids", "info"}, "relative", m), "relative")
                         = Malformed
    BY <1>5, <2>1, NextReadsBack
  <2>. QED
    BY <1>2, <1>4, <1>5, <1>7, <2>2
<1>. HIDE DEF relative
<1>9. \/ read = ReadUpTo(w, Sections, "extra", m)
      \/ link.cut /\ read = Malformed
  <2>. DEFINE done == {"ids", "info", "relative"}
  <2>1. "arguments" \in Sections /\ done \subseteq Sections /\ After["arguments"] = "extra"
        /\ done \union {"arguments"} = Sections
    BY DEF Sections, After
  <2>. HIDE DEF done
  <2>2. \/ ReadNext(link, ReadUpTo(w, done, "arguments", m), "arguments")
             = ReadUpTo(w, Sections, "extra", m + w.warned.arguments)
        \/ link.cut /\ ReadNext(link, ReadUpTo(w, done, "arguments", m), "arguments")
                         = Malformed
    BY <1>5, <2>1, NextReadsBack
  <2>. QED
    BY <1>2, <1>4, <1>5, <1>8, <2>2 DEF done
<1>10. ReadUpTo(w, Sections, "extra", m)
         = [next |-> w.at.extra, values |-> w.values, warnings |-> m]
  <2>1. [t \in Sections |-> IF t \in Sections THEN w.values[t] ELSE NoValues[t]]
          = [t \in Sections |-> w.values[t]]
    OBVIOUS
  <2>2. w.values = [t \in Sections |-> w.values[t]]
    <3>1. w.values = [ids |-> w.values.ids, info |-> w.values.info,
                      relative |-> w.values.relative, arguments |-> w.values.arguments]
      BY <1>1 DEF LinkValues
    <3>. HIDE DEF w
    <3>. QED
      BY <3>1 DEF Sections
  <2>. QED
    BY <2>1, <2>2 DEF ReadUpTo
<1>11. ReadUpTo(w, Sections, "extra", m) # Malformed
  BY <1>5, ReadUpToIsARecord
<1>. QED
  BY <1>9, <1>10, <1>11 DEF AllSections, begin, ids, info, relative, n, m

\* The blocks behind the sections that are whole in what is left, with a warning
\* unless it ends with one of them or with the terminator.
LEMMA BlocksReadBack ==
    ASSUME NEW link, IsWritten(link), link.body \in Seq(Nat)
    PROVE  LET w == link.written
               cuts == w.cuts.blocks
               rest == SubSeq(link.body, w.at.extra, Len(link.body))
           IN  \E m \in 0..Len(w.blocks) :
                  /\ ExtraData(rest)
                       = [items |-> SubSeq(w.blocks, 1, m),
                          warnings |-> IF Terminated(rest, cuts[m + 1], BlockWidth)
                                       THEN 0 ELSE 1]
                  /\ \A k \in DOMAIN w.blocks : k <= m <=> cuts[k + 1] <= Len(rest) + 1
<1>. DEFINE w == link.written
            n == Len(link.body)
            end == Len(w.body)
            o == w.at.extra
            last == Len(w.blocks)
            cuts == w.cuts.blocks
            data == SubSeq(w.body, o, end)
            left == IF n >= o THEN n - o + 1 ELSE 0
            rest == SubSeq(link.body, o, n)
<1>1. /\ w.body \in Seq(Nat) /\ IsUnits(data, w.blocks, w.cuts.blocks, BlockWidth, LeastBlock)
      /\ n <= end /\ link.body = SubSeq(w.body, 1, n)
  BY DEF IsWritten
<1>2. o \in 1..end + 1 /\ end \in Nat /\ n \in Nat
  BY SectionsAreInside, LenProperties
<1>. HIDE DEF o, end
<1>3. data \in Seq(Nat) /\ Len(data) = end - o + 1
  <2>1. end \in 0..end /\ o \in Int /\ end \in Int /\ 1 <= o
    BY <1>2
  <2>2. data \in Seq(Nat)
    BY <1>1, <2>1, PartOfPart DEF end
  <2>3. \A i \in o..end : w.body[i] \in Nat
    <3>1. \A i \in 1..end : w.body[i] \in Nat
      BY <1>1, ElementOfSeq DEF end
    <3>. QED
      BY <1>2, <3>1
  <2>4. Len(data) = IF o <= end THEN end - o + 1 ELSE 0
    BY <2>1, <2>3, SubSeqProperties
  <2>. HIDE DEF data
  <2>. QED
    BY <1>2, <2>2, <2>4
<1>4. /\ w.blocks \in Seq(Seq(Nat)) /\ cuts \in Seq(1..Len(data) + 1)
      /\ Len(cuts) = last + 1 /\ last \in Nat /\ DOMAIN w.blocks = 1..last
      /\ \A k \in 1..last : /\ Len(w.blocks[k]) >= LeastBlock
                             /\ cuts[k + 1] = cuts[k] + Len(w.blocks[k])
  <2>1. /\ w.blocks \in Seq(Seq(Nat)) /\ cuts \in Seq(1..Len(data) + 1)
        /\ Len(cuts) = last + 1
        /\ \A k \in DOMAIN w.blocks : /\ Len(w.blocks[k]) >= LeastBlock
                                      /\ cuts[k + 1] = cuts[k] + Len(w.blocks[k])
    BY <1>1 DEF IsUnits
  <2>2. last \in Nat /\ DOMAIN w.blocks = 1..last
    BY <2>1, LenProperties
  <2>. HIDE DEF last, cuts
  <2>. QED
    BY <2>1, <2>2
<1>5. left \in 0..Len(data)
  <2>. HIDE DEF data, n
  <2>. QED
    BY <1>1, <1>2, <1>3
<1>6. rest = SubSeq(data, 1, left)
  <2>1. n \in 0..end /\ o \in Int /\ n \in Int /\ 1 <= o
    <3>. HIDE DEF n
    <3>. QED
      BY <1>1, <1>2
  <2>2. rest = SubSeq(w.body, o, n)
    <3>1. SubSeq(SubSeq(w.body, 1, n), o, n) = SubSeq(w.body, o, n)
      <4>. HIDE DEF n
      <4>. QED
        BY <1>1, <2>1, PartOfPart DEF end
    <3>. QED
      BY <1>1, <3>1
  <2>. HIDE DEF n, rest
  <2>3. CASE n < o
    <3>1. rest = <<>>
      BY <2>1, <2>2, <2>3, SubSeqEmpty
    <3>2. left = 0
      BY <2>1, <2>3
    <3>. HIDE DEF data, left
    <3>. QED
      BY <3>1, <3>2, SubSeqEmpty
  <2>4. CASE ~(n < o)
    <3>1. left = n - o + 1
      BY <2>1, <2>4
    <3>2. \A i \in 1..left : o + i - 1 \in o..n /\ data[i] = w.body[o + i - 1]
          /\ w.body[o + i - 1] \in Nat
      <4>1. \A i \in o..end : w.body[i] \in Nat
        <5>1. \A i \in 1..end : w.body[i] \in Nat
          BY <1>1, ElementOfSeq DEF end
        <5>. QED
          BY <1>2, <5>1
      <4>2. \A i \in 1..end - o + 1 : data[i] = w.body[o + i - 1]
        BY <1>2, <4>1, SubSeqProperties
      <4>3. \A i \in 1..left : o + i - 1 \in o..n /\ i \in 1..end - o + 1
                               /\ o + i - 1 \in o..end
        BY <1>2, <2>1, <3>1
      <4>. HIDE DEF left, data
      <4>. QED
        BY <4>1, <4>2, <4>3
    <3>3. /\ rest \in Seq(Nat) /\ Len(rest) = left
          /\ \A i \in 1..left : rest[i] = w.body[o + i - 1]
      <4>1. \A i \in o..n : w.body[i] \in Nat
        <5>1. \A i \in 1..end : w.body[i] \in Nat
          BY <1>1, ElementOfSeq DEF end
        <5>. QED
          BY <1>2, <2>1, <5>1
      <4>. QED
        BY <2>1, <2>2, <2>4, <3>1, <4>1, SubSeqProperties
    <3>4. /\ SubSeq(data, 1, left) \in Seq(Nat) /\ Len(SubSeq(data, 1, left)) = left
          /\ \A i \in 1..left : SubSeq(data, 1, left)[i] = data[i]
      <4>. HIDE DEF data, left
      <4>. QED
        BY <1>3, <1>5, PartOfPart
    <3>. HIDE DEF data, left
    <3>5. \A i \in 1..Len(rest) : rest[i] = SubSeq(data, 1, left)[i]
      BY <3>2, <3>3, <3>4
    <3>. QED
      BY <3>3, <3>4, <3>5, SeqEqual
  <2>. QED
    BY <2>1, <2>3, <2>4
<1>. HIDE DEF data, left, rest
<1>7. PICK m \in 0..last : ReadOf(data, w.blocks, cuts, BlockWidth, LeastBlock, left, m)
  <2>1. /\ BlockWidth \in Nat /\ BlockWidth >= 1
        /\ LeastBlock \in Nat /\ LeastBlock >= BlockWidth
    BY DEF LeastBlock, BlockWidth
  <2>2. /\ data \in Seq(Nat) /\ left \in 0..Len(data)
        /\ IsUnits(data, w.blocks, cuts, BlockWidth, LeastBlock)
    BY <1>1, <1>3, <1>5
  <2>. HIDE DEF data, left, cuts
  <2>. QED
    BY <2>1, <2>2, UnitsReadBack
<1>8. Len(rest) = left
  BY <1>3, <1>5, <1>6, PartOfPart
<1>9. ExtraData(rest)
         = [items |-> SubSeq(w.blocks, 1, m),
            warnings |-> IF Terminated(rest, cuts[m + 1], BlockWidth) THEN 0 ELSE 1]
  BY <1>6, <1>7 DEF ReadOf, ExtraData
<1>10. \A k \in DOMAIN w.blocks : k <= m <=> cuts[k + 1] <= Len(rest) + 1
  BY <1>4, <1>7, <1>8 DEF ReadOf
<1>. QED
  BY <1>9, <1>10 DEF rest, o, n, last, cuts

LEMMA PathReadsBack ==
    ASSUME NEW link, IsWritten(link)
    PROVE  TargetPath(link.written.values.info, link.written.values.relative)
             = link.written.target
<1>. DEFINE w == link.written
            o == w.at.info
            info == w.values.info
<1>1. /\ w.values \in LinkValues /\ w.target = PathOf(w.values)
      /\ IF "info" \in link.flags THEN IsSection("info", w, o, w.at[After["info"]])
         ELSE info = NoInfo
  BY DEF IsWritten, Sections, NoValues
<1>2. \E b, c : info.local \in {None, <<b>>} /\ info.suffix \in {None, <<c>>}
  <2>1. CASE "info" \in link.flags
    <3>1. info.local = Text(w.body[o + 1]) /\ info.suffix = Text(w.body[o + 2])
      BY <1>1, <2>1 DEF IsSection, IsInfo
    <3>2. \A byte : Text(byte) \in {None, <<byte>>}
      BY DEF Text
    <3>. QED
      BY <3>1, <3>2
  <2>2. CASE "info" \notin link.flags
    BY <1>1, <2>2 DEF NoInfo
  <2>. QED
    BY <2>1, <2>2
<1>. QED
  BY <1>1, <1>2, TargetReadsBack

LEMMA LinkReadsBack ==
    ASSUME NEW link, IsLink(link), IsWritten(link)
    PROVE  LET read == NormalizeLink(link)
               w == link.written
               cuts == w.cuts.blocks
               rest == SubSeq(link.body, w.at.extra, Len(link.body))
           IN  \/ link.cut /\ read = Malformed
               \/ /\ read.values = w.values
                  /\ read.target = w.target
                  /\ \E n \in 0..Len(w.blocks) :
                        /\ \A k \in DOMAIN w.blocks : k <= n <=> cuts[k + 1] <= Len(rest) + 1
                        /\ IsTracker(read.tracker, SubSeq(w.blocks, 1, n))
                        /\ read.warnings =
                              w.late + w.warned.ids + w.warned.info
                              + (IF Terminated(rest, cuts[n + 1], BlockWidth) THEN 0 ELSE 1)
<1>. DEFINE w == link.written
            times == [i \in DOMAIN link.times |-> Filetime(link.times[i])]
            lost == {i \in DOMAIN times : Unrepresentable(times[i])}
            begin == [next |-> 1, warnings |-> Cardinality(lost), values |-> NoValues]
            read == AllSections(link, begin)
            rest == SubSeq(link.body, w.at.extra, Len(link.body))
            expected == w.late + w.warned.ids + w.warned.info
<1>1. NormalizeLink(link) = UnlessTruncated(link, times, read)
  BY DEF NormalizeLink, AllSections
<1>2. link.body \in Seq(Nat)
  BY DEF IsLink
<1>3. w.late = Cardinality(lost) /\ w.late \in Nat
  <2>1. DOMAIN link.times = 1..3 /\ \A i \in 1..3 : link.times[i] \in Nat
    BY DEF IsLink
  <2>2. lost = {i \in DOMAIN link.times : link.times[i] > MaxFiletime}
    BY <2>1, FiletimeFacts
  <2>3. lost \in SUBSET (1..3)
    BY <2>1
  <2>. HIDE DEF lost
  <2>4. Cardinality(lost) \in Nat
    BY <2>3, SubsetOfPositions
  <2>. QED
    BY <2>2, <2>4 DEF IsWritten
<1>. HIDE DEF times, lost
<1>4. \/ /\ read = [next |-> w.at.extra, values |-> w.values, warnings |-> expected]
         /\ read # Malformed
      \/ link.cut /\ read = Malformed
  BY <1>2, <1>3, SectionsReadBack
<1>5. CASE link.cut /\ read = Malformed
  BY <1>1, <1>5 DEF UnlessTruncated
<1>6. CASE read # Malformed
           /\ read = [next |-> w.at.extra, values |-> w.values, warnings |-> expected]
  <2>. DEFINE cuts == w.cuts.blocks
              Whole(k) == \A i \in DOMAIN w.blocks : i <= k <=> cuts[i + 1] <= Len(rest) + 1
              Warned(k) == IF Terminated(rest, cuts[k + 1], BlockWidth) THEN 0 ELSE 1
  <2>1. PICK n \in 0..Len(w.blocks) :
           /\ ExtraData(rest) = [items |-> SubSeq(w.blocks, 1, n), warnings |-> Warned(n)]
           /\ Whole(n)
    BY <1>2, BlocksReadBack
  <2>2. NormalizeLink(link) = LinkRecord(times, read, ExtraData(rest))
    BY <1>1, <1>6 DEF UnlessTruncated
  <2>. HIDE DEF rest, expected, cuts, Whole, Warned
  <2>3. /\ NormalizeLink(link).values = w.values
        /\ NormalizeLink(link).target = TargetPath(w.values.info, w.values.relative)
        /\ NormalizeLink(link).tracker = Tracker(SubSeq(w.blocks, 1, n))
        /\ NormalizeLink(link).warnings = expected + Warned(n)
    <3>. HIDE DEF read
    <3>. QED
      BY <1>6, <2>1, <2>2 DEF LinkRecord
  <2>4. IsTracker(Tracker(SubSeq(w.blocks, 1, n)), SubSeq(w.blocks, 1, n))
    <3>1. w.blocks \in Seq(Seq(Nat))
      BY DEF IsWritten, IsUnits
    <3>2. SubSeq(w.blocks, 1, n) \in Seq(Seq(Nat))
      BY <2>1, <3>1, PartOfPart
    <3>. QED
      BY <3>2, TrackerIsTheLast
  <2>5. NormalizeLink(link).target = w.target
    BY <2>3, PathReadsBack
  <2>6. \E k \in 0..Len(w.blocks) :
           /\ Whole(k)
           /\ IsTracker(NormalizeLink(link).tracker, SubSeq(w.blocks, 1, k))
           /\ NormalizeLink(link).warnings = expected + Warned(k)
    BY <2>1, <2>3, <2>4
  <2>. QED
    BY <2>3, <2>5, <2>6 DEF expected, rest, cuts, Whole, Warned
<1>. QED
  BY <1>4, <1>5, <1>6

-----------------------------------------------------------------------------
\* The way of a file: the theorems

\* A result that is stored is the validated outcome of its file's parser, and
\* the events are those of its records.
ParsersInv ==
    /\ job \in Jobs
    /\ stage # "stored" => result = Validated(Outcome(job))
    /\ stage = "normalized" =>
          events = [i \in DOMAIN result.records |->
                       Normalize(job.format, result.records[i]).events]

LEMMA ParsersInvHolds == ParsersSpec => []ParsersInv
<1>1. ParsersInit => ParsersInv
  BY DEF ParsersInit, ParsersInv
<1>2. ParsersInv /\ [ParsersNext]_parserVars => ParsersInv'
  <2>. SUFFICES ASSUME ParsersInv, [ParsersNext]_parserVars
                PROVE  ParsersInv'
    OBVIOUS
  <2>1. CASE Parse
    BY <2>1 DEF ParsersInv, Parse
  <2>2. CASE NormalizeRecords
    BY <2>2 DEF ParsersInv, NormalizeRecords
  <2>3. CASE UNCHANGED parserVars
    BY <2>3 DEF ParsersInv, parserVars
  <2>. QED
    BY <2>1, <2>2, <2>3 DEF ParsersNext
<1>. QED
  BY <1>1, <1>2, PTL DEF ParsersSpec

\* What a parser gives for a file that could be read.
LEMMA OutcomeMeetsContract ==
    ASSUME NEW j \in Jobs
    PROVE  Outcome(j) = None \/ MeetsContract(Outcome(j))
<1>1. CASE j.format = "EVTX"
  BY <1>1, OutcomeByFormat, LogIsRead, CompletedMeetsContract, WithoutMeetsContract
<1>2. CASE j.format = "REGISTRY"
  BY <1>2, OutcomeByFormat, HiveIsRead, CompletedMeetsContract, WithoutMeetsContract
<1>3. CASE j.format = "PREFETCH"
  BY <1>3, OutcomeByFormat, PrefetchIsRead, CompletedMeetsContract, WithoutMeetsContract
<1>4. CASE j.format = "LNK"
  BY <1>4, OutcomeByFormat, LinkIsRead, CompletedMeetsContract, WithoutMeetsContract
<1>5. CASE j.format = "NTFS_MFT"
  BY <1>5, OutcomeByFormat, TableIsRead, CompletedMeetsContract, WithoutMeetsContract
<1>. QED
  BY <1>1, <1>2, <1>3, <1>4, <1>5, OutcomeByFormat DEF Formats

\* No parser gives a result that validate_status_contract refuses, whatever
\* the file: a FAILED artifact is never one whose records were thrown away.
THEOREM ContractIsMet == ParsersSpec => []ResultsMeetContract
<1>1. ParsersInv => ResultsMeetContract
  BY OutcomeMeetsContract DEF ParsersInv, ResultsMeetContract
<1>. QED
  BY <1>1, ParsersInvHolds, PTL

\* A stored result is the failure that stands for an exception, or the outcome.
LEMMA StoredResult ==
    ASSUME ParsersInv, stage # "stored"
    PROVE  /\ result = Without("FAILED") \/ (Outcome(job) # None /\ result = Outcome(job))
           /\ Succeeded => Outcome(job) # None /\ result = Outcome(job)
           /\ Succeeded => result \notin {Without("FAILED"), Without("UNSUPPORTED")}
  BY DEF ParsersInv, Validated, Succeeded, Without

\* Whatever a successful parse of a table, a log or a prefetch file leaves
\* out is in its warnings.
THEOREM LossesAreReported == ParsersSpec => []NothingLostSilently
<1>1. ASSUME ParsersInv, Read("NTFS_MFT"), Succeeded
      PROVE  Cardinality({i \in DOMAIN result.records : "boot" \notin DOMAIN result.records[i]})
               + result.warnings
             >= Cardinality({i \in DOMAIN Examined(job.file) :
                                Examined(job.file)[i].sig # "zero"})
  <2>. DEFINE kept == {i \in DOMAIN result.records : "boot" \notin DOMAIN result.records[i]}
              due == Cardinality({i \in DOMAIN Examined(job.file) :
                                     Examined(job.file)[i].sig # "zero"})
  <2>1. IsTable(job.file) /\ Outcome(job) = ParseMft(job.file)
    BY <1>1, OutcomeByFormat DEF ParsersInv, Read
  <2>2. /\ Outcome(job) # None /\ result = Outcome(job)
        /\ result \notin {Without("FAILED"), Without("UNSUPPORTED")}
    BY <1>1, StoredResult DEF Read
  <2>3. PICK records : \E warnings \in Nat, k \in {0, 1}, n \in Nat :
             /\ result = Completed(records, warnings)
             /\ TableRead(job.file, records, warnings, k, n)
    BY <2>1, <2>2, TableIsRead
  <2>4. PICK warnings \in Nat, k \in {0, 1}, n \in Nat :
             /\ result = Completed(records, warnings)
             /\ TableRead(job.file, records, warnings, k, n)
    BY <2>3
  <2>5. result.records = records /\ result.warnings = warnings
    BY <2>4 DEF Completed
  <2>6. kept = k + 1..k + n
    BY <2>4, <2>5 DEF TableRead, IsRecord
  <2>7. Cardinality(k + 1..k + n) = n
    <3>1. k + 1 \in Int /\ k + n \in Int
      OBVIOUS
    <3>2. Cardinality(k + 1..k + n) = IF k + 1 > k + n THEN 0 ELSE k + n - (k + 1) + 1
      BY <3>1, FS_Interval
    <3>. QED
      BY <3>2
  <2>8. n + warnings >= due
    BY <2>4 DEF TableRead
  <2>. HIDE DEF kept, due
  <2>9. Cardinality(kept) + result.warnings >= due
    BY <2>5, <2>6, <2>7, <2>8
  <2>. QED
    BY <2>9 DEF kept, due
<1>2. ASSUME ParsersInv, Read("EVTX"), Succeeded
      PROVE  Len(result.records) + result.warnings =
                Total([i \in DOMAIN job.file.chunks |->
                          Len(job.file.chunks[i].records)
                          + (IF job.file.chunks[i].broken THEN 1 ELSE 0)])
  <2>1. IsLog(job.file) /\ Outcome(job) = ParseEvtx(job.file)
    BY <1>2, OutcomeByFormat DEF ParsersInv, Read
  <2>2. result = Outcome(job) /\ result \notin {Without("FAILED"), Without("UNSUPPORTED")}
    BY <1>2, StoredResult DEF Read
  <2>3. PICK records \in Seq(ReadEvents), warnings \in Nat :
             /\ result = Completed(records, warnings)
             /\ Len(records) + warnings =
                  Total([i \in DOMAIN job.file.chunks |->
                            Len(job.file.chunks[i].records)
                            + (IF job.file.chunks[i].broken THEN 1 ELSE 0)])
    BY <2>1, <2>2, LogIsRead
  <2>. QED
    BY <2>3 DEF Completed
<1>3. ASSUME ParsersInv, Read("PREFETCH"), Succeeded
      PROVE  result.status = "COMPLETED" <=> NothingMissing(job.file, result.records[1])
  <2>1. IsPrefetch(job.file) /\ Outcome(job) = ParsePrefetch(job.file)
    BY <1>3, OutcomeByFormat DEF ParsersInv, Read
  <2>2. result = Outcome(job) /\ result \notin {Without("FAILED"), Without("UNSUPPORTED")}
    BY <1>3, StoredResult DEF Read
  <2>3. PICK record : \E warnings \in Nat :
             /\ result = Completed(<<record>>, warnings)
             /\ warnings = 0 <=> NothingMissing(job.file, record)
    BY <2>1, <2>2, PrefetchIsRead
  <2>4. PICK warnings \in Nat :
             /\ result = Completed(<<record>>, warnings)
             /\ warnings = 0 <=> NothingMissing(job.file, record)
    BY <2>3
  <2>5. result.records[1] = record /\ (result.status = "COMPLETED" <=> warnings = 0)
    BY <2>4 DEF Completed
  <2>. QED
    BY <2>4, <2>5
<1>4. ParsersInv => NothingLostSilently
  BY <1>1, <1>2, <1>3 DEF NothingLostSilently, NothingMissing
<1>. QED
  BY <1>4, ParsersInvHolds, PTL

\* The stack of the hive walk visits every reachable key, in path order: the
\* walk ends with an empty stack after as many turns as the hive has keys.
THEOREM HivesAreReadInPathOrder == ParsersSpec => []HiveInPathOrder
<1>1. ASSUME ParsersInv, Read("REGISTRY"), Succeeded
      PROVE  /\ Visited(result.records) = Reachable(job.file)
             /\ \A i, j \in KeyRecords(result.records) :
                   i < j => Before(result.records[i].key, result.records[j].key)
  <2>1. IsHive(job.file) /\ Outcome(job) = ParseHive(job.file)
    BY <1>1, OutcomeByFormat DEF ParsersInv, Read
  <2>2. result = Outcome(job) /\ result \notin {Without("FAILED"), Without("UNSUPPORTED")}
    BY <1>1, StoredResult DEF Read
  <2>3. PICK records : \E warnings \in Nat :
             /\ result = Completed(records, warnings)
             /\ Visited(records) = Reachable(job.file)
             /\ \A i, j \in KeyRecords(records) :
                   i < j => Before(records[i].key, records[j].key)
    BY <2>1, <2>2, HiveIsRead
  <2>4. result.records = records
    BY <2>3 DEF Completed
  <2>. QED
    BY <2>3, <2>4
<1>2. ParsersInv => HiveInPathOrder
  BY <1>1 DEF HiveInPathOrder, Visited, KeyRecords
<1>. QED
  BY <1>2, ParsersInvHolds, PTL

\* Every record of a stored result gives one event for each of its times.
LEMMA RecordsGiveTheirEvents ==
    ASSUME ParsersInv, stage # "stored", NEW i \in DOMAIN result.records
    PROVE  OneEventPerTime(job.format, result.records[i])
<1>1. result = Outcome(job)
  <2>1. result # Without("FAILED")
    BY DEF Without
  <2>. QED
    BY <2>1, StoredResult
<1>2. result \notin {Without("FAILED"), Without("UNSUPPORTED")} /\ Outcome(job) # None
  <2>1. result \notin {Without("FAILED"), Without("UNSUPPORTED")}
    BY DEF Without
  <2>. QED
    BY <2>1, StoredResult
<1>3. CASE job.format = "EVTX"
  BY <1>3, LogEvents
<1>4. CASE job.format = "REGISTRY"
  BY <1>4, KeyEvents
<1>5. CASE job.format = "PREFETCH"
  <2>1. IsPrefetch(job.file) /\ Outcome(job) = ParsePrefetch(job.file)
    BY <1>5, OutcomeByFormat DEF ParsersInv
  <2>2. PICK record : \E warnings \in Nat : /\ result = Completed(<<record>>, warnings)
                                            /\ record.times \in Seq(Pairs)
    BY <1>1, <1>2, <2>1, PrefetchIsRead
  <2>3. result.records = <<record>>
    BY <2>2 DEF Completed
  <2>4. result.records[i] = record
    BY <2>3
  <2>. QED
    BY <1>5, <2>2, <2>4, ProgramEvents
<1>6. CASE job.format = "LNK"
  <2>1. IsLink(job.file) /\ Outcome(job) = ParseLnk(job.file)
    BY <1>6, OutcomeByFormat DEF ParsersInv
  <2>2. PICK record : \E warnings \in Nat : /\ result = Completed(<<record>>, warnings)
                                            /\ record.times \in [1..3 -> Pairs]
    BY <1>1, <1>2, <2>1, LinkIsRead
  <2>3. result.records = <<record>>
    BY <2>2 DEF Completed
  <2>4. result.records[i] = record
    BY <2>3
  <2>. QED
    BY <1>6, <2>2, <2>4, LinkEvents
<1>7. CASE job.format = "NTFS_MFT"
  <2>1. IsTable(job.file) /\ Outcome(job) = ParseMft(job.file)
    BY <1>7, OutcomeByFormat DEF ParsersInv
  <2>2. PICK records : \E warnings \in Nat, k \in {0, 1}, n \in Nat :
             /\ result = Completed(records, warnings)
             /\ TableRead(job.file, records, warnings, k, n)
    BY <1>1, <1>2, <2>1, TableIsRead
  <2>3. PICK warnings \in Nat, k \in {0, 1}, n \in Nat :
             /\ result = Completed(records, warnings)
             /\ TableRead(job.file, records, warnings, k, n)
    BY <2>2
  <2>4. result.records = records
    BY <2>3 DEF Completed
  <2>5. i \in 1..k \/ i \in k + 1..k + n
    BY <2>3, <2>4 DEF TableRead
  <2>6. "boot" \in DOMAIN result.records[i] \/ IsRecord(result.records[i])
    BY <2>3, <2>4, <2>5 DEF TableRead
  <2>. QED
    BY <1>7, <2>6, FileRecordEvents
<1>. QED
  BY <1>3, <1>4, <1>5, <1>6, <1>7, OutcomeByFormat DEF ParsersInv, Formats

\* No two events of a record have one logical identity, and no time that is
\* set is without an event: the insert that drops a known identity loses none.
THEOREM TimestampsBecomeEvents == ParsersSpec => []EveryTimestampIsOneEvent
<1>1. ASSUME ParsersInv, stage = "normalized", NEW i \in DOMAIN result.records
      PROVE  Cardinality({LogicalIdentity(events[i][k]) : k \in DOMAIN events[i]})
             = SourceTimes(result.records[i], job.format)
  <2>1. events[i] = Normalize(job.format, result.records[i]).events
    BY <1>1 DEF ParsersInv
  <2>2. OneEventPerTime(job.format, result.records[i])
    BY <1>1, RecordsGiveTheirEvents
  <2>3. Cardinality(Identities(events[i])) = SourceTimes(result.records[i], job.format)
    BY <2>1, <2>2 DEF OneEventPerTime
  <2>. QED
    BY <2>3 DEF Identities
<1>2. ParsersInv => EveryTimestampIsOneEvent
  BY <1>1 DEF EveryTimestampIsOneEvent
<1>. QED
  BY <1>2, ParsersInvHolds, PTL

\* What a record that is kept consists of.
LEMMA KeptRecord ==
    ASSUME NEW slot, IsSlot(slot), NEW sectorSize,
           RecordOf(slot, sectorSize) \notin {None, Malformed}
    PROVE  LET record == RecordOf(slot, sectorSize)
               data == OfType(Attributes(slot.area), "DATA")
           IN  /\ ApplyFixup(slot, sectorSize) # Malformed
               /\ record.words = ApplyFixup(slot, sectorSize)
               /\ record.data = [k \in DOMAIN data |-> DataRuns(data[k].runs)]
               /\ \A k \in DOMAIN data :
                     /\ data[k] \in ToSet(slot.area) /\ data[k].type = "DATA"
                     /\ Sound(data[k])
<1>. DEFINE fixed == ApplyFixup(slot, sectorSize)
            attributes == Attributes(slot.area)
            data == OfType(attributes, "DATA")
            record == RecordOf(slot, sectorSize)
            places == {i \in DOMAIN attributes : attributes[i].type = "DATA"}
<1>1. attributes \in Chains(SoundIn(slot.area))
  BY AttributesAreRead DEF IsSlot, IsAttribute
<1>2. fixed # Malformed /\ attributes # Malformed /\ record = RecordFrom(fixed, attributes)
  BY DEF RecordOf, UnlessMalformed
<1>3. record.words = fixed /\ record.data = [k \in DOMAIN data |-> DataRuns(data[k].runs)]
  <2>. HIDE DEF fixed, attributes
  <2>. QED
    BY <1>2 DEF RecordFrom
<1>4. ASSUME NEW k \in DOMAIN data
      PROVE  /\ data[k] \in ToSet(slot.area) /\ data[k].type = "DATA"
             /\ Sound(data[k])
  <2>1. attributes \in Seq(SoundIn(slot.area))
    BY <1>1, <1>2 DEF Chains
  <2>. HIDE DEF attributes
  <2>2. places \in SUBSET DOMAIN attributes /\ data = KeepAt(attributes, places)
    BY DEF OfType
  <2>. HIDE DEF data, places
  <2>3. /\ data \in Seq(SoundIn(slot.area)) /\ Len(data) = Cardinality(places)
        /\ \A l \in 1..Cardinality(places) :
              InOrder(places)[l] \in places /\ data[l] = attributes[InOrder(places)[l]]
    BY <2>1, <2>2, KeepAtKeeps
  <2>4. k \in 1..Len(data)
    BY <2>3, LenProperties
  <2>5. data[k] \in SoundIn(slot.area)
    BY <2>3, <2>4, ElementOfSeq
  <2>6. data[k].type = "DATA"
    BY <2>3, <2>4 DEF places
  <2>. QED
    BY <2>5, <2>6 DEF SoundIn
<1>. HIDE DEF fixed, attributes, data, record
<1>. QED
  BY <1>2, <1>3, <1>4 DEF fixed, attributes, data, record

LEMMA WrittenSlots ==
    ASSUME NEW j \in Jobs, j.format = "NTFS_MFT", NEW i \in DOMAIN j.file.slots,
           j.file.slots[i].sig = "FILE"
    PROVE  LET slot == j.file.slots[i]
           IN  /\ IsSlot(slot) /\ IsStored(slot) /\ slot.words \in Seq(Nat)
               /\ \A a \in ToSet(slot.area) :
                     /\ IsAttribute(a)
                     /\ a.type = "DATA" => IsRunList(a.runs, a.written)
<1>1. IsTable(j.file)
  BY JobsAssumption DEF IsJob
<1>2. j.file.slots[i] \in ToSet(j.file.slots)
  <2>1. j.file.slots \in Seq(ToSet(j.file.slots))
    BY <1>1 DEF IsTable
  <2>. QED
    BY <2>1, LenProperties, ElementOfSeq
<1>3. /\ IsStored(j.file.slots[i])
      /\ \A a \in ToSet(j.file.slots[i].area) :
            a.type = "DATA" => IsRunList(a.runs, a.written)
  BY <1>2, WrittenAssumption
<1>. QED
  BY <1>1, <1>2, <1>3 DEF IsTable, IsSlot

\* A record some sectors of which belong to another write is never kept, and
\* one that is kept has the words it was written with, whatever the geometry.
LEMMA TornRecordsAreRefused == ParsersInv => WordsReadBack
<1>. SUFFICES ASSUME job \in Jobs, job.format = "NTFS_MFT",
                     NEW i \in DOMAIN job.file.slots,
                     job.file.slots[i].sig = "FILE",
                     RecordOf(job.file.slots[i], job.file.sectorSize)
                        \notin {None, Malformed}
              PROVE  /\ ~Torn(job.file.slots[i])
                     /\ RecordOf(job.file.slots[i], job.file.sectorSize).words
                          = job.file.slots[i].written.words
  BY DEF ParsersInv, WordsReadBack, Read
<1>. DEFINE slot == job.file.slots[i]
            sectorSize == job.file.sectorSize
<1>1. IsSlot(slot) /\ IsStored(slot) /\ slot.words \in Seq(Nat)
  BY WrittenSlots
<1>. HIDE DEF slot, sectorSize
<1>2. RecordOf(slot, sectorSize) \notin {None, Malformed}
  BY DEF slot, sectorSize
<1>3. /\ ApplyFixup(slot, sectorSize) # Malformed
      /\ RecordOf(slot, sectorSize).words = ApplyFixup(slot, sectorSize)
  BY <1>1, <1>2, KeptRecord
<1>4. ~Torn(slot) /\ ApplyFixup(slot, sectorSize) = slot.written.words
  BY <1>1, <1>3, FixupReadsBack
<1>. QED
  BY <1>3, <1>4 DEF slot, sectorSize

\* The run lists of a record that is kept are whole and decode to the clusters
\* they were encoded from, whatever the widths of their numbers.
LEMMA RunListsAreDecoded == ParsersInv => RunListsReadBack
<1>. SUFFICES ASSUME job \in Jobs, job.format = "NTFS_MFT",
                     NEW i \in DOMAIN job.file.slots,
                     job.file.slots[i].sig = "FILE",
                     RecordOf(job.file.slots[i], job.file.sectorSize)
                        \notin {None, Malformed}
              PROVE  LET slot == job.file.slots[i]
                         record == RecordOf(slot, job.file.sectorSize)
                         data == OfType(Attributes(slot.area), "DATA")
                     IN  /\ \A k \in DOMAIN data : data[k].written.whole
                         /\ record.data = [k \in DOMAIN data |-> data[k].written.runs]
  BY DEF ParsersInv, RunListsReadBack, Read
<1>. DEFINE slot == job.file.slots[i]
            record == RecordOf(slot, job.file.sectorSize)
            data == OfType(Attributes(slot.area), "DATA")
<1>1. /\ IsSlot(slot)
      /\ \A a \in ToSet(slot.area) :
            /\ IsAttribute(a)
            /\ a.type = "DATA" => IsRunList(a.runs, a.written)
  BY WrittenSlots
<1>2. /\ record.data = [k \in DOMAIN data |-> DataRuns(data[k].runs)]
      /\ \A k \in DOMAIN data :
            data[k] \in ToSet(slot.area) /\ data[k].type = "DATA" /\ Sound(data[k])
  BY <1>1, KeptRecord
<1>. HIDE DEF slot, record, data
<1>3. ASSUME NEW k \in DOMAIN data
      PROVE  data[k].written.whole /\ DataRuns(data[k].runs) = data[k].written.runs
  <2>. DEFINE a == data[k]
  <2>1. IsAttribute(a) /\ IsRunList(a.runs, a.written) /\ Sound(a)
    BY <1>1, <1>2
  <2>. HIDE DEF a
  <2>2. a.runs \in Seq(0..255)
    BY <2>1 DEF IsAttribute
  <2>3. DataRuns(a.runs) = AtMost(MaxRuns, IF a.written.whole THEN a.written.runs ELSE Malformed)
    BY <2>1, <2>2, RunListReadsBack
  <2>4. CASE a.resident
    <3>1. a.runs = <<>> /\ Len(a.runs) = 0
      BY <2>1, <2>4, EmptySeq DEF IsAttribute
    <3>2. a.written.whole
      <4>. SUFFICES ASSUME ~a.written.whole PROVE FALSE
        OBVIOUS
      <4>. DEFINE cuts == a.written.cuts
      <4>1. /\ cuts \in Seq(1..0 + 1) /\ Len(cuts) = Len(a.written.runs) + 1
            /\ a.written.runs \in Seq([count : Nat, lcn : Int \union {None}])
            /\ cuts[Len(cuts)] <= 0
        BY <2>1, <3>1 DEF IsRunList
      <4>. HIDE DEF cuts
      <4>2. Len(a.written.runs) \in Nat
        BY <4>1, LenProperties
      <4>3. Len(cuts) \in 1..Len(cuts)
        BY <4>1, <4>2
      <4>4. cuts[Len(cuts)] \in 1..0 + 1
        BY <4>1, <4>3, ElementOfSeq
      <4>. QED
        BY <4>1, <4>4
    <3>3. AtMost(MaxRuns, a.written.runs) = a.written.runs
      <4>. DEFINE runs == a.written.runs
      <4>1. /\ runs \in Seq([count : Nat, lcn : Int \union {None}])
            /\ a.written.cuts[1] = 1
            /\ \A j \in DOMAIN runs : a.written.cuts[j] <= 0
        BY <2>1, <3>1 DEF IsRunList
      <4>. HIDE DEF runs
      <4>2. 1 \notin DOMAIN runs
        BY <4>1
      <4>3. Len(runs) = 0
        BY <4>1, <4>2, LenProperties
      <4>. QED
        BY <4>3 DEF AtMost, MaxRuns, runs
    <3>. QED
      BY <2>3, <3>2, <3>3 DEF a
  <2>5. CASE ~a.resident
    <3>1. DataRuns(a.runs) # Malformed
      BY <2>1, <2>5 DEF Sound
    <3>. QED
      BY <2>3, <3>1 DEF AtMost, a
  <2>. QED
    BY <2>4, <2>5
<1>4. /\ \A k \in DOMAIN data : data[k].written.whole
      /\ record.data = [k \in DOMAIN data |-> data[k].written.runs]
  BY <1>2, <1>3
<1>. QED
  BY <1>4 DEF slot, record, data

\* A record of the master file table that is kept is the one that was written:
\* its sectors are of one write, and its run lists decode to its clusters.
THEOREM KeptRecordsAreRead == ParsersSpec => []KeptRecordsReadBack
<1>1. ParsersInv => KeptRecordsReadBack
  BY TornRecordsAreRefused, RunListsAreDecoded DEF KeptRecordsReadBack
<1>. QED
  BY <1>1, ParsersInvHolds, PTL

\* A link reads back as it was written, its sections, its target, its tracker
\* and the warnings it is worth, whatever of its optional parts it has.  One the
\* end of which is missing fails, or lacks the blocks that are not whole.
THEOREM LinksAreDecoded == ParsersSpec => []LinksReadBack
<1>1. ParsersInv => LinksReadBack
  <2>. SUFFICES ASSUME job \in Jobs, job.format = "LNK", job.file.signed, job.file.header
                PROVE  LinksReadBack
    BY DEF ParsersInv, LinksReadBack, Read
  <2>1. IsLink(job.file)
    BY JobsAssumption DEF IsJob
  <2>2. IsWritten(job.file)
    BY WrittenAssumption
  <2>. QED
    BY <2>1, <2>2, LinkReadsBack DEF LinksReadBack
<1>. QED
  BY <1>1, ParsersInvHolds, PTL

=============================================================================
