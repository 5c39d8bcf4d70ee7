------------------------------ MODULE FatFsProofs ------------------------------
(***************************************************************************)
(* Theorems of module FatFs, for volumes, directories and images of any     *)
(* size and any number of calls, proved from ImageAssumption and            *)
(* ImageChains.                                                             *)
(*                                                                          *)
(* SeekCluster is a recursive function.  What it computes is proved by      *)
(* induction: a set of numbers that has 0 and the successor of each of its  *)
(* members is Nat (Induction), which rests on the least number of a set.    *)
(***************************************************************************)
EXTENDS FatFs, FiniteSetTheorems, FunctionTheorems, WellFoundedInduction, TLAPS

(* The least element of a set of natural numbers.                           *)
LEMMA Least ==
  ASSUME NEW S \in SUBSET Nat, S # {}
  PROVE  \E x \in S : \A y \in S : x <= y
<1>1. PICK x \in S : \A y \in S : ~(<<y, x>> \in OpToRel(<, Nat))
  BY NatLessThanWellFounded, WFMin
<1>2. ASSUME NEW y \in S PROVE x <= y
  <2>1. <<y, x>> \in Nat \X Nat /\ ~(<<y, x>> \in OpToRel(<, Nat))
    BY <1>1
  <2>2. ~(y < x)
    BY <2>1 DEF OpToRel
  <2> QED BY <2>2
<1> QED BY <1>2

(* Induction over the natural numbers, for a set of them.                   *)
LEMMA Induction ==
  ASSUME NEW S, 0 \in S, \A n \in Nat : n \in S => n + 1 \in S
  PROVE  \A n \in Nat : n \in S
<1> SUFFICES ASSUME Nat \ S # {} PROVE FALSE
  OBVIOUS
<1>1. PICK m \in Nat \ S : \A y \in Nat \ S : m <= y
  <2> DEFINE T == Nat \ S
  <2> HIDE DEF T
  <2>1. T \in SUBSET Nat /\ T # {}
    BY DEF T
  <2> QED BY <2>1, Least DEF T
<1>2. m # 0 /\ m - 1 \in Nat
  BY <1>1
<1>3. m - 1 \in S
  BY <1>1, <1>2
<1> QED BY <1>1, <1>2, <1>3

(* The numbers of clusters, units and entries.                              *)
LEMMA Sizes ==
  /\ N \in Nat /\ N > 0 /\ B \in Nat /\ B > 0 /\ DirCap \in Nat /\ DirCap > 0
  /\ Clusters = 2 .. (N + 1) /\ Root \in Clusters /\ Clusters \subseteq Nat
  /\ EOC \notin Clusters /\ FREE \notin Clusters /\ EOC # FREE
  /\ IsFiniteSet(Clusters) /\ Cardinality(Clusters) = N
<1>1. N \in Nat /\ N > 0 /\ B \in Nat /\ B > 0 /\ DirCap \in Nat /\ DirCap > 0
  BY ImageAssumption
<1>2. IsFiniteSet(2 .. (N + 1)) /\ Cardinality(2 .. (N + 1)) = N
  BY <1>1, FS_Interval
<1> QED BY <1>1, <1>2 DEF Clusters, Root, EOC, FREE

-----------------------------------------------------------------------------
(* The table, and the walk along a chain.                                   *)
Table == [Clusters -> Clusters \cup {FREE, EOC}]

(* One link more.                                                           *)
After(fat, c) == IF c = EOC THEN EOC ELSE GetNext(fat, c)

(* g is the walk of k links from start.                                     *)
Walk(g, fat, start, k) == g = [j \in 0 .. k |-> IF j = 0 THEN start ELSE After(fat, g[j - 1])]

(* There is a walk of any number of links.                                  *)
LEMMA WalkExists ==
  ASSUME NEW fat, NEW start, NEW k \in Nat
  PROVE  \E g : Walk(g, fat, start, k)
<1> DEFINE S == {n \in Nat : \E g : Walk(g, fat, start, n)}
<1>1. 0 \in S
  <2> DEFINE g == [j \in 0 .. 0 |-> start]
  <2>1. Walk(g, fat, start, 0)
    BY DEF Walk
  <2> HIDE DEF g
  <2> QED BY <2>1
<1>2. ASSUME NEW n \in Nat, n \in S PROVE n + 1 \in S
  <2>1. PICK g : Walk(g, fat, start, n)
    BY <1>2
  <2> DEFINE h == [j \in 0 .. (n + 1) |-> IF j = n + 1 THEN After(fat, g[n]) ELSE g[j]]
             e == [j \in 0 .. (n + 1) |-> IF j = 0 THEN start ELSE After(fat, h[j - 1])]
  <2>2. ASSUME NEW j \in 0 .. (n + 1) PROVE h[j] = e[j]
    <3>1. CASE j = 0
      BY <2>1, <3>1 DEF Walk
    <3>2. CASE j = n + 1
      <4>1. j # 0 /\ j - 1 = n /\ n \in 0 .. (n + 1) /\ n # n + 1
        BY <3>2
      <4> QED BY <3>2, <4>1
    <3>3. CASE j # 0 /\ j # n + 1
      <4>1. j \in 0 .. n /\ j - 1 \in 0 .. (n + 1) /\ j - 1 # n + 1
        BY <3>3
      <4>2. g[j] = After(fat, g[j - 1])
        BY <2>1, <3>3, <4>1 DEF Walk
      <4> QED BY <3>3, <4>1, <4>2
    <3> QED BY <3>1, <3>2, <3>3
  <2>3. h = e
    <3> HIDE DEF h
    <3>1. DOMAIN h = 0 .. (n + 1) /\ h = [j \in DOMAIN h |-> h[j]]
      BY DEF h
    <3> QED BY <2>2, <3>1
  <2> HIDE DEF h
  <2>4. Walk(h, fat, start, n + 1)
    BY <2>3 DEF Walk
  <2> QED BY <2>4
<1> HIDE DEF S
<1>3. k \in S
  BY <1>1, <1>2, Induction
<1> QED BY <1>3 DEF S

(* Two walks agree as far as both go.                                       *)
LEMMA WalkUnique ==
  ASSUME NEW fat, NEW start, NEW k \in Nat, NEW l \in Nat, NEW g, NEW h,
         Walk(g, fat, start, k), Walk(h, fat, start, l)
  PROVE  \A j \in Nat : j <= k /\ j <= l => g[j] = h[j]
<1> DEFINE S == {j \in Nat : j <= k /\ j <= l => g[j] = h[j]}
<1>1. 0 \in S
  BY DEF Walk
<1>2. ASSUME NEW j \in Nat, j \in S PROVE j + 1 \in S
  <2> SUFFICES ASSUME j + 1 <= k, j + 1 <= l PROVE g[j + 1] = h[j + 1]
    OBVIOUS
  <2>1. g[j] = h[j] /\ j + 1 \in 0 .. k /\ j + 1 \in 0 .. l /\ j + 1 # 0 /\ (j + 1) - 1 = j
    BY <1>2
  <2>2. g[j + 1] = After(fat, g[j]) /\ h[j + 1] = After(fat, h[j])
    BY <2>1 DEF Walk
  <2> QED BY <2>1, <2>2
<1> HIDE DEF S
<1>3. \A j \in Nat : j \in S
  BY <1>1, <1>2, Induction
<1> QED BY <1>3 DEF S

(* SeekCluster is the end of the walk.                                      *)
LEMMA SeekIs ==
  ASSUME NEW fat, NEW start, NEW k \in Nat, NEW g, Walk(g, fat, start, k)
  PROVE  SeekCluster(fat, start, k) = g[k]
<1> DEFINE at == CHOOSE h : Walk(h, fat, start, k)
<1>1. SeekCluster(fat, start, k) = at[k]
  BY DEF SeekCluster, Walk, After
<1>2. Walk(at, fat, start, k)
  OBVIOUS
<1> HIDE DEF at
<1> QED BY <1>1, <1>2, WalkUnique

(* fat_table_seek_cluster, one link at a time.                              *)
LEMMA SeekSteps ==
  ASSUME NEW fat, NEW start
  PROVE  /\ SeekCluster(fat, start, 0) = start
         /\ \A k \in Nat : SeekCluster(fat, start, k + 1) = After(fat, SeekCluster(fat, start, k))
<1>1. SeekCluster(fat, start, 0) = start
  <2>1. PICK g : Walk(g, fat, start, 0)
    BY WalkExists
  <2>2. g[0] = start
    BY <2>1 DEF Walk
  <2> QED BY <2>1, <2>2, SeekIs
<1>2. ASSUME NEW k \in Nat PROVE SeekCluster(fat, start, k + 1) = After(fat, SeekCluster(fat, start, k))
  <2>1. PICK g : Walk(g, fat, start, k + 1)
    BY WalkExists
  <2>2. PICK h : Walk(h, fat, start, k)
    BY WalkExists
  <2>3. g[k] = h[k]
    BY <2>1, <2>2, WalkUnique
  <2>4. g[k + 1] = After(fat, g[k])
    <3>1. k + 1 \in 0 .. (k + 1) /\ k + 1 # 0 /\ (k + 1) - 1 = k
      OBVIOUS
    <3> QED BY <2>1, <3>1 DEF Walk
  <2> QED BY <2>1, <2>2, <2>3, <2>4, SeekIs
<1> QED BY <1>1, <1>2

-----------------------------------------------------------------------------
(* A walk stays in the table until it ends, and then it has ended.          *)
LEMMA SeekIn ==
  ASSUME NEW fat \in Table, NEW s \in Clusters \cup {EOC}
  PROVE  /\ \A k \in Nat : SeekCluster(fat, s, k) \in Clusters \cup {EOC}
         /\ \A k, l \in Nat : SeekCluster(fat, s, k) = EOC /\ k <= l => SeekCluster(fat, s, l) = EOC
<1>1. \A k \in Nat : SeekCluster(fat, s, k) \in Clusters \cup {EOC}
  <2> DEFINE S == {k \in Nat : SeekCluster(fat, s, k) \in Clusters \cup {EOC}}
  <2>1. 0 \in S
    BY SeekSteps
  <2>2. ASSUME NEW k \in Nat, k \in S PROVE k + 1 \in S
    BY SeekSteps DEF After, GetNext
  <2> HIDE DEF S
  <2>3. \A k \in Nat : k \in S
    BY <2>1, <2>2, Induction
  <2> QED BY <2>3 DEF S
<1>2. ASSUME NEW k \in Nat, SeekCluster(fat, s, k) = EOC
      PROVE  \A l \in Nat : k <= l => SeekCluster(fat, s, l) = EOC
  <2> DEFINE S == {d \in Nat : SeekCluster(fat, s, k + d) = EOC}
  <2>1. 0 \in S
    <3>1. k + 0 = k
      OBVIOUS
    <3> QED BY <1>2, <3>1
  <2>2. ASSUME NEW d \in Nat, d \in S PROVE d + 1 \in S
    <3>1. k + d \in Nat /\ (k + d) + 1 = k + (d + 1)
      OBVIOUS
    <3>2. SeekCluster(fat, s, (k + d) + 1) = After(fat, SeekCluster(fat, s, k + d))
      BY <3>1, SeekSteps
    <3>3. SeekCluster(fat, s, k + d) = EOC
      BY <2>2
    <3>4. SeekCluster(fat, s, (k + d) + 1) = EOC
      BY <3>2, <3>3 DEF After
    <3>5. SeekCluster(fat, s, k + (d + 1)) = EOC
      BY <3>1, <3>4
    <3> QED BY <3>5
  <2> HIDE DEF S
  <2>3. \A d \in Nat : d \in S
    BY <2>1, <2>2, Induction
  <2>4. ASSUME NEW l \in Nat, k <= l PROVE SeekCluster(fat, s, l) = EOC
    <3>1. l - k \in Nat /\ k + (l - k) = l
      BY <2>4
    <3>2. SeekCluster(fat, s, k + (l - k)) = EOC
      BY <2>3, <3>1 DEF S
    <3> QED BY <3>1, <3>2
  <2> QED BY <2>4
<1> QED BY <1>1, <1>2

(* A walk of k + l links is one of k and then one of l.                     *)
LEMMA SeekSum ==
  ASSUME NEW fat, NEW s, NEW k \in Nat
  PROVE  \A l \in Nat : SeekCluster(fat, s, k + l) = SeekCluster(fat, SeekCluster(fat, s, k), l)
<1> DEFINE S == {l \in Nat : SeekCluster(fat, s, k + l) = SeekCluster(fat, SeekCluster(fat, s, k), l)}
<1>1. 0 \in S
  <2>1. k + 0 = k
    OBVIOUS
  <2>2. SeekCluster(fat, SeekCluster(fat, s, k), 0) = SeekCluster(fat, s, k)
    BY SeekSteps
  <2>3. SeekCluster(fat, s, k + 0) = SeekCluster(fat, SeekCluster(fat, s, k), 0)
    BY <2>1, <2>2
  <2> QED BY <2>3
<1>2. ASSUME NEW l \in Nat, l \in S PROVE l + 1 \in S
  <2>1. k + l \in Nat /\ (k + l) + 1 = k + (l + 1)
    OBVIOUS
  <2>2. SeekCluster(fat, s, (k + l) + 1) = After(fat, SeekCluster(fat, s, k + l))
    BY <2>1, SeekSteps
  <2>3. SeekCluster(fat, SeekCluster(fat, s, k), l + 1) = After(fat, SeekCluster(fat, SeekCluster(fat, s, k), l))
    BY SeekSteps
  <2>4. SeekCluster(fat, s, k + (l + 1)) = SeekCluster(fat, SeekCluster(fat, s, k), l + 1)
    BY <1>2, <2>1, <2>2, <2>3
  <2> QED BY <2>4
<1> HIDE DEF S
<1>3. \A l \in Nat : l \in S
  BY <1>1, <1>2, Induction
<1> QED BY <1>3 DEF S

(* A walk that ends visits no cluster twice.                                *)
LEMMA SeekInjective ==
  ASSUME NEW fat \in Table, NEW s \in Clusters, NEW m \in Nat, SeekCluster(fat, s, m) = EOC,
         \A k \in 0 .. (m - 1) : SeekCluster(fat, s, k) # EOC
  PROVE  \A i, j \in 0 .. (m - 1) : i # j => SeekCluster(fat, s, i) # SeekCluster(fat, s, j)
<1>1. ASSUME NEW i \in 0 .. (m - 1), NEW j \in 0 .. (m - 1), i < j,
             SeekCluster(fat, s, i) = SeekCluster(fat, s, j)
      PROVE  FALSE
  <2>1. i \in Nat /\ j \in Nat /\ m - j \in Nat /\ i + (m - j) \in 0 .. (m - 1) /\ j + (m - j) = m
    BY <1>1
  <2>2. SeekCluster(fat, s, i + (m - j)) = SeekCluster(fat, SeekCluster(fat, s, i), m - j)
    BY <2>1, SeekSum
  <2>3. SeekCluster(fat, s, j + (m - j)) = SeekCluster(fat, SeekCluster(fat, s, j), m - j)
    BY <2>1, SeekSum
  <2>4. SeekCluster(fat, s, i + (m - j)) = EOC
    BY <1>1, <2>1, <2>2, <2>3
  <2> QED BY <2>1, <2>4
<1>2. ASSUME NEW i \in 0 .. (m - 1), NEW j \in 0 .. (m - 1), i # j
      PROVE  SeekCluster(fat, s, i) # SeekCluster(fat, s, j)
  <2>1. i < j \/ j < i
    BY <1>2
  <2> QED BY <1>1, <2>1
<1> QED BY <1>2

(* The chain of s ends.                                                     *)
Ends(fat, s) == \E k \in 0 .. N : SeekCluster(fat, s, k) = EOC

Length(fat, s) == Cardinality(Chain(fat, s))

(* A chain that ends has Length(fat, s) clusters, one for each number of    *)
(* links below that, and no more.                                           *)
LEMMA ChainIs ==
  ASSUME NEW fat \in Table, NEW s \in Clusters, Ends(fat, s)
  PROVE  /\ Length(fat, s) \in 1 .. N
         /\ \A k \in 0 .. (Length(fat, s) - 1) : SeekCluster(fat, s, k) \in Clusters
         /\ \A k \in Nat : k >= Length(fat, s) => SeekCluster(fat, s, k) = EOC
         /\ \A i, j \in 0 .. (Length(fat, s) - 1) : i # j => SeekCluster(fat, s, i) # SeekCluster(fat, s, j)
         /\ Chain(fat, s) = {SeekCluster(fat, s, k) : k \in 0 .. (Length(fat, s) - 1)}
         /\ Chain(fat, s) \subseteq Clusters
<1> DEFINE S == {k \in Nat : SeekCluster(fat, s, k) = EOC}
<1>1. PICK m \in S : \A k \in S : m <= k
  <2>1. S \in SUBSET Nat /\ S # {}
    BY Sizes DEF Ends
  <2> HIDE DEF S
  <2> QED BY <2>1, Least
<1>2. m \in Nat /\ SeekCluster(fat, s, m) = EOC /\ m <= N
  BY <1>1, Sizes DEF Ends
<1>3. m # 0
  <2>1. SeekCluster(fat, s, 0) = s /\ s # EOC
    BY SeekSteps, Sizes
  <2> QED BY <1>2, <2>1
<1>4. ASSUME NEW k \in 0 .. (m - 1) PROVE SeekCluster(fat, s, k) \in Clusters
  <2>1. k \in Nat /\ k \notin S
    BY <1>1, <1>2
  <2> QED BY <2>1, SeekIn
<1>5. \A i, j \in 0 .. (m - 1) : i # j => SeekCluster(fat, s, i) # SeekCluster(fat, s, j)
  BY <1>2, <1>4, SeekInjective, Sizes
<1>6. \A k \in Nat : k >= m => SeekCluster(fat, s, k) = EOC
  BY <1>2, SeekIn
<1>7. Chain(fat, s) = {SeekCluster(fat, s, k) : k \in 0 .. (m - 1)}
  <2>1. ASSUME NEW k \in 0 .. N, SeekCluster(fat, s, k) # EOC PROVE k \in 0 .. (m - 1)
    BY <1>2, <1>6, <2>1, Sizes
  <2>2. ASSUME NEW k \in 0 .. (m - 1) PROVE k \in 0 .. N /\ SeekCluster(fat, s, k) # EOC
    BY <1>2, <1>4, Sizes
  <2> QED BY <2>1, <2>2 DEF Chain
<1>8. Length(fat, s) = m
  <2> DEFINE f == [k \in 0 .. (m - 1) |-> SeekCluster(fat, s, k)]
  <2>1. f \in Bijection(0 .. (m - 1), Chain(fat, s))
    <3>1. f \in [0 .. (m - 1) -> Chain(fat, s)]
      BY <1>7
    <3>2. \A i, j \in 0 .. (m - 1) : f[i] = f[j] => i = j
      BY <1>5
    <3>3. \A c \in Chain(fat, s) : \E k \in 0 .. (m - 1) : f[k] = c
      BY <1>7
    <3> HIDE DEF f
    <3> QED BY <3>1, <3>2, <3>3 DEF Bijection, Injection, Surjection, IsInjective
  <2>2. IsFiniteSet(0 .. (m - 1)) /\ Cardinality(0 .. (m - 1)) = m
    BY <1>2, FS_Interval
  <2>3. ExistsBijection(0 .. (m - 1), Chain(fat, s))
    <3> HIDE DEF f
    <3> QED BY <2>1 DEF ExistsBijection
  <2> QED BY <2>2, <2>3, FS_Bijection DEF Length
<1>9. Chain(fat, s) \subseteq Clusters
  BY <1>4, <1>7
<1> HIDE DEF S
<1> QED BY <1>2, <1>3, <1>4, <1>5, <1>6, <1>7, <1>8, <1>9, Sizes

(* A table that has the same links for the clusters of a chain has the same *)
(* chain.                                                                   *)
LEMMA SameChain ==
  ASSUME NEW fat \in Table, NEW s \in Clusters, Ends(fat, s), NEW new, \A c \in Chain(fat, s) : new[c] = fat[c]
  PROVE  /\ \A k \in Nat : SeekCluster(new, s, k) = SeekCluster(fat, s, k)
         /\ Ends(new, s) /\ Chain(new, s) = Chain(fat, s)
<1> DEFINE S == {k \in Nat : SeekCluster(new, s, k) = SeekCluster(fat, s, k)}
<1>1. 0 \in S
  BY SeekSteps
<1>2. ASSUME NEW k \in Nat, k \in S PROVE k + 1 \in S
  <2>1. /\ SeekCluster(new, s, k + 1) = After(new, SeekCluster(new, s, k))
        /\ SeekCluster(fat, s, k + 1) = After(fat, SeekCluster(fat, s, k))
        /\ SeekCluster(new, s, k) = SeekCluster(fat, s, k)
    BY <1>2, SeekSteps
  <2>2. CASE SeekCluster(fat, s, k) = EOC
    BY <2>1, <2>2 DEF After
  <2>3. CASE SeekCluster(fat, s, k) # EOC
    <3>1. k \in 0 .. (Length(fat, s) - 1)
      BY <2>3, ChainIs
    <3>2. SeekCluster(fat, s, k) \in Chain(fat, s)
      BY <3>1, ChainIs
    <3> QED BY <2>1, <3>2 DEF After, GetNext
  <2> QED BY <2>2, <2>3
<1> HIDE DEF S
<1>3. \A k \in Nat : k \in S
  BY <1>1, <1>2, Induction
<1>4. \A k \in Nat : SeekCluster(new, s, k) = SeekCluster(fat, s, k)
  BY <1>3 DEF S
<1>5. Ends(new, s)
  BY <1>4, Sizes DEF Ends
<1>6. Chain(new, s) = Chain(fat, s)
  BY <1>4, Sizes DEF Chain
<1> QED BY <1>4, <1>5, <1>6

-----------------------------------------------------------------------------
(* Units and clusters: the cluster and the place in it of a unit.           *)
LEMMA Division ==
  ASSUME NEW k \in Nat
  PROVE  /\ k \div B \in Nat /\ k % B \in 0 .. (B - 1)
         /\ k = B * (k \div B) + (k % B)
<1>1. B \in Nat /\ B > 0
  BY Sizes
<1> QED BY <1>1

(* What is below m clusters is in one of the first m.                       *)
LEMMA DivisionBelow ==
  ASSUME NEW k \in Nat, NEW m \in Nat
  PROVE  /\ k < B * m => k \div B < m
         /\ k <= B * m => k \div B <= m
         /\ k < B * ((k \div B) + 1)
<1> DEFINE q == k \div B
           r == k % B
<1>1. q \in Nat /\ r \in 0 .. (B - 1) /\ k = B * q + r /\ B \in Nat /\ B > 0
  BY Division, Sizes
<1> HIDE DEF q, r
<1>2. ASSUME m < q PROVE B * m + B <= B * q
  <2>1. PICK d \in Nat : q = m + 1 + d
    <3>1. q - m - 1 \in Nat /\ q = m + 1 + (q - m - 1)
      BY <1>1, <1>2
    <3> QED BY <3>1
  <2>2. B * q = B * m + B + B * d /\ B * d \in Nat /\ B * m \in Nat
    BY <1>1, <2>1
  <2> QED BY <1>1, <2>2
<1>3. B * m \in Nat /\ B * q \in Nat
  BY <1>1
<1>4. k < B * m => q < m
  <2> SUFFICES ASSUME k < B * m, ~(q < m) PROVE FALSE
    OBVIOUS
  <2>1. CASE q = m
    BY <1>1, <1>3, <2>1
  <2>2. CASE m < q
    BY <1>1, <1>2, <1>3, <2>2
  <2> QED BY <1>1, <2>1, <2>2
<1>5. k <= B * m => q <= m
  BY <1>1, <1>2, <1>3
<1>6. k < B * (q + 1)
  <2>1. B * (q + 1) = B * q + B
    BY <1>1
  <2> QED BY <1>1, <1>3, <2>1
<1> QED BY <1>4, <1>5, <1>6 DEF q

-----------------------------------------------------------------------------
Tree == [Names \cup {TopDir} -> FileType \cup {NoFile}]

(* A file in memory is none of the records that stand for no file, and the  *)
(* end of a directory is no entry.                                          *)
LEMMA Records ==
  /\ NoFile \notin FileType
  /\ End \notin Entries
<1>1. ASSUME NoFile \in FileType PROVE FALSE
  <2>1. "start" \in DOMAIN NoFile
    BY <1>1 DEF FileType
  <2>2. DOMAIN NoFile = {"none"}
    BY DEF NoFile
  <2> QED BY <2>1, <2>2
<1>2. ASSUME End \in Entries PROVE FALSE
  <2>1. "name" \in DOMAIN End
    BY <1>2 DEF Entries
  <2>2. DOMAIN End = {"end"}
    BY DEF End
  <2> QED BY <2>1, <2>2
<1> QED BY <1>1, <1>2

(* The parts of a volume.                                                   *)
LEMMA Parts ==
  ASSUME NEW v \in VolType
  PROVE  /\ v.fat \in Table /\ v.tree \in Tree
         /\ \A f \in Names \cup {TopDir} : v.tree[f] # NoFile => v.tree[f] \in FileType
         /\ \A f \in Names \cup {TopDir} : v.tree[f] # NoFile =>
              v.tree[f].start \in Clusters /\ v.tree[f].size \in Nat
  BY DEF VolType, Table, Tree, FileType

(* write_dir_entry changes nothing but the entry, or follows a freed node.  *)
LEMMA WriteEntryIs ==
  ASSUME NEW v \in VolType, NEW f \in Names, v.tree[f] # NoFile
  PROVE  /\ WriteEntry(v, f) \in VolType
         /\ WriteEntry(v, f).fat = v.fat /\ WriteEntry(v, f).tree = v.tree
         /\ WriteEntry(v, f).data = v.data /\ WriteEntry(v, f).errno = v.errno
<1>1. CASE ~v.tree[f].up
  BY <1>1 DEF WriteEntry, VolType
<1>2. CASE v.tree[f].up
  <2> DEFINE c == v.tree[Parent[f]].start
             i == v.tree[f].pos
             e == Entry(v, f)
             new == [v.ents EXCEPT ![c][i] = e]
  <2>1. e \in Entries
    <3>1. v.tree[f] \in FileType
      BY Parts
    <3> QED BY <3>1 DEF Entry, Entries, FileType
  <2>2. v.ents \in [Clusters -> [0 .. (DirCap - 1) -> Entries \cup {End, Junk}]]
    BY DEF VolType
  <2> HIDE DEF c, i, e
  <2>3. new \in [Clusters -> [0 .. (DirCap - 1) -> Entries \cup {End, Junk}]]
    BY <2>1, <2>2
  <2>4. WriteEntry(v, f) = [v EXCEPT !.ents = new]
    BY <1>2 DEF WriteEntry, c, i, e
  <2> HIDE DEF new
  <2> QED BY <2>3, <2>4 DEF VolType
<1> QED BY <1>1, <1>2

(* The same files, each with the same cluster and size.                     *)
SameTree(v, w) ==
  \A g \in Names \cup {TopDir} :
    /\ w.tree[g] # NoFile <=> v.tree[g] # NoFile
    /\ v.tree[g] # NoFile =>
         /\ w.tree[g].start = v.tree[g].start /\ w.tree[g].size = v.tree[g].size
         /\ w.tree[g].read = v.tree[g].read

(* Directories are in the root, and none is in itself.                      *)
LEMMA Paths ==
  /\ \A f \in Names : Parent[f] \in Names \cup {TopDir} /\ Parent[f] # f /\ f # TopDir
  /\ \A f \in Dirs : f \in Names /\ Parent[f] = TopDir
  /\ Log \in Names /\ Log \notin Dirs /\ Parent[Log] = TopDir /\ LogVal \in Vals /\ Old \in Vals
  BY ImageAssumption

(* A file's part of the tree can be changed to any other of its type.       *)
LEMMA TreeUpdate ==
  ASSUME NEW v \in VolType, NEW f \in Names \cup {TopDir}, NEW e \in FileType \cup {NoFile}
  PROVE  /\ [v EXCEPT !.tree[f] = e] \in VolType
         /\ [v EXCEPT !.tree[f] = e].fat = v.fat /\ [v EXCEPT !.tree[f] = e].data = v.data
         /\ [v EXCEPT !.tree[f] = e].errno = v.errno /\ [v EXCEPT !.tree[f] = e].alive = v.alive
         /\ [v EXCEPT !.tree[f] = e].tree[f] = e
         /\ \A g \in Names \cup {TopDir} : g # f => [v EXCEPT !.tree[f] = e].tree[g] = v.tree[g]
<1>1. [v.tree EXCEPT ![f] = e] \in Tree
  BY Parts DEF Tree
<1>2. v.tree \in Tree
  BY Parts
<1> QED BY <1>1, <1>2 DEF VolType, Tree

(* fat_file_dentry_add_child changes the entries of the directory and how   *)
(* many it has, never the clusters or the size of a file.                   *)
LEMMA AddChildIs ==
  ASSUME NEW v \in VolType, NEW f \in Names, v.tree[f] # NoFile, v.tree[Parent[f]] # NoFile
  PROVE  /\ AddChild(v, f) \in VolType
         /\ AddChild(v, f).fat = v.fat /\ AddChild(v, f).data = v.data
         /\ SameTree(v, AddChild(v, f))
<1> DEFINE p == Parent[f]
           n == v.tree[p].nentries
           a == [v.tree[f] EXCEPT !.pos = n]
           b == [v.tree[p] EXCEPT !.nentries = n + 1]
           u == [v EXCEPT !.tree[f] = a]
           w == [u EXCEPT !.tree[p] = b]
<1>1. p \in Names \cup {TopDir} /\ p # f /\ f \in Names \cup {TopDir}
  BY Paths
<1>2. v.tree[f] \in FileType /\ v.tree[p] \in FileType
  BY <1>1, Parts
<1>3. n \in Nat /\ a \in FileType /\ b \in FileType
  BY <1>2 DEF FileType
<1>4. /\ a.start = v.tree[f].start /\ a.size = v.tree[f].size /\ a.read = v.tree[f].read
      /\ b.start = v.tree[p].start /\ b.size = v.tree[p].size /\ b.read = v.tree[p].read
  BY <1>2 DEF FileType
<1>5. CASE n >= DirCap
  <2>1. AddChild(v, f) = [v EXCEPT !.errno = "ENOSPC"]
    BY <1>5 DEF AddChild
  <2> QED BY <2>1 DEF VolType, SameTree
<1>6. CASE ~(n >= DirCap)
  <2>1. AddChild(v, f) = WriteEntry(w, f)
    <3>1. u.tree[p].nentries = n
      BY <1>1, <1>3, TreeUpdate
    <3>2. [v EXCEPT !.tree[f].pos = n, !.tree[p].nentries = @ + 1] = w
      BY <1>1, <3>1
    <3> QED BY <1>6, <3>2 DEF AddChild
  <2> HIDE DEF a, b
  <2>2. /\ u \in VolType /\ u.fat = v.fat /\ u.data = v.data /\ u.tree[f] = a
        /\ \A g \in Names \cup {TopDir} : g # f => u.tree[g] = v.tree[g]
    BY <1>1, <1>3, TreeUpdate
  <2> HIDE DEF u
  <2>3. /\ w \in VolType /\ w.fat = u.fat /\ w.data = u.data /\ w.tree[p] = b
        /\ \A g \in Names \cup {TopDir} : g # p => w.tree[g] = u.tree[g]
    BY <1>1, <1>3, <2>2, TreeUpdate
  <2> HIDE DEF w
  <2>4. SameTree(v, w)
    BY <1>1, <1>2, <1>3, <1>4, <2>2, <2>3, Records DEF SameTree
  <2>5. w.tree[f] # NoFile
    BY <1>1, <1>3, <2>2, <2>3, Records
  <2>6. /\ WriteEntry(w, f) \in VolType /\ WriteEntry(w, f).fat = w.fat
        /\ WriteEntry(w, f).data = w.data /\ WriteEntry(w, f).tree = w.tree
    BY <2>3, <2>5, WriteEntryIs
  <2>7. SameTree(v, WriteEntry(w, f))
    BY <2>4, <2>6 DEF SameTree
  <2> QED BY <2>1, <2>2, <2>3, <2>6, <2>7
<1> QED BY <1>5, <1>6

-----------------------------------------------------------------------------
(* What Sound says of a file in memory.                                     *)
LEMMA FileIs ==
  ASSUME NEW v \in VolType, Sound(v), NEW g \in Names, v.tree[g] # NoFile
  PROVE  /\ v.tree[g].start \in Clusters /\ v.tree[g].size \in Nat
         /\ Ends(v.fat, v.tree[g].start)
         /\ \A c \in Chain(v.fat, v.tree[g].start) : c # Root /\ v.fat[c] # FREE
         /\ v.tree[g].size <= B * Length(v.fat, v.tree[g].start)
         /\ v.fat \in Table
  BY Parts DEF Sound, ChainOK, Ends, Length

(* A file is kept: it has its first cluster, its size and its chain.        *)
Kept(v, w, g) ==
  v.tree[g] # NoFile =>
    /\ w.tree[g] # NoFile
    /\ w.tree[g].start = v.tree[g].start /\ w.tree[g].size = v.tree[g].size
    /\ \A k \in Nat : SeekCluster(w.fat, v.tree[g].start, k) = SeekCluster(v.fat, v.tree[g].start, k)

KeptTop(v, w) ==
  v.tree[TopDir] # NoFile => w.tree[TopDir] # NoFile /\ w.tree[TopDir].read = v.tree[TopDir].read

(* A table with the same links for the clusters of a file keeps its chain   *)
(* sound.                                                                   *)
LEMMA ChainKept ==
  ASSUME NEW v \in VolType, Sound(v), NEW g \in Names, v.tree[g] # NoFile, NEW fat \in Table,
         \A c \in Chain(v.fat, v.tree[g].start) : fat[c] = v.fat[c]
  PROVE  /\ ChainOK(fat, v.tree[g].start, v.tree[g].size)
         /\ Chain(fat, v.tree[g].start) = Chain(v.fat, v.tree[g].start)
         /\ \A k \in Nat : SeekCluster(fat, v.tree[g].start, k) = SeekCluster(v.fat, v.tree[g].start, k)
<1> DEFINE s == v.tree[g].start
<1>1. /\ s \in Clusters /\ Ends(v.fat, s) /\ v.fat \in Table
      /\ \A c \in Chain(v.fat, s) : c # Root /\ v.fat[c] # FREE
      /\ v.tree[g].size <= B * Length(v.fat, s)
  BY FileIs
<1>2. \A c \in Chain(v.fat, s) : fat[c] = v.fat[c]
  OBVIOUS
<1> HIDE DEF s
<1>3. /\ \A k \in Nat : SeekCluster(fat, s, k) = SeekCluster(v.fat, s, k)
      /\ Ends(fat, s) /\ Chain(fat, s) = Chain(v.fat, s)
  BY <1>1, <1>2, SameChain
<1>4. ChainOK(fat, s, v.tree[g].size)
  BY <1>1, <1>2, <1>3 DEF ChainOK, Ends, Length
<1> QED BY <1>3, <1>4 DEF s

(* The same table, files and chains, with no file bigger than its chain, is *)
(* as sound.                                                                *)
LEMMA SameTableSound ==
  ASSUME NEW v \in VolType, Sound(v), NEW w \in VolType, w.fat = v.fat,
         \A g \in Names : w.tree[g] # NoFile =>
           /\ v.tree[g] # NoFile /\ w.tree[g].start = v.tree[g].start
           /\ w.tree[g].size <= B * Length(v.fat, v.tree[g].start)
  PROVE  Sound(w)
  BY DEF Sound, ChainOK, Length

(* So is the same table with the same files.                                *)
LEMMA SameTreeSound ==
  ASSUME NEW v \in VolType, Sound(v), NEW w \in VolType, w.fat = v.fat, SameTree(v, w)
  PROVE  /\ Sound(w) /\ KeptTop(v, w)
         /\ \A g \in Names : Kept(v, w, g)
<1>1. ASSUME NEW g \in Names, w.tree[g] # NoFile
      PROVE  /\ v.tree[g] # NoFile /\ w.tree[g].start = v.tree[g].start
             /\ w.tree[g].size <= B * Length(v.fat, v.tree[g].start)
  BY <1>1, FileIs DEF SameTree
<1>2. Sound(w)
  BY <1>1, SameTableSound
<1>3. KeptTop(v, w) /\ \A g \in Names : Kept(v, w, g)
  BY DEF SameTree, KeptTop, Kept
<1> QED BY <1>2, <1>3

(* fat_table_get_next_free_cluster finds a free cluster if there is one.    *)
LEMMA NextFreeIs ==
  ASSUME NEW fat \in Table, FreeClusters(fat) # {}
  PROVE  NextFree(fat) \in Clusters /\ fat[NextFree(fat)] = FREE
<1>1. FreeClusters(fat) \in SUBSET Nat
  BY Sizes DEF FreeClusters
<1>2. \E c \in FreeClusters(fat) : \A d \in FreeClusters(fat) : c <= d
  BY <1>1, Least
<1>3. NextFree(fat) \in FreeClusters(fat)
  BY <1>2 DEF NextFree
<1> QED BY <1>3 DEF FreeClusters

(* A cluster that ends its chain is a chain of its own.                     *)
LEMMA OneCluster ==
  ASSUME NEW fat \in Table, NEW c \in Clusters, fat[c] = EOC
  PROVE  Ends(fat, c) /\ Chain(fat, c) = {c} /\ Length(fat, c) = 1
<1>1. SeekCluster(fat, c, 0) = c /\ SeekCluster(fat, c, 1) = EOC
  <2>1. SeekCluster(fat, c, 0) = c /\ SeekCluster(fat, c, 0 + 1) = After(fat, SeekCluster(fat, c, 0))
    BY SeekSteps
  <2>2. After(fat, c) = EOC
    BY Sizes DEF After, GetNext
  <2> QED BY <2>1, <2>2
<1>2. Ends(fat, c)
  BY <1>1, Sizes DEF Ends
<1>3. Length(fat, c) \in 1 .. N /\ \A k \in 0 .. (Length(fat, c) - 1) : SeekCluster(fat, c, k) \in Clusters
  BY <1>2, ChainIs
<1>4. Length(fat, c) = 1
  <2> SUFFICES ASSUME Length(fat, c) # 1 PROVE FALSE
    OBVIOUS
  <2>1. 1 \in 0 .. (Length(fat, c) - 1)
    BY <1>3, Sizes
  <2> QED BY <1>1, <1>3, <2>1, Sizes
<1>5. Chain(fat, c) = {SeekCluster(fat, c, k) : k \in 0 .. (Length(fat, c) - 1)}
  BY <1>2, ChainIs
<1>6. 0 .. (1 - 1) = {0}
  OBVIOUS
<1> QED BY <1>1, <1>2, <1>4, <1>5, <1>6

(* fat_file_init and fat_tree_insert: the new file's cluster was free, so it*)
(* is in no other chain; no cluster of another file changes.                *)
LEMMA MknodInIs ==
  ASSUME NEW v \in VolType, Sound(v), NEW f \in Names, v.tree[f] = NoFile, v.tree[Parent[f]] # NoFile
  PROVE  /\ MknodIn(v, f) \in VolType /\ Sound(MknodIn(v, f))
         /\ MknodIn(v, f).data = v.data
         /\ KeptTop(v, MknodIn(v, f))
         /\ \A g \in Names : Kept(v, MknodIn(v, f), g)
         /\ MknodIn(v, f).alive => MknodIn(v, f).tree[f] # NoFile
<1> DEFINE c == NextFree(v.fat)
           e == NewFile(c)
           fat == [v.fat EXCEPT ![c] = EOC]
           u == [v EXCEPT !.errno = "0", !.fat[c] = EOC]
           w == [u EXCEPT !.tree[f] = e]
<1>1. CASE FreeClusters(v.fat) = {}
  <2>1. MknodIn(v, f) = [v EXCEPT !.alive = FALSE]
    BY <1>1 DEF MknodIn
  <2>2. MknodIn(v, f) \in VolType /\ SameTree(v, MknodIn(v, f)) /\ MknodIn(v, f).fat = v.fat
    BY <2>1 DEF VolType, SameTree
  <2>3. MknodIn(v, f).data = v.data /\ MknodIn(v, f).alive = FALSE
    BY <2>1 DEF VolType
  <2> QED BY <2>2, <2>3, SameTreeSound
<1>2. CASE FreeClusters(v.fat) # {}
  <2>1. c \in Clusters /\ v.fat[c] = FREE /\ v.fat \in Table
    BY <1>2, NextFreeIs, Parts
  <2>2. MknodIn(v, f) = AddChild(w, f)
    BY <1>2 DEF MknodIn
  <2>3. e \in FileType /\ e.start = c /\ e.size = 0
    BY <2>1 DEF NewFile, FileType
  <2> HIDE DEF c, e
  <2>4. fat \in Table /\ fat[c] = EOC /\ \A d \in Clusters : d # c => fat[d] = v.fat[d]
    BY <2>1 DEF Table
  <2>5. u \in VolType /\ u.fat = fat /\ u.tree = v.tree /\ u.data = v.data
    BY <2>4 DEF VolType, Table
  <2> HIDE DEF fat, u
  <2>6. /\ w \in VolType /\ w.fat = fat /\ w.data = v.data /\ w.tree[f] = e
        /\ \A g \in Names \cup {TopDir} : g # f => w.tree[g] = v.tree[g]
    BY <2>3, <2>5, TreeUpdate
  <2> HIDE DEF w
  <2>7. w.tree[f] # NoFile /\ w.tree[f].start = c /\ w.tree[f].size = 0
    BY <2>3, <2>6, Records
  <2>8. ASSUME NEW g \in Names, v.tree[g] # NoFile
        PROVE  /\ g # f /\ w.tree[g] = v.tree[g]
               /\ ChainOK(fat, v.tree[g].start, v.tree[g].size)
               /\ Chain(fat, v.tree[g].start) = Chain(v.fat, v.tree[g].start)
               /\ c \notin Chain(v.fat, v.tree[g].start)
               /\ \A k \in Nat : SeekCluster(fat, v.tree[g].start, k) = SeekCluster(v.fat, v.tree[g].start, k)
    <3>1. \A d \in Chain(v.fat, v.tree[g].start) : v.fat[d] # FREE /\ d \in Clusters
      BY <2>8, FileIs, ChainIs
    <3>2. c \notin Chain(v.fat, v.tree[g].start)
      BY <2>1, <3>1
    <3>3. \A d \in Chain(v.fat, v.tree[g].start) : fat[d] = v.fat[d]
      BY <2>4, <3>1, <3>2
    <3>4. g # f /\ w.tree[g] = v.tree[g]
      BY <2>6, <2>8
    <3> QED BY <2>4, <2>8, <3>2, <3>3, <3>4, ChainKept
  <2>9. ChainOK(fat, c, 0) /\ Chain(fat, c) = {c}
    <3>1. Ends(fat, c) /\ Chain(fat, c) = {c} /\ Length(fat, c) = 1
      BY <2>1, <2>4, OneCluster
    <3>2. c # Root /\ fat[c] # FREE
      BY <2>1, <2>4, Sizes DEF Sound
    <3> QED BY <3>1, <3>2, Sizes DEF ChainOK, Ends, Length
  <2>10. Sound(w)
    <3>1. w.fat[Root] # FREE
      BY <2>4, <2>6, Sizes DEF Sound
    <3>2. ASSUME NEW g \in Names, w.tree[g] # NoFile PROVE ChainOK(w.fat, w.tree[g].start, w.tree[g].size)
      <4>1. CASE g = f
        BY <2>6, <2>7, <2>9, <4>1
      <4>2. CASE g # f
        BY <2>6, <2>8, <3>2, <4>2
      <4> QED BY <4>1, <4>2
    <3>3. ASSUME NEW g \in Names, NEW h \in Names, g # h, w.tree[g] # NoFile, w.tree[h] # NoFile
          PROVE  Chain(w.fat, w.tree[g].start) \cap Chain(w.fat, w.tree[h].start) = {}
      <4>1. CASE g = f
        BY <2>6, <2>7, <2>8, <2>9, <3>3, <4>1
      <4>2. CASE h = f
        BY <2>6, <2>7, <2>8, <2>9, <3>3, <4>2
      <4>3. CASE g # f /\ h # f
        <5>1. v.tree[g] # NoFile /\ v.tree[h] # NoFile
          BY <2>6, <3>3, <4>3
        <5>2. Chain(v.fat, v.tree[g].start) \cap Chain(v.fat, v.tree[h].start) = {}
          BY <3>3, <5>1 DEF Sound
        <5> QED BY <2>6, <2>8, <5>1, <5>2
      <4> QED BY <4>1, <4>2, <4>3
    <3> QED BY <3>1, <3>2, <3>3 DEF Sound
  <2>11. w.tree[Parent[f]] # NoFile
    BY <2>6, Paths
  <2>12. /\ AddChild(w, f) \in VolType /\ AddChild(w, f).fat = w.fat
         /\ AddChild(w, f).data = w.data /\ SameTree(w, AddChild(w, f))
    BY <2>6, <2>7, <2>11, AddChildIs
  <2>13. /\ Sound(AddChild(w, f)) /\ KeptTop(w, AddChild(w, f))
         /\ \A g \in Names : Kept(w, AddChild(w, f), g)
    BY <2>6, <2>10, <2>12, SameTreeSound
  <2>14. KeptTop(v, w) /\ \A g \in Names : Kept(v, w, g)
    BY <2>6, <2>8, Paths DEF KeptTop, Kept
  <2>15. KeptTop(v, AddChild(w, f)) /\ \A g \in Names : Kept(v, AddChild(w, f), g)
    BY <2>13, <2>14 DEF KeptTop, Kept
  <2>16. AddChild(w, f).tree[f] # NoFile
    BY <2>7, <2>12 DEF SameTree
  <2> QED BY <2>2, <2>6, <2>12, <2>13, <2>15, <2>16
<1> QED BY <1>1, <1>2

-----------------------------------------------------------------------------
(* A unit of the volume that a write changes is one of the file's, in the   *)
(* range written.                                                           *)
Touched(v, f, lo, hi, c, i) ==
  \E k \in lo .. hi : c = SeekCluster(v.fat, v.tree[f].start, k \div B) /\ i = k % B

(* A write changes no other unit, and neither the table nor a file's size.  *)
LEMMA StoreIs ==
  ASSUME NEW v \in VolType, NEW f \in Names, NEW off \in Nat, NEW n \in Nat, NEW x \in Vals
  PROVE  /\ Store(v, f, off, n, x) \in VolType
         /\ Store(v, f, off, n, x).fat = v.fat /\ Store(v, f, off, n, x).tree = v.tree
         /\ Store(v, f, off, n, x).errno = v.errno
         /\ \A c \in Clusters : \A i \in 0 .. (B - 1) :
              \/ Store(v, f, off, n, x).data[c][i] = v.data[c][i]
              \/ Touched(v, f, off, off + n - 1, c, i)
<1> DEFINE s == v.tree[f].start
           Place(k) == <<SeekCluster(v.fat, s, k \div B), k % B>>
           places == {Place(k) : k \in off .. (off + n - 1)}
           junk == {place[1] : place \in places}
           data == [c \in Clusters |->
                      [i \in 0 .. (B - 1) |-> IF <<c, i>> \in places THEN x ELSE v.data[c][i]]]
           ents == [c \in Clusters |->
                      IF c \in junk THEN [i \in 0 .. (DirCap - 1) |-> Junk] ELSE v.ents[c]]
<1>1. Store(v, f, off, n, x) = [v EXCEPT !.data = data, !.ents = ents]
  BY DEF Store
<1>2. ASSUME NEW c \in Clusters, NEW i \in 0 .. (B - 1)
      PROVE  data[c][i] = v.data[c][i] \/ Touched(v, f, off, off + n - 1, c, i)
  <2> SUFFICES ASSUME <<c, i>> \in places PROVE Touched(v, f, off, off + n - 1, c, i)
    OBVIOUS
  <2>1. PICK k \in off .. (off + n - 1) : <<c, i>> = Place(k)
    OBVIOUS
  <2> QED BY <2>1 DEF Touched
<1> HIDE DEF places, junk
<1>3. data \in [Clusters -> [0 .. (B - 1) -> Vals]]
  <2>1. v.data \in [Clusters -> [0 .. (B - 1) -> Vals]]
    BY DEF VolType
  <2> QED BY <2>1
<1>4. ents \in [Clusters -> [0 .. (DirCap - 1) -> Entries \cup {End, Junk}]]
  <2>1. v.ents \in [Clusters -> [0 .. (DirCap - 1) -> Entries \cup {End, Junk}]]
    BY DEF VolType
  <2> QED BY <2>1
<1> HIDE DEF data, ents
<1> QED BY <1>1, <1>2, <1>3, <1>4 DEF VolType

(* fat_table_seek_cluster reaches an offset that is not past the size.      *)
LEMMA SeekErrnoIs ==
  ASSUME NEW v \in VolType, Sound(v), NEW f \in Names, v.tree[f] # NoFile,
         NEW off \in Nat, off <= v.tree[f].size
  PROVE  SeekErrno(v, f, off) = v.errno
<1> DEFINE s == v.tree[f].start
           m == off \div B
<1>1. /\ s \in Clusters /\ Ends(v.fat, s) /\ v.fat \in Table
      /\ v.tree[f].size \in Nat /\ v.tree[f].size <= B * Length(v.fat, s)
  BY FileIs
<1> HIDE DEF s
<1>2. /\ Length(v.fat, s) \in 1 .. N
      /\ \A k \in 0 .. (Length(v.fat, s) - 1) : SeekCluster(v.fat, s, k) \in Clusters
  BY <1>1, ChainIs
<1>3. off <= B * Length(v.fat, s) /\ Length(v.fat, s) \in Nat
  <2>1. B * Length(v.fat, s) \in Nat
    BY <1>2, Sizes
  <2> QED BY <1>1, <1>2, <2>1
<1>4. m \in Nat /\ m <= Length(v.fat, s)
  BY <1>3, Division, DivisionBelow
<1>5. ASSUME off >= B PROVE SeekCluster(v.fat, s, m - 1) # EOC
  <2>1. m # 0
    <3> SUFFICES ASSUME m = 0 PROVE FALSE
      OBVIOUS
    <3>1. off < B * (m + 1)
      BY Division, DivisionBelow
    <3> HIDE DEF m
    <3>2. B * (m + 1) = B
      BY Sizes
    <3> QED BY <1>5, <3>1, <3>2, Sizes
  <2> HIDE DEF m
  <2>2. m - 1 \in 0 .. (Length(v.fat, s) - 1)
    BY <1>2, <1>4, <2>1
  <2> QED BY <1>2, <2>2, Sizes
<1> QED BY <1>5 DEF SeekErrno, s

(* fat_file_pwrite writes at most what the chain has room for, and changes  *)
(* only units of the file from the offset on.                               *)
LEMMA PwriteIs ==
  ASSUME NEW v \in VolType, Sound(v), NEW f \in Names, v.tree[f] # NoFile,
         NEW off \in Nat, off <= v.tree[f].size, NEW n \in Nat, NEW x \in Vals
  PROVE  /\ Pwrite(v, f, off, n, x) \in VolType /\ Sound(Pwrite(v, f, off, n, x))
         /\ Pwrite(v, f, off, n, x).fat = v.fat /\ Pwrite(v, f, off, n, x).errno = v.errno
         /\ KeptTop(v, Pwrite(v, f, off, n, x))
         /\ \A g \in Names : g # f => Kept(v, Pwrite(v, f, off, n, x), g)
         /\ Pwrite(v, f, off, n, x).tree[f] # NoFile
         /\ Pwrite(v, f, off, n, x).tree[f].start = v.tree[f].start
         /\ Pwrite(v, f, off, n, x).tree[f].size >= v.tree[f].size
         /\ \A c \in Clusters : \A i \in 0 .. (B - 1) :
              \/ Pwrite(v, f, off, n, x).data[c][i] = v.data[c][i]
              \/ Touched(v, f, off, B * Length(v.fat, v.tree[f].start) - 1, c, i)
<1> DEFINE s == v.tree[f].start
           size == v.tree[f].size
           top == B * Length(v.fat, s)
           m == Written(v, f, off, n)
           p == Pwrite(v, f, off, n, x)
<1>1. /\ s \in Clusters /\ Ends(v.fat, s) /\ v.fat \in Table /\ size \in Nat /\ size <= top
  BY FileIs
<1>2. Length(v.fat, s) \in 1 .. N /\ top \in Nat
  <2>1. Length(v.fat, s) \in 1 .. N
    BY <1>1, ChainIs
  <2> QED BY <2>1, Sizes
<1>3. SeekErrno(v, f, off) = v.errno
  BY SeekErrnoIs
<1>4. CASE v.errno # "0"
  <2>1. p = [v EXCEPT !.errno = v.errno]
    BY <1>3, <1>4 DEF Pwrite
  <2>2. p \in VolType /\ p.fat = v.fat /\ p.tree = v.tree /\ p.errno = v.errno /\ p.data = v.data
    BY <2>1 DEF VolType
  <2>3. SameTree(v, p)
    BY <2>2 DEF SameTree
  <2>4. Sound(p) /\ KeptTop(v, p) /\ \A g \in Names : Kept(v, p, g)
    BY <2>2, <2>3, SameTreeSound
  <2> HIDE DEF p
  <2>5. p.tree[f] # NoFile /\ p.tree[f].start = s /\ p.tree[f].size >= size
    BY <1>1, <2>2
  <2> QED BY <2>2, <2>4, <2>5 DEF p
<1>5. CASE v.errno = "0"
  <2> DEFINE st == Store(v, f, off, m, x)
             e == [v.tree[f] EXCEPT !.size = Maximum(size, off + m)]
             u == [st EXCEPT !.tree[f] = e]
  <2>1. m = Minimum(n, Room(v, f, off)) /\ Room(v, f, off) = top - off
    BY <1>3, <1>5 DEF Written, Room, Length
  <2>2. m \in Nat /\ off + m <= top
    BY <1>1, <1>2, <2>1 DEF Minimum
  <2> HIDE DEF m
  <2>3. /\ st \in VolType /\ st.fat = v.fat /\ st.tree = v.tree /\ st.errno = v.errno
        /\ \A c \in Clusters : \A i \in 0 .. (B - 1) :
             st.data[c][i] = v.data[c][i] \/ Touched(v, f, off, off + m - 1, c, i)
    <3>1. m \in Nat
      BY <2>2
    <3>2. /\ Store(v, f, off, m, x) \in VolType
          /\ Store(v, f, off, m, x).fat = v.fat /\ Store(v, f, off, m, x).tree = v.tree
          /\ Store(v, f, off, m, x).errno = v.errno
          /\ \A c \in Clusters : \A i \in 0 .. (B - 1) :
               \/ Store(v, f, off, m, x).data[c][i] = v.data[c][i]
               \/ Touched(v, f, off, off + m - 1, c, i)
      BY <3>1, StoreIs
    <3> QED BY <3>2
  <2>4. p = WriteEntry(u, f)
    BY <1>3, <1>5, <2>3 DEF Pwrite, m
  <2>5. v.tree[f] \in FileType
    BY Parts
  <2>6. Maximum(size, off + m) \in size .. top
    BY <1>1, <1>2, <2>2 DEF Maximum
  <2>7. e \in FileType /\ e.start = s /\ e.size \in size .. top
    BY <1>1, <1>2, <2>5, <2>6 DEF FileType
  <2> HIDE DEF st, e
  <2>8. /\ u \in VolType /\ u.fat = v.fat /\ u.data = st.data /\ u.errno = v.errno /\ u.tree[f] = e
        /\ \A g \in Names \cup {TopDir} : g # f => u.tree[g] = v.tree[g]
    <3>1. f \in Names \cup {TopDir} /\ e \in FileType \cup {NoFile} /\ st \in VolType
      BY <2>3, <2>7
    <3>2. /\ u \in VolType /\ u.fat = st.fat /\ u.data = st.data /\ u.errno = st.errno /\ u.tree[f] = e
          /\ \A g \in Names \cup {TopDir} : g # f => u.tree[g] = st.tree[g]
      BY <3>1, TreeUpdate
    <3> HIDE DEF u
    <3> QED BY <2>3, <3>2
  <2> HIDE DEF u
  <2>9. u.tree[f] # NoFile
    BY <2>7, <2>8, Records
  <2>10. p \in VolType /\ p.fat = u.fat /\ p.tree = u.tree /\ p.data = u.data /\ p.errno = u.errno
    BY <2>4, <2>8, <2>9, WriteEntryIs
  <2> HIDE DEF p
  <2>11. ASSUME NEW g \in Names, p.tree[g] # NoFile
         PROVE  /\ v.tree[g] # NoFile /\ p.tree[g].start = v.tree[g].start
                /\ p.tree[g].size <= B * Length(v.fat, v.tree[g].start)
    <3>1. CASE g = f
      BY <2>7, <2>8, <2>10, <1>1, <1>2, <3>1
    <3>2. CASE g # f
      <4>1. p.tree[g] = v.tree[g]
        BY <2>8, <2>10, <3>2
      <4> QED BY <2>11, <4>1, FileIs
    <3> QED BY <3>1, <3>2
  <2>12. Sound(p)
    BY <2>8, <2>10, <2>11, SameTableSound
  <2>13. KeptTop(v, p) /\ \A g \in Names : g # f => Kept(v, p, g)
    BY <2>8, <2>10, Paths DEF KeptTop, Kept
  <2>14. p.tree[f] # NoFile /\ p.tree[f].start = s /\ p.tree[f].size >= size
    BY <1>1, <1>2, <2>7, <2>8, <2>9, <2>10
  <2>15. ASSUME NEW c \in Clusters, NEW i \in 0 .. (B - 1), p.data[c][i] # v.data[c][i]
         PROVE  Touched(v, f, off, top - 1, c, i)
    <3>1. Touched(v, f, off, off + m - 1, c, i)
      BY <2>3, <2>8, <2>10, <2>15
    <3>2. PICK k \in off .. (off + m - 1) : c = SeekCluster(v.fat, v.tree[f].start, k \div B) /\ i = k % B
      BY <3>1 DEF Touched
    <3>3. k \in off .. (top - 1)
      BY <1>2, <2>2
    <3> QED BY <3>2, <3>3 DEF Touched
  <2> QED BY <2>8, <2>10, <2>12, <2>13, <2>14, <2>15 DEF p
<1> QED BY <1>4, <1>5, <1>1, Parts DEF VolType

-----------------------------------------------------------------------------
(* A unit of a file is in a cluster of its chain, and no two of them are in *)
(* one place.                                                               *)
LEMMA UnitIs ==
  ASSUME NEW v \in VolType, Sound(v), NEW g \in Names, v.tree[g] # NoFile
  PROVE  LET s == v.tree[g].start
             top == B * Length(v.fat, s)
         IN  /\ top \in Nat /\ v.tree[g].size <= top
             /\ \A k \in 0 .. (top - 1) :
                  /\ SeekCluster(v.fat, s, k \div B) \in Chain(v.fat, s)
                  /\ SeekCluster(v.fat, s, k \div B) \in Clusters
                  /\ k % B \in 0 .. (B - 1)
             /\ \A k, l \in 0 .. (top - 1) :
                  /\ SeekCluster(v.fat, s, k \div B) = SeekCluster(v.fat, s, l \div B)
                  /\ k % B = l % B
                  => k = l
<1> DEFINE s == v.tree[g].start
           L == Length(v.fat, s)
           top == B * L
<1>1. s \in Clusters /\ Ends(v.fat, s) /\ v.fat \in Table /\ v.tree[g].size <= top
  BY FileIs
<1>2. /\ L \in 1 .. N
      /\ \A k \in 0 .. (L - 1) : SeekCluster(v.fat, s, k) \in Clusters
      /\ \A i, j \in 0 .. (L - 1) : i # j => SeekCluster(v.fat, s, i) # SeekCluster(v.fat, s, j)
      /\ Chain(v.fat, s) = {SeekCluster(v.fat, s, k) : k \in 0 .. (L - 1)}
  BY <1>1, ChainIs
<1>3. L \in Nat /\ top \in Nat
  BY <1>2, Sizes
<1>4. ASSUME NEW k \in 0 .. (top - 1)
      PROVE  k \in Nat /\ k \div B \in 0 .. (L - 1) /\ k % B \in 0 .. (B - 1)
  <2>1. k \in Nat /\ k < top
    BY <1>3
  <2>2. k \div B \in Nat /\ k % B \in 0 .. (B - 1) /\ k \div B < L
    BY <1>3, <2>1, Division, DivisionBelow
  <2> QED BY <1>3, <2>1, <2>2
<1>5. ASSUME NEW k \in 0 .. (top - 1), NEW l \in 0 .. (top - 1), k % B = l % B,
             SeekCluster(v.fat, s, k \div B) = SeekCluster(v.fat, s, l \div B)
      PROVE  k = l
  <2>1. k \div B = l \div B
    BY <1>2, <1>4, <1>5
  <2>2. k \in Nat /\ l \in Nat /\ B \in Nat /\ B > 0
    BY <1>4, Sizes
  <2> QED BY <1>5, <2>1, <2>2, Division
<1>6. ASSUME NEW k \in 0 .. (top - 1)
      PROVE  SeekCluster(v.fat, s, k \div B) \in Chain(v.fat, s) /\ SeekCluster(v.fat, s, k \div B) \in Clusters
  BY <1>2, <1>4
<1> QED BY <1>1, <1>3, <1>4, <1>5, <1>6

(* A file that is kept, and none of whose units changes, has the contents it*)
(* had.                                                                     *)
LEMMA ContentKept ==
  ASSUME NEW v \in VolType, Sound(v), NEW g \in Names, v.tree[g] # NoFile, NEW w, Kept(v, w, g),
         \A c \in Chain(v.fat, v.tree[g].start) : \A i \in 0 .. (B - 1) : w.data[c][i] = v.data[c][i]
  PROVE  Content(w, g) = Content(v, g)
<1> DEFINE s == v.tree[g].start
           top == B * Length(v.fat, s)
<1>1. v.tree[g].size \in Nat
  BY FileIs
<1>2. /\ top \in Nat /\ v.tree[g].size <= top
      /\ \A k \in 0 .. (top - 1) : SeekCluster(v.fat, s, k \div B) \in Chain(v.fat, s) /\ k % B \in 0 .. (B - 1)
  BY UnitIs
<1> HIDE DEF top
<1>3. ASSUME NEW k \in 0 .. (v.tree[g].size - 1)
      PROVE  w.data[SeekCluster(w.fat, w.tree[g].start, k \div B)][k % B]
               = v.data[SeekCluster(v.fat, v.tree[g].start, k \div B)][k % B]
  <2>1. k \in 0 .. (top - 1) /\ k \in Nat
    BY <1>1, <1>2
  <2>2. k \div B \in Nat
    BY <2>1, Division
  <2>3. w.tree[g].start = v.tree[g].start
          /\ SeekCluster(w.fat, v.tree[g].start, k \div B) = SeekCluster(v.fat, v.tree[g].start, k \div B)
    BY <2>2 DEF Kept
  <2> QED BY <1>2, <2>1, <2>3
<1>4. w.tree[g].size = v.tree[g].size
  BY DEF Kept
<1> QED BY <1>3, <1>4 DEF Content

(* A write changes no other file, and at the end of a file nothing before   *)
(* it.                                                                      *)
LEMMA PwriteContent ==
  ASSUME NEW v \in VolType, Sound(v), NEW f \in Names, v.tree[f] # NoFile,
         NEW off \in Nat, off <= v.tree[f].size, NEW n \in Nat, NEW x \in Vals
  PROVE  /\ \A g \in Names : g # f /\ v.tree[g] # NoFile =>
              Content(Pwrite(v, f, off, n, x), g) = Content(v, g)
         /\ off = v.tree[f].size =>
              \A k \in 0 .. (v.tree[f].size - 1) :
                Content(Pwrite(v, f, off, n, x), f)[k] = Content(v, f)[k]
<1> DEFINE s == v.tree[f].start
           top == B * Length(v.fat, s)
           p == Pwrite(v, f, off, n, x)
<1>1. /\ p.fat = v.fat
      /\ \A g \in Names : g # f => Kept(v, p, g)
      /\ p.tree[f].start = v.tree[f].start /\ p.tree[f].size >= v.tree[f].size
      /\ \A c \in Clusters : \A i \in 0 .. (B - 1) :
           p.data[c][i] = v.data[c][i] \/ Touched(v, f, off, top - 1, c, i)
      /\ p \in VolType /\ p.tree[f] # NoFile
  BY PwriteIs
<1>2. /\ top \in Nat /\ v.tree[f].size <= top
      /\ \A k \in 0 .. (top - 1) :
           /\ SeekCluster(v.fat, s, k \div B) \in Chain(v.fat, s)
           /\ SeekCluster(v.fat, s, k \div B) \in Clusters /\ k % B \in 0 .. (B - 1)
      /\ \A k, l \in 0 .. (top - 1) :
           SeekCluster(v.fat, s, k \div B) = SeekCluster(v.fat, s, l \div B) /\ k % B = l % B => k = l
  BY UnitIs
<1>3. v.tree[f].size \in Nat /\ p.tree[f].size \in Nat
  BY <1>1, Parts
<1> HIDE DEF top, p
<1>4. ASSUME NEW g \in Names, g # f, v.tree[g] # NoFile PROVE Content(p, g) = Content(v, g)
  <2>1. Chain(v.fat, v.tree[g].start) \subseteq Clusters
    BY <1>4, FileIs, ChainIs
  <2>2. Chain(v.fat, v.tree[g].start) \cap Chain(v.fat, s) = {}
    BY <1>4 DEF Sound
  <2>3. ASSUME NEW c \in Chain(v.fat, v.tree[g].start), NEW i \in 0 .. (B - 1)
        PROVE  p.data[c][i] = v.data[c][i]
    <3>1. ASSUME NEW k \in off .. (top - 1) PROVE c # SeekCluster(v.fat, s, k \div B)
      <4>1. k \in 0 .. (top - 1)
        BY <1>2
      <4> QED BY <1>2, <2>2, <4>1
    <3>2. ~Touched(v, f, off, top - 1, c, i)
      BY <3>1 DEF Touched
    <3> QED BY <1>1, <2>1, <3>2
  <2> QED BY <1>1, <1>4, <2>3, ContentKept
<1>5. ASSUME off = v.tree[f].size, NEW k \in 0 .. (v.tree[f].size - 1) PROVE Content(p, f)[k] = Content(v, f)[k]
  <2> DEFINE c == SeekCluster(v.fat, s, k \div B)
             i == k % B
  <2>1. k \in 0 .. (top - 1) /\ k \in 0 .. (p.tree[f].size - 1)
    BY <1>1, <1>2, <1>3
  <2>2. c \in Clusters /\ i \in 0 .. (B - 1)
    BY <1>2, <2>1
  <2>3. ~Touched(v, f, off, top - 1, c, i)
    <3> SUFFICES ASSUME NEW l \in off .. (top - 1), c = SeekCluster(v.fat, s, l \div B), i = l % B PROVE FALSE
      BY DEF Touched
    <3>1. l \in 0 .. (top - 1) /\ l # k
      BY <1>2, <1>3, <1>5
    <3> QED BY <1>2, <2>1, <3>1
  <2> HIDE DEF c, i
  <2>4. p.data[c][i] = v.data[c][i]
    BY <1>1, <2>2, <2>3
  <2>5. Content(v, f)[k] = v.data[c][i]
    BY DEF Content, c, i
  <2>6. Content(p, f)[k] = p.data[c][i]
    BY <1>1, <2>1 DEF Content, c, i
  <2> QED BY <2>4, <2>5, <2>6
<1> QED BY <1>4, <1>5 DEF p

-----------------------------------------------------------------------------
(* A function on the volume that leaves sound chains and keeps the data and *)
(* every file but f.                                                        *)
Good(v, w, f) ==
  /\ w \in VolType /\ Sound(w) /\ w.data = v.data
  /\ KeptTop(v, w)
  /\ \A g \in Names : g # f => Kept(v, w, g)

(* A change of the table that touches only clusters of f's chain keeps every*)
(* other chain.                                                             *)
LEMMA OthersKept ==
  ASSUME NEW v \in VolType, Sound(v), NEW f \in Names, v.tree[f] # NoFile, NEW fat \in Table,
         \A c \in Clusters : c \notin Chain(v.fat, v.tree[f].start) => fat[c] = v.fat[c],
         NEW g \in Names, g # f, v.tree[g] # NoFile
  PROVE  /\ ChainOK(fat, v.tree[g].start, v.tree[g].size)
         /\ Chain(fat, v.tree[g].start) = Chain(v.fat, v.tree[g].start)
         /\ \A k \in Nat : SeekCluster(fat, v.tree[g].start, k) = SeekCluster(v.fat, v.tree[g].start, k)
<1>1. Chain(v.fat, v.tree[g].start) \cap Chain(v.fat, v.tree[f].start) = {}
  BY DEF Sound
<1>2. Chain(v.fat, v.tree[g].start) \subseteq Clusters
  BY FileIs, ChainIs
<1>3. \A c \in Chain(v.fat, v.tree[g].start) : fat[c] = v.fat[c]
  BY <1>1, <1>2
<1> QED BY <1>3, ChainKept

(* fat_file_remove frees the clusters of the file's chain, which are in no  *)
(* other.                                                                   *)
LEMMA RemoveIs ==
  ASSUME NEW v \in VolType, Sound(v), NEW f \in Names, v.tree[f] # NoFile
  PROVE  Good(v, Remove(v, f), f)
<1> DEFINE s == Chain(v.fat, v.tree[f].start)
           fat == [c \in Clusters |-> IF c \in s THEN FREE ELSE v.fat[c]]
           u == [v EXCEPT !.fat = fat]
           w == WriteEntry(u, f)
           tree == [g \in DOMAIN w.tree |->
                      IF g = f THEN NoFile
                      ELSE IF g # TopDir /\ w.tree[g] # NoFile /\ Parent[g] = f
                           THEN [w.tree[g] EXCEPT !.up = FALSE]
                      ELSE w.tree[g]]
           r == Remove(v, f)
<1>1. s \subseteq Clusters /\ \A c \in s : c # Root /\ v.fat[c] # FREE
  BY FileIs, ChainIs
<1>2. fat \in Table /\ \A c \in Clusters : c \notin s => fat[c] = v.fat[c]
  BY Parts DEF Table
<1>3. r = [w EXCEPT !.tree = tree]
  BY DEF Remove
<1> HIDE DEF s, fat
<1>4. u \in VolType /\ u.fat = fat /\ u.tree = v.tree /\ u.data = v.data
  BY <1>2 DEF VolType, Table
<1> HIDE DEF u
<1>5. w \in VolType /\ w.fat = fat /\ w.tree = v.tree /\ w.data = v.data
  BY <1>4, WriteEntryIs
<1> HIDE DEF w
<1>6. /\ tree \in Tree /\ tree[f] = NoFile /\ (tree[TopDir] = v.tree[TopDir])
      /\ \A g \in Names : g # f =>
           /\ tree[g] # NoFile <=> v.tree[g] # NoFile
           /\ v.tree[g] # NoFile => tree[g].start = v.tree[g].start /\ tree[g].size = v.tree[g].size
  <2>1. v.tree \in Tree /\ DOMAIN v.tree = Names \cup {TopDir} /\ TopDir # f
    BY Parts, Paths DEF Tree
  <2>2. ASSUME NEW g \in Names, v.tree[g] # NoFile
        PROVE  /\ [v.tree[g] EXCEPT !.up = FALSE] \in FileType
               /\ [v.tree[g] EXCEPT !.up = FALSE].start = v.tree[g].start
               /\ [v.tree[g] EXCEPT !.up = FALSE].size = v.tree[g].size
    <3>1. v.tree[g] \in FileType
      BY <2>2, Parts
    <3> QED BY <3>1 DEF FileType
  <2>3. tree \in Tree
    <3>1. tree = [g \in Names \cup {TopDir} |->
                    IF g = f THEN NoFile
                    ELSE IF g # TopDir /\ v.tree[g] # NoFile /\ Parent[g] = f
                         THEN [v.tree[g] EXCEPT !.up = FALSE]
                    ELSE v.tree[g]]
      BY <1>5, <2>1
    <3> HIDE DEF tree
    <3> QED BY <2>1, <2>2, <3>1 DEF Tree
  <2>4. tree[f] = NoFile /\ tree[TopDir] = v.tree[TopDir]
    BY <1>5, <2>1
  <2>5. ASSUME NEW g \in Names, g # f
        PROVE  /\ tree[g] # NoFile <=> v.tree[g] # NoFile
               /\ v.tree[g] # NoFile => tree[g].start = v.tree[g].start /\ tree[g].size = v.tree[g].size
    <3>1. tree[g] = IF g # TopDir /\ v.tree[g] # NoFile /\ Parent[g] = f
                    THEN [v.tree[g] EXCEPT !.up = FALSE] ELSE v.tree[g]
      BY <1>5, <2>1, <2>5
    <3> HIDE DEF tree
    <3> QED BY <2>2, <3>1, Records
  <2> QED BY <2>3, <2>4, <2>5
<1> HIDE DEF tree
<1>7. r \in VolType /\ r.fat = fat /\ r.tree = tree /\ r.data = v.data
  BY <1>3, <1>5, <1>6 DEF VolType, Tree
<1> HIDE DEF r
<1>8. ASSUME NEW g \in Names, g # f, v.tree[g] # NoFile
      PROVE  /\ ChainOK(fat, v.tree[g].start, v.tree[g].size)
             /\ Chain(fat, v.tree[g].start) = Chain(v.fat, v.tree[g].start)
             /\ \A k \in Nat : SeekCluster(fat, v.tree[g].start, k) = SeekCluster(v.fat, v.tree[g].start, k)
  BY <1>2, <1>8, OthersKept DEF s
<1>9. Sound(r)
  <2>1. r.fat[Root] # FREE
    BY <1>1, <1>2, <1>7, Sizes DEF Sound
  <2>2. ASSUME NEW g \in Names, r.tree[g] # NoFile
        PROVE  g # f /\ v.tree[g] # NoFile /\ r.tree[g].start = v.tree[g].start /\ r.tree[g].size = v.tree[g].size
    BY <1>6, <1>7, <2>2
  <2>3. ASSUME NEW g \in Names, r.tree[g] # NoFile PROVE ChainOK(r.fat, r.tree[g].start, r.tree[g].size)
    BY <1>7, <1>8, <2>2, <2>3
  <2>4. ASSUME NEW g \in Names, NEW h \in Names, g # h, r.tree[g] # NoFile, r.tree[h] # NoFile
        PROVE  Chain(r.fat, r.tree[g].start) \cap Chain(r.fat, r.tree[h].start) = {}
    <3>1. Chain(v.fat, v.tree[g].start) \cap Chain(v.fat, v.tree[h].start) = {}
      BY <2>2, <2>4 DEF Sound
    <3> QED BY <1>7, <1>8, <2>2, <2>4, <3>1
  <2> QED BY <2>1, <2>3, <2>4 DEF Sound
<1>10. KeptTop(v, r) /\ \A g \in Names : g # f => Kept(v, r, g)
  BY <1>6, <1>7, <1>8 DEF KeptTop, Kept
<1> QED BY <1>7, <1>9, <1>10 DEF Good, r

(* How many clusters a size needs.                                          *)
LEMMA ClustersForIs ==
  ASSUME NEW k \in Nat
  PROVE  /\ ClustersFor(k) \in Nat /\ k \div B <= ClustersFor(k)
         /\ \A m \in Nat : k <= B * m => ClustersFor(k) <= m
<1> DEFINE c == ClustersFor(k)
<1>1. B \in Nat /\ B > 0 /\ k + B - 1 \in Nat
  BY Sizes
<1>2. c \in Nat /\ k + B - 1 < B * (c + 1) /\ c = (k + B - 1) \div B
  BY <1>1, Division, DivisionBelow DEF ClustersFor
<1> HIDE DEF c
<1>3. k <= B * c
  <2>1. B * (c + 1) = B * c + B /\ B * c \in Nat
    BY <1>1, <1>2
  <2> QED BY <1>1, <1>2, <2>1
<1>4. k \div B <= c
  BY <1>2, <1>3, DivisionBelow
<1>5. ASSUME NEW m \in Nat, k <= B * m PROVE c <= m
  <2>1. B * (m + 1) = B * m + B /\ B * m \in Nat /\ m + 1 \in Nat
    BY <1>1
  <2>2. k + B - 1 < B * (m + 1)
    BY <1>1, <1>5, <2>1
  <2>3. c < m + 1
    BY <1>1, <1>2, <2>1, <2>2, DivisionBelow
  <2> QED BY <1>2, <2>3
<1> QED BY <1>2, <1>4, <1>5 DEF c

(* fat_file_truncate ends the chain inside it: the clusters up to that of   *)
(* the offset stay, and the rest are free.                                  *)
LEMMA CutIs ==
  ASSUME NEW v \in VolType, Sound(v), NEW f \in Names, v.tree[f] # NoFile, NEW off \in Nat,
         FewerClusters(v.tree[f].size, off)
  PROVE  /\ Cut(v, f, off) \in Table
         /\ \A c \in Clusters : c \notin Chain(v.fat, v.tree[f].start) => Cut(v, f, off)[c] = v.fat[c]
         /\ Chain(Cut(v, f, off), v.tree[f].start) \subseteq Chain(v.fat, v.tree[f].start)
         /\ ChainOK(Cut(v, f, off), v.tree[f].start, off)
<1> DEFINE s == v.tree[f].start
           m == off \div B
           L == Length(v.fat, s)
           last == SeekCluster(v.fat, s, m)
           next == GetNext(v.fat, last)
           rest == IF next = EOC THEN {} ELSE Chain(v.fat, next)
           new == Cut(v, f, off)
<1>1. /\ s \in Clusters /\ Ends(v.fat, s) /\ v.fat \in Table
      /\ \A c \in Chain(v.fat, s) : c # Root /\ v.fat[c] # FREE
      /\ v.tree[f].size \in Nat /\ v.tree[f].size <= B * L
  BY FileIs
<1>2. new = [c \in Clusters |-> IF c = last THEN EOC ELSE IF c \in rest THEN FREE ELSE v.fat[c]]
  BY DEF Cut
<1> HIDE DEF s
<1>3. /\ L \in 1 .. N
      /\ \A k \in 0 .. (L - 1) : SeekCluster(v.fat, s, k) \in Clusters
      /\ \A k \in Nat : k >= L => SeekCluster(v.fat, s, k) = EOC
      /\ \A i, j \in 0 .. (L - 1) : i # j => SeekCluster(v.fat, s, i) # SeekCluster(v.fat, s, j)
      /\ Chain(v.fat, s) = {SeekCluster(v.fat, s, k) : k \in 0 .. (L - 1)}
  BY <1>1, ChainIs
<1> HIDE DEF L
<1>4. m \in Nat /\ m < L
  <2>1. m <= ClustersFor(off) /\ ClustersFor(off) \in Nat /\ m \in Nat
    BY ClustersForIs, Division
  <2>2. ClustersFor(v.tree[f].size) \in Nat /\ ClustersFor(v.tree[f].size) <= L
    <3>1. L \in Nat
      BY <1>3
    <3> QED BY <1>1, <3>1, ClustersForIs
  <2>3. Maximum(1, ClustersFor(off)) < Maximum(1, ClustersFor(v.tree[f].size))
    BY DEF FewerClusters
  <2> HIDE DEF m
  <2> QED BY <1>3, <2>1, <2>2, <2>3 DEF Maximum
<1>5. off <= B * (m + 1)
  <2>1. B * (m + 1) \in Nat
    BY <1>4, Sizes
  <2> QED BY <1>4, <2>1, DivisionBelow
<1> HIDE DEF m, new, last, rest
<1>6. last \in Chain(v.fat, s) /\ last \in Clusters
  BY <1>3, <1>4 DEF last
<1>7. ASSUME NEW c \in rest
      PROVE  \E k \in (m + 1) .. (L - 1) : c = SeekCluster(v.fat, s, k)
  <2>1. next # EOC /\ c \in Chain(v.fat, next)
    BY DEF rest
  <2>2. next = SeekCluster(v.fat, s, m + 1)
    <3>1. SeekCluster(v.fat, s, m + 1) = After(v.fat, last)
      BY <1>4, SeekSteps DEF last
    <3> QED BY <1>6, <3>1, Sizes DEF After
  <2>3. PICK d \in 0 .. N : c = SeekCluster(v.fat, next, d) /\ c # EOC
    BY <2>1 DEF Chain
  <2>4. m + 1 \in Nat /\ d \in Nat /\ (m + 1) + d \in Nat
    BY <1>4, <2>3, Sizes
  <2>5. SeekCluster(v.fat, s, (m + 1) + d) = SeekCluster(v.fat, SeekCluster(v.fat, s, m + 1), d)
    BY <2>4, SeekSum
  <2>6. c = SeekCluster(v.fat, s, (m + 1) + d)
    BY <2>2, <2>3, <2>5
  <2>7. (m + 1) + d < L
    BY <1>3, <2>3, <2>4, <2>6
  <2>8. (m + 1) + d \in (m + 1) .. (L - 1)
    BY <1>3, <1>4, <2>4, <2>7
  <2> QED BY <2>6, <2>8
<1>8. new \in Table /\ \A c \in Clusters : c \notin Chain(v.fat, s) => new[c] = v.fat[c]
  <2>1. new \in Table
    BY <1>1, <1>2 DEF Table
  <2>2. rest \subseteq Chain(v.fat, s)
    <3>1. ASSUME NEW k \in (m + 1) .. (L - 1) PROVE SeekCluster(v.fat, s, k) \in Chain(v.fat, s)
      <4>1. k \in 0 .. (L - 1)
        BY <1>4
      <4> QED BY <1>3, <4>1
    <3> QED BY <1>7, <3>1
  <2> QED BY <1>2, <1>6, <2>1, <2>2
<1>9. ASSUME NEW k \in 0 .. m
      PROVE  /\ SeekCluster(v.fat, s, k) \in Clusters
             /\ k = m => new[SeekCluster(v.fat, s, k)] = EOC
             /\ k # m => new[SeekCluster(v.fat, s, k)] = v.fat[SeekCluster(v.fat, s, k)]
  <2>1. k \in 0 .. (L - 1) /\ m \in 0 .. (L - 1)
    BY <1>3, <1>4
  <2>2. SeekCluster(v.fat, s, k) \in Clusters
    BY <1>3, <2>1
  <2>3. k # m => SeekCluster(v.fat, s, k) # last
    BY <1>3, <2>1 DEF last
  <2>4. SeekCluster(v.fat, s, k) \notin rest
    <3> SUFFICES ASSUME NEW j \in (m + 1) .. (L - 1), SeekCluster(v.fat, s, k) = SeekCluster(v.fat, s, j)
                 PROVE  FALSE
      BY <1>7
    <3>1. j \in 0 .. (L - 1) /\ j # k
      BY <1>4
    <3> QED BY <1>3, <2>1, <3>1
  <2> QED BY <1>2, <2>2, <2>3, <2>4 DEF last
<1>10. \A k \in Nat : k <= m => SeekCluster(new, s, k) = SeekCluster(v.fat, s, k)
  <2> DEFINE S == {k \in Nat : k <= m => SeekCluster(new, s, k) = SeekCluster(v.fat, s, k)}
  <2>1. 0 \in S
    BY SeekSteps
  <2>2. ASSUME NEW k \in Nat, k \in S PROVE k + 1 \in S
    <3> SUFFICES ASSUME k + 1 <= m PROVE SeekCluster(new, s, k + 1) = SeekCluster(v.fat, s, k + 1)
      OBVIOUS
    <3>1. k \in 0 .. m /\ k # m /\ SeekCluster(new, s, k) = SeekCluster(v.fat, s, k)
      BY <1>4, <2>2
    <3>2. /\ SeekCluster(new, s, k + 1) = After(new, SeekCluster(new, s, k))
          /\ SeekCluster(v.fat, s, k + 1) = After(v.fat, SeekCluster(v.fat, s, k))
      BY SeekSteps
    <3> QED BY <1>9, <3>1, <3>2 DEF After, GetNext
  <2> HIDE DEF S
  <2>3. \A k \in Nat : k \in S
    BY <2>1, <2>2, Induction
  <2> QED BY <2>3 DEF S
<1>11. SeekCluster(new, s, m + 1) = EOC
  <2>1. SeekCluster(new, s, m + 1) = After(new, SeekCluster(new, s, m)) /\ m \in 0 .. m
    BY <1>4, SeekSteps
  <2>2. SeekCluster(new, s, m) = SeekCluster(v.fat, s, m)
    BY <1>4, <1>10
  <2> QED BY <1>9, <2>1, <2>2, Sizes DEF After, GetNext
<1>12. Ends(new, s)
  BY <1>3, <1>4, <1>11, Sizes DEF Ends
<1>13. Length(new, s) = m + 1
  <2>1. /\ Length(new, s) \in 1 .. N
        /\ \A k \in 0 .. (Length(new, s) - 1) : SeekCluster(new, s, k) \in Clusters
        /\ \A k \in Nat : k >= Length(new, s) => SeekCluster(new, s, k) = EOC
    BY <1>1, <1>8, <1>12, ChainIs
  <2>2. ASSUME m + 1 < Length(new, s) PROVE FALSE
    <3>1. m + 1 \in 0 .. (Length(new, s) - 1)
      BY <1>4, <2>1, <2>2
    <3> QED BY <1>11, <2>1, <3>1, Sizes
  <2>3. ASSUME Length(new, s) < m + 1 PROVE FALSE
    <3>1. Length(new, s) <= m /\ m \in 0 .. m
      BY <1>4, <2>1, <2>3
    <3>2. SeekCluster(new, s, m) = EOC /\ SeekCluster(new, s, m) = SeekCluster(v.fat, s, m)
      BY <1>4, <1>10, <2>1, <3>1
    <3> QED BY <1>9, <3>1, <3>2, Sizes
  <2> QED BY <1>4, <2>1, <2>2, <2>3
<1>14. ASSUME NEW c \in Chain(new, s) PROVE c \in Chain(v.fat, s) /\ new[c] # FREE
  <2>1. Chain(new, s) = {SeekCluster(new, s, k) : k \in 0 .. (Length(new, s) - 1)}
    BY <1>1, <1>8, <1>12, ChainIs
  <2>2. PICK k \in 0 .. m : c = SeekCluster(new, s, k)
    <3>1. (m + 1) - 1 = m
      BY <1>4
    <3> QED BY <1>13, <2>1, <3>1
  <2>3. k \in Nat /\ k <= m /\ k \in 0 .. (L - 1)
    BY <1>3, <1>4, <2>2
  <2>4. c = SeekCluster(v.fat, s, k)
    BY <1>10, <2>2, <2>3
  <2>5. c \in Chain(v.fat, s)
    BY <1>3, <2>3, <2>4
  <2> QED BY <1>1, <1>9, <2>2, <2>4, <2>5, Sizes
<1>15. ChainOK(new, s, off)
  BY <1>1, <1>5, <1>12, <1>13, <1>14 DEF ChainOK, Ends, Length
<1> QED BY <1>8, <1>14, <1>15 DEF new, s

(* fat_file_truncate                                                        *)
LEMMA TruncateIs ==
  ASSUME NEW v \in VolType, Sound(v), NEW f \in Names, v.tree[f] # NoFile, NEW off \in Nat
  PROVE  Good(v, TruncateFile(v, f, off), f)
<1> DEFINE fat == Cut(v, f, off)
           e == [v.tree[f] EXCEPT !.size = off]
           u == [v EXCEPT !.fat = fat]
           w == [u EXCEPT !.tree[f] = e]
           t == TruncateFile(v, f, off)
<1>1. CASE ~FewerClusters(v.tree[f].size, off)
  <2>1. t = v
    BY <1>1 DEF TruncateFile
  <2> QED BY <2>1 DEF Good, KeptTop, Kept
<1>2. CASE FewerClusters(v.tree[f].size, off)
  <2>1. t = WriteEntry(w, f)
    BY <1>2 DEF TruncateFile
  <2>2. /\ fat \in Table
        /\ \A c \in Clusters : c \notin Chain(v.fat, v.tree[f].start) => fat[c] = v.fat[c]
        /\ Chain(fat, v.tree[f].start) \subseteq Chain(v.fat, v.tree[f].start)
        /\ ChainOK(fat, v.tree[f].start, off)
    BY <1>2, CutIs
  <2>3. /\ Root \notin Chain(v.fat, v.tree[f].start)
        /\ v.tree[f].start \in Clusters
    BY FileIs
  <2> HIDE DEF fat
  <2>4. u \in VolType /\ u.fat = fat /\ u.tree = v.tree /\ u.data = v.data
    BY <2>2 DEF VolType, Table
  <2>5. e \in FileType /\ e.start = v.tree[f].start /\ e.size = off
    <3>1. v.tree[f] \in FileType
      BY Parts
    <3> QED BY <3>1 DEF FileType
  <2> HIDE DEF u, e
  <2>6. /\ w \in VolType /\ w.fat = fat /\ w.data = v.data /\ w.tree[f] = e
        /\ \A g \in Names \cup {TopDir} : g # f => w.tree[g] = v.tree[g]
    BY <2>4, <2>5, TreeUpdate
  <2> HIDE DEF w
  <2>7. w.tree[f] # NoFile
    BY <2>5, <2>6, Records
  <2>8. t \in VolType /\ t.fat = fat /\ t.tree = w.tree /\ t.data = v.data
    BY <2>1, <2>6, <2>7, WriteEntryIs
  <2> HIDE DEF t
  <2>9. ASSUME NEW g \in Names, g # f, v.tree[g] # NoFile
        PROVE  /\ ChainOK(fat, v.tree[g].start, v.tree[g].size)
               /\ Chain(fat, v.tree[g].start) = Chain(v.fat, v.tree[g].start)
               /\ \A k \in Nat : SeekCluster(fat, v.tree[g].start, k) = SeekCluster(v.fat, v.tree[g].start, k)
    BY <2>2, <2>9, OthersKept
  <2>10. Sound(t)
    <3>1. t.fat[Root] # FREE
      BY <2>2, <2>3, <2>8, Sizes DEF Sound
    <3>2. ASSUME NEW g \in Names, t.tree[g] # NoFile
          PROVE  /\ v.tree[g] # NoFile /\ t.tree[g].start = v.tree[g].start
                 /\ Chain(fat, v.tree[g].start) \subseteq Chain(v.fat, v.tree[g].start)
                 /\ ChainOK(t.fat, t.tree[g].start, t.tree[g].size)
      <4>1. CASE g = f
        BY <2>2, <2>5, <2>6, <2>8, <4>1
      <4>2. CASE g # f
        <5>1. t.tree[g] = v.tree[g]
          BY <2>6, <2>8, <4>2
        <5> QED BY <2>8, <2>9, <3>2, <4>2, <5>1
      <4> QED BY <4>1, <4>2
    <3>3. ASSUME NEW g \in Names, NEW h \in Names, g # h, t.tree[g] # NoFile, t.tree[h] # NoFile
          PROVE  Chain(t.fat, t.tree[g].start) \cap Chain(t.fat, t.tree[h].start) = {}
      <4>1. Chain(v.fat, v.tree[g].start) \cap Chain(v.fat, v.tree[h].start) = {}
        BY <3>2, <3>3 DEF Sound
      <4> QED BY <2>8, <3>2, <3>3, <4>1
    <3> QED BY <3>1, <3>2, <3>3 DEF Sound
  <2>11. KeptTop(v, t) /\ \A g \in Names : g # f => Kept(v, t, g)
    BY <2>6, <2>8, <2>9, Paths DEF KeptTop, Kept
  <2> QED BY <2>8, <2>10, <2>11 DEF Good, t
<1> QED BY <1>1, <1>2

(* A function on the volume that keeps the table and errno, and every file  *)
(* with the contents of all but f.                                          *)
Writes(v, w, f) ==
  /\ w \in VolType /\ Sound(w) /\ w.fat = v.fat /\ w.errno = v.errno
  /\ KeptTop(v, w)
  /\ \A g \in Names : v.tree[g] # NoFile =>
       /\ w.tree[g] # NoFile /\ w.tree[g].start = v.tree[g].start /\ w.tree[g].size >= v.tree[g].size
       /\ g # f => w.tree[g].size = v.tree[g].size /\ Content(w, g) = Content(v, g)

(* What is before the end of the log stays.                                 *)
Appends(v, w) ==
  v.tree[Log] # NoFile =>
    \A k \in 0 .. (v.tree[Log].size - 1) : Content(w, Log)[k] = Content(v, Log)[k]

(* Every file is kept with its contents when neither the table, the data    *)
(* nor the files change.                                                    *)
LEMMA StaysIs ==
  ASSUME NEW v \in VolType, Sound(v), NEW w \in VolType, w.fat = v.fat, w.data = v.data,
         SameTree(v, w)
  PROVE  /\ Sound(w) /\ KeptTop(v, w)
         /\ \A g \in Names : Kept(v, w, g) /\ (v.tree[g] # NoFile => Content(w, g) = Content(v, g))
<1>1. Sound(w) /\ KeptTop(v, w) /\ \A g \in Names : Kept(v, w, g)
  BY SameTreeSound
<1>2. ASSUME NEW g \in Names, v.tree[g] # NoFile PROVE Content(w, g) = Content(v, g)
  BY <1>1, <1>2, ContentKept
<1> QED BY <1>1, <1>2

(* fat_fuse_log_activity appends to the log.                                *)
LEMMA LogActivityIs ==
  ASSUME NEW v \in VolType, Sound(v)
  PROVE  /\ LogActivity(v) \in VolType /\ Sound(LogActivity(v)) /\ KeptTop(v, LogActivity(v))
         /\ LogActivity(v).alive => v.tree[Log] # NoFile
         /\ v.tree[Log] # NoFile => Writes(v, LogActivity(v), Log) /\ Appends(v, LogActivity(v))
<1> DEFINE w == LogActivity(v)
<1>1. CASE v.tree[Log] = NoFile
  <2>1. w = [v EXCEPT !.alive = FALSE]
    BY <1>1 DEF LogActivity
  <2>2. w \in VolType /\ SameTree(v, w) /\ w.fat = v.fat /\ w.alive = FALSE
    BY <2>1 DEF VolType, SameTree
  <2> HIDE DEF w
  <2>3. Sound(w) /\ KeptTop(v, w)
    BY <2>2, SameTreeSound
  <2> QED BY <1>1, <2>2, <2>3 DEF w
<1>2. CASE v.tree[Log] # NoFile
  <2>1. w = Pwrite(v, Log, v.tree[Log].size, 1, LogVal) /\ Log \in Names /\ LogVal \in Vals
    BY <1>2, Paths DEF LogActivity
  <2>2. v.tree[Log].size \in Nat /\ v.tree[Log].size <= v.tree[Log].size /\ 1 \in Nat
    BY <1>2, Paths, Parts
  <2>3. /\ w \in VolType /\ Sound(w) /\ w.fat = v.fat /\ w.errno = v.errno /\ KeptTop(v, w)
        /\ \A g \in Names : g # Log => Kept(v, w, g)
        /\ w.tree[Log] # NoFile /\ w.tree[Log].start = v.tree[Log].start
        /\ w.tree[Log].size >= v.tree[Log].size
    BY <1>2, <2>1, <2>2, PwriteIs
  <2>4. /\ \A g \in Names : g # Log /\ v.tree[g] # NoFile => Content(w, g) = Content(v, g)
        /\ \A k \in 0 .. (v.tree[Log].size - 1) : Content(w, Log)[k] = Content(v, Log)[k]
    <3> HIDE DEF w
    <3>1. /\ \A g \in Names : g # Log /\ v.tree[g] # NoFile =>
               Content(Pwrite(v, Log, v.tree[Log].size, 1, LogVal), g) = Content(v, g)
          /\ \A k \in 0 .. (v.tree[Log].size - 1) :
               Content(Pwrite(v, Log, v.tree[Log].size, 1, LogVal), Log)[k] = Content(v, Log)[k]
      BY <1>2, <2>1, <2>2, PwriteContent
    <3> QED BY <2>1, <3>1
  <2> HIDE DEF w
  <2>5. ASSUME NEW g \in Names, v.tree[g] # NoFile, g # Log
        PROVE  /\ w.tree[g] # NoFile /\ w.tree[g].start = v.tree[g].start
               /\ w.tree[g].size >= v.tree[g].size /\ w.tree[g].size = v.tree[g].size
    <3>1. v.tree[g].size \in Nat
      BY <2>5, Parts
    <3> QED BY <2>3, <2>5, <3>1 DEF Kept
  <2>6. Writes(v, w, Log) /\ Appends(v, w)
    BY <2>3, <2>4, <2>5 DEF Writes, Appends
  <2> QED BY <1>2, <2>3, <2>6 DEF w
<1> QED BY <1>1, <1>2

(* fat_file_hide                                                            *)
LEMMA HideIs ==
  ASSUME NEW v \in VolType, Sound(v), NEW f \in Names, v.tree[f] # NoFile
  PROVE  Hide(v, f) \in VolType /\ Sound(Hide(v, f)) /\ KeptTop(v, Hide(v, f))
<1> DEFINE e == [v.tree[f] EXCEPT !.hidden = TRUE]
           u == [v EXCEPT !.tree[f] = e]
<1>1. e \in FileType /\ e.start = v.tree[f].start /\ e.size = v.tree[f].size
  <2>1. v.tree[f] \in FileType
    BY Parts
  <2> QED BY <2>1 DEF FileType
<1>2. Hide(v, f) = WriteEntry(u, f)
  BY DEF Hide
<1> HIDE DEF e
<1>3. /\ u \in VolType /\ u.fat = v.fat /\ u.tree[f] = e
      /\ \A g \in Names \cup {TopDir} : g # f => u.tree[g] = v.tree[g]
  BY <1>1, TreeUpdate
<1> HIDE DEF u
<1>4. u.tree[f] # NoFile
  BY <1>1, <1>3, Records
<1>5. WriteEntry(u, f) \in VolType /\ WriteEntry(u, f).fat = v.fat /\ WriteEntry(u, f).tree = u.tree
  BY <1>3, <1>4, WriteEntryIs
<1>6. ASSUME NEW g \in Names, u.tree[g] # NoFile
      PROVE  /\ v.tree[g] # NoFile /\ u.tree[g].start = v.tree[g].start
             /\ u.tree[g].size <= B * Length(v.fat, v.tree[g].start)
  <2>1. v.tree[g] # NoFile /\ u.tree[g].start = v.tree[g].start /\ u.tree[g].size = v.tree[g].size
    BY <1>1, <1>3, <1>6
  <2> QED BY <2>1, FileIs
<1>7. Sound(WriteEntry(u, f))
  BY <1>5, <1>6, SameTableSound
<1>8. KeptTop(v, WriteEntry(u, f))
  BY <1>3, <1>5, Paths DEF KeptTop
<1> QED BY <1>2, <1>5, <1>7, <1>8

(* fat_fuse_log_init                                                        *)
LEMMA LogInitIs ==
  ASSUME NEW v \in VolType, Sound(v), v.tree[TopDir] # NoFile
  PROVE  LogInit(v) \in VolType /\ Sound(LogInit(v)) /\ KeptTop(v, LogInit(v))
<1> DEFINE w == MknodIn(v, Log)
           u == LogActivity(w)
<1>1. CASE v.tree[Log] # NoFile
  <2>1. LogInit(v) = v
    BY <1>1 DEF LogInit
  <2> QED BY <2>1 DEF KeptTop
<1>2. CASE v.tree[Log] = NoFile
  <2>1. /\ w \in VolType /\ Sound(w) /\ KeptTop(v, w)
        /\ w.alive => w.tree[Log] # NoFile
    BY <1>2, Paths, MknodInIs
  <2>2. LogInit(v) = IF ~w.alive \/ w.errno # "0" THEN w ELSE Hide(u, Log)
    BY <1>2 DEF LogInit
  <2> HIDE DEF w
  <2>3. u \in VolType /\ Sound(u) /\ KeptTop(w, u)
    BY <2>1, LogActivityIs
  <2>4. w.tree[Log] # NoFile => u.tree[Log] # NoFile
    BY <2>1, LogActivityIs, Paths DEF Writes
  <2> HIDE DEF u
  <2>5. ASSUME u.tree[Log] # NoFile
        PROVE  Hide(u, Log) \in VolType /\ Sound(Hide(u, Log)) /\ KeptTop(u, Hide(u, Log))
    BY <2>3, <2>5, HideIs, Paths
  <2>6. CASE ~w.alive \/ w.errno # "0"
    BY <2>1, <2>2, <2>6
  <2>7. CASE ~(~w.alive \/ w.errno # "0")
    <3>1. LogInit(v) = Hide(u, Log) /\ u.tree[Log] # NoFile
      BY <2>1, <2>2, <2>4, <2>7
    <3>2. KeptTop(v, Hide(u, Log))
      BY <2>1, <2>3, <2>5, <3>1 DEF KeptTop
    <3> QED BY <2>5, <3>1, <3>2
  <2> QED BY <2>6, <2>7
<1> QED BY <1>1, <1>2

-----------------------------------------------------------------------------
(* The volume of the image, and what the first listing makes of it.         *)
LEMMA MountedIs ==
  /\ Mounted \in VolType /\ Sound(Mounted)
  /\ Mounted.tree[TopDir] \in FileType /\ Mounted.tree[TopDir].start = Root
  /\ Mounted.tree[TopDir].nentries = 0
  /\ \A f \in Names : Mounted.tree[f] = NoFile
  /\ \A i \in 0 .. (DirCap - 1) :
       Mounted.ents[Root][i] = IF i < Len(Image) THEN Image[i + 1] ELSE End
<1> DEFINE fat == [c \in Clusters |-> IF c \in DOMAIN Links THEN Links[c] ELSE FREE]
           data == [c \in Clusters |-> [i \in 0 .. (B - 1) |-> Old]]
           ents == [c \in Clusters |-> [i \in 0 .. (DirCap - 1) |->
                      IF c = Root /\ i < Len(Image) THEN Image[i + 1] ELSE End]]
           tree == [f \in Names \cup {TopDir} |-> IF f = TopDir THEN NewFile(Root) ELSE NoFile]
<1>1. Mounted = [fat |-> fat, data |-> data, ents |-> ents, errno |-> "0", alive |-> TRUE, tree |-> tree]
  BY DEF Mounted, Mount
<1>2. fat \in [Clusters -> Clusters \cup {FREE, EOC}] /\ fat[Root] # FREE
  <2>1. Root \in DOMAIN Links /\ \A c \in DOMAIN Links : Links[c] \in Clusters \cup {EOC}
    BY ImageAssumption
  <2> QED BY <2>1, Sizes
<1>3. data \in [Clusters -> [0 .. (B - 1) -> Vals]]
  BY Paths
<1>4. ents \in [Clusters -> [0 .. (DirCap - 1) -> Entries \cup {End, Junk}]]
  <2>1. Image \in Seq(Entries) /\ Len(Image) \in Nat
    BY ImageAssumption
  <2>2. ASSUME NEW i \in 0 .. (DirCap - 1), i < Len(Image) PROVE Image[i + 1] \in Entries
    BY <2>1, <2>2, Sizes
  <2> QED BY <2>2
<1>5. NewFile(Root) \in FileType /\ NewFile(Root).start = Root /\ NewFile(Root).nentries = 0
  BY Sizes DEF NewFile, FileType
<1>6. /\ tree \in Tree /\ tree[TopDir] = NewFile(Root)
      /\ \A f \in Names : tree[f] = NoFile
  BY <1>5, Paths DEF Tree
<1>7. \A i \in 0 .. (DirCap - 1) : ents[Root][i] = IF i < Len(Image) THEN Image[i + 1] ELSE End
  BY Sizes
<1> HIDE DEF fat, data, ents, tree
<1>8. Mounted \in VolType
  BY <1>1, <1>2, <1>3, <1>4, <1>6 DEF VolType, Tree
<1>9. Mounted.fat = fat /\ Mounted.tree = tree /\ Mounted.ents = ents
  BY <1>1
<1>10. Sound(Mounted)
  BY <1>2, <1>6, <1>9 DEF Sound
<1> QED BY <1>5, <1>6, <1>7, <1>8, <1>9, <1>10

(* fat_file_read_children of the root of the image: the files it finds are  *)
(* the entries of the image, each of which has a chain of its own.          *)
LEMMA ListedIs ==
  LET v == ReadChildren(Mounted, TopDir)
  IN  /\ v \in VolType /\ Sound(v)
      /\ v.tree[TopDir] # NoFile /\ v.tree[TopDir].read
<1> DEFINE m == Mounted
           ents == m.ents[m.tree[TopDir].start]
           Stops(k) == /\ \A i \in 0 .. (k - 1) : ents[i] # End
                       /\ k = DirCap \/ ents[k] = End
           n == CHOOSE k \in 0 .. DirCap : Stops(k)
           Of(f) == {i \in 0 .. (n - 1) : ents[i] # Junk /\ ents[i].name = f}
           First(f) == CHOOSE i \in Of(f) : \A j \in Of(f) : i <= j
           Loads(f) == Loaded(m, TopDir, ents[First(f)])
           Reads(f) == IF f = TopDir \/ m.tree[f] # NoFile \/ Of(f) = {} THEN m.tree[f] ELSE Loads(f)
           top == [m.tree[TopDir] EXCEPT !.read = TRUE, !.nentries = n]
           tree == [f \in DOMAIN m.tree |-> IF f = TopDir THEN top ELSE Reads(f)]
           v == ReadChildren(Mounted, TopDir)
<1>1. /\ m \in VolType /\ Sound(m)
      /\ m.tree[TopDir] \in FileType /\ m.tree[TopDir].start = Root
      /\ m.tree[TopDir].nentries = 0
      /\ \A f \in Names : m.tree[f] = NoFile
      /\ \A i \in 0 .. (DirCap - 1) : m.ents[Root][i] = IF i < Len(Image) THEN Image[i + 1] ELSE End
  BY MountedIs
<1>2. v = [m EXCEPT !.tree = tree]
  BY DEF ReadChildren
<1> HIDE DEF m, v
<1>3. Image \in Seq(Entries) /\ Len(Image) \in Nat /\ Len(Image) < DirCap
  BY ImageAssumption
<1>4. \A i \in 0 .. (DirCap - 1) : ents[i] = IF i < Len(Image) THEN Image[i + 1] ELSE End
  BY <1>1
<1> HIDE DEF ents
<1>5. n \in 0 .. DirCap /\ Stops(n)
  <2>1. Stops(Len(Image))
    <3>1. ASSUME NEW i \in 0 .. (Len(Image) - 1) PROVE ents[i] # End
      <4>1. i \in 0 .. (DirCap - 1) /\ i + 1 \in 1 .. Len(Image) /\ i < Len(Image)
        BY <1>3, Sizes
      <4>2. Image[i + 1] \in Entries /\ ents[i] = Image[i + 1]
        BY <1>3, <1>4, <4>1
      <4> QED BY <4>2, Records
    <3>2. ents[Len(Image)] = End
      BY <1>3, <1>4, Sizes
    <3> QED BY <3>1, <3>2
  <2>2. Len(Image) \in 0 .. DirCap
    BY <1>3, Sizes
  <2> HIDE DEF Stops
  <2> QED BY <2>1, <2>2
<1> HIDE DEF n
<1>6. ASSUME NEW i \in 0 .. (n - 1)
      PROVE  i + 1 \in DOMAIN Image /\ ents[i] = Image[i + 1] /\ Image[i + 1] \in Entries
  <2>1. i \in 0 .. (DirCap - 1) /\ ents[i] # End /\ i \in Nat
    BY <1>5, Sizes
  <2>2. i < Len(Image) /\ ents[i] = Image[i + 1]
    BY <1>4, <2>1
  <2> QED BY <1>3, <2>1, <2>2
<1> HIDE DEF Of
<1>7. ASSUME NEW f, Of(f) # {}
      PROVE  First(f) \in 0 .. (n - 1) /\ ents[First(f)].name = f
  <2>1. Of(f) \in SUBSET Nat
    BY DEF Of
  <2>2. \E i \in Of(f) : \A j \in Of(f) : i <= j
    BY <1>7, <2>1, Least
  <2>3. First(f) \in Of(f)
    BY <2>2
  <2> QED BY <2>3 DEF Of
<1> HIDE DEF First
<1>8. ASSUME NEW f \in Names, Of(f) # {}
      PROVE  /\ First(f) + 1 \in DOMAIN Image
             /\ Loads(f) \in FileType
             /\ Loads(f).start = Image[First(f) + 1].start /\ Loads(f).size = Image[First(f) + 1].size
             /\ Image[First(f) + 1].name = f
  <2> DEFINE e == ents[First(f)]
  <2>1. First(f) + 1 \in DOMAIN Image /\ e = Image[First(f) + 1] /\ e \in Entries /\ e.name = f
    BY <1>6, <1>7, <1>8
  <2>2. e.start \in Clusters /\ e.size \in Nat
    BY <2>1 DEF Entries
  <2> HIDE DEF e
  <2>3. Loaded(m, TopDir, e) \in FileType /\ Loaded(m, TopDir, e).start = e.start /\ Loaded(m, TopDir, e).size = e.size
    BY <1>1, <2>2 DEF Loaded, NewFile, FileType
  <2> QED BY <2>1, <2>3 DEF e
<1> HIDE DEF Loads
<1>9. top \in FileType /\ top.read = TRUE
  <2>1. n \in Nat
    BY <1>5, Sizes
  <2>2. m.tree[TopDir] \in FileType
    BY <1>1
  <2> QED BY <2>1, <2>2 DEF FileType
<1>10. m.tree \in Tree /\ DOMAIN m.tree = Names \cup {TopDir}
  BY <1>1, Parts DEF Tree
<1> HIDE DEF top
<1>11. ASSUME NEW f \in Names
       PROVE  /\ Of(f) = {} => tree[f] = NoFile
              /\ Of(f) # {} => tree[f] = Loads(f)
  BY <1>1, <1>10, Paths
<1>12. tree \in Tree /\ tree[TopDir] = top
  <2>1. tree = [f \in Names \cup {TopDir} |-> tree[f]]
    BY <1>10
  <2>2. tree[TopDir] = top
    BY <1>10
  <2> HIDE DEF tree
  <2>3. ASSUME NEW f \in Names PROVE tree[f] \in FileType \cup {NoFile}
    BY <1>8, <1>11
  <2> QED BY <1>9, <2>1, <2>2, <2>3 DEF Tree
<1> HIDE DEF tree
<1>13. v \in VolType /\ v.fat = m.fat /\ v.tree = tree
  BY <1>1, <1>2, <1>12 DEF VolType, Tree
<1>14. ASSUME NEW f \in Names, tree[f] # NoFile
       PROVE  /\ First(f) + 1 \in DOMAIN Image /\ Image[First(f) + 1].name = f
              /\ tree[f].start = Image[First(f) + 1].start /\ tree[f].size = Image[First(f) + 1].size
  BY <1>8, <1>11, <1>14
<1>15. Sound(v)
  <2>1. v.fat[Root] # FREE
    BY <1>1, <1>13 DEF Sound
  <2>2. ASSUME NEW f \in Names, v.tree[f] # NoFile PROVE ChainOK(v.fat, v.tree[f].start, v.tree[f].size)
    BY <1>13, <1>14, <2>2, ImageChains DEF m
  <2>3. ASSUME NEW f \in Names, NEW g \in Names, f # g, v.tree[f] # NoFile, v.tree[g] # NoFile
        PROVE  Chain(v.fat, v.tree[f].start) \cap Chain(v.fat, v.tree[g].start) = {}
    <3>1. First(f) + 1 # First(g) + 1
      BY <1>13, <1>14, <2>3
    <3> QED BY <1>13, <1>14, <2>3, <3>1, ImageChains DEF m
  <2> QED BY <2>1, <2>2, <2>3 DEF Sound
<1> QED BY <1>9, <1>12, <1>13, <1>15, Records DEF v

-----------------------------------------------------------------------------
(* The invariant, and what a call on one file may change of the others:     *)
(* the log may get longer.                                                  *)
Inv(v) == v \in VolType /\ Sound(v) /\ v.tree[TopDir] # NoFile /\ v.tree[TopDir].read

Change(v, w, f) ==
  \A g \in Names :
    v.tree[g] # NoFile /\ w.tree[g] # NoFile /\ w.alive /\ Content(v, g) # Content(w, g) =>
      \/ g = f
      \/ g = Log /\ \A k \in 0 .. (v.tree[g].size - 1) : Content(w, g)[k] = Content(v, g)[k]

Keeps(v, w, f) == Inv(w) /\ Change(v, w, f)

(* The first listing of the root establishes the invariant.                 *)
LEMMA InitInv == ListedInit => Inv(vol)
<1> SUFFICES ASSUME ListedInit PROVE Inv(vol)
  OBVIOUS
<1> DEFINE v == ReadChildren(Mounted, TopDir)
<1>1. v \in VolType /\ Sound(v) /\ v.tree[TopDir] # NoFile /\ v.tree[TopDir].read
  BY ListedIs
<1>2. vol = LogInit(v)
  BY DEF ListedInit
<1> HIDE DEF v
<1>3. LogInit(v) \in VolType /\ Sound(LogInit(v)) /\ KeptTop(v, LogInit(v))
  BY <1>1, LogInitIs
<1> QED BY <1>1, <1>2, <1>3 DEF Inv, KeptTop

(* Setting errno or alive keeps everything else.                            *)
LEMMA FlagsIs ==
  ASSUME NEW v \in VolType, Sound(v), NEW w,
         \/ w = v
         \/ \E e \in {"0", "ENOENT", "ENOSPC", "EOVERFLOW", "ENOTEMPTY"} : w = [v EXCEPT !.errno = e]
         \/ w = [v EXCEPT !.alive = FALSE]
  PROVE  /\ w \in VolType /\ Sound(w) /\ KeptTop(v, w)
         /\ w.fat = v.fat /\ w.data = v.data /\ w.tree = v.tree
         /\ \A g \in Names : Kept(v, w, g) /\ (v.tree[g] # NoFile => Content(w, g) = Content(v, g))
<1>1. w \in VolType /\ w.fat = v.fat /\ w.data = v.data /\ w.tree = v.tree
  BY DEF VolType
<1>2. SameTree(v, w)
  BY <1>1 DEF SameTree
<1> QED BY <1>1, <1>2, StaysIs

(* write_dir_entry, as any change that keeps the table, the data and the    *)
(* files.                                                                   *)
LEMMA EntryStays ==
  ASSUME NEW v \in VolType, Sound(v), NEW f \in Names, v.tree[f] # NoFile
  PROVE  /\ WriteEntry(v, f) \in VolType /\ Sound(WriteEntry(v, f)) /\ KeptTop(v, WriteEntry(v, f))
         /\ WriteEntry(v, f).tree = v.tree
         /\ \A g \in Names : /\ Kept(v, WriteEntry(v, f), g)
                             /\ v.tree[g] # NoFile => Content(WriteEntry(v, f), g) = Content(v, g)
<1> DEFINE w == WriteEntry(v, f)
<1>1. w \in VolType /\ w.fat = v.fat /\ w.data = v.data /\ w.tree = v.tree
  BY WriteEntryIs
<1> HIDE DEF w
<1>2. SameTree(v, w)
  BY <1>1 DEF SameTree
<1> QED BY <1>1, <1>2, StaysIs DEF w

(* fat_file_pread                                                           *)
LEMMA PreadIs ==
  ASSUME NEW v \in VolType, Sound(v), NEW f \in Names, v.tree[f] # NoFile, NEW off
  PROVE  /\ Pread(v, f, off) \in VolType /\ Sound(Pread(v, f, off)) /\ KeptTop(v, Pread(v, f, off))
         /\ Pread(v, f, off).tree = v.tree
         /\ \A g \in Names : /\ Kept(v, Pread(v, f, off), g)
                             /\ v.tree[g] # NoFile => Content(Pread(v, f, off), g) = Content(v, g)
<1>1. CASE off > v.tree[f].size
  BY <1>1, FlagsIs DEF Pread
<1>2. CASE ~(off > v.tree[f].size) /\ off = v.tree[f].size
  BY <1>2, FlagsIs DEF Pread
<1>3. CASE ~(off > v.tree[f].size) /\ off # v.tree[f].size
  BY <1>3, EntryStays DEF Pread
<1> QED BY <1>1, <1>2, <1>3

-----------------------------------------------------------------------------
(* A call that fails, or does nothing.                                      *)
LEMMA FlagsKeep ==
  ASSUME NEW v, Inv(v), NEW f, NEW w,
         \/ w = v
         \/ \E e \in {"0", "ENOENT", "ENOSPC", "EOVERFLOW", "ENOTEMPTY"} : w = [v EXCEPT !.errno = e]
         \/ w = [v EXCEPT !.alive = FALSE]
  PROVE  Keeps(v, w, f) /\ w.tree = v.tree
<1>1. v \in VolType /\ Sound(v) /\ v.tree[TopDir] # NoFile /\ v.tree[TopDir].read
  BY DEF Inv
<1>2. /\ w \in VolType /\ Sound(w) /\ KeptTop(v, w) /\ w.tree = v.tree
      /\ \A g \in Names : v.tree[g] # NoFile => Content(w, g) = Content(v, g)
  BY <1>1, FlagsIs
<1> QED BY <1>1, <1>2 DEF Keeps, Inv, Change, KeptTop

(* A function that is Good.                                                 *)
LEMMA GoodKeeps ==
  ASSUME NEW v, Inv(v), NEW f, NEW w, Good(v, w, f)
  PROVE  Keeps(v, w, f)
<1>1. v \in VolType /\ Sound(v) /\ v.tree[TopDir] # NoFile /\ v.tree[TopDir].read
  BY DEF Inv
<1>2. ASSUME NEW g \in Names, g # f, v.tree[g] # NoFile PROVE Content(w, g) = Content(v, g)
  BY <1>1, <1>2, ContentKept DEF Good
<1> QED BY <1>1, <1>2 DEF Keeps, Inv, Change, KeptTop, Good

(* errno is cleared first.                                                  *)
LEMMA ClearedKeeps ==
  ASSUME NEW v, Inv(v), NEW f, NEW w, Keeps([v EXCEPT !.errno = "0"], w, f)
  PROVE  Keeps(v, w, f)
<1> DEFINE u == [v EXCEPT !.errno = "0"]
<1>1. v \in VolType /\ Sound(v)
  BY DEF Inv
<1>2. u.tree = v.tree /\ \A g \in Names : v.tree[g] # NoFile => Content(u, g) = Content(v, g)
  BY <1>1, FlagsIs
<1>3. Keeps(u, w, f)
  OBVIOUS
<1> HIDE DEF u
<1> QED BY <1>2, <1>3 DEF Keeps, Change

(* mknod and mkdir                                                          *)
LEMMA MknodKeeps ==
  ASSUME NEW v, Inv(v), NEW f \in Names, v.tree[f] = NoFile, v.tree[Parent[f]] # NoFile
  PROVE  Keeps(v, MknodIn(v, f), f)
<1>1. v \in VolType /\ Sound(v)
  BY DEF Inv
<1>2. Good(v, MknodIn(v, f), f)
  BY <1>1, MknodInIs DEF Good
<1> QED BY <1>2, GoodKeeps

(* unlink and rmdir                                                         *)
LEMMA RemoveKeeps ==
  ASSUME NEW v, Inv(v), NEW f \in Names, v.tree[f] # NoFile
  PROVE  Keeps(v, Remove(v, f), f)
<1>1. v \in VolType /\ Sound(v)
  BY DEF Inv
<1>2. Good(v, Remove(v, f), f)
  BY <1>1, RemoveIs
<1> QED BY <1>2, GoodKeeps

(* truncate                                                                 *)
LEMMA TruncateKeeps ==
  ASSUME NEW v, Inv(v), NEW f \in Names, v.tree[f] # NoFile, NEW off \in Nat
  PROVE  Keeps(v, TruncateFile(v, f, off), f)
<1>1. v \in VolType /\ Sound(v)
  BY DEF Inv
<1>2. Good(v, TruncateFile(v, f, off), f)
  BY <1>1, TruncateIs
<1> QED BY <1>2, GoodKeeps

(* utime                                                                    *)
LEMMA EntryKeeps ==
  ASSUME NEW v, Inv(v), NEW f \in Names, v.tree[f] # NoFile
  PROVE  Keeps(v, WriteEntry(v, f), f)
<1> DEFINE w == WriteEntry(v, f)
<1>1. v \in VolType /\ Sound(v) /\ v.tree[TopDir] # NoFile /\ v.tree[TopDir].read
  BY DEF Inv
<1>2. /\ w \in VolType /\ Sound(w) /\ KeptTop(v, w)
      /\ \A g \in Names : v.tree[g] # NoFile => Content(w, g) = Content(v, g)
  BY <1>1, EntryStays
<1> HIDE DEF w
<1> QED BY <1>1, <1>2 DEF Keeps, Inv, Change, KeptTop, w

(* read, after errno is cleared: the log gets longer.                       *)
LEMMA ReadKeeps ==
  ASSUME NEW v, Inv(v), NEW f \in Names, v.tree[f] # NoFile, NEW off, NEW w,
         w = Pread(v, f, off) \/ w = LogActivity(Pread(v, f, off))
  PROVE  Keeps(v, w, f)
<1> DEFINE u == Pread(v, f, off)
           l == LogActivity(u)
<1>1. v \in VolType /\ Sound(v) /\ v.tree[TopDir] # NoFile /\ v.tree[TopDir].read
  BY DEF Inv
<1>2. /\ u \in VolType /\ Sound(u) /\ KeptTop(v, u) /\ u.tree = v.tree
      /\ \A g \in Names : v.tree[g] # NoFile => Content(u, g) = Content(v, g)
  BY <1>1, PreadIs
<1> HIDE DEF u
<1>3. /\ l \in VolType /\ Sound(l) /\ KeptTop(u, l)
      /\ l.alive => u.tree[Log] # NoFile
      /\ u.tree[Log] # NoFile => Writes(u, l, Log) /\ Appends(u, l)
  BY <1>2, LogActivityIs
<1> HIDE DEF l
<1>4. Keeps(v, u, f)
  BY <1>1, <1>2 DEF Keeps, Inv, Change, KeptTop
<1>5. Inv(l)
  BY <1>1, <1>2, <1>3 DEF Inv, KeptTop
<1>6. Change(v, l, f)
  <2> SUFFICES ASSUME NEW g \in Names, v.tree[g] # NoFile, l.alive, Content(v, g) # Content(l, g)
               PROVE  g = Log /\ \A k \in 0 .. (v.tree[g].size - 1) : Content(l, g)[k] = Content(v, g)[k]
    BY DEF Change
  <2>1. Writes(u, l, Log) /\ Appends(u, l) /\ u.tree[Log] # NoFile
    BY <1>3
  <2>2. g = Log
    BY <1>2, <2>1 DEF Writes
  <2> QED BY <1>2, <2>1, <2>2 DEF Appends
<1> QED BY <1>4, <1>5, <1>6 DEF Keeps, u, l

(* write: the log gets longer and then the file changes.                    *)
LEMMA WriteKeeps ==
  ASSUME NEW v, Inv(v), NEW f \in Names, v.tree[f] # NoFile, NEW off \in Nat, off <= v.tree[f].size,
         NEW n \in Nat, NEW x \in Vals
  PROVE  /\ ~LogActivity(v).alive => Keeps(v, LogActivity(v), f)
         /\ LogActivity(v).alive => Keeps(v, Pwrite(LogActivity(v), f, off, n, x), f)
<1> DEFINE u == LogActivity(v)
           w == Pwrite(u, f, off, n, x)
<1>1. v \in VolType /\ Sound(v) /\ v.tree[TopDir] # NoFile /\ v.tree[TopDir].read
  BY DEF Inv
<1>2. /\ u \in VolType /\ Sound(u) /\ KeptTop(v, u)
      /\ u.alive => v.tree[Log] # NoFile
      /\ v.tree[Log] # NoFile => Writes(v, u, Log) /\ Appends(v, u)
  BY <1>1, LogActivityIs
<1> HIDE DEF u
<1>3. Inv(u)
  BY <1>1, <1>2 DEF Inv, KeptTop
<1>4. ASSUME ~u.alive PROVE Keeps(v, u, f)
  BY <1>3, <1>4 DEF Keeps, Change
<1>5. ASSUME u.alive PROVE Keeps(v, w, f)
  <2>1. v.tree[Log] # NoFile /\ Writes(v, u, Log) /\ Appends(v, u)
    BY <1>2, <1>5
  <2>2. u.tree[f] # NoFile /\ off <= u.tree[f].size
    <3>1. u.tree[f] # NoFile /\ u.tree[f].size >= v.tree[f].size
      BY <2>1 DEF Writes
    <3>2. u.tree[f].size \in Nat /\ v.tree[f].size \in Nat
      BY <1>1, <1>2, <3>1, Parts
    <3> QED BY <3>1, <3>2
  <2>3. w \in VolType /\ Sound(w) /\ KeptTop(u, w)
    BY <1>2, <2>2, PwriteIs
  <2>4. \A g \in Names : g # f /\ u.tree[g] # NoFile => Content(w, g) = Content(u, g)
    BY <1>2, <2>2, PwriteContent
  <2> HIDE DEF w
  <2>5. Inv(w)
    BY <1>3, <2>3 DEF Inv, KeptTop
  <2>6. ASSUME NEW g \in Names, v.tree[g] # NoFile, g # f
        PROVE  /\ g # Log => Content(w, g) = Content(v, g)
               /\ g = Log => \A k \in 0 .. (v.tree[g].size - 1) : Content(w, g)[k] = Content(v, g)[k]
    <3>1. u.tree[g] # NoFile /\ Content(w, g) = Content(u, g)
      BY <2>1, <2>4, <2>6 DEF Writes
    <3> QED BY <2>1, <2>6, <3>1 DEF Writes, Appends
  <2>7. Change(v, w, f)
    BY <2>6 DEF Change
  <2> QED BY <2>5, <2>7 DEF Keeps
<1> QED BY <1>4, <1>5 DEF u, w

-----------------------------------------------------------------------------
(* Every call keeps the invariant, and of the other files changes only the  *)
(* end of the log.                                                          *)
LEMMA NextKeeps == FatInv /\ Next => Keeps(vol, vol', call'.file)
<1> SUFFICES ASSUME FatInv, Next PROVE Keeps(vol, vol', call'.file)
  OBVIOUS
<1>1. Inv(vol) /\ vol.tree[TopDir].read
  BY DEF FatInv, Inv
<1>2. Cleared = [vol EXCEPT !.errno = "0"] /\ Inv(Cleared) /\ Cleared.tree = vol.tree
  BY <1>1, FlagsKeep DEF Keeps, Cleared
<1>3. Listed(TopDir) = Cleared
  BY <1>1 DEF Listed
<1>4. ASSUME NEW f, NEW w, Keeps(Cleared, w, f) PROVE Keeps(vol, w, f)
  BY <1>1, <1>2, <1>4, ClearedKeeps
<1>5. CASE Readdir(TopDir)
  <2>1. vol' = Cleared
    BY <1>3, <1>5 DEF Readdir, Step
  <2> QED BY <1>1, <1>2, <2>1, FlagsKeep
<1>6. CASE ReaddirOverflow(TopDir)
  <2>1. vol' = [Cleared EXCEPT !.alive = FALSE]
    BY <1>3, <1>6 DEF ReaddirOverflow, Step
  <2> QED BY <1>2, <1>4, <2>1, FlagsKeep
<1>7. ASSUME NEW f \in Names, Getattr(f) PROVE Keeps(vol, vol', call'.file)
  <2>1. vol' = vol \/ vol' = [vol EXCEPT !.errno = "ENOENT"]
    BY <1>7 DEF Getattr, Step
  <2> QED BY <1>1, <2>1, FlagsKeep
<1>8. ASSUME NEW f \in Names, Mknod(f) PROVE Keeps(vol, vol', call'.file)
  <2>1. vol' = MknodIn(vol, f) /\ call'.file = f /\ vol.tree[f] = NoFile /\ vol.tree[Parent[f]] # NoFile
    BY <1>8 DEF Mknod, Step
  <2> QED BY <1>1, <2>1, MknodKeeps
<1>9. ASSUME NEW f \in Names, Mkdir(f) PROVE Keeps(vol, vol', call'.file)
  <2>1. vol' = MknodIn(vol, f) /\ call'.file = f /\ vol.tree[f] = NoFile /\ Parent[f] = TopDir
    BY <1>9, Paths DEF Mkdir, Step
  <2>2. vol.tree[Parent[f]] # NoFile
    BY <1>1, <2>1 DEF Inv
  <2> QED BY <1>1, <2>1, <2>2, MknodKeeps
<1>10. ASSUME NEW f \in Names, Unlink(f) PROVE Keeps(vol, vol', call'.file)
  <2>1. vol' = Remove(Cleared, f) /\ call'.file = f /\ vol.tree[f] # NoFile
    BY <1>10 DEF Unlink, Step, There
  <2> QED BY <1>2, <1>4, <2>1, RemoveKeeps
<1>11. ASSUME NEW f \in Names, Rmdir(f) PROVE Keeps(vol, vol', call'.file)
  <2>1. /\ vol' = Remove(Cleared, f) \/ vol' = [vol EXCEPT !.errno = "ENOTEMPTY"]
        /\ call'.file = f /\ vol.tree[f] # NoFile
    BY <1>11 DEF Rmdir, Step, There
  <2>2. CASE vol' = Remove(Cleared, f)
    BY <1>2, <1>4, <2>1, <2>2, RemoveKeeps
  <2>3. CASE vol' = [vol EXCEPT !.errno = "ENOTEMPTY"]
    BY <1>1, <2>3, FlagsKeep
  <2> QED BY <2>1, <2>2, <2>3
<1>12. ASSUME NEW f \in Names, Utime(f) PROVE Keeps(vol, vol', call'.file)
  <2>1. vol' = WriteEntry(Cleared, f) /\ call'.file = f /\ vol.tree[f] # NoFile
    BY <1>12 DEF Utime, Step, There
  <2> QED BY <1>2, <1>4, <2>1, EntryKeeps
<1>13. ASSUME NEW f \in Names, NEW off \in Offs, Truncate(f, off) PROVE Keeps(vol, vol', call'.file)
  <2>1. /\ vol' = Cleared \/ vol' = TruncateFile(Cleared, f, off)
        /\ call'.file = f /\ vol.tree[f] # NoFile
    BY <1>13 DEF Truncate, Step, There
  <2>2. off \in Nat
    BY ImageAssumption
  <2>3. CASE vol' = Cleared
    BY <1>1, <1>2, <2>3, FlagsKeep
  <2>4. CASE vol' = TruncateFile(Cleared, f, off)
    BY <1>2, <1>4, <2>1, <2>2, <2>4, TruncateKeeps
  <2> QED BY <2>1, <2>3, <2>4
<1>14. ASSUME NEW f \in Names, NEW off \in Offs, NEW n \in Lens, Read(f, off, n)
       PROVE  Keeps(vol, vol', call'.file)
  <2>1. /\ vol' = Pread(Cleared, f, off) \/ vol' = LogActivity(Pread(Cleared, f, off))
        /\ call'.file = f /\ vol.tree[f] # NoFile
    BY <1>14 DEF Read, Step, There
  <2>2. Keeps(Cleared, vol', f)
    BY <1>2, <2>1, ReadKeeps
  <2> QED BY <1>4, <2>1, <2>2
<1>15. ASSUME NEW f \in Names, NEW off \in Offs, NEW n \in Lens, NEW x \in Vals, Write(f, off, n, x)
       PROVE  Keeps(vol, vol', call'.file)
  <2>1. /\ vol' = IF LogActivity(vol).alive THEN Pwrite(LogActivity(vol), f, off, n, x)
                  ELSE LogActivity(vol)
        /\ call'.file = f /\ vol.tree[f] # NoFile /\ off <= vol.tree[f].size
    BY <1>15 DEF Write, Step, There
  <2>2. off \in Nat /\ n \in Nat
    BY ImageAssumption
  <2> QED BY <1>1, <2>1, <2>2, WriteKeeps
<1> QED BY <1>5, <1>6, <1>7, <1>8, <1>9, <1>10, <1>11, <1>12, <1>13, <1>14, <1>15 DEF Next

(* The invariant holds of every volume that is listed after it is mounted.  *)
THEOREM Invariance == Spec => []FatInv
<1>1. ListedInit => FatInv
  BY InitInv DEF FatInv, Inv
<1>2. FatInv /\ [Next]_vars => FatInv'
  <2> SUFFICES ASSUME FatInv, [Next]_vars PROVE FatInv'
    OBVIOUS
  <2>1. CASE Next
    BY <2>1, NextKeeps DEF FatInv, Keeps, Inv
  <2>2. CASE UNCHANGED vars
    BY <2>2 DEF FatInv, vars, Sound
  <2> QED BY <2>1, <2>2
<1> QED BY <1>1, <1>2, PTL DEF Spec

(* The volume always has its types: among them every link of the table is a *)
(* cluster, the end mark or free, and every first cluster is a cluster.     *)
THEOREM TypeCorrect == Spec => [](vol \in VolType)
<1>1. FatInv => vol \in VolType
  BY DEF FatInv
<1> QED BY <1>1, Invariance, PTL

(* No two files share a cluster, no file has a free cluster or the root's,  *)
(* and every chain ends.                                                    *)
THEOREM ChainsNeverShared == Spec => []ChainsDisjoint
<1>1. FatInv => ChainsDisjoint
  <2> SUFFICES ASSUME FatInv PROVE ChainsDisjoint
    OBVIOUS
  <2>1. vol \in VolType /\ Sound(vol)
    BY DEF FatInv
  <2>2. ASSUME NEW f \in Files
        PROVE  /\ Root \notin ChainOf(f)
               /\ \A c \in ChainOf(f) : vol.fat[c] # FREE
               /\ \E c \in ChainOf(f) : vol.fat[c] = EOC
    <3> DEFINE s == vol.tree[f].start
               L == Length(vol.fat, s)
               c == SeekCluster(vol.fat, s, L - 1)
    <3>1. /\ s \in Clusters /\ Ends(vol.fat, s) /\ vol.fat \in Table
          /\ \A d \in Chain(vol.fat, s) : d # Root /\ vol.fat[d] # FREE
      BY <2>1, FileIs DEF Files
    <3> HIDE DEF s
    <3>2. /\ L \in 1 .. N
          /\ \A k \in 0 .. (L - 1) : SeekCluster(vol.fat, s, k) \in Clusters
          /\ \A k \in Nat : k >= L => SeekCluster(vol.fat, s, k) = EOC
          /\ Chain(vol.fat, s) = {SeekCluster(vol.fat, s, k) : k \in 0 .. (L - 1)}
      BY <3>1, ChainIs
    <3> HIDE DEF L
    <3>3. L - 1 \in Nat /\ (L - 1) + 1 = L /\ L - 1 \in 0 .. (L - 1) /\ L \in Nat /\ L >= L
      BY <3>2, Sizes
    <3>4. c \in Chain(vol.fat, s) /\ c \in Clusters
      BY <3>2, <3>3
    <3>5. SeekCluster(vol.fat, s, (L - 1) + 1) = After(vol.fat, c)
      BY <3>3, SeekSteps
    <3>6. After(vol.fat, c) = EOC
      BY <3>2, <3>3, <3>5
    <3> HIDE DEF c
    <3>7. vol.fat[c] \notin Clusters
      BY <3>4, <3>6, Sizes DEF After, GetNext
    <3>8. vol.fat[c] = EOC
      BY <3>1, <3>4, <3>7 DEF Table
    <3> QED BY <3>1, <3>4, <3>8 DEF ChainOf, s
  <2>3. \A f, g \in Files : f # g => ChainOf(f) \cap ChainOf(g) = {}
    BY <2>1 DEF Sound, Files, ChainOf
  <2> QED BY <2>2, <2>3 DEF ChainsDisjoint
<1> QED BY <1>1, Invariance, PTL

(* The size of a file never says more than its clusters hold.               *)
THEOREM SizesFit == Spec => []SizeFits
<1>1. FatInv => SizeFits
  BY FileIs DEF FatInv, SizeFits, Files, ChainOf, Length
<1> QED BY <1>1, Invariance, PTL

(* A call changes the contents of no file but the one it names, and the log *)
(* only by adding to its end.                                               *)
THEOREM CallsKeepOthers == Spec => OthersUntouched
<1> DEFINE A == \A f \in Files :
                  vol'.alive /\ vol'.tree[f] # NoFile /\ Content(vol, f) # Content(vol', f) =>
                    \/ f = call'.file
                    \/ f = Log /\ \A k \in DOMAIN Content(vol, f) : Content(vol', f)[k] = Content(vol, f)[k]
<1>1. FatInv /\ [Next]_vars => [A]_vars
  <2> SUFFICES ASSUME FatInv, Next PROVE A
    OBVIOUS
  <2>1. Change(vol, vol', call'.file)
    BY NextKeeps DEF Keeps
  <2>2. \A f \in Files : f \in Names /\ vol.tree[f] # NoFile /\ DOMAIN Content(vol, f) = 0 .. (vol.tree[f].size - 1)
    BY DEF Files, Content
  <2> QED BY <2>1, <2>2 DEF Change
<1> HIDE DEF A
<1>2. [][A]_vars => OthersUntouched
  BY DEF OthersUntouched, A
<1> QED BY <1>1, <1>2, Invariance, PTL DEF Spec

(* A write with errno clear returns all it was asked for or what there is   *)
(* room for in the file's clusters, whichever is less: the access that is   *)
(* logged before it leaves errno clear, and a seek to an offset that is not *)
(* past the size never fails.                                               *)
THEOREM WritesShortOnlyAtEnd == Spec => ShortOnlyAtEnd
<1> DEFINE A == call'.op = "write" /\ vol'.alive /\ vol.errno = "0" =>
                  call'.ret = Minimum(call'.len, B * Cardinality(ChainOf(call'.file)) - call'.off)
<1>1. FatInv /\ [Next]_vars => [A]_vars
  <2> SUFFICES ASSUME FatInv, Next, call'.op = "write", vol'.alive, vol.errno = "0"
               PROVE  call'.ret = Minimum(call'.len, B * Cardinality(ChainOf(call'.file)) - call'.off)
    OBVIOUS
  <2>1. PICK f \in Names, off \in Offs, n \in Lens, x \in Vals : Write(f, off, n, x)
    BY DEF Next, Readdir, ReaddirOverflow, Getattr, Mknod, Mkdir, Unlink, Rmdir, Utime, Truncate, Read, Step
  <2> DEFINE v == LogActivity(vol)
  <2>2. /\ vol.tree[f] # NoFile /\ off <= vol.tree[f].size
        /\ vol' = IF v.alive THEN Pwrite(v, f, off, n, x) ELSE v
        /\ call' = [op |-> "write", file |-> f, off |-> off, len |-> n,
                    ret |-> IF v.alive THEN Written(v, f, off, n) ELSE 0]
    BY <2>1 DEF Write, Step, There
  <2>3. vol \in VolType /\ Sound(vol) /\ off \in Nat
    BY ImageAssumption DEF FatInv
  <2>4. /\ v \in VolType /\ Sound(v)
        /\ v.alive => vol.tree[Log] # NoFile
        /\ vol.tree[Log] # NoFile => Writes(vol, v, Log)
    BY <2>3, LogActivityIs
  <2> HIDE DEF v
  <2>5. v.alive
    BY <2>2
  <2>6. /\ v.fat = vol.fat /\ v.errno = "0" /\ v.tree[f] # NoFile
        /\ v.tree[f].start = vol.tree[f].start /\ v.tree[f].size >= vol.tree[f].size
    BY <2>2, <2>4, <2>5 DEF Writes
  <2>7. off <= v.tree[f].size
    <3>1. v.tree[f].size \in Nat /\ vol.tree[f].size \in Nat
      BY <2>2, <2>3, <2>4, <2>6, Parts
    <3> QED BY <2>2, <2>3, <2>6, <3>1
  <2>8. SeekErrno(v, f, off) = "0"
    BY <2>3, <2>4, <2>6, <2>7, SeekErrnoIs
  <2>9. Written(v, f, off, n) = Minimum(n, Room(v, f, off))
    BY <2>8 DEF Written
  <2>10. Room(v, f, off) = B * Cardinality(ChainOf(f)) - off
    BY <2>6 DEF Room, ChainOf
  <2>11. call'.ret = Written(v, f, off, n) /\ call'.len = n /\ call'.file = f /\ call'.off = off
    BY <2>2, <2>5
  <2> QED BY <2>9, <2>10, <2>11
<1> HIDE DEF A
<1>2. [][A]_vars => ShortOnlyAtEnd
  BY DEF ShortOnlyAtEnd, A
<1> QED BY <1>1, <1>2, Invariance, PTL DEF Spec
===============================================================================
