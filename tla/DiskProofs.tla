-------------------------------- MODULE DiskProofs --------------------------------
(***************************************************************************)
(* Theorems of module Disk, for any number of processes, blocks, buffers    *)
(* and descriptors and for counters of any width, proved from               *)
(* DiskAssumption.  DiskInv is inductive: it says which process has which   *)
(* buffer, where each request is on its way to the device and back, and     *)
(* where the last write of each block is.                                   *)
(*                                                                          *)
(* First what the operators do: the first of a set, counters modulo IdxMod, *)
(* the two rings.  Then what a step leaves alone, one lemma for each step,  *)
(* and the theorems.                                                        *)
(***************************************************************************)
EXTENDS Disk, FiniteSetTheorems, SequenceTheorems, TLAPS

(* What the proofs need to know of the constants.                           *)
LEMMA Sizes ==
  /\ NBUF \in Nat /\ NUM \in Nat /\ NUM >= 3 /\ IdxMod \in Nat \ {0} /\ IdxMod % NUM = 0
  /\ Before \in 0 .. (IdxMod - 1) /\ Nil \notin Users /\ Nil \notin DBlocks /\ Nil \notin Bufs
  /\ 0 \in Descs /\ Descs \subseteq Nat /\ Bufs \subseteq Nat
BY DiskAssumption DEF Nil, Bufs, Descs

(* The sets are finite.                                                     *)
LEMMA Finite ==
  /\ \A S \in SUBSET Users : IsFiniteSet(S) /\ Cardinality(S) \in Nat
  /\ \A S \in SUBSET DBlocks : IsFiniteSet(S) /\ Cardinality(S) \in Nat
  /\ \A S \in SUBSET Descs : IsFiniteSet(S) /\ Cardinality(S) \in Nat
  /\ \A S \in SUBSET Bufs : IsFiniteSet(S) /\ Cardinality(S) \in Nat
  /\ Cardinality(Bufs) = NBUF /\ Cardinality(Descs) = NUM
<1>1. IsFiniteSet(Users) /\ IsFiniteSet(DBlocks)
  BY DiskAssumption
<1>2. IsFiniteSet(Descs) /\ Cardinality(Descs) = NUM
  BY Sizes, FS_Interval DEF Descs
<1>3. IsFiniteSet(Bufs) /\ Cardinality(Bufs) = NBUF
  BY Sizes, FS_Interval DEF Bufs
<1> QED BY <1>1, <1>2, <1>3, FS_Subset, FS_CardinalityType

(* Min of a set of natural numbers is one of them.                          *)
LEMMA MinIn ==
  ASSUME NEW S \in SUBSET Nat, S # {}
  PROVE  Min(S) \in S /\ \A y \in S : Min(S) <= y
<1>1. PICK x \in S : \A y \in S : ~(<<y, x>> \in OpToRel(<, Nat))
  BY NatLessThanWellFounded, WFMin
<1>2. ASSUME NEW y \in S PROVE x <= y
  <2>1. <<y, x>> \in Nat \X Nat /\ ~(<<y, x>> \in OpToRel(<, Nat))
    BY <1>1
  <2>2. ~(y < x)
    BY <2>1 DEF OpToRel
  <2> QED BY <2>2
<1> QED BY <1>2 DEF Min

(* Max of a set of numbers up to n is one of them.                          *)
LEMMA MaxIn ==
  ASSUME NEW n \in Nat, NEW S \in SUBSET (1 .. n), S # {}
  PROVE  Max(S) \in S
<1> DEFINE T == {n - x : x \in S}
<1>1. T \in SUBSET Nat /\ T # {}
  OBVIOUS
<1>2. Min(T) \in T /\ \A y \in T : Min(T) <= y
  <2> HIDE DEF T
  <2> QED BY <1>1, MinIn
<1>3. PICK x \in S : Min(T) = n - x
  BY <1>2
<1>4. ASSUME NEW y \in S PROVE x >= y
  <2>1. n - y \in T
    OBVIOUS
  <2>2. n - x <= n - y
    BY <1>2, <1>3, <2>1
  <2> QED BY <2>2
<1> QED BY <1>4 DEF Max

-----------------------------------------------------------------------------
(* Arithmetic modulo m.                                                     *)
LEMMA ModSmall ==
  ASSUME NEW m \in Nat \ {0}, NEW a \in 0 .. (2 * m - 1)
  PROVE  a % m = IF a < m THEN a ELSE a - m
OBVIOUS

(* Quotient and remainder, and that they are unique.                        *)
LEMMA ModIn ==
  ASSUME NEW m \in Nat \ {0}, NEW a \in Int
  PROVE  a % m \in 0 .. (m - 1) /\ a \div m \in Int /\ a = m * (a \div m) + (a % m)
OBVIOUS

(* There is one way to write a number as quotient and remainder.            *)
LEMMA ModUnique ==
  ASSUME NEW m \in Nat \ {0}, NEW q \in Int, NEW s \in Int,
         NEW r \in 0 .. (m - 1), NEW t \in 0 .. (m - 1), m * q + r = m * s + t
  PROVE  q = s /\ r = t
OBVIOUS

(* Numbers less than m apart that are equal modulo m are equal.             *)
LEMMA ModApart ==
  ASSUME NEW m \in Nat \ {0}, NEW x \in Nat, NEW a \in 0 .. (m - 1), NEW c \in 0 .. (m - 1),
         (x + a) % m = (x + c) % m
  PROVE  a = c
<1>1. x + a = m * ((x + a) \div m) + ((x + a) % m) /\ (x + a) \div m \in Int
  BY ModIn
<1>2. x + c = m * ((x + c) \div m) + ((x + c) % m) /\ (x + c) \div m \in Int
  BY ModIn
<1> DEFINE q == (x + a) \div m
           s == (x + c) \div m
<1>3. m * q + c = m * s + a
  BY <1>1, <1>2
<1> HIDE DEF q, s
<1>4. q \in Int /\ s \in Int
  BY <1>1, <1>2 DEF q, s
<1> QED BY <1>3, <1>4, ModUnique

(* A counter that is one up.                                                *)
LEMMA NextIdx ==
  ASSUME NEW x \in 0 .. (IdxMod - 1)
  PROVE  /\ (x + 1) % IdxMod = IF x + 1 < IdxMod THEN x + 1 ELSE x + 1 - IdxMod
         /\ (x + 1) % IdxMod \in 0 .. (IdxMod - 1)
<1>1. IdxMod \in Nat \ {0} /\ x + 1 \in 0 .. (2 * IdxMod - 1)
  BY Sizes
<1>2. (x + 1) % IdxMod = IF x + 1 < IdxMod THEN x + 1 ELSE x + 1 - IdxMod
  <2>1. \A y \in 0 .. (2 * IdxMod - 1) : y % IdxMod = IF y < IdxMod THEN y ELSE y - IdxMod
    BY <1>1, ModSmall
  <2> QED BY <1>1, <2>1
<1> QED BY <1>1, <1>2

(* Where the entry with number x of a ring is.  The counters wrap at a      *)
(* multiple of the ring's size.                                             *)
Slot(x) == (x % IdxMod) % NUM

(* The ring is read at idx % NUM, and wrapping idx at IdxMod does not move  *)
(* the entry, since NUM divides IdxMod.                                     *)
LEMMA WrapKeepsSlot ==
  ASSUME NEW x \in 0 .. (2 * IdxMod - 1)
  PROVE  Slot(x) = x % NUM
<1> DEFINE d == IdxMod \div NUM
<1>1. d \in Int /\ IdxMod = NUM * d
  BY ModIn, Sizes
<1>2. CASE x < IdxMod
  BY <1>2, ModSmall, Sizes DEF Slot
<1>3. CASE x >= IdxMod
  <2>1. x % IdxMod = x - IdxMod /\ x - IdxMod \in Int /\ x \in Int
    <3>1. x \in Int /\ IdxMod \in Nat \ {0} /\ x \in 0 .. (2 * IdxMod - 1)
      BY Sizes
    <3>2. x % IdxMod = x - IdxMod
      BY <1>3, <3>1, ModSmall
    <3> QED BY <3>1, <3>2
  <2> DEFINE q == (x - IdxMod) \div NUM
             r == (x - IdxMod) % NUM
             s == x \div NUM
             t == x % NUM
  <2>2. /\ q \in Int /\ s \in Int /\ r \in 0 .. (NUM - 1) /\ t \in 0 .. (NUM - 1)
        /\ x - IdxMod = NUM * q + r /\ x = NUM * s + t
    BY <2>1, ModIn, Sizes
  <2> HIDE DEF d, q, r, s, t
  <2>3. NUM * (q + d) + r = NUM * s + t
    BY <1>1, <2>1, <2>2, Sizes
  <2>4. r = t
    <3> DEFINE u == q + d
    <3>1. u \in Int /\ NUM * u + r = NUM * s + t
      BY <1>1, <2>2, <2>3
    <3> HIDE DEF u
    <3> QED BY <2>2, <3>1, ModUnique, Sizes
  <2> QED BY <2>1, <2>4 DEF r, t, Slot
<1> QED BY <1>2, <1>3, Sizes

(* Slots of numbers less than NUM apart differ.                             *)
LEMMA SlotsApart ==
  ASSUME NEW x \in 0 .. (IdxMod - 1), NEW a \in 0 .. (NUM - 1), NEW c \in 0 .. (NUM - 1),
         a < IdxMod, c < IdxMod, Slot(x + a) = Slot(x + c)
  PROVE  a = c
<1>1. x + a \in 0 .. (2 * IdxMod - 1) /\ x + c \in 0 .. (2 * IdxMod - 1)
  BY Sizes
<1>2. (x + a) % NUM = (x + c) % NUM
  BY <1>1, WrapKeepsSlot
<1>3. x \in Nat /\ NUM \in Nat \ {0}
  BY Sizes
<1> QED BY <1>2, <1>3, ModApart

-----------------------------------------------------------------------------
(* The rings.  idx is as many entries behind the first as are waiting.      *)
LEMMA WaitingIs ==
  ASSUME NEW q \in RingType, NEW f \in 0 .. (IdxMod - 1)
  PROVE  /\ Waiting(q, f) = IF q.idx >= f THEN q.idx - f ELSE q.idx - f + IdxMod
         /\ Waiting(q, f) \in 0 .. (IdxMod - 1)
         /\ Waiting(q, f) = 0 <=> q.idx = f
<1>1. q.idx \in 0 .. (IdxMod - 1)
  BY DEF RingType
<1> DEFINE x == q.idx - f + IdxMod
<1>2. x \in 0 .. (2 * IdxMod - 1)
  BY <1>1, Sizes
<1>3. x % IdxMod = IF x < IdxMod THEN x ELSE x - IdxMod
  BY <1>2, ModSmall, Sizes
<1>4. Waiting(q, f) = IF q.idx >= f THEN q.idx - f ELSE q.idx - f + IdxMod
  BY <1>1, <1>3, Sizes DEF Waiting
<1> QED BY <1>1, <1>4, Sizes

(* An entry is a descriptor.                                                *)
LEMMA EntryIn ==
  ASSUME NEW q \in RingType, NEW f \in 0 .. (IdxMod - 1), NEW k \in Nat
  PROVE  EntryAt(q, f, k) = q.ring[Slot(f + k)] /\ Slot(f + k) \in Descs /\ EntryAt(q, f, k) \in Descs
<1>1. (f + k) % IdxMod \in Int
  BY ModIn, Sizes
<1>2. Slot(f + k) \in Descs
  BY <1>1, ModIn, Sizes DEF Slot, Descs
<1> QED BY <1>2 DEF EntryAt, Slot, RingType

(* The driver, or the device, puts i into a ring that has room.             *)
Put(q, i) == [ring |-> [q.ring EXCEPT ![q.idx % NUM] = i], idx |-> (q.idx + 1) % IdxMod]

(* An index put into a ring with room adds one entry and leaves the others. *)
LEMMA RingPut ==
  ASSUME NEW q \in RingType, NEW f \in 0 .. (IdxMod - 1), NEW i \in Descs,
         Distinct(q, f), i \notin Entries(q, f), Waiting(q, f) + 1 < NUM, NUM <= IdxMod
  PROVE  /\ Put(q, i) \in RingType
         /\ Entries(Put(q, i), f) = Entries(q, f) \cup {i}
         /\ Distinct(Put(q, i), f)
<1> DEFINE r == Put(q, i)
           w == Waiting(q, f)
<1>1. q.idx \in 0 .. (IdxMod - 1) /\ w \in 0 .. (IdxMod - 1) /\ w \in Nat /\ w + 1 < NUM /\ w + 1 < IdxMod
  BY WaitingIs, Sizes DEF RingType
<1>2. /\ (q.idx + 1) % IdxMod = IF q.idx + 1 < IdxMod THEN q.idx + 1 ELSE q.idx + 1 - IdxMod
      /\ (q.idx + 1) % IdxMod \in 0 .. (IdxMod - 1)
  BY <1>1, NextIdx
<1>3. q.idx % NUM \in Descs
  <2>1. q.idx \in Int /\ NUM \in Nat \ {0}
    BY <1>1, Sizes
  <2> QED BY <2>1, ModIn DEF Descs
<1>4. r \in RingType /\ r.idx = (q.idx + 1) % IdxMod /\ r.ring = [q.ring EXCEPT ![q.idx % NUM] = i]
  <2> QED BY <1>2, <1>3 DEF Put, RingType
<1>5. Waiting(r, f) = w + 1
  <2>1. r.idx = IF q.idx + 1 < IdxMod THEN q.idx + 1 ELSE q.idx + 1 - IdxMod
    BY <1>2, <1>4
  <2>2. Waiting(r, f) = IF r.idx >= f THEN r.idx - f ELSE r.idx - f + IdxMod
    BY <1>4, WaitingIs
  <2>3. w = IF q.idx >= f THEN q.idx - f ELSE q.idx - f + IdxMod
    BY WaitingIs
  <2>4. q.idx \in Int /\ IdxMod \in Int /\ f \in 0 .. (IdxMod - 1) /\ w + 1 < IdxMod /\ q.idx < IdxMod /\ 0 <= q.idx
    BY <1>1, Sizes
  <2> DEFINE x == q.idx
             v == Waiting(r, f)
             z == r.idx
  <2> HIDE DEF r, w, x, v, z
  <2>5. z = (IF x + 1 < IdxMod THEN x + 1 ELSE x + 1 - IdxMod) /\ v = (IF z >= f THEN z - f ELSE z - f + IdxMod)
    BY <2>1, <2>2 DEF x, v, z
  <2>6. /\ x \in Int /\ IdxMod \in Int /\ f \in 0 .. (IdxMod - 1) /\ w + 1 < IdxMod /\ x < IdxMod /\ 0 <= x
        /\ w = (IF x >= f THEN x - f ELSE x - f + IdxMod)
    BY <2>3, <2>4 DEF x
  <2>7. v = w + 1
    BY <2>5, <2>6
  <2> QED BY <2>7 DEF v
<1>6. q.idx % NUM = Slot(f + w)
  <2>1. w = IF q.idx >= f THEN q.idx - f ELSE q.idx - f + IdxMod
    BY WaitingIs
  <2> DEFINE x == f + w
  <2>2. x \in 0 .. (2 * IdxMod - 1) /\ (x = q.idx \/ x = q.idx + IdxMod)
    BY <1>1, <2>1, Sizes
  <2>3. x % IdxMod = IF x < IdxMod THEN x ELSE x - IdxMod
    BY <2>2, ModSmall, Sizes
  <2>4. x % IdxMod = q.idx
    <3> HIDE DEF x
    <3> QED BY <1>1, <2>2, <2>3, Sizes
  <2> QED BY <2>4 DEF Slot
<1>7. EntryAt(r, f, w) = i
  <2>1. EntryAt(r, f, w) = r.ring[Slot(f + w)]
    BY <1>1, <1>4, EntryIn
  <2> QED BY <2>1, <1>3, <1>4, <1>6 DEF RingType
<1>8. ASSUME NEW k \in 0 .. (w - 1) PROVE EntryAt(r, f, k) = EntryAt(q, f, k)
  <2>1. k \in 0 .. (NUM - 1) /\ w \in 0 .. (NUM - 1) /\ k < IdxMod /\ w < IdxMod /\ k # w /\ k \in Nat
    <3> HIDE DEF w
    <3> QED BY <1>1, Sizes
  <2>2. Slot(f + k) # Slot(f + w)
    BY <2>1, SlotsApart
  <2>3. EntryAt(r, f, k) = r.ring[Slot(f + k)] /\ EntryAt(q, f, k) = q.ring[Slot(f + k)] /\ Slot(f + k) \in Descs
    BY ZenonT(30), <1>4, <2>1, EntryIn
  <2> QED BY <1>4, <1>6, <2>2, <2>3 DEF RingType
<1>9. Entries(r, f) = Entries(q, f) \cup {i}
  <2> HIDE DEF r
  <2>1. Entries(r, f) = {EntryAt(r, f, k) : k \in 0 .. w}
    BY <1>1, <1>5 DEF Entries
  <2>2. 0 .. w = (0 .. (w - 1)) \cup {w}
    <3> HIDE DEF w
    <3> QED BY <1>1
  <2> QED BY <1>7, <1>8, <2>1, <2>2 DEF Entries
<1>10. Distinct(r, f)
  <2> SUFFICES ASSUME NEW k \in 0 .. w, NEW l \in 0 .. w, EntryAt(r, f, k) = EntryAt(r, f, l)
               PROVE  k = l
    <3> HIDE DEF r, w
    <3> QED BY <1>1, <1>5 DEF Distinct
  <2>1. (k \in 0 .. (w - 1) \/ k = w) /\ (l \in 0 .. (w - 1) \/ l = w)
    <3> HIDE DEF w
    <3> QED BY <1>1
  <2>2. ASSUME NEW m \in 0 .. (w - 1) PROVE EntryAt(r, f, m) # i
    BY <1>8 DEF Entries
  <2> HIDE DEF r
  <2> QED BY <1>7, <1>8, <2>1, <2>2 DEF Distinct
<1> QED BY <1>4, <1>9, <1>10

(* The device, or the interrupt, takes the first entry that waits.          *)
LEMMA RingTake ==
  ASSUME NEW q \in RingType, NEW f \in 0 .. (IdxMod - 1), Distinct(q, f), q.idx # f
  PROVE  LET i == q.ring[f % NUM]
             g == (f + 1) % IdxMod
         IN  /\ i \in Descs /\ i \in Entries(q, f) /\ g \in 0 .. (IdxMod - 1)
             /\ Entries(q, g) = Entries(q, f) \ {i}
             /\ Distinct(q, g)
<1> DEFINE i == q.ring[f % NUM]
           g == (f + 1) % IdxMod
           w == Waiting(q, f)
<1>1. q.idx \in 0 .. (IdxMod - 1) /\ w \in 1 .. (IdxMod - 1) /\ w \in Nat
  BY WaitingIs, Sizes DEF RingType
<1>2. g = (IF f + 1 < IdxMod THEN f + 1 ELSE f + 1 - IdxMod) /\ g \in 0 .. (IdxMod - 1)
  BY NextIdx
<1>3. Waiting(q, g) = w - 1
  <2>1. Waiting(q, g) = IF q.idx >= g THEN q.idx - g ELSE q.idx - g + IdxMod
    BY <1>2, WaitingIs
  <2>2. w = IF q.idx >= f THEN q.idx - f ELSE q.idx - f + IdxMod
    BY WaitingIs
  <2> HIDE DEF g, w
  <2> QED BY <1>1, <1>2, <2>1, <2>2, Sizes
<1>4. EntryAt(q, f, 0) = i /\ i \in Descs
  <2>1. f \in 0 .. (2 * IdxMod - 1) /\ f + 0 = f
    BY Sizes
  <2>2. Slot(f + 0) = f % NUM
    BY <2>1, WrapKeepsSlot
  <2> QED BY <2>2, EntryIn
<1>5. ASSUME NEW k \in 0 .. (w - 2) PROVE EntryAt(q, g, k) = EntryAt(q, f, k + 1)
  <2> DEFINE x == g + k
             y == f + (k + 1)
  <2>1. x \in 0 .. (2 * IdxMod - 1) /\ y \in 0 .. (2 * IdxMod - 1) /\ (x = y \/ x = y - IdxMod)
    <3> HIDE DEF g, w
    <3> QED BY <1>1, <1>2, Sizes
  <2>2. x % IdxMod = IF x < IdxMod THEN x ELSE x - IdxMod
    BY <2>1, ModSmall, Sizes
  <2>3. y % IdxMod = IF y < IdxMod THEN y ELSE y - IdxMod
    BY <2>1, ModSmall, Sizes
  <2>4. x % IdxMod = y % IdxMod
    <3> HIDE DEF x, y
    <3> QED BY <2>1, <2>2, <2>3, Sizes
  <2> QED BY <2>4 DEF EntryAt
<1>6. Entries(q, f) = {i} \cup Entries(q, g)
  <2>1. 0 .. (w - 1) = {0} \cup {k + 1 : k \in 0 .. (w - 2)}
    <3> HIDE DEF w
    <3>1. ASSUME NEW l \in 0 .. (w - 1) PROVE l = 0 \/ \E k \in 0 .. (w - 2) : l = k + 1
      <4>1. l # 0 => l - 1 \in 0 .. (w - 2) /\ l = (l - 1) + 1
        BY <1>1
      <4> QED BY <4>1
    <3>2. ASSUME NEW k \in 0 .. (w - 2) PROVE k + 1 \in 0 .. (w - 1)
      BY <1>1
    <3>3. 0 \in 0 .. (w - 1)
      BY <1>1
    <3> QED BY <3>1, <3>2, <3>3
  <2>2. Entries(q, g) = {EntryAt(q, g, k) : k \in 0 .. (w - 2)}
    <3>1. (w - 1) - 1 = w - 2
      <4> HIDE DEF w
      <4> QED BY <1>1
    <3> HIDE DEF g, w
    <3> QED BY <1>3, <3>1 DEF Entries
  <2> HIDE DEF g
  <2> QED BY <1>4, <1>5, <2>1, <2>2 DEF Entries
<1>7. i \notin Entries(q, g)
  <2> SUFFICES ASSUME NEW k \in 0 .. (w - 2), EntryAt(q, g, k) = i PROVE FALSE
    <3>1. (w - 1) - 1 = w - 2
      <4> HIDE DEF w
      <4> QED BY <1>1
    <3> HIDE DEF g, w, i
    <3> QED BY <1>3, <3>1 DEF Entries
  <2>1. 0 \in 0 .. (w - 1) /\ k + 1 \in 0 .. (w - 1) /\ k + 1 # 0
    <3> HIDE DEF w
    <3> QED BY <1>1
  <2>2. EntryAt(q, f, k + 1) = EntryAt(q, f, 0)
    BY <1>4, <1>5
  <2> QED BY <2>1, <2>2 DEF Distinct
<1>8. Distinct(q, g)
  <2> SUFFICES ASSUME NEW k \in 0 .. (w - 2), NEW l \in 0 .. (w - 2), EntryAt(q, g, k) = EntryAt(q, g, l)
               PROVE  k = l
    <3>1. (w - 1) - 1 = w - 2
      <4> HIDE DEF w
      <4> QED BY <1>1
    <3> HIDE DEF g, w
    <3> QED BY <1>3, <3>1 DEF Distinct
  <2>1. k + 1 \in 0 .. (w - 1) /\ l + 1 \in 0 .. (w - 1)
    <3> HIDE DEF w
    <3> QED BY <1>1
  <2>2. k + 1 = l + 1
    BY <1>5, <2>1 DEF Distinct
  <2> HIDE DEF w
  <2> QED BY <1>1, <2>2
<1> HIDE DEF g, i
<1>9. Entries(q, g) = Entries(q, f) \ {i} /\ i \in Entries(q, f)
  BY <1>6, <1>7
<1> QED BY <1>2, <1>4, <1>8, <1>9 DEF g, i

-----------------------------------------------------------------------------
(* Who has what.  A process that makes a call has a buffer with its block.  *)
LEMMA Held ==
  ASSUME DiskTypeOK, HoldersOK, NEW p \in Users, upc[p] # "idle"
  PROVE  /\ cur[p] \in Bufs /\ cur[p] # Nil /\ buf[cur[p]] \in BufType
         /\ work[p] \in Seq(Calls) /\ work[p] # <<>> /\ Head(work[p]) \in Calls
         /\ Block(p) = Head(work[p]).block /\ Block(p) \in DBlocks /\ Block(p) # Nil
<1>1. cur[p] \in Bufs /\ cur[p] # Nil /\ work[p] # <<>> /\ Block(p) = Head(work[p]).block
  BY DEF DiskTypeOK, HoldersOK, HolderOK
<1>2. work[p] \in Seq(Calls) /\ buf[cur[p]] \in BufType
  BY <1>1 DEF DiskTypeOK
<1>3. Head(work[p]) \in Calls
  BY <1>1, <1>2
<1> QED BY <1>1, <1>2, <1>3, Sizes DEF Calls

(* Two blocks have two buffers, and two processes in the middle of a call.  *)
LEMMA OneBuffer ==
  ASSUME DiskTypeOK, HoldersOK, CacheOK, NEW p \in Users, upc[p] # "idle",
         NEW b \in Bufs, buf[b].blockno = Block(p)
  PROVE  b = cur[p]
BY Held DEF CacheOK, Block

(* Two processes that hold their buffers' locks have different buffers, and *)
(* so different blocks.                                                     *)
LEMMA Apart ==
  ASSUME DiskTypeOK, HoldersOK, CacheOK, NEW p \in Users, NEW q \in Users, p # q,
         upc[p] \in Locked, upc[q] \in Locked
  PROVE  cur[p] # cur[q] /\ Block(p) # Block(q)
<1>1. upc[p] # "idle" /\ upc[q] # "idle"
  BY DEF Locked, Transferring, Holding
<1>2. cur[p] # cur[q]
  BY DEF HoldersOK, HolderOK
<1> QED BY <1>1, <1>2, Held, OneBuffer DEF Block

(* Requests have descriptors of their own, ...                              *)
LEMMA RequestIs ==
  ASSUME DiskTypeOK, HoldersOK, ChainsOK, NEW p \in Requests
  PROVE  /\ p \in Users /\ upc[p] \in Transferring /\ upc[p] \in Locked /\ upc[p] # "idle"
         /\ head[p] \in Descs /\ Second(p) \in Descs /\ Third(p) \in Descs /\ Chain(p) \subseteq Descs
         /\ \A q \in Requests : q # p => head[q] # head[p] /\ head[q] \notin Chain(p)
<1>1. p \in Users /\ upc[p] \in Transferring /\ upc[p] \in Locked /\ upc[p] # "idle"
  BY DEF Requests, Transferring, Locked
<1>2. head[p] \in Descs
  BY <1>1 DEF DiskTypeOK
<1>3. Second(p) \in Descs
  BY <1>2 DEF DiskTypeOK, DescType, Second
<1>4. Third(p) \in Descs
  BY <1>3 DEF DiskTypeOK, DescType, Third
<1>5. ASSUME NEW q \in Requests, q # p PROVE head[q] # head[p] /\ head[q] \notin Chain(p)
  BY <1>5 DEF ChainsOK, Chain
<1> QED BY <1>1, <1>2, <1>3, <1>4, <1>5 DEF Chain

(* ... three each, and so there is room in the rings for them.              *)
LEMMA RequestsFit ==
  ASSUME DiskTypeOK, ChainsOK
  PROVE  /\ IsFiniteSet(Requests) /\ Cardinality(Requests) \in Nat
         /\ IsFiniteSet(FreeDescs) /\ Cardinality(FreeDescs) \in Nat
         /\ Cardinality(FreeDescs) + 3 * Cardinality(Requests) = NUM
<1>1. Requests \in SUBSET Users /\ FreeDescs \in SUBSET Descs
  BY DEF Requests, FreeDescs
<1> QED BY <1>1, Finite DEF ChainsOK

(* A ring has an entry for a request at most, and each request takes three  *)
(* descriptors: the ring never fills up.                                    *)
LEMMA RingHasRoom ==
  ASSUME DiskTypeOK, HoldersOK, ChainsOK, NEW q \in RingType, NEW f \in 0 .. (IdxMod - 1), Distinct(q, f),
         \A i \in Entries(q, f) : \E p \in Requests : head[p] = i
  PROVE  3 * Waiting(q, f) <= 3 * Cardinality(Requests) /\ Waiting(q, f) + 1 < NUM /\ NUM <= IdxMod
<1> DEFINE w == Waiting(q, f)
           Of(k) == CHOOSE p \in Requests : head[p] = EntryAt(q, f, k)
           g == [k \in 0 .. (w - 1) |-> Of(k)]
<1>1. w \in Nat /\ w - 1 \in Int
  BY WaitingIs, Sizes
<1>2. ASSUME NEW k \in 0 .. (w - 1) PROVE Of(k) \in Requests /\ head[Of(k)] = EntryAt(q, f, k)
  BY DEF Entries
<1>3. g \in Injection(0 .. (w - 1), Requests)
  <2>1. g \in [0 .. (w - 1) -> Requests]
    BY <1>2
  <2>2. ASSUME NEW k \in 0 .. (w - 1), NEW l \in 0 .. (w - 1), g[k] = g[l] PROVE k = l
    <3>1. EntryAt(q, f, k) = EntryAt(q, f, l)
      BY <1>2, <2>2
    <3> QED BY <3>1 DEF Distinct
  <2> HIDE DEF g
  <2> QED BY <2>1, <2>2 DEF Injection, IsInjective
<1>4. Cardinality(0 .. (w - 1)) = w
  <2> HIDE DEF w
  <2>1. Cardinality(0 .. (w - 1)) = IF 0 > w - 1 THEN 0 ELSE (w - 1) - 0 + 1
    BY <1>1, FS_Interval
  <2> QED BY <1>1, <2>1
<1>5. w <= Cardinality(Requests)
  <2> HIDE DEF w, g
  <2> QED BY <1>3, <1>4, FS_Injection, RequestsFit
<1>6. NUM <= IdxMod
  <2> DEFINE d == IdxMod \div NUM
  <2>1. d \in Int /\ IdxMod = NUM * d
    BY ModIn, Sizes
  <2> HIDE DEF d
  <2>2. d >= 1
    <3>1. d <= 0 => NUM * d <= 0
      BY <2>1, Sizes
    <3> QED BY <2>1, <3>1, Sizes
  <2> QED BY <2>1, <2>2, Sizes
<1> HIDE DEF w
<1>7. 3 * w <= 3 * Cardinality(Requests) /\ w + 1 < NUM
  BY <1>1, <1>5, RequestsFit, Sizes
<1> QED BY <1>6, <1>7 DEF w

-----------------------------------------------------------------------------
(* What a step leaves alone.  A process that goes on where it was, at most  *)
(* from one place of a transfer to another,                                 *)
LEMMA HolderKept ==
  ASSUME DiskTypeOK, HoldersOK, NEW q \in Users,
         cur'[q] = cur[q], work'[q] = work[q], op'[q] = op[q],
         upc'[q] = upc[q] \/ (upc[q] \in Transferring /\ upc'[q] \in Transferring),
         upc[q] # "idle" => buf'[cur[q]].blockno = buf[cur[q]].blockno,
         upc[q] \in Locked => /\ buf'[cur[q]].lock = buf[cur[q]].lock /\ buf'[cur[q]].valid = buf[cur[q]].valid
                              /\ Block(q) \in pinned => Block(q) \in pinned'
  PROVE  HolderOK(q)'
<1>1. HolderOK(q)
  BY DEF HoldersOK
<1>2. CASE upc[q] = "idle"
  <2>1. upc'[q] = "idle"
    BY <1>2 DEF Transferring
  <2> QED BY <1>1, <1>2, <2>1 DEF HolderOK, Locked, Transferring, Holding
<1>3. CASE upc[q] # "idle"
  <2>1. Block(q)' = Block(q)
    BY <1>3 DEF Block
  <2>2. CASE upc'[q] = upc[q]
    BY <1>1, <1>3, <2>1, <2>2 DEF HolderOK, Locked, Transferring, Holding
  <2>3. CASE upc[q] \in Transferring /\ upc'[q] \in Transferring
    BY <1>1, <1>3, <2>1, <2>3 DEF HolderOK, Locked, Transferring, Holding
  <2> QED BY <2>2, <2>3
<1> QED BY <1>2, <1>3

(* the buffers' blocks and references,                                      *)
LEMMA CacheKept ==
  ASSUME CacheOK, UNCHANGED <<lru, cur, pinned>>,
         \A b \in Bufs : buf'[b].blockno = buf[b].blockno /\ buf'[b].refcnt = buf[b].refcnt,
         \A p \in Users : upc'[p] = "pin" <=> upc[p] = "pin"
  PROVE  CacheOK'
<1>1. ASSUME NEW b \in Bufs PROVE Refs(b)' = Refs(b) /\ (Pin(b)' <=> Pin(b))
  BY DEF Refs, Pin
<1> QED BY <1>1 DEF CacheOK

(* the calls to make,                                                       *)
LEMMA WorkKept ==
  ASSUME WorkOK, UNCHANGED work, pinned' \subseteq pinned
  PROVE  WorkOK'
BY DEF WorkOK

(* the requests,                                                            *)
LEMMA DriverKept ==
  ASSUME QueuesOK, ChainsOK, UNCHANGED <<queueVars, head>>,
         dev'.seen = dev.seen, dev'.taken = dev.taken, Requests' = Requests,
         \A p \in Requests : /\ cur'[p] = cur[p] /\ op'[p] = op[p]
                             /\ buf'[cur[p]].blockno = buf[cur[p]].blockno
                             /\ buf'[cur[p]].disk = buf[cur[p]].disk
  PROVE  QueuesOK' /\ ChainsOK' /\ \A p \in Users : Returned(p)' <=> Returned(p)
<1> USE DEF queueVars
<1>1. InAvail' = InAvail /\ InDevice' = InDevice /\ InUsed' = InUsed /\ FreeDescs' = FreeDescs
  BY DEF InAvail, InDevice, InUsed, Entries, EntryAt, Waiting, FreeDescs
<1>2. Distinct(avail, dev.seen)' = Distinct(avail, dev.seen) /\ Distinct(used, usedIdx)' = Distinct(used, usedIdx)
  BY DEF Distinct, EntryAt, Waiting
<1>3. ASSUME NEW p \in Requests PROVE Block(p)' = Block(p) /\ Chain(p)' = Chain(p) /\ Second(p)' = Second(p) /\ Third(p)' = Third(p)
  BY DEF Block, Chain, Second, Third
<1>4. QueuesOK'
  BY <1>1, <1>2, <1>3 DEF QueuesOK
<1>5. ChainsOK'
  BY <1>1, <1>3 DEF ChainsOK
<1> QED BY <1>1, <1>4, <1>5 DEF Returned

(* and where the data is.                                                   *)
LEMMA DataKept ==
  ASSUME DiskTypeOK, HoldersOK, DataOK, UNCHANGED <<platter, latest, pinned>>,
         \A b \in Bufs : /\ buf'[b].blockno = buf[b].blockno
                         /\ buf'[b].valid = buf[b].valid /\ buf'[b].data = buf[b].data,
         \A p \in Users : /\ Returned(p)' => Returned(p) /\ cur'[p] = cur[p] /\ op'[p] = op[p]
                          /\ upc'[p] = "unpin" => upc[p] = "unpin" /\ cur'[p] = cur[p]
                          /\ upc[p] \in Transferring /\ op[p] = "write" =>
                               upc'[p] \in Transferring /\ op'[p] = "write" /\ cur'[p] = cur[p]
  PROVE  DataOK'
<1>1. ASSUME NEW b \in Bufs PROVE BufferOK(b)'
  BY DEF DataOK, BufferOK
<1>2. ASSUME NEW p \in Users, upc[p] # "idle", cur'[p] = cur[p] PROVE Block(p)' = Block(p) /\ buf'[cur[p]].data = buf[cur[p]].data
  BY <1>2, Held DEF Block
<1>3. ASSUME NEW p \in Users PROVE ResultOK(p)'
  <2>1. Returned(p) => upc[p] # "idle"
    BY DEF Returned, Requests
  <2>2. ResultOK(p)
    BY DEF DataOK
  <2>3. CASE upc[p] # "idle" /\ cur'[p] = cur[p]
    BY <1>2, <2>2, <2>3 DEF ResultOK
  <2>4. CASE ~(upc[p] # "idle" /\ cur'[p] = cur[p])
    BY <2>1, <2>4 DEF ResultOK
  <2> QED BY <2>3, <2>4
<1>4. ASSUME NEW k \in DBlocks, Writing(k) PROVE Writing(k)'
  <2>1. PICK p \in Users : upc[p] \in Transferring /\ op[p] = "write" /\ Block(p) = k
    BY <1>4 DEF Writing
  <2>2. upc[p] # "idle" /\ cur'[p] = cur[p] /\ upc'[p] \in Transferring /\ op'[p] = "write"
    BY <2>1 DEF Transferring
  <2> QED BY <1>2, <2>1, <2>2 DEF Writing
<1> QED BY <1>1, <1>3, <1>4 DEF DataOK

-----------------------------------------------------------------------------
(* The steps.  First those that change only where processes are, the locks  *)
(* of buffers, and the interrupt: no request, no reference and no data.     *)
LEMMA QuietStep ==
  ASSUME DiskInv, DiskTypeOK', UNCHANGED <<lru, queueVars, platter, cur, head, ghostVars, dpanic>>,
         dev'.seen = dev.seen, dev'.taken = dev.taken,
         \A b \in Bufs : /\ buf'[b].blockno = buf[b].blockno /\ buf'[b].refcnt = buf[b].refcnt
                         /\ buf'[b].valid = buf[b].valid /\ buf'[b].data = buf[b].data
                         /\ buf'[b].disk = buf[b].disk,
         \A q \in Users : /\ HolderOK(q)'
                          /\ upc'[q] = "pin" <=> upc[q] = "pin"
                          /\ upc'[q] = "unpin" <=> upc[q] = "unpin"
                          /\ upc'[q] \in {"bsleep", "finish"} <=> upc[q] \in {"bsleep", "finish"}
                          /\ upc[q] \in Transferring => upc'[q] \in Transferring /\ op'[q] = op[q]
  PROVE  DiskInv'
<1> USE DEF ghostVars
<1>1. Requests' = Requests
  BY DEF Requests
<1>2. ASSUME NEW q \in Requests PROVE cur[q] \in Bufs /\ op'[q] = op[q]
  <2>1. q \in Users /\ upc[q] # "idle" /\ upc[q] \in Transferring
    BY RequestIs DEF DiskInv
  <2> QED BY <2>1, Held DEF DiskInv
<1>3. QueuesOK' /\ ChainsOK' /\ \A q \in Users : Returned(q)' <=> Returned(q)
  BY <1>1, <1>2, DriverKept DEF DiskInv
<1>4. DataOK'
  <2>1. \A q \in Users : Returned(q) => op'[q] = op[q]
    BY <1>2 DEF Returned
  <2> QED BY <1>3, <2>1, DataKept DEF DiskInv
<1>5. CacheOK'
  BY CacheKept DEF DiskInv
<1>6. WorkOK'
  BY WorkKept DEF DiskInv
<1> QED BY <1>3, <1>4, <1>5, <1>6 DEF DiskInv, HoldersOK

(* A buffer that only p has locked, or nobody has, is nobody else's.        *)
LEMMA LockFree ==
  ASSUME DiskTypeOK, HoldersOK, NEW p \in Users, NEW q \in Users, p # q, upc[q] \in Locked,
         buf[cur[p]].lock \in {Nil, p}
  PROVE  cur[q] # cur[p]
BY Sizes DEF HoldersOK, HolderOK

(* bget() gets the sleep lock of the buffer.                                *)
LEMMA AcquireSleepStep ==
  ASSUME DiskInv, NEW p \in Users, AcquireSleep(p)
  PROVE  DiskInv'
<1> USE DEF DiskInv, cacheVars, queueVars, deviceVars, ghostVars
<1> DEFINE b == cur[p]
<1>1. /\ upc[p] = "lock" /\ buf[b].lock = Nil
      /\ buf' = [buf EXCEPT ![b].lock = p]
      /\ \/ buf[b].valid /\ upc' = [upc EXCEPT ![p] = "have"] /\ op' = op
         \/ ~buf[b].valid /\ upc' = [upc EXCEPT ![p] = "rw"] /\ op' = [op EXCEPT ![p] = "read"]
      /\ UNCHANGED <<lru, queueVars, deviceVars, vlock, cur, head, ghostVars, dpanic>>
  BY DEF AcquireSleep, Move, Transfer
<1>2. b \in Bufs /\ buf[b] \in BufType
  BY <1>1, Held
<1>3. DiskTypeOK'
  <2>1. buf' \in [Bufs -> BufType]
    BY <1>1, <1>2 DEF BufType, DiskTypeOK
  <2>2. upc' \in [Users -> DiskLabels] /\ op' \in [Users -> {"read", "write", "install"}]
    BY <1>1 DEF DiskTypeOK, DiskLabels
  <2> QED BY <1>1, <2>1, <2>2 DEF DiskTypeOK
<1>4. \A c \in Bufs : /\ buf'[c].blockno = buf[c].blockno /\ buf'[c].refcnt = buf[c].refcnt
                      /\ buf'[c].valid = buf[c].valid /\ buf'[c].data = buf[c].data
                      /\ buf'[c].disk = buf[c].disk /\ buf'[c].lock = (IF c = b THEN p ELSE buf[c].lock)
  BY <1>1, <1>2 DEF BufType, DiskTypeOK
<1>5. upc'[p] \in {"have", "rw"} /\ \A q \in Users \ {p} : upc'[q] = upc[q] /\ op'[q] = op[q]
  BY <1>1 DEF DiskTypeOK
<1>6. HolderOK(p)'
  <2>1. HolderOK(p) /\ Block(p)' = Block(p)
    BY <1>1, <1>2, <1>4 DEF HoldersOK, Block
  <2>2. (upc'[p] = "have" /\ buf'[b].valid) \/ (upc'[p] = "rw" /\ buf'[b].valid = FALSE /\ op'[p] = "read")
    BY <1>1, <1>2, <1>4 DEF DiskTypeOK, BufType
  <2>3. buf'[b].lock = p /\ cur'[p] = b /\ work' = work /\ pinned' = pinned
    BY <1>1, <1>2, <1>4
  <2>4. b # Nil /\ work[p] # <<>> /\ Block(p) = Head(work[p]).block
    BY <1>1, <2>1 DEF HolderOK
  <2> QED BY <2>1, <2>2, <2>3, <2>4 DEF HolderOK, Locked, Transferring, Holding
<1>7. ASSUME NEW q \in Users, q # p PROVE HolderOK(q)'
  <2>1. upc[q] # "idle" => cur[q] \in Bufs
    BY Held
  <2>2. upc[q] \in Locked => cur[q] # b /\ upc[q] # "idle"
    BY <1>1, <1>7, LockFree DEF Locked, Transferring, Holding
  <2> QED BY <1>1, <1>4, <1>5, <1>7, <2>1, <2>2, HolderKept
<1>8. \A q \in Users : /\ upc'[q] = "pin" <=> upc[q] = "pin"
                       /\ upc'[q] = "unpin" <=> upc[q] = "unpin"
                       /\ upc'[q] \in {"bsleep", "finish"} <=> upc[q] \in {"bsleep", "finish"}
                       /\ upc[q] \in Transferring => upc'[q] \in Transferring /\ op'[q] = op[q]
  BY <1>1, <1>5 DEF Transferring
<1> QED BY <1>1, <1>3, <1>4, <1>6, <1>7, <1>8, QuietStep

(* A holder that only reads changes nothing.                                *)
LEMMA ReadOnlyStep ==
  ASSUME DiskInv, NEW p \in Users, ReadOnly(p)
  PROVE  DiskInv'
<1> USE DEF DiskInv, cacheVars, queueVars, deviceVars, callVars, ghostVars
<1>1. /\ upc[p] = "have" /\ upc' = [upc EXCEPT ![p] = "release"]
      /\ UNCHANGED <<cacheVars, queueVars, deviceVars, vlock, callVars, ghostVars, dpanic>>
  BY DEF ReadOnly, Doing, Move
<1>2. DiskTypeOK'
  BY <1>1 DEF DiskTypeOK, DiskLabels
<1>3. upc'[p] = "release" /\ \A q \in Users \ {p} : upc'[q] = upc[q]
  BY <1>1 DEF DiskTypeOK
<1>4. HolderOK(p)'
  <2>1. HolderOK(p) /\ Block(p)' = Block(p)
    BY <1>1 DEF HoldersOK, Block
  <2> QED BY <1>1, <1>3, <2>1 DEF HolderOK, Locked, Transferring, Holding
<1>5. ASSUME NEW q \in Users, q # p PROVE HolderOK(q)'
  BY <1>1, <1>3, <1>5, HolderKept
<1>6. \A q \in Users : /\ upc'[q] = "pin" <=> upc[q] = "pin"
                       /\ upc'[q] = "unpin" <=> upc[q] = "unpin"
                       /\ upc'[q] \in {"bsleep", "finish"} <=> upc[q] \in {"bsleep", "finish"}
                       /\ upc[q] \in Transferring => upc'[q] \in Transferring /\ op'[q] = op[q]
  BY <1>1, <1>3 DEF Transferring
<1> QED BY <1>1, <1>2, <1>4, <1>5, <1>6, QuietStep

(* install_trans() goes to write a pinned block to its place.               *)
LEMMA InstallStep ==
  ASSUME DiskInv, NEW p \in Users, Install(p)
  PROVE  DiskInv'
<1> USE DEF DiskInv, cacheVars, queueVars, deviceVars, ghostVars
<1>1. /\ upc[p] = "have" /\ Block(p) \in pinned
      /\ upc' = [upc EXCEPT ![p] = "rw"] /\ op' = [op EXCEPT ![p] = "install"]
      /\ UNCHANGED <<cacheVars, queueVars, deviceVars, vlock, cur, head, ghostVars, dpanic>>
  BY DEF Install, Doing, Transfer, Move
<1>2. DiskTypeOK'
  BY <1>1 DEF DiskTypeOK, DiskLabels
<1>3. upc'[p] = "rw" /\ op'[p] = "install" /\ \A q \in Users \ {p} : upc'[q] = upc[q] /\ op'[q] = op[q]
  BY <1>1 DEF DiskTypeOK
<1>4. HolderOK(p)'
  <2>1. HolderOK(p) /\ Block(p)' = Block(p) /\ buf[cur[p]].valid
    BY <1>1 DEF HoldersOK, HolderOK, Block, Holding
  <2> QED BY <1>1, <1>3, <2>1 DEF HolderOK, Locked, Transferring, Holding
<1>5. ASSUME NEW q \in Users, q # p PROVE HolderOK(q)'
  BY <1>1, <1>3, <1>5, HolderKept
<1>6. \A q \in Users : /\ upc'[q] = "pin" <=> upc[q] = "pin"
                       /\ upc'[q] = "unpin" <=> upc[q] = "unpin"
                       /\ upc'[q] \in {"bsleep", "finish"} <=> upc[q] \in {"bsleep", "finish"}
                       /\ upc[q] \in Transferring => upc'[q] \in Transferring /\ op'[q] = op[q]
  BY <1>1, <1>3 DEF Transferring
<1> QED BY <1>1, <1>2, <1>4, <1>5, <1>6, QuietStep

(* brelse() gives the sleep lock back.                                      *)
LEMMA ReleaseSleepStep ==
  ASSUME DiskInv, NEW p \in Users, ReleaseSleep(p)
  PROVE  DiskInv'
<1> USE DEF DiskInv, cacheVars, queueVars, deviceVars, callVars, ghostVars
<1> DEFINE b == cur[p]
<1>1. /\ upc[p] = "release" /\ upc' = [upc EXCEPT ![p] = "unref"]
      /\ buf' = [buf EXCEPT ![b].lock = Nil]
      /\ UNCHANGED <<lru, queueVars, deviceVars, vlock, callVars, ghostVars, dpanic>>
  BY DEF ReleaseSleep, Move
<1>2. b \in Bufs /\ buf[b] \in BufType /\ buf[b].lock = p
  BY <1>1, Held DEF HoldersOK, HolderOK, Locked, Holding
<1>3. DiskTypeOK'
  <2>1. buf' \in [Bufs -> BufType]
    BY <1>1, <1>2 DEF BufType, DiskTypeOK
  <2>2. upc' \in [Users -> DiskLabels]
    BY <1>1 DEF DiskTypeOK, DiskLabels
  <2> QED BY <1>1, <2>1, <2>2 DEF DiskTypeOK
<1>4. \A c \in Bufs : /\ buf'[c].blockno = buf[c].blockno /\ buf'[c].refcnt = buf[c].refcnt
                      /\ buf'[c].valid = buf[c].valid /\ buf'[c].data = buf[c].data
                      /\ buf'[c].disk = buf[c].disk /\ (c # b => buf'[c].lock = buf[c].lock)
  BY <1>1, <1>2 DEF BufType, DiskTypeOK
<1>5. upc'[p] = "unref" /\ \A q \in Users \ {p} : upc'[q] = upc[q]
  BY <1>1 DEF DiskTypeOK
<1>6. HolderOK(p)'
  <2>1. HolderOK(p) /\ Block(p)' = Block(p)
    BY <1>1, <1>2, <1>4 DEF HoldersOK, Block
  <2> QED BY <1>1, <1>2, <1>5, <2>1 DEF HolderOK, Locked, Transferring, Holding
<1>7. ASSUME NEW q \in Users, q # p PROVE HolderOK(q)'
  <2>1. upc[q] # "idle" => cur[q] \in Bufs
    BY Held
  <2>2. upc[q] \in Locked => cur[q] # b /\ upc[q] # "idle"
    BY <1>2, <1>7, LockFree DEF Locked, Transferring, Holding
  <2> QED BY <1>1, <1>4, <1>5, <1>7, <2>1, <2>2, HolderKept
<1>8. \A q \in Users : /\ upc'[q] = "pin" <=> upc[q] = "pin"
                       /\ upc'[q] = "unpin" <=> upc[q] = "unpin"
                       /\ upc'[q] \in {"bsleep", "finish"} <=> upc[q] \in {"bsleep", "finish"}
                       /\ upc[q] \in Transferring => upc'[q] \in Transferring /\ op'[q] = op[q]
  BY <1>1, <1>5 DEF Transferring
<1> QED BY <1>1, <1>3, <1>4, <1>6, <1>7, <1>8, QuietStep

(* Processes that go from one place of a transfer to another.               *)
LEMMA WaitStep ==
  ASSUME DiskInv, UNCHANGED <<cacheVars, queueVars, platter, callVars, ghostVars, dpanic>>,
         dev'.seen = dev.seen, dev'.taken = dev.taken, dev' \in [seen : 0 .. (IdxMod - 1), irq : BOOLEAN,
              taken : SUBSET [i : Descs, block : DBlocks, write : BOOLEAN, b : Bufs]], vlock' \in BOOLEAN,
         upc' \in [Users -> DiskLabels],
         \A q \in Users : \/ upc'[q] = upc[q]
                          \/ upc[q] \in {"rw", "dsleep"} /\ upc'[q] \in {"rw", "dsleep"}
                          \/ upc[q] \in {"bsleep", "finish"} /\ upc'[q] \in {"bsleep", "finish"}
  PROVE  DiskInv'
<1> USE DEF DiskInv, cacheVars, queueVars, callVars, ghostVars
<1>1. DiskTypeOK'
  BY DEF DiskTypeOK
<1>2. ASSUME NEW q \in Users PROVE HolderOK(q)'
  BY HolderKept DEF Transferring
<1>3. \A q \in Users : /\ upc'[q] = "pin" <=> upc[q] = "pin"
                       /\ upc'[q] = "unpin" <=> upc[q] = "unpin"
                       /\ upc'[q] \in {"bsleep", "finish"} <=> upc[q] \in {"bsleep", "finish"}
                       /\ upc[q] \in Transferring => upc'[q] \in Transferring /\ op'[q] = op[q]
  BY DEF Transferring
<1> QED BY <1>1, <1>2, <1>3, QuietStep

(* virtio_disk_rw() finds no three descriptors and sleeps.                  *)
LEMMA NoDescsStep ==
  ASSUME DiskInv, NEW p \in Users, NoDescs(p)
  PROVE  DiskInv'
<1> USE DEF DiskInv, cacheVars, queueVars, deviceVars, callVars, ghostVars
<1>1. upc[p] = "rw" /\ UNCHANGED <<cacheVars, queueVars, deviceVars, vlock, callVars, ghostVars, dpanic>>
  BY DEF NoDescs
<1>2. upc' \in [Users -> DiskLabels] /\ upc'[p] = "dsleep" /\ \A q \in Users \ {p} : upc'[q] = upc[q] \/ (upc[q] = "dsleep" /\ upc'[q] = "rw")
  <2>1. CASE upc' = [upc EXCEPT ![p] = "dsleep"]
    BY <2>1 DEF DiskTypeOK, DiskLabels
  <2>2. CASE WakeDescs(p, "dsleep")
    BY <2>2 DEF WakeDescs, DiskTypeOK, DiskLabels
  <2> QED BY <2>1, <2>2 DEF NoDescs, Move
<1> QED BY <1>1, <1>2, WaitStep DEF DiskTypeOK

(* virtio_disk_rw() is woken and the request is not done.                   *)
LEMMA SleepAgainStep ==
  ASSUME DiskInv, NEW p \in Users, SleepAgain(p)
  PROVE  DiskInv'
<1> USE DEF DiskInv, cacheVars, queueVars, deviceVars, callVars, ghostVars
<1>1. upc[p] = "finish" /\ UNCHANGED <<cacheVars, queueVars, deviceVars, vlock, callVars, ghostVars, dpanic>>
  BY DEF SleepAgain
<1>2. upc' \in [Users -> DiskLabels] /\ upc'[p] = "bsleep" /\ \A q \in Users \ {p} : upc'[q] = upc[q]
  BY DEF SleepAgain, Move, DiskTypeOK, DiskLabels
<1> QED BY <1>1, <1>2, WaitStep DEF DiskTypeOK

(* A kill() makes a sleeper look again.                                     *)
LEMMA KillStep ==
  ASSUME DiskInv, NEW p \in Users, Kill(p)
  PROVE  DiskInv'
<1> USE DEF DiskInv, cacheVars, queueVars, deviceVars, callVars, ghostVars
<1>1. UNCHANGED <<cacheVars, queueVars, deviceVars, vlock, callVars, ghostVars, dpanic>>
  BY DEF Kill
<1>2. /\ upc' \in [Users -> DiskLabels] /\ \A q \in Users \ {p} : upc'[q] = upc[q]
      /\ (upc[p] = "dsleep" /\ upc'[p] = "rw") \/ (upc[p] = "bsleep" /\ upc'[p] = "finish")
  BY ZenonT(30) DEF Kill, Move, DiskTypeOK, DiskLabels
<1> QED BY <1>1, <1>2, WaitStep DEF DiskTypeOK

(* virtio_disk_intr() takes the lock and acknowledges the interrupt.        *)
LEMMA IntrAckStep ==
  ASSUME DiskInv, IntrAck
  PROVE  DiskInv'
<1> USE DEF DiskInv, cacheVars, queueVars, deviceVars, callVars, ghostVars
<1>1. /\ vlock' = TRUE /\ dev' = [dev EXCEPT !.irq = FALSE]
      /\ UNCHANGED <<cacheVars, queueVars, platter, upc, callVars, ghostVars, dpanic>>
  BY DEF IntrAck
<1>2. /\ dev'.seen = dev.seen /\ dev'.taken = dev.taken
      /\ dev' \in [seen : 0 .. (IdxMod - 1), irq : BOOLEAN,
                   taken : SUBSET [i : Descs, block : DBlocks, write : BOOLEAN, b : Bufs]]
  BY <1>1 DEF DiskTypeOK
<1> QED BY <1>1, <1>2, WaitStep DEF DiskTypeOK

(* virtio_disk_intr() has seen all entries and releases the lock.           *)
LEMMA IntrEndStep ==
  ASSUME DiskInv, IntrEnd
  PROVE  DiskInv'
<1> USE DEF DiskInv, cacheVars, queueVars, deviceVars, callVars, ghostVars
<1>1. vlock' = FALSE /\ UNCHANGED <<cacheVars, queueVars, deviceVars, upc, callVars, ghostVars, dpanic>>
  BY DEF IntrEnd
<1> QED BY <1>1, WaitStep DEF DiskTypeOK

-----------------------------------------------------------------------------
(* What processes do with buffers they have.  The requests of others stay   *)
(* as they are.                                                             *)
LEMMA RequestsKept ==
  ASSUME DiskInv, NEW p \in Users, UNCHANGED <<queueVars, dev, head>>,
         upc[p] \notin {"bsleep", "finish"}, upc'[p] \notin {"bsleep", "finish"},
         \A q \in Users \ {p} : upc'[q] = upc[q] /\ cur'[q] = cur[q] /\ op'[q] = op[q],
         \A q \in Requests : buf'[cur[q]].blockno = buf[cur[q]].blockno /\ buf'[cur[q]].disk = buf[cur[q]].disk
  PROVE  QueuesOK' /\ ChainsOK' /\ ~Returned(p)' /\ \A q \in Users : Returned(q)' <=> Returned(q)
<1>1. Requests' = Requests /\ p \notin Requests /\ \A q \in Requests : cur'[q] = cur[q] /\ op'[q] = op[q]
  BY DEF Requests
<1>2. QueuesOK' /\ ChainsOK' /\ \A q \in Users : Returned(q)' <=> Returned(q)
  BY <1>1, DriverKept DEF DiskInv
<1> QED BY <1>1, <1>2 DEF Returned

(* A block's references, when only p takes or gives one up.                 *)
LEMMA RefsOf ==
  ASSUME DiskTypeOK
  PROVE  \A b \in Bufs : IsFiniteSet(Refs(b)) /\ Cardinality(Refs(b)) \in Nat
BY Finite DEF Refs

(* A holder changes its block, to write it or to log it.                    *)
LEMMA ModifyStep ==
  ASSUME DiskInv, NEW p \in Users, Modify(p)
  PROVE  DiskInv'
<1> USE DEF DiskInv, queueVars, deviceVars
<1> DEFINE b == cur[p]
           k == Block(p)
<1>1. /\ upc[p] = "have" /\ UNCHANGED <<lru, queueVars, deviceVars, vlock, cur, head, work, dpanic>>
      /\ buf' = [buf EXCEPT ![b].data = 1 - @]
      /\ latest' = [latest EXCEPT ![k] = 1 - buf[b].data]
      /\ \/ upc' = [upc EXCEPT ![p] = "rw"] /\ op' = [op EXCEPT ![p] = "write"] /\ pinned' = pinned
         \/ /\ Head(work[p]).do = "log" /\ pinned' = pinned \cup {k} /\ op' = op
            /\ upc' = [upc EXCEPT ![p] = IF k \in pinned THEN "release" ELSE "pin"]
  BY DEF Modify, Doing, Transfer, Move
<1>2. /\ b \in Bufs /\ b # Nil /\ buf[b] \in BufType /\ k \in DBlocks /\ k # Nil /\ buf[b].blockno = k
      /\ buf[b].lock = p /\ buf[b].valid = TRUE /\ work[p] # <<>> /\ work[p] \in Seq(Calls)
      /\ k = Head(work[p]).block
  <2>1. buf[b].lock = p /\ buf[b].valid
    BY <1>1 DEF HoldersOK, HolderOK, Holding, Locked
  <2> QED BY <1>1, <2>1, Held DEF Block, BufType
<1>3. \A c \in Bufs : /\ buf'[c].blockno = buf[c].blockno /\ buf'[c].refcnt = buf[c].refcnt
                      /\ buf'[c].valid = buf[c].valid /\ buf'[c].disk = buf[c].disk
                      /\ buf'[c].lock = buf[c].lock
                      /\ buf'[c].data = (IF c = b THEN 1 - buf[b].data ELSE buf[c].data)
  BY <1>1, <1>2 DEF BufType, DiskTypeOK
<1>4. /\ \A q \in Users \ {p} : upc'[q] = upc[q] /\ op'[q] = op[q]
      /\ \/ upc'[p] = "rw" /\ op'[p] = "write" /\ pinned' = pinned
         \/ upc'[p] = "release" /\ k \in pinned /\ pinned' = pinned
         \/ upc'[p] = "pin" /\ k \notin pinned /\ pinned' = pinned \cup {k} /\ Head(work[p]).do = "log"
  <2>1. CASE /\ Head(work[p]).do = "log" /\ pinned' = pinned \cup {k} /\ op' = op
             /\ upc' = [upc EXCEPT ![p] = IF k \in pinned THEN "release" ELSE "pin"]
    BY <1>1, <2>1 DEF DiskTypeOK
  <2>2. CASE upc' = [upc EXCEPT ![p] = "rw"] /\ op' = [op EXCEPT ![p] = "write"]
    BY <1>1, <2>2 DEF DiskTypeOK
  <2> QED BY <1>1, <2>1, <2>2
<1>5. /\ \A j \in DBlocks : latest'[j] = (IF j = k THEN 1 - buf[b].data ELSE latest[j])
      /\ latest' \in [DBlocks -> {0, 1}]
  BY <1>1, <1>2 DEF DiskTypeOK, BufType
<1>6. DiskTypeOK'
  <2>1. buf' \in [Bufs -> BufType]
    <3>1. 1 - buf[b].data \in {0, 1}
      BY <1>2 DEF BufType
    <3> QED BY <1>1, <1>2, <3>1 DEF BufType, DiskTypeOK
  <2>2. upc' \in [Users -> DiskLabels] /\ op' \in [Users -> {"read", "write", "install"}]
    BY <1>1 DEF DiskTypeOK, DiskLabels
  <2>3. pinned' \in SUBSET DBlocks
    BY <1>2, <1>4 DEF DiskTypeOK
  <2> QED BY <1>1, <1>5, <2>1, <2>2, <2>3 DEF DiskTypeOK
<1>7. ASSUME NEW q \in Users PROVE HolderOK(q)'
  <2>1. CASE q = p
    <3>1. Block(p)' = k /\ buf'[b].lock = p /\ buf'[b].valid = TRUE /\ cur'[p] = b /\ work'[p] = work[p]
      BY <1>1, <1>2, <1>3 DEF Block
    <3> QED BY <1>2, <1>4, <2>1, <3>1 DEF HolderOK, Locked, Transferring, Holding
  <2>2. CASE q # p
    <3>1. upc[q] # "idle" => cur[q] \in Bufs
      BY Held
    <3>2. upc[q] \in Locked => upc[q] # "idle"
      BY DEF Locked, Transferring, Holding
    <3> QED BY <1>1, <1>3, <1>4, <2>2, <3>1, <3>2, HolderKept
  <2> QED BY <2>1, <2>2
<1>8. \A q \in Users : q # p /\ upc[q] \in Locked => cur[q] # b /\ Block(q) # k
  BY <1>1, Apart DEF Locked, Holding
<1>9. \A c \in Bufs : c # b => buf[c].blockno # k
  BY <1>2 DEF CacheOK
<1>10. CacheOK'
  <2>1. ASSUME NEW c \in Bufs PROVE Refs(c)' = Refs(c) /\ (Pin(c)' <=> Pin(c))
    <3>1. CASE c = b
      BY <1>1, <1>2, <1>3, <1>4, <3>1 DEF Refs, Pin
    <3>2. CASE c # b
      BY <1>1, <1>3, <1>4, <1>9, <3>2 DEF Refs, Pin
    <3> QED BY <3>1, <3>2
  <2>2. \A j \in pinned' : \E c \in Bufs : buf'[c].blockno = j
    BY <1>2, <1>3, <1>4 DEF CacheOK
  <2> QED BY <1>1, <1>3, <2>1, <2>2 DEF CacheOK
<1>11. WorkOK'
  <2>1. CASE pinned' = pinned
    BY <1>1, <2>1, WorkKept
  <2>2. CASE pinned' = pinned \cup {k} /\ Head(work[p]).do = "log"
    <3>1. 1 \in DOMAIN work[p] /\ Head(work[p]) = work[p][1]
      BY <1>2
    <3> QED BY <1>1, <1>2, <2>2, <3>1 DEF WorkOK
  <2> QED BY <1>4, <2>1, <2>2
<1>12. QueuesOK' /\ ChainsOK' /\ ~Returned(p)' /\ \A q \in Users : Returned(q)' <=> Returned(q)
  <2>1. \A q \in Requests : cur[q] \in Bufs
    BY RequestIs, Held
  <2> QED BY <1>1, <1>3, <1>4, <2>1, RequestsKept
<1>13. DataOK'
  <2>1. ASSUME NEW c \in Bufs PROVE BufferOK(c)'
    <3>1. BufferOK(c)
      BY DEF DataOK
    <3>2. CASE c = b
      BY <1>2, <1>3, <1>5, <3>2 DEF BufferOK
    <3>3. CASE c # b /\ buf[c].blockno # Nil
      <4>1. buf[c].blockno \in DBlocks /\ buf[c].blockno # k
        BY <1>9, <3>3 DEF DiskTypeOK, BufType
      <4> QED BY <1>1, <1>3, <1>4, <1>5, <3>1, <3>3, <4>1 DEF BufferOK
    <3>4. CASE c # b /\ buf[c].blockno = Nil
      BY <1>3, <3>4 DEF BufferOK
    <3> QED BY <3>2, <3>3, <3>4
  <2>2. ASSUME NEW q \in Users, q # p, upc[q] \in Locked
        PROVE  /\ Block(q) \in DBlocks /\ latest'[Block(q)] = latest[Block(q)] /\ Block(q)' = Block(q)
               /\ buf'[cur[q]].data = buf[cur[q]].data
    <3>1. cur[q] \in Bufs /\ Block(q) \in DBlocks
      BY <2>2, Held DEF Locked, Transferring, Holding
    <3> QED BY <1>1, <1>3, <1>5, <1>8, <2>2, <3>1 DEF Block
  <2>3. ASSUME NEW q \in Users PROVE ResultOK(q)'
    <3>1. CASE q = p
      BY <1>4, <1>12, <3>1 DEF ResultOK
    <3>2. CASE q # p
      <4>1. Returned(q) \/ upc[q] = "unpin" => upc[q] \in Locked
        BY DEF Returned, Requests, Locked, Transferring, Holding
      <4>2. ResultOK(q)
        BY DEF DataOK
      <4> QED BY <1>1, <1>4, <1>12, <2>2, <3>2, <4>1, <4>2 DEF ResultOK
    <3> QED BY <3>1, <3>2
  <2>4. ASSUME NEW j \in DBlocks \ pinned' PROVE platter'[j] = latest'[j] \/ Writing(j)'
    <3>1. CASE j = k
      <4>1. upc'[p] = "rw" /\ op'[p] = "write" /\ Block(p)' = k
        BY <1>1, <1>2, <1>3, <1>4, <2>4, <3>1 DEF Block
      <4> QED BY <3>1, <4>1 DEF Writing, Transferring
    <3>2. CASE j # k
      <4>1. latest'[j] = latest[j] /\ platter'[j] = platter[j] /\ j \notin pinned
        BY <1>1, <1>4, <1>5, <3>2
      <4>2. Writing(j) => Writing(j)'
        <5>1. SUFFICES ASSUME NEW q \in Users, upc[q] \in Transferring, op[q] = "write", Block(q) = j
                       PROVE  Writing(j)'
          BY DEF Writing
        <5>2. q # p /\ upc[q] \in Locked
          BY <1>1, <5>1 DEF Transferring, Locked
        <5> QED BY <1>4, <2>2, <5>1, <5>2 DEF Writing
      <4> QED BY <4>1, <4>2 DEF DataOK
    <3> QED BY <3>1, <3>2
  <2> QED BY <2>1, <2>3, <2>4 DEF DataOK
<1> QED BY <1>1, <1>6, <1>7, <1>10, <1>11, <1>12, <1>13 DEF HoldersOK

(* log_write() pins the buffer.                                             *)
LEMMA BpinStep ==
  ASSUME DiskInv, NEW p \in Users, Bpin(p)
  PROVE  DiskInv'
<1> USE DEF DiskInv, queueVars, deviceVars, callVars, ghostVars
<1> DEFINE b == cur[p]
<1>1. /\ upc[p] = "pin" /\ UNCHANGED <<lru, queueVars, deviceVars, vlock, callVars, ghostVars, dpanic>>
      /\ buf' = [buf EXCEPT ![b].refcnt = @ + 1] /\ upc' = [upc EXCEPT ![p] = "release"]
  BY DEF Bpin, Move
<1>2. b \in Bufs /\ b # Nil /\ buf[b] \in BufType /\ buf[b].blockno \in pinned
  <2>1. Block(p) \in pinned
    BY <1>1 DEF HoldersOK, HolderOK
  <2> QED BY <1>1, <2>1, Held DEF Block
<1>3. \A c \in Bufs : /\ buf'[c].blockno = buf[c].blockno /\ buf'[c].valid = buf[c].valid
                      /\ buf'[c].disk = buf[c].disk /\ buf'[c].lock = buf[c].lock /\ buf'[c].data = buf[c].data
                      /\ buf'[c].refcnt = (IF c = b THEN buf[b].refcnt + 1 ELSE buf[c].refcnt)
  BY <1>1, <1>2 DEF BufType, DiskTypeOK
<1>4. upc'[p] = "release" /\ \A q \in Users \ {p} : upc'[q] = upc[q]
  BY <1>1 DEF DiskTypeOK
<1>5. DiskTypeOK'
  <2>1. buf' \in [Bufs -> BufType]
    <3>1. buf[b].refcnt + 1 \in Nat
      BY <1>2 DEF BufType
    <3> QED BY <1>1, <1>2, <3>1 DEF BufType, DiskTypeOK
  <2>2. upc' \in [Users -> DiskLabels]
    BY <1>1 DEF DiskTypeOK, DiskLabels
  <2> QED BY <1>1, <2>1, <2>2 DEF DiskTypeOK
<1>6. ASSUME NEW q \in Users PROVE HolderOK(q)'
  <2>1. CASE q = p
    <3>1. HolderOK(p) /\ Block(p)' = Block(p)
      BY <1>1, <1>2, <1>3 DEF HoldersOK, Block
    <3> QED BY <1>1, <1>2, <1>3, <1>4, <2>1, <3>1 DEF HolderOK, Locked, Transferring, Holding
  <2>2. CASE q # p
    <3>1. upc[q] # "idle" => cur[q] \in Bufs
      BY Held
    <3>2. upc[q] \in Locked => upc[q] # "idle"
      BY DEF Locked, Transferring, Holding
    <3> QED BY <1>1, <1>3, <1>4, <2>2, <3>1, <3>2, HolderKept
  <2> QED BY <2>1, <2>2
<1>7. CacheOK'
  <2>1. \A c \in Bufs : Refs(c)' = Refs(c)
    BY <1>1 DEF Refs
  <2>2. \A c \in Bufs : c = b => ~Pin(c) /\ Pin(c)'
    <3>1. \A q \in Users : q # p /\ upc[q] = "pin" => cur[q] # b
      BY <1>1, Apart DEF Locked, Holding
    <3> QED BY <1>1, <1>2, <1>3, <1>4, <3>1 DEF Pin
  <2>3. ASSUME NEW c \in Bufs, c # b PROVE Pin(c)' <=> Pin(c)
    BY <1>1, <1>3, <1>4, <2>3 DEF Pin
  <2>4. ASSUME NEW c \in Bufs PROVE buf'[c].refcnt = Cardinality(Refs(c)') + (IF Pin(c)' THEN 1 ELSE 0)
    <3>1. buf[c].refcnt = Cardinality(Refs(c)) + (IF Pin(c) THEN 1 ELSE 0)
      BY DEF CacheOK
    <3>2. CASE c = b
      <4>1. buf'[c].refcnt = buf[c].refcnt + 1 /\ Cardinality(Refs(c)) \in Nat
        BY <1>3, <3>2, RefsOf
      <4> QED BY <2>1, <2>2, <3>1, <3>2, <4>1
    <3>3. CASE c # b
      BY <1>3, <2>1, <2>3, <3>1, <3>3
    <3> QED BY <3>2, <3>3
  <2> QED BY <1>1, <1>3, <2>4 DEF CacheOK
<1>8. WorkOK'
  BY <1>1, WorkKept
<1>9. QueuesOK' /\ ChainsOK' /\ ~Returned(p)' /\ \A q \in Users : Returned(q)' <=> Returned(q)
  <2>1. \A q \in Requests : cur[q] \in Bufs
    BY RequestIs, Held
  <2> QED BY <1>1, <1>3, <1>4, <2>1, RequestsKept
<1>10. DataOK'
  <2>1. \A q \in Users : /\ upc'[q] = "unpin" => upc[q] = "unpin"
                         /\ upc[q] \in Transferring => upc'[q] \in Transferring
    BY <1>1, <1>4 DEF Transferring
  <2> QED BY <1>1, <1>3, <1>9, <2>1, DataKept
<1> QED BY <1>1, <1>5, <1>6, <1>7, <1>8, <1>9, <1>10 DEF HoldersOK

(* install_trans() unpins the buffer after its block is written.            *)
LEMMA BunpinStep ==
  ASSUME DiskInv, NEW p \in Users, Bunpin(p)
  PROVE  DiskInv'
<1> USE DEF DiskInv, queueVars, deviceVars, callVars
<1> DEFINE b == cur[p]
           k == Block(p)
<1>1. /\ upc[p] = "unpin" /\ UNCHANGED <<lru, queueVars, deviceVars, vlock, callVars, work, latest, dpanic>>
      /\ buf' = [buf EXCEPT ![b].refcnt = @ - 1] /\ upc' = [upc EXCEPT ![p] = "release"]
      /\ pinned' = pinned \ {k}
  BY DEF Bunpin, Move
<1>2. b \in Bufs /\ b # Nil /\ buf[b] \in BufType /\ buf[b].blockno = k /\ k \in DBlocks /\ k # Nil /\ k \in pinned
  <2>1. Block(p) \in pinned
    BY <1>1 DEF HoldersOK, HolderOK
  <2> QED BY <1>1, <2>1, Held DEF Block
<1>3. \A q \in Users : q # p /\ upc[q] \in Locked => cur[q] # b /\ Block(q) # k
  BY <1>1, Apart DEF Locked, Holding
<1>4. Pin(b) /\ buf[b].refcnt = Cardinality(Refs(b)) + 1
  <2>1. Pin(b)
    BY <1>1, <1>2, <1>3 DEF Pin, Locked, Holding
  <2>2. buf[b].refcnt = Cardinality(Refs(b)) + (IF Pin(b) THEN 1 ELSE 0)
    BY <1>2 DEF CacheOK
  <2> QED BY <2>1, <2>2
<1>5. \A c \in Bufs : /\ buf'[c].blockno = buf[c].blockno /\ buf'[c].valid = buf[c].valid
                      /\ buf'[c].disk = buf[c].disk /\ buf'[c].lock = buf[c].lock /\ buf'[c].data = buf[c].data
                      /\ buf'[c].refcnt = (IF c = b THEN buf[b].refcnt - 1 ELSE buf[c].refcnt)
  BY <1>1, <1>2 DEF BufType, DiskTypeOK
<1>6. upc'[p] = "release" /\ \A q \in Users \ {p} : upc'[q] = upc[q]
  BY <1>1 DEF DiskTypeOK
<1>7. DiskTypeOK'
  <2>1. buf' \in [Bufs -> BufType]
    <3>1. buf[b].refcnt - 1 \in Nat
      BY <1>2, <1>4, RefsOf
    <3> QED BY <1>1, <1>2, <3>1 DEF BufType, DiskTypeOK
  <2>2. upc' \in [Users -> DiskLabels]
    BY <1>1 DEF DiskTypeOK, DiskLabels
  <2> QED BY <1>1, <2>1, <2>2 DEF DiskTypeOK
<1>8. ASSUME NEW q \in Users PROVE HolderOK(q)'
  <2>1. CASE q = p
    <3>1. HolderOK(p) /\ Block(p)' = Block(p)
      BY <1>1, <1>2, <1>5 DEF HoldersOK, Block
    <3> QED BY <1>1, <1>2, <1>5, <1>6, <2>1, <3>1 DEF HolderOK, Locked, Transferring, Holding
  <2>2. CASE q # p
    <3>1. upc[q] # "idle" => cur[q] \in Bufs
      BY Held
    <3>2. upc[q] \in Locked => upc[q] # "idle"
      BY DEF Locked, Transferring, Holding
    <3> QED BY <1>1, <1>3, <1>5, <1>6, <2>2, <3>1, <3>2, HolderKept
  <2> QED BY <2>1, <2>2
<1>9. \A c \in Bufs : c # b => buf[c].blockno # k
  BY <1>2 DEF CacheOK
<1>10. CacheOK'
  <2>1. \A c \in Bufs : Refs(c)' = Refs(c)
    BY <1>1 DEF Refs
  <2>2. \A c \in Bufs : c = b => Pin(c) /\ ~Pin(c)'
    BY <1>1, <1>2, <1>3, <1>4, <1>5 DEF Pin, Locked, Holding
  <2>3. ASSUME NEW c \in Bufs, c # b PROVE Pin(c)' <=> Pin(c)
    BY <1>1, <1>5, <1>6, <1>9, <2>3 DEF Pin
  <2>4. ASSUME NEW c \in Bufs PROVE buf'[c].refcnt = Cardinality(Refs(c)') + (IF Pin(c)' THEN 1 ELSE 0)
    <3>1. buf[c].refcnt = Cardinality(Refs(c)) + (IF Pin(c) THEN 1 ELSE 0)
      BY DEF CacheOK
    <3>2. CASE c = b
      <4>1. buf'[c].refcnt = buf[c].refcnt - 1 /\ Cardinality(Refs(c)) \in Nat
        BY <1>5, <3>2, RefsOf
      <4> QED BY <2>1, <2>2, <3>1, <3>2, <4>1
    <3>3. CASE c # b
      BY <1>5, <2>1, <2>3, <3>1, <3>3
    <3> QED BY <3>2, <3>3
  <2> QED BY <1>1, <1>5, <2>4 DEF CacheOK
<1>11. WorkOK'
  BY <1>1, WorkKept
<1>12. QueuesOK' /\ ChainsOK' /\ ~Returned(p)' /\ \A q \in Users : Returned(q)' <=> Returned(q)
  <2>1. \A q \in Requests : cur[q] \in Bufs
    BY RequestIs, Held
  <2> QED BY <1>1, <1>5, <1>6, <2>1, RequestsKept
<1>13. DataOK'
  <2>1. ASSUME NEW c \in Bufs PROVE BufferOK(c)'
    BY <1>1, <1>5 DEF BufferOK, DataOK
  <2>2. ASSUME NEW q \in Users, upc[q] # "idle" PROVE Block(q)' = Block(q) /\ buf'[cur[q]].data = buf[cur[q]].data
    BY <1>1, <1>5, <2>2, Held DEF Block
  <2>3. ASSUME NEW q \in Users PROVE ResultOK(q)'
    <3>1. Returned(q) => upc[q] # "idle"
      BY DEF Returned, Requests
    <3>2. ResultOK(q) /\ (upc'[q] = "unpin" => upc[q] = "unpin")
      BY <1>6 DEF DataOK
    <3> QED BY <1>1, <1>12, <2>2, <3>1, <3>2 DEF ResultOK
  <2>4. ASSUME NEW j \in DBlocks \ pinned' PROVE platter'[j] = latest'[j] \/ Writing(j)'
    <3>1. CASE j = k
      <4>1. platter[k] = latest[k]
        BY <1>1 DEF DataOK, ResultOK
      <4> QED BY <1>1, <3>1, <4>1
    <3>2. CASE j # k /\ Writing(j)
      <4>1. PICK q \in Users : upc[q] \in Transferring /\ op[q] = "write" /\ Block(q) = j
        BY <3>2 DEF Writing
      <4>2. q # p /\ upc[q] # "idle"
        BY <1>1, <4>1 DEF Transferring
      <4> QED BY <1>1, <1>6, <2>2, <4>1, <4>2 DEF Writing
    <3>3. CASE j # k /\ ~Writing(j)
      BY <1>1, <3>3 DEF DataOK
    <3> QED BY <3>1, <3>2, <3>3
  <2> QED BY <2>1, <2>3, <2>4 DEF DataOK
<1> QED BY <1>1, <1>7, <1>8, <1>10, <1>11, <1>12, <1>13 DEF HoldersOK

(* The list still has every buffer when one has been moved to the front.    *)
LEMMA ToFrontKeeps ==
  ASSUME lru \in [1 .. NBUF -> Bufs], \A b \in Bufs : \E n \in 1 .. NBUF : lru[n] = b, NEW b \in Bufs
  PROVE  /\ ToFront(b) \in [1 .. NBUF -> Bufs]
         /\ \A c \in Bufs : \E n \in 1 .. NBUF : ToFront(b)[n] = c
<1> DEFINE k == CHOOSE n \in 1 .. NBUF : lru[n] = b
           to == [n \in 1 .. NBUF |-> IF n = 1 THEN b ELSE IF n <= k THEN lru[n - 1] ELSE lru[n]]
<1>1. k \in 1 .. NBUF /\ lru[k] = b
  OBVIOUS
<1>2. ToFront(b) = to
  BY DEF ToFront
<1> HIDE DEF k
<1>3. to \in [1 .. NBUF -> Bufs]
  <2> SUFFICES ASSUME NEW n \in 1 .. NBUF
               PROVE  (IF n = 1 THEN b ELSE IF n <= k THEN lru[n - 1] ELSE lru[n]) \in Bufs
    OBVIOUS
  <2>1. n # 1 => n - 1 \in 1 .. NBUF
    BY Sizes
  <2> QED BY <2>1
<1>4. ASSUME NEW c \in Bufs PROVE \E n \in 1 .. NBUF : to[n] = c
  <2>1. PICK m \in 1 .. NBUF : lru[m] = c
    OBVIOUS
  <2>2. CASE m = k
    <3>1. 1 \in 1 .. NBUF /\ to[1] = b
      BY <1>1, Sizes
    <3> QED BY <1>1, <2>1, <2>2, <3>1
  <2>3. CASE m < k
    <3>1. m + 1 \in 1 .. NBUF /\ m + 1 # 1 /\ m + 1 <= k /\ (m + 1) - 1 = m
      BY <1>1, <2>3, Sizes
    <3>2. to[m + 1] = lru[m]
      BY <3>1
    <3> QED BY <2>1, <3>1, <3>2
  <2>4. CASE m > k
    <3>1. m # 1 /\ ~(m <= k)
      BY <1>1, <2>4, Sizes
    <3>2. to[m] = lru[m]
      BY <3>1
    <3> QED BY <2>1, <3>2
  <2> QED BY <1>1, <2>2, <2>3, <2>4
<1> HIDE DEF to
<1> QED BY <1>2, <1>3, <1>4

(* brelse() drops the reference, and an unused buffer goes to the front.    *)
LEMMA BrelseStep ==
  ASSUME DiskInv, NEW p \in Users, Brelse(p)
  PROVE  DiskInv'
<1> USE DEF DiskInv, queueVars, deviceVars
<1> DEFINE b == cur[p]
<1>1. /\ upc[p] = "unref" /\ UNCHANGED <<queueVars, deviceVars, vlock, op, head, pinned, latest, dpanic>>
      /\ buf' = [buf EXCEPT ![b].refcnt = @ - 1] /\ upc' = [upc EXCEPT ![p] = "idle"]
      /\ lru' = (IF buf[b].refcnt = 1 THEN ToFront(b) ELSE lru)
      /\ cur' = [cur EXCEPT ![p] = Nil] /\ work' = [work EXCEPT ![p] = Tail(@)]
  BY DEF Brelse, Move
<1>2. b \in Bufs /\ b # Nil /\ buf[b] \in BufType /\ work[p] \in Seq(Calls) /\ work[p] # <<>>
  BY <1>1, Held
<1>3. p \in Refs(b) /\ Cardinality(Refs(b)) \in Nat /\ Cardinality(Refs(b)) - 1 \in Nat
  <2>1. p \in Refs(b)
    BY DEF Refs
  <2>2. Cardinality(Refs(b)) # 0
    BY <1>2, <2>1, RefsOf, FS_EmptySet
  <2>3. Cardinality(Refs(b)) \in Nat
    BY <1>2, RefsOf
  <2> QED BY <2>1, <2>2, <2>3
<1>4. buf[b].refcnt - 1 \in Nat
  <2>1. buf[b].refcnt = Cardinality(Refs(b)) + (IF Pin(b) THEN 1 ELSE 0)
    BY <1>2 DEF CacheOK
  <2> QED BY <1>3, <2>1
<1>5. \A c \in Bufs : /\ buf'[c].blockno = buf[c].blockno /\ buf'[c].valid = buf[c].valid
                      /\ buf'[c].disk = buf[c].disk /\ buf'[c].lock = buf[c].lock /\ buf'[c].data = buf[c].data
                      /\ buf'[c].refcnt = (IF c = b THEN buf[b].refcnt - 1 ELSE buf[c].refcnt)
  BY <1>1, <1>2 DEF BufType, DiskTypeOK
<1>6. /\ upc'[p] = "idle" /\ cur'[p] = Nil /\ work'[p] = Tail(work[p])
      /\ \A q \in Users \ {p} : upc'[q] = upc[q] /\ cur'[q] = cur[q] /\ work'[q] = work[q]
  BY <1>1 DEF DiskTypeOK
<1>7. /\ lru' \in [1 .. NBUF -> Bufs] /\ \A c \in Bufs : \E n \in 1 .. NBUF : lru'[n] = c
  <2>1. lru \in [1 .. NBUF -> Bufs] /\ \A c \in Bufs : \E n \in 1 .. NBUF : lru[n] = c
    BY DEF CacheOK, DiskTypeOK
  <2>2. /\ ToFront(b) \in [1 .. NBUF -> Bufs]
        /\ \A c \in Bufs : \E n \in 1 .. NBUF : ToFront(b)[n] = c
    BY <1>2, <2>1, ToFrontKeeps
  <2>3. lru' = ToFront(b) \/ lru' = lru
    BY <1>1
  <2> QED BY <2>1, <2>2, <2>3
<1>8. DiskTypeOK'
  <2>1. buf' \in [Bufs -> BufType]
    BY <1>1, <1>2, <1>4 DEF BufType, DiskTypeOK
  <2>2. upc' \in [Users -> DiskLabels] /\ cur' \in [Users -> Bufs \cup {Nil}]
    BY <1>1 DEF DiskTypeOK, DiskLabels
  <2>3. work' \in [Users -> Seq(Calls)]
    BY <1>1, <1>2 DEF DiskTypeOK
  <2> QED BY <1>1, <1>7, <2>1, <2>2, <2>3 DEF DiskTypeOK
<1>9. ASSUME NEW q \in Users PROVE HolderOK(q)'
  <2>1. CASE q = p
    BY <1>6, <2>1 DEF HolderOK, Locked, Transferring, Holding
  <2>2. CASE q # p
    <3>1. upc[q] # "idle" => cur[q] \in Bufs
      BY Held
    <3>2. upc[q] \in Locked => upc[q] # "idle"
      BY DEF Locked, Transferring, Holding
    <3> QED BY <1>1, <1>5, <1>6, <2>2, <3>1, <3>2, HolderKept
  <2> QED BY <2>1, <2>2
<1>10. CacheOK'
  <2>1. ASSUME NEW c \in Bufs PROVE Refs(c)' = IF c = b THEN Refs(c) \ {p} ELSE Refs(c)
    <3>1. c # Nil
      BY Sizes
    <3>2. \A q \in Users : cur'[q] = c <=> (cur[q] = c /\ q # p)  \/ (c # b /\ cur[q] = c)
      BY <1>6, <3>1
    <3> QED BY <3>2 DEF Refs
  <2>2. \A c \in Bufs : Pin(c)' <=> Pin(c)
    BY <1>1, <1>5, <1>6 DEF Pin
  <2>3. ASSUME NEW c \in Bufs PROVE buf'[c].refcnt = Cardinality(Refs(c)') + (IF Pin(c)' THEN 1 ELSE 0)
    <3>1. buf[c].refcnt = Cardinality(Refs(c)) + (IF Pin(c) THEN 1 ELSE 0)
      BY DEF CacheOK
    <3>2. CASE c = b
      <4>1. Cardinality(Refs(c) \ {p}) = Cardinality(Refs(c)) - 1 /\ Cardinality(Refs(c)) \in Nat
        <5>1. IsFiniteSet(Refs(c)) /\ p \in Refs(c)
          BY <1>3, <3>2, RefsOf
        <5> QED BY <5>1, RefsOf, FS_RemoveElement
      <4>2. Cardinality(Refs(c)') = Cardinality(Refs(c)) - 1
        BY <2>1, <3>2, <4>1
      <4> QED BY <1>5, <2>2, <3>1, <3>2, <4>1, <4>2
    <3>3. CASE c # b
      BY <1>5, <2>1, <2>2, <3>1, <3>3
    <3> QED BY <3>2, <3>3
  <2>4. pinned' = pinned /\ \A j \in pinned : \E c \in Bufs : buf'[c].blockno = j
    BY <1>1, <1>5 DEF CacheOK
  <2>5. \A c, d \in Bufs : c # d /\ buf'[c].blockno # Nil => buf'[c].blockno # buf'[d].blockno
    BY <1>5 DEF CacheOK
  <2> QED BY <1>7, <2>3, <2>4, <2>5 DEF CacheOK
<1>11. WorkOK'
  <2>1. PICK w \in Work : /\ \A q \in Users : work[q] # <<>> => w[q] # <<>>
                          /\ \A q \in Users : \A n \in DOMAIN work[q] :
                               work[q][n].do = "log" => work[q][n].block \in Logged(w)
                          /\ pinned \subseteq Logged(w)
    BY DEF WorkOK
  <2>2. \A n \in DOMAIN Tail(work[p]) : n + 1 \in DOMAIN work[p] /\ Tail(work[p])[n] = work[p][n + 1]
    BY <1>2
  <2>3. \A q \in Users : \A n \in DOMAIN work'[q] : work'[q][n].do = "log" => work'[q][n].block \in Logged(w)
    <3>1. ASSUME NEW n \in DOMAIN work'[p], work'[p][n].do = "log" PROVE work'[p][n].block \in Logged(w)
      BY <1>6, <2>1, <2>2, <3>1
    <3> QED BY <1>6, <2>1, <3>1
  <2>4. \A q \in Users : work'[q] # <<>> => w[q] # <<>>
    BY <1>2, <1>6, <2>1
  <2> QED BY <1>1, <2>1, <2>3, <2>4 DEF WorkOK
<1>12. QueuesOK' /\ ChainsOK' /\ ~Returned(p)' /\ \A q \in Users : Returned(q)' <=> Returned(q)
  <2>1. \A q \in Requests : cur[q] \in Bufs
    BY RequestIs, Held
  <2> QED BY <1>1, <1>5, <1>6, <2>1, RequestsKept
<1>13. DataOK'
  <2>1. \A q \in Users : /\ upc'[q] = "unpin" => upc[q] = "unpin" /\ q # p
                         /\ upc[q] \in Transferring => upc'[q] \in Transferring /\ q # p
                         /\ Returned(q)' => q # p
    BY <1>1, <1>6, <1>12 DEF Transferring
  <2> QED BY <1>1, <1>5, <1>6, <1>12, <2>1, DataKept
<1> QED BY <1>1, <1>8, <1>9, <1>10, <1>11, <1>12, <1>13 DEF HoldersOK

-----------------------------------------------------------------------------
(* bget() finds a buffer: those that are in use are a process's, or pinned. *)
LEMMA BuffersEnough ==
  ASSUME DiskInv, NEW p \in Users, upc[p] = "idle", work[p] # <<>>
  PROVE  Unused # {}
<1> USE DEF DiskInv
<1>1. SUFFICES ASSUME Unused = {} PROVE FALSE
  OBVIOUS
<1>2. PICK w \in Work : /\ \A q \in Users : work[q] # <<>> => w[q] # <<>>
                        /\ pinned \subseteq Logged(w)
  BY DEF WorkOK
<1> DEFINE W == {q \in Users : w[q] # <<>>}
           H == {b \in Bufs : Refs(b) # {}}
           P == {b \in Bufs : Refs(b) = {}}
<1>3. /\ IsFiniteSet(W) /\ IsFiniteSet(W \ {p}) /\ IsFiniteSet(Logged(w)) /\ IsFiniteSet(H) /\ IsFiniteSet(P)
      /\ Cardinality(W) \in Nat /\ Cardinality(W \ {p}) \in Nat /\ Cardinality(Logged(w)) \in Nat
      /\ Cardinality(H) \in Nat /\ Cardinality(P) \in Nat
  <2>1. W \in SUBSET Users /\ W \ {p} \in SUBSET Users /\ Logged(w) \in SUBSET DBlocks /\ H \in SUBSET Bufs /\ P \in SUBSET Bufs
    BY DEF Logged
  <2> HIDE DEF W, H, P
  <2> QED BY <2>1, Finite
<1>4. NBUF >= Cardinality(W) + Cardinality(Logged(w)) /\ NBUF \in Nat
  BY DiskAssumption
<1>5. Cardinality(W \ {p}) = Cardinality(W) - 1
  <2>1. p \in W
    BY <1>2
  <2> HIDE DEF W
  <2> QED BY <1>3, <2>1, FS_RemoveElement
<1>6. Cardinality(H) + Cardinality(P) = NBUF
  <2>1. H \cup P = Bufs /\ H \cap P = {}
    OBVIOUS
  <2>2. Cardinality(H \cup P) = Cardinality(H) + Cardinality(P) - Cardinality(H \cap P)
    <3> HIDE DEF H, P
    <3> QED BY <1>3, FS_Union
  <2> HIDE DEF H, P
  <2>3. Cardinality(Bufs) = NBUF
    BY Finite
  <2> HIDE DEF H, P
  <2>4. Cardinality(Bufs) = Cardinality(H) + Cardinality(P) - Cardinality({})
    BY <2>1, <2>2
  <2> QED BY <1>3, <2>3, <2>4, FS_EmptySet
<1>7. Cardinality(H) <= Cardinality(W \ {p})
  <2> DEFINE Of(b) == CHOOSE q \in Users : cur[q] = b
             f == [b \in H |-> Of(b)]
  <2>1. ASSUME NEW b \in H PROVE Of(b) \in W \ {p} /\ cur[Of(b)] = b
    <3>1. \E q \in Users : cur[q] = b
      BY DEF Refs
    <3>2. Of(b) \in Users /\ cur[Of(b)] = b
      BY <3>1
    <3>3. b # Nil
      BY Sizes
    <3>4. ASSUME NEW q \in Users, cur[q] = b PROVE q # p /\ w[q] # <<>>
      BY <1>2, <3>3, <3>4 DEF HoldersOK, HolderOK
    <3> HIDE DEF Of
    <3> QED BY <3>2, <3>4
  <2>2. f \in Injection(H, W \ {p})
    <3>1. f \in [H -> W \ {p}]
      BY <2>1
    <3>2. ASSUME NEW b \in H, NEW c \in H, f[b] = f[c] PROVE b = c
      BY <2>1, <3>2
    <3> HIDE DEF f, W, H
    <3> QED BY <3>1, <3>2 DEF Injection, IsInjective
  <2> HIDE DEF f, W, H
  <2> QED BY <1>3, <2>2, FS_Injection
<1>8. Cardinality(P) <= Cardinality(Logged(w))
  <2> DEFINE f == [b \in P |-> buf[b].blockno]
  <2>1. ASSUME NEW b \in P PROVE buf[b].blockno \in Logged(w) /\ buf[b].blockno # Nil
    <3>1. PICK n \in 1 .. NBUF : lru[n] = b
      BY DEF CacheOK
    <3>2. buf[b].refcnt # 0
      BY <1>1, <3>1 DEF Unused
    <3>3. buf[b].refcnt = Cardinality(Refs(b)) + (IF Pin(b) THEN 1 ELSE 0)
      BY DEF CacheOK
    <3>4. Cardinality(Refs(b)) = 0
      BY FS_EmptySet
    <3>5. Pin(b)
      BY <3>2, <3>3, <3>4
    <3>6. buf[b].blockno \in pinned
      BY <3>5 DEF Pin
    <3> QED BY <1>2, <3>6, Sizes DEF DiskTypeOK
  <2>2. f \in Injection(P, Logged(w))
    <3>1. f \in [P -> Logged(w)]
      BY <2>1
    <3>2. ASSUME NEW b \in P, NEW c \in P, f[b] = f[c] PROVE b = c
      <4>1. buf[b].blockno = buf[c].blockno /\ buf[b].blockno # Nil
        BY <2>1, <3>2
      <4> QED BY <4>1 DEF CacheOK
    <3> HIDE DEF f, P
    <3> QED BY <3>1, <3>2 DEF Injection, IsInjective
  <2> HIDE DEF f, P
  <2> QED BY <1>3, <2>2, FS_Injection
<1> HIDE DEF W, H, P
<1> QED BY <1>3, <1>4, <1>5, <1>6, <1>7, <1>8

(* The buffer that bget() returns: the one with the block, or one that      *)
(* nobody refers to, which is not pinned.                                   *)
BgetBuffer(p) ==
  IF Cached(Head(work[p]).block) # {} THEN Min(Cached(Head(work[p]).block)) ELSE lru[Max(Unused)]

(* What bget() chooses: the buffer of the block, or else one that nobody    *)
(* refers to; there always is one.                                          *)
LEMMA BgetFinds ==
  ASSUME DiskInv, NEW p \in Users, upc[p] = "idle", work[p] # <<>>
  PROVE  LET k == Head(work[p]).block
             b == BgetBuffer(p)
         IN  /\ k \in DBlocks /\ k # Nil /\ b \in Bufs
             /\ Cached(k) # {} => buf[b].blockno = k
             /\ Cached(k) = {} => /\ \A c \in Bufs : buf[c].blockno # k
                                  /\ k \notin pinned /\ buf[b].refcnt = 0
                                  /\ Refs(b) = {} /\ buf[b].blockno \notin pinned
                                  /\ platter[k] = latest[k]
<1> USE DEF DiskInv
<1> DEFINE k == Head(work[p]).block
           b == BgetBuffer(p)
<1>1. k \in DBlocks /\ k # Nil
  <2>1. work[p] \in Seq(Calls)
    BY DEF DiskTypeOK
  <2>2. Head(work[p]) \in Calls
    BY <2>1
  <2> QED BY <2>2, Sizes DEF Calls
<1>2. CASE Cached(k) # {}
  <2>1. Cached(k) \in SUBSET Nat
    BY Sizes DEF Cached
  <2>2. Min(Cached(k)) \in Cached(k)
    BY <1>2, <2>1, MinIn
  <2> QED BY <1>1, <1>2, <2>2 DEF Cached, BgetBuffer
<1>3. CASE Cached(k) = {}
  <2>1. Max(Unused) \in Unused
    <3>1. Unused \in SUBSET (1 .. NBUF) /\ NBUF \in Nat
      BY Sizes DEF Unused
    <3> QED BY <3>1, BuffersEnough, MaxIn
  <2>2. b \in Bufs /\ buf[b].refcnt = 0
    BY <1>3, <2>1 DEF Unused, BgetBuffer, DiskTypeOK
  <2> HIDE DEF b
  <2>3. Refs(b) = {} /\ ~Pin(b)
    <3>1. buf[b].refcnt = Cardinality(Refs(b)) + (IF Pin(b) THEN 1 ELSE 0)
      BY <2>2 DEF CacheOK
    <3>2. Cardinality(Refs(b)) = 0 /\ ~Pin(b)
      BY <2>2, <3>1, RefsOf
    <3> QED BY <2>2, <3>2, RefsOf, FS_EmptySet
  <2>4. buf[b].blockno \notin pinned
    BY <2>3 DEF Pin, Refs
  <2>5. \A c \in Bufs : buf[c].blockno # k
    BY <1>3 DEF Cached
  <2>6. k \notin pinned
    BY <2>5 DEF CacheOK
  <2>7. ~Writing(k)
    <3> SUFFICES ASSUME NEW q \in Users, upc[q] \in Transferring, Block(q) = k PROVE FALSE
      BY DEF Writing
    <3>1. cur[q] \in Bufs
      BY Held DEF Transferring
    <3> QED BY <2>5, <3>1 DEF Block
  <2>8. platter[k] = latest[k]
    BY <1>1, <2>6, <2>7 DEF DataOK
  <2> QED BY <1>1, <1>3, <2>2, <2>3, <2>4, <2>5, <2>6, <2>8 DEF b
<1> QED BY <1>2, <1>3

(* bget() takes a reference to the buffer of the block, or recycles one.    *)
LEMMA BgetStep ==
  ASSUME DiskInv, NEW p \in Users, Bget(p)
  PROVE  DiskInv'
<1> USE DEF DiskInv, queueVars, deviceVars, ghostVars
<1> DEFINE k == Head(work[p]).block
           b == BgetBuffer(p)
<1>1. upc[p] = "idle" /\ work[p] # <<>>
  BY DEF Bget
<1>2. /\ k \in DBlocks /\ k # Nil /\ b \in Bufs
      /\ Cached(k) # {} => buf[b].blockno = k
      /\ Cached(k) = {} => /\ \A c \in Bufs : buf[c].blockno # k
                           /\ k \notin pinned /\ buf[b].refcnt = 0
                           /\ Refs(b) = {} /\ buf[b].blockno \notin pinned
                           /\ platter[k] = latest[k]
  BY <1>1, BgetFinds
<1>3. /\ buf' = [buf EXCEPT ![b] = IF Cached(k) # {} THEN [buf[b] EXCEPT !.refcnt = @ + 1] ELSE Recycled(b, k)]
      /\ cur' = [cur EXCEPT ![p] = b] /\ upc' = [upc EXCEPT ![p] = "lock"]
      /\ UNCHANGED <<lru, queueVars, deviceVars, vlock, op, head, ghostVars, dpanic>>
  BY <1>1, BuffersEnough DEF Bget, Move, BgetBuffer
<1> HIDE DEF b
<1>4. buf[b] \in BufType /\ buf \in [Bufs -> BufType]
  BY <1>2 DEF DiskTypeOK
<1>5. /\ \A c \in Bufs : c # b => buf'[c] = buf[c]
      /\ buf'[b].blockno = k /\ buf'[b].lock = buf[b].lock /\ buf'[b].disk = buf[b].disk /\ buf'[b].data = buf[b].data
      /\ buf'[b].refcnt = buf[b].refcnt + 1
      /\ Cached(k) # {} => buf'[b].valid = buf[b].valid
      /\ Cached(k) = {} => buf'[b].valid = FALSE
      /\ buf' \in [Bufs -> BufType]
  <2>1. CASE Cached(k) # {}
    <3>1. buf[b].refcnt + 1 \in Nat
      BY <1>4 DEF BufType
    <3>2. buf'[b] = [buf[b] EXCEPT !.refcnt = buf[b].refcnt + 1]
      BY <1>2, <1>3, <1>4, <2>1 DEF Recycled
    <3>3. buf'[b] \in BufType
      BY <1>4, <3>1, <3>2 DEF BufType
    <3>4. buf' \in [Bufs -> BufType]
      BY <1>2, <1>3, <1>4, <3>3
    <3> QED BY <1>2, <1>3, <1>4, <2>1, <3>2, <3>4 DEF BufType
  <2>2. CASE Cached(k) = {}
    <3>1. buf[b].refcnt + 1 = 1
      BY <1>2, <2>2
    <3> QED BY <1>2, <1>3, <1>4, <2>2, <3>1 DEF BufType, Recycled
  <2> QED BY <2>1, <2>2
<1>6. /\ upc'[p] = "lock" /\ cur'[p] = b /\ \A q \in Users \ {p} : upc'[q] = upc[q] /\ cur'[q] = cur[q]
      /\ cur[p] = Nil /\ b # Nil
  BY <1>1, <1>2, <1>3, Sizes DEF DiskTypeOK, HoldersOK, HolderOK
<1>7. DiskTypeOK'
  <2>1. upc' \in [Users -> DiskLabels] /\ cur' \in [Users -> Bufs \cup {Nil}]
    BY <1>2, <1>3 DEF DiskTypeOK, DiskLabels
  <2> QED BY <1>3, <1>5, <2>1 DEF DiskTypeOK
(* A buffer that a process has keeps all but its reference count.           *)
<1>8. ASSUME NEW q \in Users, q # p, upc[q] # "idle"
      PROVE  /\ cur[q] \in Bufs /\ buf'[cur[q]].blockno = buf[cur[q]].blockno /\ buf'[cur[q]].lock = buf[cur[q]].lock
             /\ buf'[cur[q]].valid = buf[cur[q]].valid /\ buf'[cur[q]].disk = buf[cur[q]].disk
             /\ buf'[cur[q]].data = buf[cur[q]].data
  <2>1. cur[q] \in Bufs
    BY <1>8, Held
  <2>2. CASE cur[q] # b
    BY <1>5, <2>1, <2>2
  <2>3. CASE cur[q] = b
    <3>1. q \in Refs(b)
      BY <2>3 DEF Refs
    <3> QED BY <1>2, <1>5, <2>1, <2>3, <3>1
  <2> QED BY <2>2, <2>3
<1>9. ASSUME NEW q \in Users PROVE HolderOK(q)'
  <2>1. CASE q = p
    <3>1. Block(p)' = k /\ work'[p] = work[p]
      BY <1>3, <1>5, <1>6 DEF Block
    <3> QED BY <1>1, <1>6, <2>1, <3>1 DEF HolderOK, Locked, Transferring, Holding
  <2>2. CASE q # p
    <3>1. upc[q] \in Locked => upc[q] # "idle"
      BY DEF Locked, Transferring, Holding
    <3> QED BY <1>3, <1>6, <1>8, <2>2, <3>1, HolderKept
  <2> QED BY <2>1, <2>2
<1>10. \A c \in Bufs : c # b => buf'[c].blockno = buf[c].blockno /\ (buf[c].blockno # k)
  BY <1>2, <1>5 DEF CacheOK
<1>11. CacheOK'
  <2>1. \A c \in Bufs : Refs(c)' = IF c = b THEN Refs(c) \cup {p} ELSE Refs(c)
    BY <1>6, Sizes DEF Refs
  <2>2. ASSUME NEW c \in Bufs PROVE Pin(c)' <=> Pin(c)
    <3>1. \A q \in Users : upc'[q] = "pin" /\ cur'[q] = c <=> upc[q] = "pin" /\ cur[q] = c
      BY <1>1, <1>6
    <3>2. buf'[c].blockno \in pinned <=> buf[c].blockno \in pinned
      <4>1. CASE c # b
        BY <1>5, <4>1
      <4>2. CASE c = b
        BY <1>2, <1>5, <4>2
      <4> QED BY <4>1, <4>2
    <3> QED BY <1>3, <3>1, <3>2 DEF Pin
  <2>3. ASSUME NEW c \in Bufs PROVE buf'[c].refcnt = Cardinality(Refs(c)') + (IF Pin(c)' THEN 1 ELSE 0)
    <3>1. buf[c].refcnt = Cardinality(Refs(c)) + (IF Pin(c) THEN 1 ELSE 0)
      BY DEF CacheOK
    <3>2. CASE c = b
      <4>1. Cardinality(Refs(c) \cup {p}) = Cardinality(Refs(c)) + 1 /\ Cardinality(Refs(c)) \in Nat
        <5>1. IsFiniteSet(Refs(c)) /\ p \notin Refs(c)
          BY <1>6, RefsOf, Sizes DEF Refs
        <5> QED BY <5>1, RefsOf, FS_AddElement
      <4>2. Cardinality(Refs(c)') = Cardinality(Refs(c)) + 1 /\ buf'[c].refcnt = buf[c].refcnt + 1
        BY <1>5, <2>1, <3>2, <4>1
      <4> QED BY <2>2, <3>1, <4>1, <4>2
    <3>3. CASE c # b
      BY <1>5, <2>1, <2>2, <3>1, <3>3
    <3> QED BY <3>2, <3>3
  <2>4. \A c, d \in Bufs : c # d /\ buf'[c].blockno # Nil => buf'[c].blockno # buf'[d].blockno
    BY <1>2, <1>5, <1>10 DEF CacheOK
  <2>5. ASSUME NEW j \in pinned PROVE \E c \in Bufs : buf'[c].blockno = j
    <3>1. PICK c \in Bufs : buf[c].blockno = j
      BY DEF CacheOK
    <3>2. buf'[c].blockno = j
      BY <1>2, <1>5, <3>1
    <3> QED BY <3>2
  <2> QED BY <1>3, <2>3, <2>4, <2>5 DEF CacheOK
<1>12. WorkOK'
  BY <1>3, WorkKept
<1>13. QueuesOK' /\ ChainsOK' /\ ~Returned(p)' /\ \A q \in Users : Returned(q)' <=> Returned(q)
  <2>1. \A q \in Requests : q # p /\ q \in Users /\ upc[q] # "idle"
    BY <1>1, RequestIs
  <2> QED BY <1>1, <1>3, <1>6, <1>8, <2>1, RequestsKept
<1>14. DataOK'
  <2>1. ASSUME NEW c \in Bufs PROVE BufferOK(c)'
    <3>1. BufferOK(c)
      BY DEF DataOK
    <3>2. CASE c # b
      BY <1>3, <1>5, <3>1, <3>2 DEF BufferOK
    <3>3. CASE c = b /\ Cached(k) # {}
      BY <1>2, <1>3, <1>5, <3>1, <3>3 DEF BufferOK
    <3>4. CASE c = b /\ Cached(k) = {}
      BY <1>2, <1>3, <1>5, <3>4 DEF BufferOK
    <3> QED BY <3>2, <3>3, <3>4
  <2>2. ASSUME NEW q \in Users, q # p, upc[q] # "idle" PROVE Block(q)' = Block(q)
    BY <1>6, <1>8, <2>2 DEF Block
  <2>3. ASSUME NEW q \in Users PROVE ResultOK(q)'
    <3>1. CASE q = p
      BY <1>6, <1>13, <3>1 DEF ResultOK
    <3>2. CASE q # p
      <4>1. Returned(q) \/ upc[q] = "unpin" => upc[q] # "idle"
        BY DEF Returned, Requests
      <4>2. ResultOK(q)
        BY DEF DataOK
      <4> QED BY <1>3, <1>6, <1>8, <1>13, <2>2, <3>2, <4>1, <4>2 DEF ResultOK
    <3> QED BY <3>1, <3>2
  <2>4. ASSUME NEW j \in DBlocks, Writing(j) PROVE Writing(j)'
    <3>1. PICK q \in Users : upc[q] \in Transferring /\ op[q] = "write" /\ Block(q) = j
      BY <2>4 DEF Writing
    <3>2. q # p /\ upc[q] # "idle"
      BY <1>1, <3>1 DEF Transferring
    <3> QED BY <1>3, <1>6, <2>2, <3>1, <3>2 DEF Writing
  <2> QED BY <1>3, <2>1, <2>3, <2>4 DEF DataOK
<1> QED BY <1>3, <1>7, <1>9, <1>11, <1>12, <1>13, <1>14 DEF HoldersOK

-----------------------------------------------------------------------------
(* The driver and the device.  A request that stays has its descriptors.    *)
LEMMA ChainsKept ==
  ASSUME ChainsOK, UNCHANGED <<desc, head>>, Requests' = Requests,
         \A p \in Requests : /\ cur'[p] = cur[p] /\ op'[p] = op[p] /\ info'[head[p]].b = info[head[p]].b
                             /\ buf'[cur[p]].blockno = buf[cur[p]].blockno
  PROVE  ChainsOK'
<1>1. FreeDescs' = FreeDescs
  BY DEF FreeDescs
<1>2. ASSUME NEW p \in Requests PROVE Block(p)' = Block(p) /\ Chain(p)' = Chain(p) /\ Second(p)' = Second(p) /\ Third(p)' = Third(p)
  BY DEF Block, Chain, Second, Third
<1> QED BY <1>1, <1>2 DEF ChainsOK

(* An entry of a queue is one process's request; what the device has taken  *)
(* says what that process wants.                                            *)
LEMMA QueuedIs ==
  ASSUME DiskInv, NEW i \in InAvail \cup InDevice \cup InUsed
  PROVE  \E p \in Requests : /\ head[p] = i /\ buf[cur[p]].disk
                             /\ \A q \in Requests : head[q] = i => q = p
BY RequestIs DEF DiskInv, QueuesOK

(* The descriptors that are not free: those of the requests.                *)
LEMMA QueuedNotFree ==
  ASSUME DiskInv, NEW i \in InAvail \cup InDevice \cup InUsed
  PROVE  i \notin FreeDescs
<1>1. PICK p \in Requests : head[p] = i
  BY QueuedIs
<1> QED BY <1>1 DEF DiskInv, ChainsOK, Chain, FreeDescs

(* The device takes the next entry of the avail ring and follows its chain. *)
LEMMA DevTakeStep ==
  ASSUME DiskInv, DevTake
  PROVE  DiskInv'
<1> USE DEF DiskInv, cacheVars, queueVars, callVars, ghostVars
<1> DEFINE i == avail.ring[dev.seen % NUM]
           j == desc[i].next
           r == [i |-> i, block |-> desc[i].what.block, write |-> desc[i].what.write, b |-> desc[j].what.buffer]
<1>1. /\ dev.seen # avail.idx
      /\ dev' = [dev EXCEPT !.seen = (@ + 1) % IdxMod, !.taken = @ \cup {r}]
      /\ UNCHANGED <<cacheVars, queueVars, platter, vlock, upc, callVars, ghostVars, dpanic>>
  BY DEF DevTake
<1>2. avail \in RingType /\ dev.seen \in 0 .. (IdxMod - 1)
  BY DEF DiskTypeOK
<1>3. /\ i \in Descs /\ i \in InAvail /\ (dev.seen + 1) % IdxMod \in 0 .. (IdxMod - 1)
      /\ Entries(avail, (dev.seen + 1) % IdxMod) = InAvail \ {i}
      /\ Distinct(avail, (dev.seen + 1) % IdxMod)
  BY <1>1, <1>2, RingTake DEF QueuesOK, InAvail
<1>4. PICK p \in Requests : head[p] = i /\ buf[cur[p]].disk /\ \A q \in Requests : head[q] = i => q = p
  BY <1>3, QueuedIs
<1>5. p \in Users /\ upc[p] # "idle" /\ cur[p] \in Bufs /\ Block(p) \in DBlocks
  BY RequestIs, Held
<1>6. r = [i |-> head[p], block |-> Block(p), write |-> op[p] # "read", b |-> cur[p]]
  <2>1. desc[i].what = [block |-> Block(p), write |-> op[p] # "read"]
    BY ZenonT(30), <1>4 DEF ChainsOK
  <2>2. desc[j].what = [buffer |-> cur[p]]
    BY <1>4 DEF ChainsOK, Second
  <2> HIDE DEF i, j
  <2> QED BY <1>4, <2>1, <2>2
<1>7. /\ dev'.seen = (dev.seen + 1) % IdxMod /\ dev'.taken = dev.taken \cup {r} /\ dev'.irq = dev.irq
      /\ dev' \in [seen : 0 .. (IdxMod - 1), irq : BOOLEAN,
                   taken : SUBSET [i : Descs, block : DBlocks, write : BOOLEAN, b : Bufs]]
  <2>1. r \in [i : Descs, block : DBlocks, write : BOOLEAN, b : Bufs]
    <3> HIDE DEF i, r
    <3> QED BY <1>3, <1>4, <1>5, <1>6
  <2> HIDE DEF r
  <2>2. dev \in [seen : 0 .. (IdxMod - 1), irq : BOOLEAN,
                 taken : SUBSET [i : Descs, block : DBlocks, write : BOOLEAN, b : Bufs]]
    BY DEF DiskTypeOK
  <2> DEFINE n == (dev.seen + 1) % IdxMod
             t == dev.taken \cup {r}
  <2>3. dev' = [dev EXCEPT !.seen = n, !.taken = t]
    BY <1>1, <2>2
  <2>4. n \in 0 .. (IdxMod - 1) /\ t \in SUBSET [i : Descs, block : DBlocks, write : BOOLEAN, b : Bufs]
    BY <1>3, <2>1, <2>2
  <2>5. dev'.seen = n /\ dev'.taken = t /\ dev'.irq = dev.irq
    <3> HIDE DEF n, t
    <3> QED BY <2>2, <2>3
  <2>6. dev' \in [seen : 0 .. (IdxMod - 1), irq : BOOLEAN,
                  taken : SUBSET [i : Descs, block : DBlocks, write : BOOLEAN, b : Bufs]]
    <3> HIDE DEF n, t
    <3> QED BY <2>2, <2>3, <2>4
  <2> QED BY <2>5, <2>6
<1> HIDE DEF i, j, r
<1>8. DiskTypeOK'
  BY <1>1, <1>7 DEF DiskTypeOK
<1>9. r.i = i
  BY <1>4, <1>6
<1>10. InAvail' = InAvail \ {i} /\ InDevice' = InDevice \cup {i} /\ InUsed' = InUsed
  <2>1. InAvail' = Entries(avail, (dev.seen + 1) % IdxMod)
    BY <1>1, <1>7 DEF InAvail, Entries, EntryAt, Waiting
  <2>2. InUsed' = InUsed
    BY <1>1 DEF InUsed, Entries, EntryAt, Waiting
  <2>3. InDevice' = InDevice \cup {i}
    BY <1>7, <1>9 DEF InDevice
  <2> QED BY <1>3, <2>1, <2>2, <2>3
<1>11. Distinct(avail, dev.seen)' /\ Distinct(used, usedIdx)'
  <2>1. Distinct(avail, dev.seen)' <=> Distinct(avail, (dev.seen + 1) % IdxMod)
    BY <1>1, <1>7 DEF Distinct, EntryAt, Waiting
  <2>2. Distinct(used, usedIdx)' <=> Distinct(used, usedIdx)
    BY <1>1 DEF Distinct, EntryAt, Waiting
  <2> QED BY <1>3, <2>1, <2>2 DEF QueuesOK
<1>12. Requests' = Requests /\ \A q \in Users : Block(q)' = Block(q)
  BY <1>1 DEF Requests, Block
<1>13. QueuesOK'
  <2>1. i \notin InDevice /\ i \notin InUsed
    BY <1>3 DEF QueuesOK
  <2>2. \A s, t \in dev'.taken : s.i = t.i => s = t
    <3>1. \A s \in dev.taken : s.i # i
      BY <2>1 DEF InDevice
    <3> QED BY <1>7, <1>9, <3>1 DEF QueuesOK
  <2>3. /\ InAvail' \cap InDevice' = {} /\ InAvail' \cap InUsed' = {} /\ InDevice' \cap InUsed' = {}
        /\ InAvail' \cup InDevice' \cup InUsed' = InAvail \cup InDevice \cup InUsed
    BY <1>3, <1>10, <2>1 DEF QueuesOK
  <2>4. ASSUME NEW s \in dev'.taken, NEW q \in Requests, head[q] = s.i
        PROVE  s = [i |-> head[q], block |-> Block(q), write |-> op[q] # "read", b |-> cur[q]]
    <3>1. CASE s \in dev.taken
      BY <2>4, <3>1 DEF QueuesOK
    <3>2. CASE s = r
      BY <1>4, <1>6, <1>9, <2>4, <3>2
    <3> QED BY <1>7, <3>1, <3>2
  <2>5. \A q \in Requests : q \in Users
    BY DEF Requests
  <2>6. \A k \in InUsed : info[k].status = 0
    BY DEF QueuesOK
  <2>7. \A k \in InAvail \cup InDevice \cup InUsed : \E q \in Requests : head[q] = k /\ buf[cur[q]].disk
    BY DEF QueuesOK
  <2> QED BY <1>1, <1>10, <1>11, <1>12, <2>2, <2>3, <2>4, <2>5, <2>6, <2>7 DEF QueuesOK
<1>14. ChainsOK'
  BY <1>1, <1>12, ChainsKept
<1>15. \A q \in Users : Returned(q)' <=> Returned(q)
  BY <1>1, <1>3, <1>10, <1>12 DEF Returned
<1>16. DataOK' /\ CacheOK' /\ WorkOK'
  BY <1>1, <1>15, DataKept, CacheKept, WorkKept
<1>17. HoldersOK'
  BY <1>1, HolderKept DEF HoldersOK
<1> QED BY <1>1, <1>8, <1>13, <1>14, <1>16, <1>17

(* virtio_disk_intr() takes an entry of the used ring, wakes its request.   *)
LEMMA IntrEntryStep ==
  ASSUME DiskInv, IntrEntry
  PROVE  DiskInv'
<1> USE DEF DiskInv, queueVars, deviceVars, callVars, ghostVars
<1> DEFINE i == used.ring[usedIdx % NUM]
           b == info[i].b
<1>1. /\ usedIdx # used.idx
      /\ dpanic' = (dpanic \/ info[i].status # 0)
      /\ buf' = [buf EXCEPT ![b].disk = FALSE]
      /\ upc' = [q \in Users |-> IF upc[q] = "bsleep" /\ cur[q] = b THEN "finish" ELSE upc[q]]
      /\ usedIdx' = (usedIdx + 1) % IdxMod
      /\ UNCHANGED <<lru, desc, info, avail, used, deviceVars, vlock, callVars, ghostVars>>
  BY DEF IntrEntry
<1>2. used \in RingType /\ usedIdx \in 0 .. (IdxMod - 1)
  BY DEF DiskTypeOK
<1>3. /\ i \in Descs /\ i \in InUsed /\ (usedIdx + 1) % IdxMod \in 0 .. (IdxMod - 1)
      /\ Entries(used, (usedIdx + 1) % IdxMod) = InUsed \ {i}
      /\ Distinct(used, (usedIdx + 1) % IdxMod)
  BY <1>1, <1>2, RingTake DEF QueuesOK, InUsed
<1>4. PICK p \in Requests : head[p] = i /\ buf[cur[p]].disk /\ \A q \in Requests : head[q] = i => q = p
  BY <1>3, QueuedIs
<1>5. p \in Users /\ upc[p] # "idle" /\ upc[p] \in Locked /\ cur[p] \in Bufs
  BY RequestIs, Held
<1>6. b = cur[p] /\ info[i].status = 0
  BY <1>3, <1>4 DEF ChainsOK, QueuesOK
<1> HIDE DEF i, b
<1>7. b \in Bufs /\ buf[b] \in BufType /\ dpanic' = FALSE
  BY <1>1, <1>5, <1>6 DEF DiskTypeOK
<1>8. \A c \in Bufs : /\ buf'[c].blockno = buf[c].blockno /\ buf'[c].refcnt = buf[c].refcnt
                      /\ buf'[c].valid = buf[c].valid /\ buf'[c].data = buf[c].data
                      /\ buf'[c].lock = buf[c].lock /\ (c # b => buf'[c].disk = buf[c].disk)
  BY <1>1, <1>7 DEF BufType, DiskTypeOK
<1>9. \A q \in Users : upc'[q] = upc[q] \/ (upc[q] = "bsleep" /\ upc'[q] = "finish")
  BY <1>1
<1>10. DiskTypeOK'
  <2>1. buf' \in [Bufs -> BufType]
    BY <1>1, <1>7 DEF BufType, DiskTypeOK
  <2>2. upc' \in [Users -> DiskLabels]
    BY <1>1 DEF DiskTypeOK, DiskLabels
  <2> QED BY <1>1, <1>3, <1>7, <2>1, <2>2 DEF DiskTypeOK
<1>11. InAvail' = InAvail /\ InDevice' = InDevice /\ InUsed' = InUsed \ {i}
  <2>1. InUsed' = Entries(used, (usedIdx + 1) % IdxMod)
    BY <1>1 DEF InUsed, Entries, EntryAt, Waiting
  <2>2. InAvail' = InAvail /\ InDevice' = InDevice
    BY <1>1 DEF InAvail, InDevice, Entries, EntryAt, Waiting
  <2> QED BY <1>3, <2>1, <2>2
<1>12. Distinct(avail, dev.seen)' /\ Distinct(used, usedIdx)'
  <2>1. Distinct(used, usedIdx)' <=> Distinct(used, (usedIdx + 1) % IdxMod)
    BY <1>1 DEF Distinct, EntryAt, Waiting
  <2>2. Distinct(avail, dev.seen)' <=> Distinct(avail, dev.seen)
    BY <1>1 DEF Distinct, EntryAt, Waiting
  <2> QED BY <1>3, <2>1, <2>2 DEF QueuesOK
<1>13. Requests' = Requests
  BY <1>9 DEF Requests
<1>14. ASSUME NEW q \in Requests PROVE cur[q] \in Bufs /\ Block(q)' = Block(q) /\ (q # p => cur[q] # b)
  <2>1. q \in Users /\ upc[q] # "idle" /\ upc[q] \in Locked
    BY RequestIs
  <2>2. cur[q] \in Bufs
    BY <2>1, Held
  <2> QED BY <1>1, <1>5, <1>6, <1>8, <2>1, <2>2, Apart DEF Block
<1>15. QueuesOK'
  <2>1. ASSUME NEW k \in InAvail' \cup InDevice' \cup InUsed' PROVE \E q \in Requests : head[q] = k /\ buf'[cur[q]].disk
    <3>1. k \in InAvail \cup InDevice \cup InUsed /\ k # i
      BY <1>3, <1>11 DEF QueuesOK
    <3>2. PICK q \in Requests : head[q] = k /\ buf[cur[q]].disk
      BY <3>1 DEF QueuesOK
    <3> QED BY <1>4, <1>8, <1>14, <3>1, <3>2
  <2>2. \A s \in dev.taken : \A q \in Requests :
          head[q] = s.i => s = [i |-> head[q], block |-> Block(q), write |-> op[q] # "read", b |-> cur[q]]
    BY DEF QueuesOK
  <2>3. \A k \in InUsed' : info[k].status = 0
    BY <1>11 DEF QueuesOK
  <2>4. /\ InAvail' \cap InDevice' = {} /\ InAvail' \cap InUsed' = {} /\ InDevice' \cap InUsed' = {}
        /\ \A s, t \in dev'.taken : s.i = t.i => s = t
    BY <1>1, <1>11 DEF QueuesOK
  <2> QED BY <1>1, <1>12, <1>13, <1>14, <2>1, <2>2, <2>3, <2>4 DEF QueuesOK
<1>16. ChainsOK'
  BY <1>1, <1>8, <1>13, <1>14, ChainsKept
<1>17. \A q \in Users : Returned(q)' <=> Returned(q)
  BY <1>1, <1>11, <1>13 DEF Returned
<1>18. DataOK' /\ CacheOK' /\ WorkOK'
  <2>1. DataOK'
    BY <1>1, <1>8, <1>9, <1>17, DataKept DEF Transferring
  <2>2. CacheOK'
    BY <1>1, <1>8, <1>9, CacheKept
  <2> QED BY <1>1, <2>1, <2>2, WorkKept
<1>19. HoldersOK'
  <2>1. ASSUME NEW q \in Users PROVE HolderOK(q)'
    <3>1. upc[q] # "idle" => cur[q] \in Bufs
      BY Held
    <3>2. upc[q] \in Locked => upc[q] # "idle"
      BY DEF Locked, Transferring, Holding
    <3>3. upc'[q] = upc[q] \/ (upc[q] \in Transferring /\ upc'[q] \in Transferring)
      BY <1>9 DEF Transferring
    <3> QED BY <1>1, <1>8, <3>1, <3>2, <3>3, HolderKept
  <2> QED BY <2>1 DEF HoldersOK
<1> QED BY <1>7, <1>10, <1>15, <1>16, <1>18, <1>19

(* The device finishes one of the requests it has, in any order.            *)
LEMMA DevDoneStep ==
  ASSUME DiskInv, DevDone
  PROVE  DiskInv'
<1> USE DEF DiskInv, ghostVars
<1>1. PICK r \in dev.taken :
        /\ dev' = [dev EXCEPT !.taken = @ \ {r}, !.irq = TRUE]
        /\ IF r.write
           THEN platter' = [platter EXCEPT ![r.block] = buf[r.b].data] /\ UNCHANGED buf
           ELSE buf' = [buf EXCEPT ![r.b].data = platter[r.block]] /\ UNCHANGED platter
        /\ info' = [info EXCEPT ![r.i].status = 0]
        /\ used' = [ring |-> [used.ring EXCEPT ![used.idx % NUM] = r.i], idx |-> (used.idx + 1) % IdxMod]
        /\ UNCHANGED <<lru, desc, avail, usedIdx, vlock, upc, callVars, ghostVars, dpanic>>
  BY DEF DevDone
<1> USE DEF callVars
<1>2. r \in [i : Descs, block : DBlocks, write : BOOLEAN, b : Bufs] /\ r.i \in InDevice
  BY DEF DiskTypeOK, InDevice
<1>3. PICK p \in Requests : head[p] = r.i /\ buf[cur[p]].disk /\ \A q \in Requests : head[q] = r.i => q = p
  BY <1>2, QueuedIs
<1>4. r.block = Block(p) /\ r.write = (op[p] # "read") /\ r.b = cur[p]
  <2>1. r = [i |-> head[p], block |-> Block(p), write |-> op[p] # "read", b |-> cur[p]]
    BY <1>3 DEF QueuesOK
  <2> QED BY <2>1
<1>5. /\ p \in Users /\ upc[p] # "idle" /\ upc[p] \in Locked /\ upc[p] \in Transferring
      /\ cur[p] \in Bufs /\ Block(p) \in DBlocks /\ Block(p) # Nil /\ buf[cur[p]] \in BufType
      /\ buf[cur[p]].blockno = Block(p) /\ buf[cur[p]].valid = (op[p] # "read")
  <2>1. p \in Users /\ upc[p] # "idle" /\ upc[p] \in Locked /\ upc[p] \in Transferring
    BY RequestIs
  <2> QED BY <2>1, Held DEF Block, HoldersOK, HolderOK
<1> DEFINE b == cur[p]
           k == Block(p)
(* The data of the buffer or of the block is what was last written.         *)
<1>6. IF op[p] = "read" THEN platter[k] = latest[k] ELSE buf[b].data = latest[k]
  BY <1>5 DEF DataOK, BufferOK
<1>7. /\ \A c \in Bufs : /\ buf'[c].blockno = buf[c].blockno /\ buf'[c].refcnt = buf[c].refcnt
                         /\ buf'[c].valid = buf[c].valid /\ buf'[c].lock = buf[c].lock
                         /\ buf'[c].disk = buf[c].disk
                         /\ buf'[c].data = (IF c = b /\ op[p] = "read" THEN latest[k] ELSE buf[c].data)
      /\ \A j \in DBlocks : platter'[j] = IF j = k THEN latest[k] ELSE platter[j]
      /\ buf' \in [Bufs -> BufType] /\ platter' \in [DBlocks -> {0, 1}]
  <2>1. buf \in [Bufs -> BufType] /\ platter \in [DBlocks -> {0, 1}] /\ latest \in [DBlocks -> {0, 1}]
    BY DEF DiskTypeOK
  <2>2. latest[k] \in {0, 1}
    BY <1>5, <2>1
  <2>3. CASE op[p] = "read"
    <3>1. buf' = [buf EXCEPT ![b].data = latest[k]] /\ platter' = platter
      BY <1>1, <1>4, <1>6, <2>3
    <3> QED BY <1>5, <1>6, <2>1, <2>2, <2>3, <3>1 DEF BufType
  <2>4. CASE op[p] # "read"
    <3>1. buf' = buf /\ platter' = [platter EXCEPT ![k] = latest[k]]
      BY <1>1, <1>4, <1>6, <2>4
    <3> QED BY <1>5, <2>1, <2>2, <2>4, <3>1
  <2> QED BY <2>3, <2>4
<1>8. /\ info' \in [Descs -> [b : Bufs \cup {Nil}, status : {0, 255}]]
      /\ \A i \in Descs : info'[i].b = info[i].b /\ info'[i].status = IF i = r.i THEN 0 ELSE info[i].status
  BY <1>1, <1>2 DEF DiskTypeOK
<1>9. /\ dev'.seen = dev.seen /\ dev'.taken = dev.taken \ {r}
      /\ dev' \in [seen : 0 .. (IdxMod - 1), irq : BOOLEAN,
                   taken : SUBSET [i : Descs, block : DBlocks, write : BOOLEAN, b : Bufs]]
  BY <1>1 DEF DiskTypeOK
(* The used ring has room for one more.                                     *)
<1>10. used' \in RingType /\ Entries(used', usedIdx) = InUsed \cup {r.i} /\ Distinct(used', usedIdx)
  <2>1. used \in RingType /\ usedIdx \in 0 .. (IdxMod - 1)
    BY DEF DiskTypeOK
  <2>2. Distinct(used, usedIdx) /\ r.i \notin Entries(used, usedIdx)
    BY <1>2 DEF QueuesOK, InUsed
  <2>3. \A i \in Entries(used, usedIdx) : \E q \in Requests : head[q] = i
    BY DEF QueuesOK, InUsed
  <2>4. Waiting(used, usedIdx) + 1 < NUM /\ NUM <= IdxMod
    BY <2>1, <2>2, <2>3, RingHasRoom
  <2>5. used' = Put(used, r.i)
    BY <1>1 DEF Put
  <2>6. /\ Put(used, r.i) \in RingType
        /\ Entries(Put(used, r.i), usedIdx) = Entries(used, usedIdx) \cup {r.i}
        /\ Distinct(Put(used, r.i), usedIdx)
    BY <1>2, <2>1, <2>2, <2>4, RingPut
  <2> QED BY <2>5, <2>6 DEF InUsed
<1> HIDE DEF b, k
<1>11. DiskTypeOK'
  BY <1>1, <1>7, <1>8, <1>9, <1>10 DEF DiskTypeOK
<1>12. InAvail' = InAvail /\ InDevice' = InDevice \ {r.i} /\ InUsed' = InUsed \cup {r.i}
  <2>1. InUsed' = Entries(used', usedIdx)
    BY <1>1 DEF InUsed, Entries, EntryAt, Waiting
  <2>2. InAvail' = InAvail
    BY <1>1, <1>9 DEF InAvail, Entries, EntryAt, Waiting
  <2>3. InDevice' = InDevice \ {r.i}
    <3>1. \A s \in dev.taken : s.i = r.i => s = r
      BY DEF QueuesOK
    <3> QED BY <1>9, <3>1 DEF InDevice
  <2> QED BY <1>10, <2>1, <2>2, <2>3
<1>13. Distinct(avail, dev.seen)' /\ Distinct(used, usedIdx)'
  <2>1. Distinct(used, usedIdx)' <=> Distinct(used', usedIdx)
    BY <1>1 DEF Distinct, EntryAt, Waiting
  <2>2. Distinct(avail, dev.seen)' <=> Distinct(avail, dev.seen)
    BY <1>1, <1>9 DEF Distinct, EntryAt, Waiting
  <2> QED BY <1>10, <2>1, <2>2 DEF QueuesOK
<1>14. Requests' = Requests
  BY <1>1 DEF Requests
<1>15. ASSUME NEW q \in Users, upc[q] # "idle" PROVE cur[q] \in Bufs /\ Block(q) \in DBlocks /\ Block(q)' = Block(q)
  BY <1>1, <1>7, <1>15, Held DEF Block
<1>16. ASSUME NEW q \in Requests PROVE q \in Users /\ upc[q] # "idle" /\ upc[q] \in Locked /\ head[q] \in Descs
  BY RequestIs
<1>17. QueuesOK'
  <2>1. ASSUME NEW i \in InAvail' \cup InDevice' \cup InUsed' PROVE \E q \in Requests : head[q] = i /\ buf'[cur[q]].disk
    <3>1. i \in InAvail \cup InDevice \cup InUsed
      BY <1>2, <1>12
    <3>2. PICK q \in Requests : head[q] = i /\ buf[cur[q]].disk
      BY <3>1 DEF QueuesOK
    <3> QED BY <1>7, <1>15, <1>16, <3>2
  <2>2. ASSUME NEW s \in dev'.taken, NEW q \in Requests, head[q] = s.i
        PROVE  s = [i |-> head[q], block |-> Block(q)', write |-> op[q] # "read", b |-> cur[q]]
    BY <1>9, <1>15, <1>16, <2>2 DEF QueuesOK
  <2>3. ASSUME NEW i \in InUsed' PROVE info'[i].status = 0
    <3>1. i \in Descs
      <4>1. i \in InAvail \cup InDevice \cup InUsed
        BY <1>2, <1>12
      <4> QED BY <1>16, <4>1, QueuedIs
    <3> QED BY <1>8, <1>12, <3>1 DEF QueuesOK
  <2>4. /\ InAvail' \cap InDevice' = {} /\ InAvail' \cap InUsed' = {} /\ InDevice' \cap InUsed' = {}
        /\ \A s, t \in dev'.taken : s.i = t.i => s = t
    BY <1>2, <1>9, <1>12 DEF QueuesOK
  <2> QED BY <1>1, <1>13, <1>14, <2>1, <2>2, <2>3, <2>4 DEF QueuesOK
<1>18. ChainsOK'
  BY <1>1, <1>7, <1>8, <1>14, <1>15, <1>16, ChainsKept
<1>19. \A q \in Users : Returned(q)' => Returned(q) \/ q = p
  BY <1>1, <1>3, <1>12, <1>14 DEF Returned
<1>20. CacheOK' /\ WorkOK'
  BY <1>1, <1>7, CacheKept, WorkKept
<1>21. HoldersOK'
  <2>1. ASSUME NEW q \in Users PROVE HolderOK(q)'
    <3>1. upc[q] \in Locked => upc[q] # "idle"
      BY DEF Locked, Transferring, Holding
    <3> QED BY <1>1, <1>7, <1>15, <3>1, HolderKept
  <2> QED BY <2>1 DEF HoldersOK
<1>22. DataOK'
  <2>1. ASSUME NEW c \in Bufs PROVE BufferOK(c)'
    <3>1. BufferOK(c)
      BY DEF DataOK
    <3>2. CASE c = b /\ op[p] = "read"
      BY <1>1, <1>5, <1>7, <3>1, <3>2 DEF BufferOK, b, k
    <3>3. CASE ~(c = b /\ op[p] = "read") /\ buf[c].blockno # Nil
      <4>1. buf[c].blockno \in DBlocks
        BY <3>3 DEF DiskTypeOK, BufType
      <4> QED BY <1>1, <1>7, <3>1, <3>3, <4>1 DEF BufferOK
    <3>4. CASE buf[c].blockno = Nil
      BY <1>7, <3>4 DEF BufferOK
    <3> QED BY <3>2, <3>3, <3>4
  <2>2. ASSUME NEW q \in Users PROVE ResultOK(q)'
    <3>1. ResultOK(q)
      BY DEF DataOK
    <3>2. CASE q = p
      BY <1>1, <1>5, <1>7, <1>15, <3>2 DEF ResultOK, b, k, Transferring
    <3>3. CASE q # p /\ (Returned(q)' \/ upc[q] = "unpin")
      <4>1. upc[q] \in Locked /\ upc[q] # "idle"
        BY <1>16, <1>19, <3>3 DEF Returned, Locked, Holding
      <4>2. cur[q] # b /\ Block(q) # k
        BY <1>5, <3>3, <4>1, Apart DEF b, k
      <4>3. buf'[cur[q]].data = buf[cur[q]].data /\ platter'[Block(q)] = platter[Block(q)] /\ Block(q)' = Block(q)
        BY <1>7, <1>15, <4>1, <4>2
      <4> QED BY <1>1, <1>19, <3>1, <3>3, <4>3 DEF ResultOK
    <3>4. CASE ~(Returned(q)' \/ upc[q] = "unpin")
      BY <1>1, <3>4 DEF ResultOK
    <3> QED BY <3>2, <3>3, <3>4
  <2>3. ASSUME NEW j \in DBlocks, Writing(j) PROVE Writing(j)'
    <3>1. PICK q \in Users : upc[q] \in Transferring /\ op[q] = "write" /\ Block(q) = j
      BY <2>3 DEF Writing
    <3>2. upc[q] # "idle"
      BY <3>1 DEF Transferring
    <3> QED BY <1>1, <1>15, <3>1, <3>2 DEF Writing
  <2>4. ASSUME NEW j \in DBlocks \ pinned' PROVE platter'[j] = latest'[j] \/ Writing(j)'
    <3>1. CASE j = k
      BY <1>1, <1>7, <3>1
    <3>2. CASE j # k
      BY <1>1, <1>7, <2>3, <3>2 DEF DataOK
    <3> QED BY <3>1, <3>2
  <2> QED BY <2>1, <2>2, <2>4 DEF DataOK
<1> QED BY <1>1, <1>11, <1>17, <1>18, <1>20, <1>21, <1>22

(* alloc3_desc() finds three descriptors.                                   *)
LEMMA ThreeFree ==
  ASSUME DiskTypeOK, Cardinality(FreeDescs) >= 3
  PROVE  LET i0 == Min(FreeDescs)
             i1 == Min(FreeDescs \ {i0})
             i2 == Min(FreeDescs \ {i0, i1})
         IN  /\ i0 \in FreeDescs /\ i1 \in FreeDescs /\ i2 \in FreeDescs
             /\ i0 # i1 /\ i0 # i2 /\ i1 # i2
             /\ Cardinality(FreeDescs \ {i0, i1, i2}) = Cardinality(FreeDescs) - 3
<1> DEFINE i0 == Min(FreeDescs)
           i1 == Min(FreeDescs \ {i0})
           i2 == Min(FreeDescs \ {i0, i1})
           S == FreeDescs
           T == S \ {i0}
           U == S \ {i0, i1}
<1>1. IsFiniteSet(S) /\ S \in SUBSET Nat /\ Cardinality(S) \in Nat /\ Cardinality(S) >= 3
  <2>1. FreeDescs \in SUBSET Descs
    BY DEF FreeDescs
  <2> QED BY <2>1, Finite, Sizes
<1> HIDE DEF S
<1>2. i0 \in S
  <2>1. S # {}
    BY <1>1, FS_EmptySet
  <2> QED BY <1>1, <2>1, MinIn DEF S
<1>3. IsFiniteSet(T) /\ Cardinality(T) = Cardinality(S) - 1
  <2> HIDE DEF i0
  <2> QED BY <1>1, <1>2, FS_RemoveElement
<1>4. i1 \in T /\ T \in SUBSET Nat
  <2>1. T # {} /\ T \in SUBSET Nat
    <3> HIDE DEF i0, T
    <3>1. T # {}
      BY <1>1, <1>3, FS_EmptySet
    <3> QED BY <1>1, <3>1 DEF T
  <2> QED BY <2>1, MinIn DEF S
<1>5. U = T \ {i1}
  <2> HIDE DEF i0, i1
  <2> QED OBVIOUS
<1>6. IsFiniteSet(U) /\ Cardinality(U) = Cardinality(S) - 2
  <2> HIDE DEF i0, i1, T, U
  <2>1. Cardinality(T \ {i1}) = Cardinality(T) - 1 /\ IsFiniteSet(T \ {i1})
    BY <1>3, <1>4, FS_RemoveElement
  <2> QED BY <1>1, <1>3, <1>5, <2>1
<1>7. i2 \in U
  <2>1. U # {} /\ U \in SUBSET Nat
    <3> HIDE DEF i0, i1, U
    <3>1. U # {}
      BY <1>1, <1>6, FS_EmptySet
    <3> QED BY <1>1, <3>1 DEF U
  <2> QED BY <2>1, MinIn DEF S
<1>8. Cardinality(S \ {i0, i1, i2}) = Cardinality(S) - 3
  <2> HIDE DEF i0, i1, i2, U
  <2>1. Cardinality(U \ {i2}) = Cardinality(U) - 1
    BY <1>6, <1>7, FS_RemoveElement
  <2>2. S \ {i0, i1, i2} = U \ {i2}
    BY DEF U
  <2> QED BY <1>1, <1>6, <2>1, <2>2
<1> HIDE DEF i0, i1, i2
<1>9. /\ i0 \in FreeDescs /\ i1 \in FreeDescs /\ i2 \in FreeDescs
      /\ i0 # i1 /\ i0 # i2 /\ i1 # i2
      /\ Cardinality(FreeDescs \ {i0, i1, i2}) = Cardinality(FreeDescs) - 3
  BY <1>2, <1>4, <1>7, <1>8 DEF S
<1> QED BY <1>9 DEF i0, i1, i2

(* virtio_disk_rw() fills three descriptors, puts the first into the ring.  *)
LEMMA SubmitStep ==
  ASSUME DiskInv, NEW p \in Users, Submit(p)
  PROVE  DiskInv'
<1> USE DEF DiskInv, deviceVars, ghostVars
<1> DEFINE b == cur[p]
           i0 == Min(FreeDescs)
           i1 == Min(FreeDescs \ {i0})
           i2 == Min(FreeDescs \ {i0, i1})
           d(n, x) == [free |-> FALSE, next |-> n, what |-> x]
<1>1. /\ upc[p] = "rw" /\ Cardinality(FreeDescs) >= 3
      /\ desc' = [desc EXCEPT ![i0] = d(i1, [block |-> Block(p), write |-> op[p] # "read"]),
                              ![i1] = d(i2, [buffer |-> b]), ![i2] = d(0, [status |-> i0])]
      /\ info' = [info EXCEPT ![i0] = [b |-> b, status |-> 255]]
      /\ buf' = [buf EXCEPT ![b].disk = TRUE]
      /\ avail' = [ring |-> [avail.ring EXCEPT ![avail.idx % NUM] = i0], idx |-> (avail.idx + 1) % IdxMod]
      /\ head' = [head EXCEPT ![p] = i0]
      /\ upc' = [upc EXCEPT ![p] = "bsleep"]
      /\ UNCHANGED <<lru, used, usedIdx, deviceVars, vlock, cur, op, ghostVars, dpanic>>
  BY DEF Submit, Move, Block
<1>2. /\ i0 \in FreeDescs /\ i1 \in FreeDescs /\ i2 \in FreeDescs
      /\ i0 # i1 /\ i0 # i2 /\ i1 # i2
      /\ Cardinality(FreeDescs \ {i0, i1, i2}) = Cardinality(FreeDescs) - 3
  BY <1>1, ThreeFree
<1> HIDE DEF i0, i1, i2
<1>3. /\ i0 \in Descs /\ i1 \in Descs /\ i2 \in Descs /\ desc[i0].free /\ desc[i1].free /\ desc[i2].free
      /\ b \in Bufs /\ buf[b] \in BufType /\ Block(p) \in DBlocks /\ Block(p) = buf[b].blockno /\ b # Nil
  BY <1>1, <1>2, Held DEF FreeDescs, Block
<1>4. \A c \in Bufs : /\ buf'[c].blockno = buf[c].blockno /\ buf'[c].refcnt = buf[c].refcnt
                      /\ buf'[c].valid = buf[c].valid /\ buf'[c].data = buf[c].data
                      /\ buf'[c].lock = buf[c].lock /\ buf'[c].disk = (IF c = b THEN TRUE ELSE buf[c].disk)
  BY <1>1, <1>3 DEF BufType, DiskTypeOK
<1>5. /\ desc'[i0] = d(i1, [block |-> Block(p), write |-> op[p] # "read"])
      /\ desc'[i1] = d(i2, [buffer |-> b]) /\ desc'[i2] = d(0, [status |-> i0])
      /\ \A i \in Descs \ {i0, i1, i2} : desc'[i] = desc[i]
      /\ desc' \in [Descs -> DescType]
  <2>1. desc \in [Descs -> DescType]
    BY DEF DiskTypeOK
  <2>2. /\ d(i1, [block |-> Block(p), write |-> op[p] # "read"]) \in DescType
        /\ d(i2, [buffer |-> b]) \in DescType /\ d(0, [status |-> i0]) \in DescType
    BY <1>3, Sizes DEF DescType
  <2> HIDE DEF d
  <2> QED BY <1>1, <1>2, <1>3, <2>1, <2>2
<1>6. /\ info'[i0].b = b /\ \A i \in Descs : i # i0 => info'[i] = info[i]
      /\ info' \in [Descs -> [b : Bufs \cup {Nil}, status : {0, 255}]]
  BY <1>1, <1>3 DEF DiskTypeOK
<1>7. /\ upc'[p] = "bsleep" /\ head'[p] = i0
      /\ \A q \in Users : q # p => upc'[q] = upc[q] /\ head'[q] = head[q]
  BY <1>1 DEF DiskTypeOK
<1>8. Requests' = Requests \cup {p} /\ p \notin Requests
  BY <1>1, <1>7 DEF Requests
<1>9. /\ Cardinality(FreeDescs) + 3 * Cardinality(Requests) = NUM
      /\ Cardinality(Requests) \in Nat /\ Cardinality(FreeDescs) \in Nat
      /\ Cardinality(Requests \cup {p}) = Cardinality(Requests) + 1
  BY <1>8, RequestsFit, FS_AddElement
(* The first is in no queue; the avail ring has room for it.                *)
<1>10. i0 \notin InAvail \cup InDevice \cup InUsed
  BY <1>2, QueuedNotFree
<1>11. avail' \in RingType /\ Entries(avail', dev.seen) = InAvail \cup {i0} /\ Distinct(avail', dev.seen)
  <2>1. avail \in RingType /\ dev.seen \in 0 .. (IdxMod - 1)
    BY DEF DiskTypeOK
  <2>2. Distinct(avail, dev.seen) /\ i0 \notin Entries(avail, dev.seen)
    BY <1>10 DEF QueuesOK, InAvail
  <2>3. \A i \in Entries(avail, dev.seen) : \E q \in Requests : head[q] = i
    BY DEF QueuesOK, InAvail
  <2>4. Waiting(avail, dev.seen) + 1 < NUM /\ NUM <= IdxMod
    BY <2>1, <2>2, <2>3, RingHasRoom
  <2>5. avail' = Put(avail, i0)
    BY <1>1 DEF Put
  <2>6. /\ Put(avail, i0) \in RingType
        /\ Entries(Put(avail, i0), dev.seen) = Entries(avail, dev.seen) \cup {i0}
        /\ Distinct(Put(avail, i0), dev.seen)
    BY <1>3, <2>1, <2>2, <2>4, RingPut
  <2> QED BY <2>5, <2>6 DEF InAvail
<1>12. DiskTypeOK'
  <2>1. buf' \in [Bufs -> BufType]
    BY <1>1, <1>3 DEF BufType, DiskTypeOK
  <2>2. upc' \in [Users -> DiskLabels] /\ head' \in [Users -> Descs]
    BY <1>1, <1>3 DEF DiskTypeOK, DiskLabels
  <2> QED BY <1>1, <1>5, <1>6, <1>11, <2>1, <2>2 DEF DiskTypeOK
<1>13. InAvail' = InAvail \cup {i0} /\ InDevice' = InDevice /\ InUsed' = InUsed
  <2>1. InAvail' = Entries(avail', dev.seen)
    BY <1>1 DEF InAvail, Entries, EntryAt, Waiting
  <2>2. InDevice' = InDevice /\ InUsed' = InUsed
    BY <1>1 DEF InDevice, InUsed, Entries, EntryAt, Waiting
  <2> QED BY <1>11, <2>1, <2>2
<1>14. Distinct(avail, dev.seen)' /\ Distinct(used, usedIdx)'
  <2>1. Distinct(avail, dev.seen)' <=> Distinct(avail', dev.seen)
    BY <1>1 DEF Distinct, EntryAt, Waiting
  <2>2. Distinct(used, usedIdx)' <=> Distinct(used, usedIdx)
    BY <1>1 DEF Distinct, EntryAt, Waiting
  <2> QED BY <1>11, <2>1, <2>2 DEF QueuesOK
<1>15. ASSUME NEW q \in Users, upc[q] # "idle"
       PROVE  cur[q] \in Bufs /\ Block(q)' = Block(q) /\ (buf[cur[q]].disk => buf'[cur[q]].disk)
  <2>1. cur[q] \in Bufs
    BY <1>15, Held
  <2> QED BY <1>1, <1>4, <2>1 DEF Block
<1>16. ASSUME NEW q \in Requests
       PROVE  /\ q \in Users /\ q # p /\ upc[q] # "idle" /\ head'[q] = head[q] /\ head[q] \in Descs /\ head[q] # i0
              /\ Chain(q) \subseteq Descs \ {i0, i1, i2} /\ \A i \in Chain(q) : desc'[i] = desc[i]
              /\ Chain(q)' = Chain(q) /\ Second(q)' = Second(q) /\ Third(q)' = Third(q)
  <2>1. q \in Users /\ q # p /\ upc[q] # "idle" /\ Chain(q) \subseteq Descs /\ head[q] \in Descs
    BY <1>8, RequestIs
  <2>2. \A i \in Chain(q) : ~desc[i].free
    BY DEF ChainsOK
  <2>3. Chain(q) \subseteq Descs \ {i0, i1, i2}
    BY <1>3, <2>1, <2>2
  <2>4. \A i \in Chain(q) : desc'[i] = desc[i]
    BY <1>5, <2>3
  <2>5. head[q] \in Chain(q) /\ Second(q) \in Chain(q) /\ Third(q) \in Chain(q)
    BY DEF Chain
  <2>6. head'[q] = head[q] /\ Second(q)' = Second(q) /\ Third(q)' = Third(q)
    BY <1>7, <2>1, <2>4, <2>5 DEF Second, Third
  <2>7. Chain(q)' = Chain(q)
    BY <2>6 DEF Chain
  <2> QED BY <2>1, <2>3, <2>4, <2>5, <2>6, <2>7
<1>17. Second(p)' = i1 /\ Third(p)' = i2 /\ Chain(p)' = {i0, i1, i2}
  <2>1. Second(p)' = i1
    BY <1>5, <1>7 DEF Second
  <2>2. Third(p)' = i2
    BY <1>5, <2>1 DEF Third
  <2> QED BY <1>7, <2>1, <2>2 DEF Chain
<1>18. ChainsOK'
  <2>1. ASSUME NEW q \in Requests'
        PROVE  /\ head'[q] # Second(q)' /\ head'[q] # Third(q)' /\ Second(q)' # Third(q)'
               /\ \A i \in Chain(q)' : ~desc'[i].free
               /\ desc'[head'[q]].what = [block |-> Block(q)', write |-> op'[q] # "read"]
               /\ desc'[Second(q)'].what = [buffer |-> cur'[q]]
               /\ info'[head'[q]].b = cur'[q]
    <3>1. CASE q = p
      <4>1. Block(p)' = Block(p)
        BY <1>1, <1>15
      <4>2. \A i \in {i0, i1, i2} : ~desc'[i].free
        BY <1>5
      <4>3. desc'[i0].what = [block |-> Block(p)', write |-> op'[p] # "read"] /\ desc'[i1].what = [buffer |-> cur'[p]]
        <5>1. op' = op /\ cur' = cur
          BY <1>1
        <5>2. desc'[i0].what = [block |-> Block(p), write |-> op[p] # "read"] /\ desc'[i1].what = [buffer |-> b]
          BY <1>5
        <5> QED BY <4>1, <5>1, <5>2
      <4>4. /\ head'[p] # Second(p)' /\ head'[p] # Third(p)' /\ Second(p)' # Third(p)'
            /\ \A i \in Chain(p)' : ~desc'[i].free
            /\ desc'[head'[p]].what = [block |-> Block(p)', write |-> op'[p] # "read"]
            /\ desc'[Second(p)'].what = [buffer |-> cur'[p]]
            /\ info'[head'[p]].b = cur'[p]
        BY <1>1, <1>2, <1>6, <1>7, <1>17, <4>2, <4>3
      <4> QED BY <3>1, <4>4
    <3>2. CASE q \in Requests
      <4>1. Block(q)' = Block(q) /\ info'[head[q]] = info[head[q]]
        BY <1>6, <1>15, <1>16, <3>2
      <4>2. desc'[head[q]] = desc[head[q]] /\ desc'[Second(q)] = desc[Second(q)]
        BY <1>16, <3>2 DEF Chain
      <4>3. /\ head[q] # Second(q) /\ head[q] # Third(q) /\ Second(q) # Third(q)
            /\ \A i \in Chain(q) : ~desc[i].free
            /\ desc[head[q]].what = [block |-> Block(q), write |-> op[q] # "read"]
            /\ desc[Second(q)].what = [buffer |-> cur[q]]
            /\ info[head[q]].b = cur[q]
        BY <3>2 DEF ChainsOK
      <4>4. op' = op /\ cur' = cur
        BY <1>1
      <4>5. /\ desc'[head[q]].what = [block |-> Block(q)', write |-> op'[q] # "read"]
            /\ desc'[Second(q)].what = [buffer |-> cur'[q]] /\ info'[head[q]].b = cur'[q]
        BY <4>1, <4>2, <4>3, <4>4
      <4>6. \A i \in Chain(q)' : ~desc'[i].free
        BY <1>16, <3>2, <4>3
      <4> QED BY <1>16, <3>2, <4>3, <4>5, <4>6
    <3> QED BY <1>8, <3>1, <3>2
  <2>2. ASSUME NEW q \in Requests', NEW s \in Requests', q # s PROVE Chain(q)' \cap Chain(s)' = {}
    <3>1. CASE q \in Requests /\ s \in Requests
      BY <1>16, <2>2, <3>1 DEF ChainsOK
    <3>2. CASE q = p /\ s \in Requests
      <4>1. Chain(q)' = {i0, i1, i2}
        BY <1>17, <3>2
      <4> QED BY <1>16, <3>2, <4>1
    <3>3. CASE q \in Requests /\ s = p
      <4>1. Chain(s)' = {i0, i1, i2}
        BY <1>17, <3>3
      <4> QED BY <1>16, <3>3, <4>1
    <3> QED BY <1>8, <2>2, <3>1, <3>2, <3>3
  <2>3. Cardinality(FreeDescs)' + 3 * Cardinality(Requests)' = NUM
    <3>1. FreeDescs' = FreeDescs \ {i0, i1, i2}
      BY <1>3, <1>5 DEF FreeDescs
    <3>2. Cardinality(FreeDescs') = Cardinality(FreeDescs) - 3 /\ Cardinality(Requests') = Cardinality(Requests) + 1
      BY <1>2, <1>8, <1>9, <3>1
    <3> QED BY <1>9, <3>2
  <2> QED BY <2>1, <2>2, <2>3 DEF ChainsOK
<1>19. QueuesOK'
  <2>1. ASSUME NEW i \in InAvail' \cup InDevice' \cup InUsed' PROVE \E q \in Requests' : head'[q] = i /\ buf'[cur'[q]].disk
    <3>1. CASE i = i0
      <4>1. p \in Requests' /\ head'[p] = i /\ cur'[p] = b
        BY <1>1, <1>7, <1>8, <3>1
      <4>2. buf'[b].disk
        BY <1>3, <1>4
      <4> QED BY <4>1, <4>2
    <3>2. CASE i # i0
      <4>1. PICK q \in Requests : head[q] = i /\ buf[cur[q]].disk
        BY <1>13, <3>2 DEF QueuesOK
      <4> QED BY <1>1, <1>8, <1>15, <1>16, <4>1
    <3> QED BY <3>1, <3>2
  <2>2. ASSUME NEW s \in dev'.taken, NEW q \in Requests', head'[q] = s.i
        PROVE  s = [i |-> head'[q], block |-> Block(q)', write |-> op'[q] # "read", b |-> cur'[q]]
    <3>1. s \in dev.taken /\ s.i \in InDevice
      BY <1>1 DEF InDevice
    <3>2. q \in Requests
      BY <1>7, <1>8, <1>10, <2>2, <3>1
    <3>3. Block(q)' = Block(q) /\ head'[q] = head[q] /\ op'[q] = op[q] /\ cur'[q] = cur[q]
      BY <1>1, <1>15, <1>16, <3>2
    <3>4. s = [i |-> head[q], block |-> Block(q), write |-> op[q] # "read", b |-> cur[q]]
      <4>1. \A t \in dev.taken : \A x \in Requests :
              head[x] = t.i => t = [i |-> head[x], block |-> Block(x), write |-> op[x] # "read", b |-> cur[x]]
        BY DEF QueuesOK
      <4>2. head[q] = s.i
        BY <2>2, <3>3
      <4> QED BY <3>1, <3>2, <4>1, <4>2
    <3> QED BY <3>3, <3>4
  <2>3. ASSUME NEW i \in InUsed' PROVE info'[i].status = 0
    <3>1. i \in InUsed /\ i # i0
      BY <1>10, <1>13
    <3>2. i \in Descs
      BY <1>16, <3>1, QueuedIs
    <3> QED BY <1>6, <3>1, <3>2 DEF QueuesOK
  <2>4. /\ InAvail' \cap InDevice' = {} /\ InAvail' \cap InUsed' = {} /\ InDevice' \cap InUsed' = {}
        /\ \A s, t \in dev'.taken : s.i = t.i => s = t
    BY <1>1, <1>10, <1>13 DEF QueuesOK
  <2> QED BY <1>14, <2>1, <2>2, <2>3, <2>4 DEF QueuesOK
<1>20. ASSUME NEW q \in Users, Returned(q)' PROVE Returned(q)
  <2>1. q # p
    BY <1>7, <1>13, <1>20 DEF Returned
  <2> QED BY <1>7, <1>8, <1>13, <1>20, <2>1 DEF Returned
<1>21. \A q \in Users : upc'[q] = upc[q] \/ (upc[q] = "rw" /\ upc'[q] = "bsleep")
  BY <1>1, <1>7
<1>22. DataOK'
  BY <1>1, <1>4, <1>20, <1>21, DataKept DEF Transferring
<1>23. CacheOK' /\ WorkOK'
  <2>1. CacheOK'
    BY <1>1, <1>4, <1>21, CacheKept
  <2> QED BY <1>1, <2>1, WorkKept
<1>24. HoldersOK'
  <2>1. ASSUME NEW q \in Users PROVE HolderOK(q)'
    <3>1. upc[q] \in Locked => upc[q] # "idle"
      BY DEF Locked, Transferring, Holding
    <3>2. upc'[q] = upc[q] \/ (upc[q] \in Transferring /\ upc'[q] \in Transferring)
      BY <1>21 DEF Transferring
    <3> QED BY <1>1, <1>4, <1>15, <3>1, <3>2, HolderKept
  <2> QED BY <2>1 DEF HoldersOK
<1> QED BY <1>1, <1>12, <1>18, <1>19, <1>22, <1>23, <1>24

(* virtio_disk_rw() frees the chain of a request that is done.              *)
LEMMA FinishStep ==
  ASSUME DiskInv, NEW p \in Users, Finish(p)
  PROVE  DiskInv'
<1> USE DEF DiskInv, deviceVars, callVars, ghostVars
<1> DEFINE b == cur[p]
           i == head[p]
           k == Block(p)
           to == CASE op[p] = "read" -> "have" [] op[p] = "write" -> "release" [] OTHER -> "unpin"
<1>1. /\ upc[p] = "finish" /\ ~buf[b].disk
      /\ desc' = [j \in Descs |-> IF j \in Chain(p) THEN FreeDesc ELSE desc[j]]
      /\ dpanic' = (dpanic \/ \E j \in Chain(p) : desc[j].free)
      /\ info' = [info EXCEPT ![i].b = Nil]
      /\ buf' = [buf EXCEPT ![b].valid = TRUE]
      /\ upc' = [q \in Users |-> IF q = p THEN to ELSE IF upc[q] = "dsleep" THEN "rw" ELSE upc[q]]
      /\ UNCHANGED <<lru, avail, used, usedIdx, deviceVars, vlock, callVars, ghostVars>>
  BY DEF Finish, Done, WakeDescs, Chain, Second, Third
<1>2. p \in Requests
  BY <1>1 DEF Requests
<1>3. /\ b \in Bufs /\ b # Nil /\ buf[b] \in BufType /\ k \in DBlocks /\ k # Nil /\ k = buf[b].blockno
      /\ upc[p] \in Locked /\ upc[p] # "idle" /\ i \in Descs /\ Chain(p) \subseteq Descs
      /\ buf[b].valid = (op[p] # "read") /\ buf[b].lock = p /\ (op[p] = "install" => k \in pinned)
  <2>1. upc[p] \in Locked /\ upc[p] # "idle" /\ i \in Descs /\ Chain(p) \subseteq Descs
    BY <1>2, RequestIs
  <2>2. buf[b].valid = (op[p] # "read") /\ buf[b].lock = p /\ (op[p] = "install" => k \in pinned)
    BY <1>1 DEF HoldersOK, HolderOK, Transferring, Locked
  <2> QED BY <2>1, <2>2, Held DEF Block
(* The request is in no queue any more: what it asked for is done.          *)
<1>4. i \notin InAvail \cup InDevice \cup InUsed
  <2> SUFFICES ASSUME i \in InAvail \cup InDevice \cup InUsed PROVE FALSE
    OBVIOUS
  <2>1. PICK q \in Requests : head[q] = i /\ buf[cur[q]].disk /\ \A s \in Requests : head[s] = i => s = q
    BY QueuedIs
  <2> QED BY <1>1, <1>2, <2>1
<1>5. Returned(p) /\ IF op[p] = "read" THEN buf[b].data = latest[k] ELSE platter[k] = latest[k]
  <2>1. Returned(p)
    BY <1>2, <1>4 DEF Returned
  <2> QED BY <2>1 DEF DataOK, ResultOK
<1>6. dpanic' = FALSE
  BY <1>1, <1>2 DEF ChainsOK
<1>7. \A c \in Bufs : /\ buf'[c].blockno = buf[c].blockno /\ buf'[c].refcnt = buf[c].refcnt
                      /\ buf'[c].disk = buf[c].disk /\ buf'[c].data = buf[c].data
                      /\ buf'[c].lock = buf[c].lock /\ buf'[c].valid = (IF c = b THEN TRUE ELSE buf[c].valid)
  BY <1>1, <1>3 DEF BufType, DiskTypeOK
<1>8. /\ upc'[p] = to /\ to \in {"have", "release", "unpin"}
      /\ op[p] = "install" <=> to = "unpin"
      /\ \A q \in Users : q # p => upc'[q] = upc[q] \/ (upc[q] = "dsleep" /\ upc'[q] = "rw")
  <2>1. op[p] \in {"read", "write", "install"}
    BY DEF DiskTypeOK
  <2>2. to \in {"have", "release", "unpin"} /\ (op[p] = "install" <=> to = "unpin")
    BY <2>1
  <2> QED BY <1>1, <2>2
<1> HIDE DEF to
<1>9. /\ \A j \in Descs : info'[j].status = info[j].status /\ (j # i => info'[j].b = info[j].b)
      /\ info' \in [Descs -> [b : Bufs \cup {Nil}, status : {0, 255}]]
  BY <1>1, <1>3 DEF DiskTypeOK
<1>10. DiskTypeOK'
  <2>1. buf' \in [Bufs -> BufType]
    BY <1>1, <1>3 DEF BufType, DiskTypeOK
  <2>2. upc' \in [Users -> DiskLabels]
    BY <1>1, <1>8 DEF DiskTypeOK, DiskLabels
  <2>3. desc' \in [Descs -> DescType]
    <3>1. FreeDesc \in DescType
      BY Sizes DEF FreeDesc, DescType
    <3> QED BY <1>1, <3>1 DEF DiskTypeOK
  <2> QED BY <1>1, <1>6, <1>9, <2>1, <2>2, <2>3 DEF DiskTypeOK
<1>11. Requests' = Requests \ {p}
  BY <1>8 DEF Requests
<1>12. InAvail' = InAvail /\ InDevice' = InDevice /\ InUsed' = InUsed
  BY <1>1 DEF InAvail, InDevice, InUsed, Entries, EntryAt, Waiting
<1>13. ASSUME NEW q \in Users, upc[q] # "idle" PROVE cur[q] \in Bufs /\ Block(q)' = Block(q)
  BY <1>1, <1>7, <1>13, Held DEF Block
<1>14. ASSUME NEW q \in Requests, q # p
       PROVE  /\ q \in Users /\ upc[q] # "idle" /\ head[q] \in Descs /\ head[q] # i
              /\ \A j \in Chain(q) : desc'[j] = desc[j]
              /\ Chain(q)' = Chain(q) /\ Second(q)' = Second(q) /\ Third(q)' = Third(q)
  <2>1. q \in Users /\ upc[q] # "idle" /\ head[q] \in Descs /\ head[q] # i /\ Chain(q) \subseteq Descs
    BY <1>2, <1>14, RequestIs
  <2>2. Chain(q) \cap Chain(p) = {}
    BY <1>2, <1>14 DEF ChainsOK
  <2>3. \A j \in Chain(q) : desc'[j] = desc[j]
    BY <1>1, <2>1, <2>2
  <2>4. head[q] \in Chain(q) /\ Second(q) \in Chain(q)
    BY DEF Chain
  <2>5. Second(q)' = Second(q) /\ Third(q)' = Third(q)
    BY <1>1, <2>3, <2>4 DEF Second, Third
  <2>6. Chain(q)' = Chain(q)
    BY <1>1, <2>5 DEF Chain
  <2> QED BY <2>1, <2>3, <2>5, <2>6
<1>15. ChainsOK'
  <2>1. ASSUME NEW q \in Requests, q # p
        PROVE  /\ head'[q] # Second(q)' /\ head'[q] # Third(q)' /\ Second(q)' # Third(q)'
               /\ \A j \in Chain(q)' : ~desc'[j].free
               /\ desc'[head'[q]].what = [block |-> Block(q)', write |-> op'[q] # "read"]
               /\ desc'[Second(q)'].what = [buffer |-> cur'[q]]
               /\ info'[head'[q]].b = cur'[q]
    <3>1. /\ head[q] # Second(q) /\ head[q] # Third(q) /\ Second(q) # Third(q)
          /\ \A j \in Chain(q) : ~desc[j].free
          /\ desc[head[q]].what = [block |-> Block(q), write |-> op[q] # "read"]
          /\ desc[Second(q)].what = [buffer |-> cur[q]]
          /\ info[head[q]].b = cur[q]
      BY DEF ChainsOK
    <3>2. desc'[head[q]] = desc[head[q]] /\ desc'[Second(q)] = desc[Second(q)] /\ info'[head[q]].b = info[head[q]].b
      BY <1>9, <1>14, <2>1 DEF Chain
    <3>3. op' = op /\ cur' = cur /\ head' = head /\ Block(q)' = Block(q)
      BY <1>1, <1>13, <1>14, <2>1
    <3>4. /\ desc'[head[q]].what = [block |-> Block(q)', write |-> op'[q] # "read"]
          /\ desc'[Second(q)].what = [buffer |-> cur'[q]] /\ info'[head[q]].b = cur'[q]
      BY <3>1, <3>2, <3>3
    <3>5. \A j \in Chain(q)' : ~desc'[j].free
      BY <1>14, <2>1, <3>1
    <3> QED BY <1>14, <2>1, <3>1, <3>3, <3>4, <3>5
  <2>2. ASSUME NEW q \in Requests, NEW s \in Requests, q # s, q # p, s # p PROVE Chain(q)' \cap Chain(s)' = {}
    BY <1>14, <2>2 DEF ChainsOK
  <2>3. Cardinality(FreeDescs)' + 3 * Cardinality(Requests)' = NUM
    <3>1. FreeDescs' = FreeDescs \cup Chain(p)
      BY <1>1, <1>3 DEF FreeDescs, FreeDesc
    <3>2. /\ head[p] # Second(p) /\ head[p] # Third(p) /\ Second(p) # Third(p)
          /\ head[p] \notin FreeDescs /\ Second(p) \notin FreeDescs /\ Third(p) \notin FreeDescs
      BY <1>2 DEF ChainsOK, Chain, FreeDescs
    <3> DEFINE S == FreeDescs
               T == S \cup {head[p]}
               U == T \cup {Second(p)}
               V == U \cup {Third(p)}
    <3>3. IsFiniteSet(S) /\ Cardinality(S) \in Nat
      BY RequestsFit
    <3>4. head[p] \notin S /\ Second(p) \notin T /\ Third(p) \notin U
      BY <3>2
    <3>5. FreeDescs' = V
      BY <3>1 DEF Chain
    <3> HIDE DEF S
    <3>6. IsFiniteSet(T) /\ Cardinality(T) = Cardinality(S) + 1
      BY <3>3, <3>4, FS_AddElement
    <3> HIDE DEF T
    <3>7. IsFiniteSet(U) /\ Cardinality(U) = Cardinality(T) + 1
      BY <3>4, <3>6, FS_AddElement
    <3> HIDE DEF U
    <3>8. Cardinality(V) = Cardinality(U) + 1
      BY <3>4, <3>7, FS_AddElement
    <3> HIDE DEF V
    <3>9. Cardinality(Requests \ {p}) = Cardinality(Requests) - 1 /\ Cardinality(Requests) \in Nat
      BY <1>2, RequestsFit, FS_RemoveElement
    <3>10. Cardinality(FreeDescs') = Cardinality(FreeDescs) + 3
      BY <3>3, <3>5, <3>6, <3>7, <3>8 DEF S
    <3>11. Cardinality(Requests') = Cardinality(Requests) - 1
      BY <1>11, <3>9
    <3> QED BY <3>9, <3>10, <3>11, RequestsFit
  <2> QED BY <1>11, <2>1, <2>2, <2>3 DEF ChainsOK
<1>16. QueuesOK'
  <2>1. ASSUME NEW j \in InAvail \cup InDevice \cup InUsed PROVE \E q \in Requests' : head'[q] = j /\ buf'[cur'[q]].disk
    <3>1. PICK q \in Requests : head[q] = j /\ buf[cur[q]].disk
      BY DEF QueuesOK
    <3>2. q # p
      BY <1>1, <3>1
    <3>3. cur[q] \in Bufs
      BY <1>13, <1>14, <3>2
    <3> QED BY <1>1, <1>7, <1>11, <3>1, <3>2, <3>3
  <2>2. ASSUME NEW s \in dev'.taken, NEW q \in Requests', head'[q] = s.i
        PROVE  s = [i |-> head'[q], block |-> Block(q)', write |-> op'[q] # "read", b |-> cur'[q]]
    <3>1. s \in dev.taken /\ q \in Requests /\ q # p /\ head[q] = s.i
      BY <1>1, <1>11, <2>2
    <3>2. s = [i |-> head[q], block |-> Block(q), write |-> op[q] # "read", b |-> cur[q]]
      BY <3>1 DEF QueuesOK
    <3>3. Block(q)' = Block(q) /\ head'[q] = head[q] /\ op'[q] = op[q] /\ cur'[q] = cur[q]
      BY <1>1, <1>13, <1>14, <3>1
    <3> QED BY <3>2, <3>3
  <2>3. ASSUME NEW j \in InUsed' PROVE info'[j].status = 0
    <3>1. j \in InUsed /\ j # i
      BY <1>4, <1>12
    <3>2. j \in Descs
      <4>1. PICK q \in Requests : head[q] = j
        BY <3>1, QueuedIs
      <4> QED BY <1>3, <1>14, <4>1
    <3> QED BY <1>9, <3>1, <3>2 DEF QueuesOK
  <2>4. Distinct(avail, dev.seen)' /\ Distinct(used, usedIdx)'
    <3>1. Distinct(avail, dev.seen)' <=> Distinct(avail, dev.seen)
      BY <1>1 DEF Distinct, EntryAt, Waiting
    <3>2. Distinct(used, usedIdx)' <=> Distinct(used, usedIdx)
      BY <1>1 DEF Distinct, EntryAt, Waiting
    <3> QED BY <3>1, <3>2 DEF QueuesOK
  <2>5. \A s, t \in dev'.taken : s.i = t.i => s = t
    BY <1>1 DEF QueuesOK
  <2>6. InAvail \cap InDevice = {} /\ InAvail \cap InUsed = {} /\ InDevice \cap InUsed = {}
    BY DEF QueuesOK
  <2> QED BY <1>12, <2>1, <2>2, <2>3, <2>4, <2>5, <2>6 DEF QueuesOK
<1>17. \A q \in Users : Returned(q)' => Returned(q) /\ q # p
  BY <1>1, <1>11, <1>12 DEF Returned
<1>18. CacheOK' /\ WorkOK'
  <2>1. CacheOK'
    BY <1>1, <1>7, <1>8, CacheKept
  <2> QED BY <1>1, <2>1, WorkKept
<1>19. HoldersOK'
  <2>1. ASSUME NEW q \in Users PROVE HolderOK(q)'
    <3>1. CASE q = p
      <4>1. HolderOK(p) /\ Block(p)' = Block(p)
        BY <1>3, <1>13 DEF HoldersOK
      <4>2. buf'[b].lock = p /\ buf'[b].valid = TRUE /\ cur' = cur /\ work' = work /\ pinned' = pinned /\ op' = op
        BY <1>1, <1>3, <1>7
      <4>3. work[p] # <<>> /\ Block(p) = Head(work[p]).block
        BY <1>3, <4>1 DEF HolderOK
      <4> QED BY <1>3, <1>8, <3>1, <4>1, <4>2, <4>3 DEF HolderOK, Locked, Transferring, Holding
    <3>2. CASE q # p
      <4>1. upc[q] \in Locked => upc[q] # "idle" /\ cur[q] # b
        BY <1>3, <3>2, Apart DEF Locked, Transferring, Holding
      <4>2. upc'[q] = upc[q] \/ (upc[q] \in Transferring /\ upc'[q] \in Transferring)
        BY <1>8, <3>2 DEF Transferring
      <4> QED BY <1>1, <1>7, <1>13, <3>2, <4>1, <4>2, HolderKept
    <3> QED BY <3>1, <3>2
  <2> QED BY <2>1 DEF HoldersOK
<1>20. DataOK'
  <2>1. ASSUME NEW c \in Bufs PROVE BufferOK(c)'
    <3>1. BufferOK(c)
      BY DEF DataOK
    <3>2. CASE c = b
      <4>1. buf[b].data = latest[k]
        <5>1. CASE op[p] = "read"
          BY <1>5, <5>1
        <5>2. CASE op[p] # "read"
          BY <1>3, <3>1, <3>2, <5>2 DEF BufferOK
        <5> QED BY <5>1, <5>2
      <4>2. buf'[c].blockno = k /\ buf'[c].data = buf[b].data /\ buf'[c].valid = TRUE /\ latest' = latest
        BY <1>1, <1>3, <1>7, <3>2
      <4>3. buf'[c].blockno # Nil => buf'[c].data = latest'[buf'[c].blockno]
        BY <3>2, <4>1, <4>2
      <4> QED BY <4>2, <4>3 DEF BufferOK
    <3>3. CASE c # b
      BY <1>1, <1>7, <3>1, <3>3 DEF BufferOK
    <3> QED BY <3>2, <3>3
  <2>2. ASSUME NEW q \in Users PROVE ResultOK(q)'
    <3>1. ResultOK(q)
      BY DEF DataOK
    <3>2. CASE q = p
      <4>1. upc'[p] = "unpin" => platter[k] = latest[k]
        BY <1>5, <1>8
      <4>2. Block(p)' = k /\ ~Returned(p)'
        BY <1>3, <1>13, <1>17
      <4> QED BY <1>1, <3>2, <4>1, <4>2 DEF ResultOK
    <3>3. CASE q # p /\ upc[q] # "idle"
      <4>1. upc'[q] = "unpin" => upc[q] = "unpin"
        BY <1>8, <3>3
      <4>2. cur[q] \in Bufs /\ Block(q)' = Block(q)
        BY <1>13, <3>3
      <4> QED BY <1>1, <1>7, <1>17, <3>1, <4>1, <4>2 DEF ResultOK
    <3>4. CASE q # p /\ upc[q] = "idle"
      BY <1>8, <1>17, <3>4 DEF ResultOK, Returned, Requests
    <3> QED BY <3>2, <3>3, <3>4
  <2>3. ASSUME NEW j \in DBlocks \ pinned' PROVE platter'[j] = latest'[j] \/ Writing(j)'
    <3>1. CASE j = k /\ op[p] = "write"
      BY <1>1, <1>5, <3>1
    <3>2. CASE Writing(j) /\ ~(j = k /\ op[p] = "write")
      <4>1. PICK q \in Users : upc[q] \in Transferring /\ op[q] = "write" /\ Block(q) = j
        BY <3>2 DEF Writing
      <4>2. q # p /\ upc[q] # "idle" /\ upc'[q] \in Transferring
        BY <1>8, <3>2, <4>1 DEF Transferring
      <4> QED BY <1>1, <1>13, <4>1, <4>2 DEF Writing
    <3>3. CASE ~Writing(j)
      BY <1>1, <3>3 DEF DataOK
    <3> QED BY <3>1, <3>2, <3>3
  <2> QED BY <2>1, <2>2, <2>3 DEF DataOK
<1> QED BY <1>6, <1>10, <1>15, <1>16, <1>18, <1>19, <1>20

-----------------------------------------------------------------------------
(* The beginning.                                                           *)
LEMMA DiskInitInv ==
  ASSUME DiskInit
  PROVE  DiskInv
<1> USE DEF DiskInit
<1>1. DiskTypeOK
  <2>1. lru \in [1 .. NBUF -> Bufs]
    BY Sizes DEF Bufs
  <2>2. avail \in RingType /\ used \in RingType /\ usedIdx \in 0 .. (IdxMod - 1)
    BY Sizes DEF RingType
  <2>3. desc \in [Descs -> DescType] /\ info \in [Descs -> [b : Bufs \cup {Nil}, status : {0, 255}]]
    BY Sizes DEF DescType, FreeDesc
  <2>4. work \in [Users -> Seq(Calls)]
    BY DiskAssumption
  <2>5. dev \in [seen : 0 .. (IdxMod - 1), irq : BOOLEAN,
                 taken : SUBSET [i : Descs, block : DBlocks, write : BOOLEAN, b : Bufs]]
    BY Sizes
  <2>6. buf \in [Bufs -> BufType]
    BY DEF BufType
  <2> QED BY <2>1, <2>2, <2>3, <2>4, <2>5, <2>6, Sizes DEF DiskTypeOK, DiskLabels
<1>2. HoldersOK
  BY DEF HoldersOK, HolderOK, Locked, Transferring, Holding
<1>3. CacheOK
  <2>1. ASSUME NEW b \in Bufs PROVE \E n \in 1 .. NBUF : lru[n] = b
    <3>1. NBUF + 1 - b \in 1 .. NBUF /\ NBUF + 1 - (NBUF + 1 - b) = b
      BY Sizes DEF Bufs
    <3> QED BY <3>1
  <2>2. ASSUME NEW b \in Bufs PROVE buf[b].refcnt = Cardinality(Refs(b)) + (IF Pin(b) THEN 1 ELSE 0)
    <3>1. Refs(b) = {} /\ ~Pin(b)
      BY Sizes DEF Refs, Pin
    <3>2. Cardinality(Refs(b)) = 0 /\ buf[b].refcnt = 0
      BY <3>1, FS_EmptySet
    <3> QED BY <3>1, <3>2
  <2> QED BY <2>1, <2>2 DEF CacheOK
<1>4. WorkOK
  <2>1. ASSUME NEW p \in Users, NEW n \in DOMAIN work[p], work[p][n].do = "log"
        PROVE  work[p][n].block \in Logged(work)
    <3>1. work[p] \in Seq(Calls)
      BY DiskAssumption
    <3>2. work[p][n] \in Calls
      BY <3>1
    <3>3. work[p][n] = [do |-> "log", block |-> work[p][n].block] /\ work[p][n].block \in DBlocks
      BY <2>1, <3>2 DEF Calls
    <3> QED BY <3>3 DEF Logged
  <2> QED BY <2>1 DEF WorkOK
<1>5. Requests = {} /\ FreeDescs = Descs
  BY DEF Requests, FreeDescs, FreeDesc
<1>6. InAvail = {} /\ InDevice = {} /\ InUsed = {} /\ Distinct(avail, dev.seen) /\ Distinct(used, usedIdx)
  <2>1. Waiting(avail, dev.seen) = 0 /\ Waiting(used, usedIdx) = 0
    <3>1. avail \in RingType /\ used \in RingType /\ dev.seen \in 0 .. (IdxMod - 1) /\ usedIdx \in 0 .. (IdxMod - 1)
      BY <1>1 DEF DiskTypeOK
    <3> QED BY <3>1, WaitingIs
  <2>2. 0 .. (0 - 1) = {}
    OBVIOUS
  <2> QED BY <2>1, <2>2 DEF InAvail, InDevice, InUsed, Entries, Distinct
<1>7. QueuesOK
  BY <1>5, <1>6 DEF QueuesOK
<1>8. ChainsOK
  <2>1. Cardinality(FreeDescs) + 3 * Cardinality(Requests) = NUM
    BY <1>5, Finite, FS_EmptySet, Sizes
  <2> QED BY <1>5, <2>1 DEF ChainsOK
<1>9. DataOK
  BY <1>5 DEF DataOK, BufferOK, ResultOK, Returned
<1> QED BY <1>1, <1>2, <1>3, <1>4, <1>7, <1>8, <1>9 DEF DiskInv

(* The invariant is inductive: DiskInv holds in every state of a behaviour. *)
THEOREM Invariance == DiskSpec => []DiskInv
<1>1. DiskInit => DiskInv
  BY DiskInitInv
<1>2. DiskInv /\ [DiskNext]_diskVars => DiskInv'
  <2> SUFFICES ASSUME DiskInv, [DiskNext]_diskVars PROVE DiskInv'
    OBVIOUS
  <2>1. CASE Hardware
    BY <2>1, DevTakeStep, DevDoneStep, IntrAckStep, IntrEntryStep, IntrEndStep DEF Hardware
  <2>2. ASSUME NEW p \in Users, UserStep(p) PROVE DiskInv'
    BY <2>2, BgetStep, AcquireSleepStep, ReadOnlyStep, ModifyStep, BpinStep, InstallStep, BunpinStep,
       ReleaseSleepStep, BrelseStep, NoDescsStep, SubmitStep, SleepAgainStep, FinishStep DEF UserStep
  <2>3. ASSUME NEW p \in Users, Kill(p) PROVE DiskInv'
    BY <2>3, KillStep
  <2>4. CASE UNCHANGED diskVars
    <3> USE DEF diskVars, cacheVars, queueVars, deviceVars, callVars, ghostVars
    <3>1. UNCHANGED <<cacheVars, queueVars, deviceVars, vlock, upc, callVars, ghostVars, dpanic>>
      BY <2>4
    <3> QED BY <3>1, WaitStep DEF DiskInv, DiskTypeOK
  <2> QED BY <2>1, <2>2, <2>3, <2>4 DEF DiskNext
<1> QED BY <1>1, <1>2, PTL DEF DiskSpec

(* Type correctness.                                                        *)
THEOREM TypeCorrect == DiskSpec => []DiskTypeOK
<1>1. DiskInv => DiskTypeOK
  BY DEF DiskInv
<1> QED BY <1>1, Invariance, PTL

(* ReadsLatest from the invariant: one holder to a buffer, one buffer to a  *)
(* block, and a valid buffer has what was last written.                     *)
LEMMA InvReadsLatest ==
  ASSUME DiskInv
  PROVE  ReadsLatest
<1> USE DEF DiskInv
<1>1. ASSUME NEW p \in Users, upc[p] \in Holding PROVE buf[cur[p]].data = latest[buf[cur[p]].blockno]
  <2>1. upc[p] # "idle" /\ buf[cur[p]].valid
    BY <1>1 DEF HoldersOK, HolderOK, Holding
  <2>2. cur[p] \in Bufs /\ buf[cur[p]].blockno # Nil
    BY <2>1, Held DEF Block
  <2> QED BY <2>1, <2>2 DEF DataOK, BufferOK
<1>2. ASSUME NEW p \in Users, NEW q \in Users, p # q, upc[p] \in Holding, upc[q] \in Holding PROVE cur[p] # cur[q]
  BY <1>2, Apart DEF Locked
<1>3. ASSUME NEW k \in DBlocks \ pinned, platter[k] # latest[k]
      PROVE  \E p \in Users : upc[p] # "idle" /\ buf[cur[p]].blockno = k
  <2>1. Writing(k)
    BY <1>3 DEF DataOK
  <2> QED BY <2>1 DEF Writing, Block, Transferring
<1> QED BY <1>1, <1>2, <1>3 DEF ReadsLatest, CacheOK

(* Whoever holds a block reads what was last written to it, one at a time,  *)
(* and what is not pinned or being written is on the disk (bread, bwrite,   *)
(* brelse and the log's pins, with virtio_disk_rw and its interrupt).       *)
THEOREM BlocksReadLatest == DiskSpec => []ReadsLatest
<1>1. DiskInv => ReadsLatest
  BY InvReadsLatest
<1> QED BY <1>1, Invariance, PTL

(* DescriptorsCounted from the invariant: what the device has taken is the  *)
(* request of a process that waits for it.                                  *)
LEMMA InvDescriptorsCounted ==
  ASSUME DiskInv
  PROVE  DescriptorsCounted
<1> USE DEF DiskInv
<1>1. ASSUME NEW r \in dev.taken PROVE \E p \in Requests : head[p] = r.i /\ cur[p] = r.b /\ buf[r.b].disk
  <2>1. r.i \in InDevice
    BY DEF InDevice
  <2>2. PICK p \in Requests : head[p] = r.i /\ buf[cur[p]].disk
    BY <2>1 DEF QueuesOK
  <2>3. r = [i |-> head[p], block |-> Block(p), write |-> op[p] # "read", b |-> cur[p]]
    BY <2>2 DEF QueuesOK
  <2>4. r.b = cur[p]
    BY <2>3
  <2> QED BY <2>2, <2>4
<1> QED BY <1>1 DEF DescriptorsCounted, ChainsOK

(* No descriptor is lost or used twice, the interrupt finds the buffer of   *)
(* the request that is done, and neither the driver nor bget() panics       *)
(* (alloc3_desc, free_chain, virtio_disk_rw, virtio_disk_intr, bget).       *)
THEOREM DescriptorsNotLost == DiskSpec => []DescriptorsCounted
<1>1. DiskInv => DescriptorsCounted
  BY InvDescriptorsCounted
<1> QED BY <1>1, Invariance, PTL
=============================================================================
