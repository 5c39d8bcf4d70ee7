------------------------------- MODULE FilesProofs -------------------------------
(***************************************************************************)
(* Theorems of module Files, for any number of processes that make any      *)
(* calls of any length, for tables, rings and counters of any size, proved  *)
(* from FilesAssumption.  FilesInv is inductive; its parts say where every  *)
(* reference to an open file is held, and what is in a pipe.                *)
(*                                                                          *)
(* First what the operators do: free entries, the ring and its counters,    *)
(* what a step does to each kind of reference.  Then one lemma for each     *)
(* step, the theorems, and what each step does to the queue of bytes that a *)
(* pipe is.                                                                 *)
(***************************************************************************)
EXTENDS Files, FiniteSetTheorems, SequenceTheorems, TLAPS

(* What the proofs need to know of the constants.                           *)
LEMMA Sizes ==
  /\ PIPESIZE \in Nat \ {0} /\ CtrMod \in Nat \ {0} /\ CtrMod > PIPESIZE
  /\ NOFILE \in Nat \ {0} /\ 2 <= 2 * NOFILE /\ NFILE \in Nat /\ NPROC \in Nat
  /\ None \notin FileIds /\ None \notin PipeIds /\ Byte0 \in Byte
  /\ 0 \in Fds /\ Fds \subseteq Nat /\ FileIds \subseteq Nat /\ None \notin Procs
BY FilesAssumption DEF FilesAssumption, None, Byte, Fds, FileIds, Procs

(* The tables are finite, and so is every set of references.                *)
LEMMA Finite ==
  /\ IsFiniteSet(Fds) /\ Cardinality(Fds) = NOFILE
  /\ \A S \in SUBSET Procs : IsFiniteSet(S) /\ Cardinality(S) \in Nat
  /\ \A S \in SUBSET Fds : IsFiniteSet(S) /\ Cardinality(S) \in Nat
  /\ \A S \in SUBSET (Procs \X Fds) : IsFiniteSet(S) /\ Cardinality(S) \in Nat
  /\ \A S \in SUBSET (Procs \X (1 .. 2 * NOFILE)) : IsFiniteSet(S) /\ Cardinality(S) \in Nat
<1>1. IsFiniteSet(Procs)
  BY Sizes, FS_Interval DEF Procs
<1>2. IsFiniteSet(Fds) /\ Cardinality(Fds) = NOFILE
  BY Sizes, FS_Interval DEF Fds
<1>3. IsFiniteSet(1 .. 2 * NOFILE)
  BY Sizes, FS_Interval
<1>4. IsFiniteSet(Procs \X Fds) /\ IsFiniteSet(Procs \X (1 .. 2 * NOFILE))
  BY <1>1, <1>2, <1>3, FS_Product
<1> QED BY <1>1, <1>2, <1>4, FS_Subset, FS_CardinalityType

(* Min of a set of natural numbers is one of them.                          *)
LEMMA MinIn ==
  ASSUME NEW S \in SUBSET Nat, S # {}
  PROVE  Min(S) \in S /\ \A y \in S : Min(S) <= y
<1>1. PICK x \in S : \A y \in S : ~(<<y, x>> \in OpToRel(<, Nat))
  BY NatLessThanWellFounded, WFMin
<1>2. ASSUME NEW y \in S PROVE x <= y
  <2>1. <<y, x>> \in Nat \X Nat /\ ~(<<y, x>> \in OpToRel(<, Nat))
    BY <1>1
  <2>2. ~(y < x)
    BY <2>1 DEF OpToRel
  <2> QED BY <2>2
<1> QED BY <1>2 DEF Min

(* The free entries of the tables.                                          *)
LEMMA FreeFile ==
  ASSUME FreeFiles # {}
  PROVE  Min(FreeFiles) \in FileIds /\ file[Min(FreeFiles)].ref = 0
BY MinIn, Sizes DEF FreeFiles

(* The first free descriptor is free.                                       *)
LEMMA FreeFd ==
  ASSUME NEW p \in Procs, FreeFds(p) # {}
  PROVE  Min(FreeFds(p)) \in Fds /\ ofile[p][Min(FreeFds(p))] = None
BY MinIn, Sizes DEF FreeFds

(* pipe() finds two descriptors that are free and differ.                   *)
LEMMA TwoFreeFds ==
  ASSUME NEW p \in Procs, Cardinality(FreeFds(p)) >= 2
  PROVE  /\ FreeFds(p) # {} /\ FreeFds(p) \ {Min(FreeFds(p))} # {}
         /\ Min(FreeFds(p)) \in FreeFds(p)
         /\ Min(FreeFds(p) \ {Min(FreeFds(p))}) \in FreeFds(p) \ {Min(FreeFds(p))}
<1>1. FreeFds(p) \in SUBSET Fds /\ IsFiniteSet(FreeFds(p))
  BY Finite DEF FreeFds
<1>2. FreeFds(p) # {}
  BY FS_EmptySet
<1>3. Min(FreeFds(p)) \in FreeFds(p)
  BY <1>1, <1>2, MinIn, Sizes
<1>4. Cardinality(FreeFds(p) \ {Min(FreeFds(p))}) = Cardinality(FreeFds(p)) - 1
  BY <1>1, <1>3, FS_RemoveElement
<1>5. FreeFds(p) \ {Min(FreeFds(p))} # {}
  <2>1. Cardinality(FreeFds(p)) \in Nat
    BY <1>1, FS_CardinalityType
  <2>2. Cardinality(FreeFds(p) \ {Min(FreeFds(p))}) # 0
    BY <1>4, <2>1
  <2> QED BY <2>2, FS_EmptySet
<1> QED BY <1>1, <1>2, <1>3, <1>5, MinIn, Sizes

-----------------------------------------------------------------------------
(* Arithmetic modulo m.                                                     *)
LEMMA ModSmall ==
  ASSUME NEW m \in Nat \ {0}, NEW a \in 0 .. (2 * m - 1)
  PROVE  a % m = IF a < m THEN a ELSE a - m
OBVIOUS

(* Quotient and remainder, and that they are unique.                        *)
LEMMA ModIn ==
  ASSUME NEW m \in Nat \ {0}, NEW a \in Int
  PROVE  a % m \in 0 .. (m - 1) /\ a \div m \in Int /\ a = m * (a \div m) + (a % m)
OBVIOUS

(* There is one way to write a number as quotient and remainder.            *)
LEMMA ModUnique ==
  ASSUME NEW m \in Nat \ {0}, NEW q \in Int, NEW s \in Int,
         NEW r \in 0 .. (m - 1), NEW t \in 0 .. (m - 1), m * q + r = m * s + t
  PROVE  q = s /\ r = t
OBVIOUS

(* Numbers less than m apart that are equal modulo m are equal.             *)
LEMMA ModApart ==
  ASSUME NEW m \in Nat \ {0}, NEW x \in Nat, NEW a \in 0 .. (m - 1), NEW c \in 0 .. (m - 1),
         (x + a) % m = (x + c) % m
  PROVE  a = c
<1>1. x + a = m * ((x + a) \div m) + ((x + a) % m) /\ (x + a) \div m \in Int
  BY ModIn
<1>2. x + c = m * ((x + c) \div m) + ((x + c) % m) /\ (x + c) \div m \in Int
  BY ModIn
<1> DEFINE q == (x + a) \div m
           s == (x + c) \div m
<1>3. m * q + c = m * s + a
  BY <1>1, <1>2
<1> HIDE DEF q, s
<1>4. q \in Int /\ s \in Int
  BY <1>1, <1>2 DEF q, s
<1> QED BY <1>3, <1>4, ModUnique

(* The counters wrap at a multiple of the ring's size, so that the slot of  *)
(* a byte is its number modulo the size.                                    *)
LEMMA WrapKeepsSlot ==
  ASSUME NEW x \in 0 .. (2 * CtrMod - 1)
  PROVE  (x % CtrMod) % PIPESIZE = x % PIPESIZE
<1> DEFINE d == CtrMod \div PIPESIZE
<1>1. d \in Int /\ CtrMod = PIPESIZE * d
  BY ModIn, Sizes, FilesAssumption DEF FilesAssumption
<1>2. CASE x < CtrMod
  BY <1>2, ModSmall, Sizes
<1>3. CASE x >= CtrMod
  <2>1. x % CtrMod = x - CtrMod /\ x - CtrMod \in Int /\ x \in Int
    <3>1. x \in Int /\ CtrMod \in Nat \ {0} /\ x \in 0 .. (2 * CtrMod - 1)
      BY Sizes
    <3>2. x % CtrMod = x - CtrMod
      BY <1>3, <3>1, ModSmall
    <3> QED BY <3>1, <3>2
  <2> DEFINE q == (x - CtrMod) \div PIPESIZE
             r == (x - CtrMod) % PIPESIZE
             s == x \div PIPESIZE
             t == x % PIPESIZE
  <2>2. /\ q \in Int /\ s \in Int /\ r \in 0 .. (PIPESIZE - 1) /\ t \in 0 .. (PIPESIZE - 1)
        /\ x - CtrMod = PIPESIZE * q + r /\ x = PIPESIZE * s + t
    BY <2>1, ModIn, Sizes
  <2> HIDE DEF d, q, r, s, t
  <2>3. PIPESIZE * (q + d) + r = PIPESIZE * s + t
    BY <1>1, <2>1, <2>2, Sizes
  <2>4. q + d \in Int
    BY <1>1, <2>2
  <2>5. r = t
    <3> DEFINE u == q + d
    <3>1. u \in Int /\ PIPESIZE * u + r = PIPESIZE * s + t
      BY <2>3, <2>4
    <3> HIDE DEF u
    <3> QED BY <2>2, <3>1, ModUnique, Sizes
  <2> QED BY <2>1, <2>5 DEF r, t
<1> QED BY <1>2, <1>3, Sizes

-----------------------------------------------------------------------------
(* One pipe.                                                                *)
LEMMA CountCases ==
  ASSUME NEW b \in PipeType
  PROVE  /\ Count(b) = IF b.nwrite >= b.nread THEN b.nwrite - b.nread ELSE b.nwrite - b.nread + CtrMod
         /\ Count(b) \in 0 .. (CtrMod - 1)
         /\ Count(b) = 0 <=> Empty(b)
         /\ Count(b) = PIPESIZE <=> Full(b)
<1>1. b.nread \in 0 .. (CtrMod - 1) /\ b.nwrite \in 0 .. (CtrMod - 1)
  BY DEF PipeType
<1>2. Count(b) = IF b.nwrite >= b.nread THEN b.nwrite - b.nread ELSE b.nwrite - b.nread + CtrMod
  <2> DEFINE x == b.nwrite - b.nread + CtrMod
  <2>1. x \in 0 .. (2 * CtrMod - 1)
    BY <1>1, Sizes
  <2>2. x % CtrMod = IF x < CtrMod THEN x ELSE x - CtrMod
    BY <2>1, ModSmall, Sizes
  <2> QED BY <1>1, <2>2, Sizes DEF Count
<1>3. Count(b) = PIPESIZE <=> Full(b)
  <2> DEFINE x == b.nread + PIPESIZE
  <2>1. x \in 0 .. (2 * CtrMod - 1)
    BY <1>1, Sizes
  <2>2. x % CtrMod = IF x < CtrMod THEN x ELSE x - CtrMod
    BY <2>1, ModSmall, Sizes
  <2> QED BY <1>1, <1>2, <2>2, Sizes DEF Full
<1> QED BY <1>1, <1>2, <1>3, Sizes DEF Empty

(* The bytes of a pipe, as a sequence.                                      *)
Slot(x) == (x % CtrMod) % PIPESIZE

(* A slot is a place in the ring.                                           *)
LEMMA SlotIn ==
  ASSUME NEW x \in Int
  PROVE  Slot(x) \in 0 .. (PIPESIZE - 1)
<1>1. x % CtrMod \in Int
  BY ModIn, Sizes
<1> QED BY <1>1, ModIn, Sizes DEF Slot

(* The contents of a pipe are bytes, as many as the counters say.           *)
LEMMA ContentsIn ==
  ASSUME NEW b \in PipeType
  PROVE  /\ Contents(b) \in Seq(Byte) /\ Len(Contents(b)) = Count(b)
         /\ \A k \in 1 .. Count(b) : Contents(b)[k] = b.data[Slot(b.nread + k - 1)]
<1>1. Count(b) \in Nat
  BY CountCases, Sizes
<1>2. ASSUME NEW k \in 1 .. Count(b) PROVE b.data[Slot(b.nread + k - 1)] \in Byte
  <2>1. b.nread + k - 1 \in Int
    BY <1>1, Sizes DEF PipeType
  <2> QED BY <2>1, SlotIn DEF PipeType
<1>3. Contents(b) = [k \in 1 .. Count(b) |-> b.data[Slot(b.nread + k - 1)]]
  BY DEF Contents, Slot
<1>4. Contents(b) \in [1 .. Count(b) -> Byte]
  BY <1>2, <1>3
<1> QED BY <1>1, <1>3, <1>4, SeqDef, LenProperties

(* Bytes of the window that the ring can hold are in different slots.       *)
LEMMA SlotsApart ==
  ASSUME NEW b \in PipeType, NEW a \in 0 .. (PIPESIZE - 1), NEW c \in 0 .. (PIPESIZE - 1),
         Slot(b.nread + a) = Slot(b.nread + c)
  PROVE  a = c
<1>1. b.nread \in 0 .. (CtrMod - 1)
  BY DEF PipeType
<1>2. b.nread + a \in 0 .. (2 * CtrMod - 1) /\ b.nread + c \in 0 .. (2 * CtrMod - 1)
  BY <1>1, Sizes
<1>3. (b.nread + a) % PIPESIZE = (b.nread + c) % PIPESIZE
  BY <1>2, WrapKeepsSlot DEF Slot
<1>4. b.nread \in Nat
  BY <1>1
<1> QED BY <1>3, <1>4, ModApart, Sizes

(* The writer's slots are the ones behind the bytes that are there.         *)
LEMMA WriterSlots ==
  ASSUME NEW b \in PipeType, NEW j \in 1 .. (PIPESIZE - Count(b))
  PROVE  Slot(b.nwrite + j - 1) = Slot(b.nread + (Count(b) + j - 1))
<1>1. b.nread \in 0 .. (CtrMod - 1) /\ b.nwrite \in 0 .. (CtrMod - 1)
  BY DEF PipeType
<1>2. Count(b) \in Nat
  BY CountCases, Sizes
<1>3. CASE b.nwrite >= b.nread
  <2>1. b.nwrite + j - 1 = b.nread + (Count(b) + j - 1)
    BY <1>1, <1>2, <1>3, CountCases, Sizes
  <2> QED BY <2>1
<1>4. CASE b.nwrite < b.nread
  <2> DEFINE x == b.nwrite + j - 1
  <2>1. Count(b) = b.nwrite - b.nread + CtrMod
    BY <1>1, <1>4, CountCases
  <2>2. x + CtrMod = b.nread + (Count(b) + j - 1) /\ x \in 0 .. (CtrMod - 1)
    BY <1>1, <1>2, <1>4, <2>1, Sizes
  <2> HIDE DEF x
  <2>3. x % CtrMod = x /\ (x + CtrMod) % CtrMod = x
    <3>1. x \in 0 .. (2 * CtrMod - 1) /\ x + CtrMod \in 0 .. (2 * CtrMod - 1)
      BY <2>2, Sizes
    <3>2. x % CtrMod = IF x < CtrMod THEN x ELSE x - CtrMod
      BY <3>1, ModSmall, Sizes
    <3> DEFINE y == x + CtrMod
    <3>3. y % CtrMod = IF y < CtrMod THEN y ELSE y - CtrMod
      BY <3>1, ModSmall, Sizes
    <3> QED BY <2>2, <3>2, <3>3, Sizes
  <2>4. Slot(x) = Slot(x + CtrMod)
    BY <2>3 DEF Slot
  <2> QED BY <2>2, <2>4 DEF x
<1> QED BY <1>1, <1>3, <1>4

(* nwrite++ and nread++, several times.                                     *)
LEMMA PutCount ==
  ASSUME NEW b \in PipeType, NEW n \in 0 .. (PIPESIZE - Count(b)),
         NEW c \in PipeType, c.nread = b.nread, c.nwrite = (b.nwrite + n) % CtrMod
  PROVE  Count(c) = Count(b) + n
<1>1. b.nread \in 0 .. (CtrMod - 1) /\ b.nwrite \in 0 .. (CtrMod - 1) /\ Count(b) \in Nat
  BY CountCases, Sizes DEF PipeType
<1> DEFINE x == b.nwrite + n
<1>2. x \in 0 .. (2 * CtrMod - 1)
  BY <1>1, Sizes
<1>3. x % CtrMod = IF x < CtrMod THEN x ELSE x - CtrMod
  BY <1>2, ModSmall, Sizes
<1> QED BY <1>1, <1>3, CountCases, Sizes

(* Taking n bytes leaves the others, in their order.                        *)
LEMMA TakeCount ==
  ASSUME NEW b \in PipeType, NEW n \in 0 .. Count(b), Count(b) <= PIPESIZE
  PROVE  /\ TakeBytes(b, n) \in PipeType
         /\ Count(TakeBytes(b, n)) = Count(b) - n
         /\ Contents(TakeBytes(b, n)) = SubSeq(Contents(b), n + 1, Len(Contents(b)))
<1> DEFINE c == TakeBytes(b, n)
           x == b.nread + n
<1>1. b.nread \in 0 .. (CtrMod - 1) /\ b.nwrite \in 0 .. (CtrMod - 1) /\ Count(b) \in Nat
  BY CountCases, Sizes DEF PipeType
<1>2. x \in 0 .. (2 * CtrMod - 1)
  BY <1>1, Sizes
<1>3. x % CtrMod = IF x < CtrMod THEN x ELSE x - CtrMod
  BY <1>2, ModSmall, Sizes
<1>4. /\ c \in PipeType /\ c.nread = x % CtrMod /\ c.nwrite = b.nwrite /\ c.data = b.data
  <2>1. x % CtrMod \in 0 .. (CtrMod - 1)
    BY <1>2, <1>3, Sizes
  <2> QED BY <2>1 DEF TakeBytes, PipeType
<1>5. Count(c) = Count(b) - n
  <2> HIDE DEF c
  <2> QED BY <1>1, <1>3, <1>4, CountCases, Sizes
<1>6. ASSUME NEW k \in 1 .. Count(c) PROVE Slot(c.nread + k - 1) = Slot(b.nread + (n + k) - 1)
  <2>1. b.nread + (n + k) - 1 \in 0 .. (2 * CtrMod - 1)
    BY <1>1, <1>5, Sizes
  <2>2. (b.nread + (n + k) - 1) % CtrMod = (c.nread + k - 1) % CtrMod
    <3> DEFINE y == b.nread + (n + k) - 1
               z == c.nread + k - 1
    <3>1. y % CtrMod = IF y < CtrMod THEN y ELSE y - CtrMod
      BY <2>1, ModSmall, Sizes
    <3>2. z \in 0 .. (2 * CtrMod - 1)
      BY <1>1, <1>3, <1>4, <1>5, Sizes
    <3>3. z % CtrMod = IF z < CtrMod THEN z ELSE z - CtrMod
      BY <3>2, ModSmall, Sizes
    <3>4. z = y \/ z = y - CtrMod
      <4>1. c.nread = x \/ c.nread = x - CtrMod
        BY <1>3, <1>4
      <4>2. x \in Int /\ CtrMod \in Int /\ k \in Int /\ n \in Int /\ b.nread \in Int
        BY <1>1, <1>2, <1>5, Sizes
      <4> HIDE DEF c
      <4> QED BY <4>1, <4>2
    <3>5. z = y - CtrMod => y >= CtrMod
      BY <1>1, <1>3, <1>4, <1>5, Sizes
    <3>6. y \in Int /\ z \in Int
      BY <1>1, <1>3, <1>4, <1>5, <2>1, Sizes
    <3> HIDE DEF y, z
    <3> QED BY <2>1, <3>1, <3>2, <3>3, <3>4, <3>5, <3>6, Sizes DEF y, z
  <2> QED BY <2>2 DEF Slot
<1>7. Contents(c) = SubSeq(Contents(b), n + 1, Len(Contents(b)))
  <2> HIDE DEF c
  <2>1. /\ Contents(c) \in Seq(Byte) /\ Len(Contents(c)) = Count(c)
        /\ \A k \in 1 .. Count(c) : Contents(c)[k] = c.data[Slot(c.nread + k - 1)]
    BY <1>4, ContentsIn
  <2>2. /\ Contents(b) \in Seq(Byte) /\ Len(Contents(b)) = Count(b)
        /\ \A k \in 1 .. Count(b) : Contents(b)[k] = b.data[Slot(b.nread + k - 1)]
    BY ContentsIn
  <2> DEFINE t == SubSeq(Contents(b), n + 1, Count(b))
  <2>3. \A k \in (n + 1) .. Count(b) : Contents(b)[k] \in Byte
    BY <1>1, <2>2, LenProperties
  <2>4. /\ t \in Seq(Byte) /\ Len(t) = Count(b) - n
        /\ \A k \in 1 .. (Count(b) - n) : t[k] = Contents(b)[n + 1 + k - 1]
    <3>1. n + 1 \in Int /\ Count(b) \in Int /\ Count(b) - (n + 1) + 1 = Count(b) - n
      BY <1>1
    <3>2. /\ t \in Seq(Byte) /\ Len(t) = IF n + 1 <= Count(b) THEN Count(b) - (n + 1) + 1 ELSE 0
          /\ \A k \in 1 .. (Count(b) - (n + 1) + 1) : t[k] = Contents(b)[n + 1 + k - 1]
      BY <2>3, <3>1, SubSeqProperties
    <3> QED BY <1>1, <3>1, <3>2
  <2>5. ASSUME NEW k \in 1 .. (Count(b) - n) PROVE Contents(c)[k] = t[k]
    <3>1. k \in 1 .. Count(c) /\ n + k \in 1 .. Count(b) /\ n + 1 + k - 1 = n + k
      BY <1>1, <1>5
    <3>2. t[k] = b.data[Slot(b.nread + (n + k) - 1)]
      BY <2>2, <2>4, <3>1
    <3> QED BY <1>4, <1>6, <2>1, <3>1, <3>2
  <2> QED BY <1>5, <2>1, <2>2, <2>4, <2>5, SeqEqual
<1> QED BY <1>4, <1>5, <1>7

(* The bytes put into a pipe are the last of it, and the others stay.       *)
LEMMA PutContents ==
  ASSUME NEW b \in PipeType, NEW s \in Seq(Byte), Len(s) <= PIPESIZE - Count(b)
  PROVE  /\ PutBytes(b, s) \in PipeType
         /\ Count(PutBytes(b, s)) = Count(b) + Len(s)
         /\ Contents(PutBytes(b, s)) = Contents(b) \o s
<1> DEFINE c == PutBytes(b, s)
           js(k) == {j \in 1 .. Len(s) : Slot(b.nwrite + j - 1) = k}
<1>1. /\ b.nread \in 0 .. (CtrMod - 1) /\ b.nwrite \in 0 .. (CtrMod - 1) /\ Count(b) \in Nat
      /\ Len(s) \in Nat /\ DOMAIN b.data = 0 .. (PIPESIZE - 1)
  BY CountCases, Sizes, LenProperties DEF PipeType
<1>2. ASSUME NEW k, NEW j \in js(k) PROVE js(k) = {j}
  <2>1. ASSUME NEW i \in js(k) PROVE i = j
    <3>1. i \in 1 .. (PIPESIZE - Count(b)) /\ j \in 1 .. (PIPESIZE - Count(b))
      BY <1>1, Sizes
    <3>2. Slot(b.nread + (Count(b) + i - 1)) = Slot(b.nread + (Count(b) + j - 1))
      BY <3>1, WriterSlots
    <3>3. Count(b) + i - 1 \in 0 .. (PIPESIZE - 1) /\ Count(b) + j - 1 \in 0 .. (PIPESIZE - 1)
      BY <1>1, <3>1, Sizes, SMTT(30), ZenonT(40)
    <3>4. Count(b) + i - 1 = Count(b) + j - 1
      BY <3>2, <3>3, SlotsApart
    <3> QED BY <1>1, <3>1, <3>4
  <2> QED BY <2>1
<1>3. ASSUME NEW k, NEW j \in js(k) PROVE Max(js(k)) = j
  <2>1. js(k) = {j} /\ j \in Int
    BY <1>1, <1>2
  <2> HIDE DEF js
  <2> QED BY <2>1 DEF Max
<1>4. /\ c = [b EXCEPT !.data = [k \in DOMAIN b.data |-> IF js(k) = {} THEN b.data[k] ELSE s[Max(js(k))]],
                       !.nwrite = (b.nwrite + Len(s)) % CtrMod]
  BY DEF PutBytes, Slot
<1>5. ASSUME NEW k \in DOMAIN b.data
      PROVE  (IF js(k) = {} THEN b.data[k] ELSE s[Max(js(k))]) \in Byte
  <2>1. CASE js(k) = {}
    BY <2>1 DEF PipeType
  <2>2. CASE js(k) # {}
    <3>1. PICK j \in js(k) : TRUE
      BY <2>2
    <3>2. Max(js(k)) = j /\ j \in 1 .. Len(s)
      BY <1>3, <3>1
    <3> HIDE DEF js
    <3> QED BY <2>2, <3>2, ElementOfSeq
  <2> QED BY <2>1, <2>2
<1>6. /\ c \in PipeType /\ c.nread = b.nread /\ c.nwrite = (b.nwrite + Len(s)) % CtrMod
      /\ \A k \in DOMAIN b.data : c.data[k] = IF js(k) = {} THEN b.data[k] ELSE s[Max(js(k))]
  <2>1. (b.nwrite + Len(s)) % CtrMod \in 0 .. (CtrMod - 1)
    <3>1. b.nwrite + Len(s) \in Int
      BY <1>1
    <3> QED BY <3>1, ModIn, Sizes
  <2> DEFINE d == [k \in DOMAIN b.data |-> IF js(k) = {} THEN b.data[k] ELSE s[Max(js(k))]]
  <2>2. d \in [0 .. (PIPESIZE - 1) -> Byte]
    BY <1>1, <1>5
  <2>3. \A k \in DOMAIN b.data : d[k] = IF js(k) = {} THEN b.data[k] ELSE s[Max(js(k))]
    OBVIOUS
  <2>4. c = [b EXCEPT !.data = d, !.nwrite = (b.nwrite + Len(s)) % CtrMod]
    BY <1>4
  <2> HIDE DEF c, d
  <2> QED BY <2>1, <2>2, <2>3, <2>4 DEF PipeType
<1>7. Count(c) = Count(b) + Len(s)
  <2>1. Len(s) \in 0 .. (PIPESIZE - Count(b))
    BY <1>1, Sizes
  <2> HIDE DEF c
  <2> QED BY <1>6, <2>1, PutCount
<1>8. ASSUME NEW k \in 1 .. Count(b) PROVE c.data[Slot(c.nread + k - 1)] = b.data[Slot(b.nread + k - 1)]
  <2>1. Slot(b.nread + k - 1) \in DOMAIN b.data
    <3>1. b.nread + k - 1 \in Int
      BY <1>1
    <3> QED BY <1>1, <3>1, SlotIn
  <2>2. ASSUME NEW j \in js(Slot(b.nread + k - 1)) PROVE FALSE
    <3>1. j \in 1 .. (PIPESIZE - Count(b)) /\ b.nread + k - 1 = b.nread + (k - 1)
      BY <1>1, Sizes
    <3>2. Slot(b.nread + (Count(b) + j - 1)) = Slot(b.nread + (k - 1))
      BY <3>1, WriterSlots
    <3>3. Count(b) + j - 1 \in 0 .. (PIPESIZE - 1) /\ k - 1 \in 0 .. (PIPESIZE - 1)
      BY <1>1, <3>1, Sizes
    <3>4. Count(b) + j - 1 = k - 1
      BY <3>2, <3>3, SlotsApart
    <3> QED BY <1>1, <3>1, <3>4
  <2>3. js(Slot(b.nread + k - 1)) = {}
    BY <2>2
  <2> HIDE DEF c, js
  <2> QED BY <1>6, <2>1, <2>3
<1>9. ASSUME NEW k \in 1 .. Len(s) PROVE c.data[Slot(c.nread + (Count(b) + k) - 1)] = s[k]
  <2>1. k \in 1 .. (PIPESIZE - Count(b)) /\ b.nread + (Count(b) + k) - 1 = b.nread + (Count(b) + k - 1)
    BY <1>1, Sizes
  <2>2. Slot(b.nwrite + k - 1) = Slot(b.nread + (Count(b) + k) - 1)
    BY <2>1, WriterSlots
  <2>3. Slot(b.nwrite + k - 1) \in DOMAIN b.data
    <3>1. b.nwrite + k - 1 \in Int
      BY <1>1
    <3> QED BY <1>1, <3>1, SlotIn
  <2>4. k \in js(Slot(b.nwrite + k - 1))
    OBVIOUS
  <2>5. Max(js(Slot(b.nwrite + k - 1))) = k /\ js(Slot(b.nwrite + k - 1)) # {}
    BY <1>3, <2>4
  <2> HIDE DEF c, js
  <2> QED BY <1>6, <2>2, <2>3, <2>5
<1>10. Contents(c) = Contents(b) \o s
  <2> HIDE DEF c, js
  <2>1. /\ Contents(c) \in Seq(Byte) /\ Len(Contents(c)) = Count(c)
        /\ \A k \in 1 .. Count(c) : Contents(c)[k] = c.data[Slot(c.nread + k - 1)]
    BY <1>6, ContentsIn
  <2>2. /\ Contents(b) \in Seq(Byte) /\ Len(Contents(b)) = Count(b)
        /\ \A k \in 1 .. Count(b) : Contents(b)[k] = b.data[Slot(b.nread + k - 1)]
    BY ContentsIn
  <2> DEFINE t == Contents(b) \o s
  <2>3. /\ t \in Seq(Byte) /\ Len(t) = Count(b) + Len(s)
        /\ \A k \in 1 .. (Count(b) + Len(s)) : t[k] = IF k <= Count(b) THEN Contents(b)[k] ELSE s[k - Count(b)]
    <3> DEFINE q == Contents(b)
    <3>1. q \in Seq(Byte) /\ Len(q) = Count(b)
      BY <2>2
    <3> HIDE DEF q
    <3>2. /\ q \o s \in Seq(Byte) /\ Len(q \o s) = Len(q) + Len(s)
          /\ \A k \in 1 .. (Len(q) + Len(s)) : (q \o s)[k] = IF k <= Len(q) THEN q[k] ELSE s[k - Len(q)]
      BY <3>1, ConcatProperties
    <3> QED BY <3>1, <3>2 DEF q
  <2> HIDE DEF t
  <2>4. ASSUME NEW k \in 1 .. (Count(b) + Len(s)) PROVE Contents(c)[k] = t[k]
    <3>1. CASE k <= Count(b)
      <4>1. k \in 1 .. Count(b) /\ k \in 1 .. Count(c)
        BY <1>1, <1>7, <3>1
      <4> QED BY <1>8, <2>1, <2>2, <2>3, <3>1, <4>1
    <3>2. CASE k > Count(b)
      <4>1. k - Count(b) \in 1 .. Len(s) /\ k \in 1 .. Count(c) /\ Count(b) + (k - Count(b)) = k
        BY <1>1, <1>7, <3>2
      <4>2. c.data[Slot(c.nread + (Count(b) + (k - Count(b))) - 1)] = s[k - Count(b)]
        BY <1>9, <4>1
      <4> QED BY <1>1, <2>1, <2>3, <3>2, <4>1, <4>2
    <3> QED BY <1>1, <3>1, <3>2
  <2> QED BY <1>7, <2>1, <2>3, <2>4, SeqEqual DEF t
<1> QED BY <1>6, <1>7, <1>10

-----------------------------------------------------------------------------
(* Counting references.                                                     *)
LEMMA RefSets ==
  ASSUME NEW f
  PROVE  /\ FdRefs(f) \in SUBSET (Procs \X Fds) /\ FdRefs(f)' \in SUBSET (Procs \X Fds)
         /\ TodoRefs(f) \in SUBSET (Procs \X (1 .. 2 * NOFILE))
         /\ TodoRefs(f)' \in SUBSET (Procs \X (1 .. 2 * NOFILE))
         /\ FreshRefs(f) \in SUBSET Procs /\ FreshRefs(f)' \in SUBSET Procs
         /\ IsFiniteSet(FdRefs(f)) /\ Cardinality(FdRefs(f)) \in Nat
         /\ IsFiniteSet(TodoRefs(f)) /\ Cardinality(TodoRefs(f)) \in Nat
         /\ IsFiniteSet(FreshRefs(f)) /\ Cardinality(FreshRefs(f)) \in Nat
<1>1. /\ FdRefs(f) \in SUBSET (Procs \X Fds) /\ FdRefs(f)' \in SUBSET (Procs \X Fds)
  BY DEF FdRefs
<1>2. /\ TodoRefs(f) \in SUBSET (Procs \X (1 .. 2 * NOFILE))
      /\ TodoRefs(f)' \in SUBSET (Procs \X (1 .. 2 * NOFILE))
  BY DEF TodoRefs
<1>3. FreshRefs(f) \in SUBSET Procs /\ FreshRefs(f)' \in SUBSET Procs
  BY DEF FreshRefs
<1> QED BY <1>1, <1>2, <1>3, Finite

(* A row of n pairs has n elements.                                         *)
LEMMA RowCount ==
  ASSUME NEW p, NEW D, IsFiniteSet(D)
  PROVE  IsFiniteSet({p} \X D) /\ Cardinality({p} \X D) = Cardinality(D)
<1>1. IsFiniteSet({p}) /\ Cardinality({p}) = 1
  BY FS_Singleton
<1>2. IsFiniteSet({p} \X D) /\ Cardinality({p} \X D) = 1 * Cardinality(D)
  BY <1>1, FS_Product
<1> QED BY <1>2, FS_CardinalityType

(* A process gets references to a file in the places D.                     *)
LEMMA AddRow ==
  ASSUME NEW S, IsFiniteSet(S), NEW p, NEW D, IsFiniteSet(D), S \cap ({p} \X D) = {}
  PROVE  Cardinality(S \cup ({p} \X D)) = Cardinality(S) + Cardinality(D)
<1> DEFINE R == {p} \X D
<1>1. IsFiniteSet(R) /\ Cardinality(R) = Cardinality(D)
  BY RowCount
<1>2. S \cap R = {}
  OBVIOUS
<1> HIDE DEF R
<1>3. Cardinality(S \cup R) = Cardinality(S) + Cardinality(R) - Cardinality(S \cap R)
  BY <1>1, FS_Union
<1>4. Cardinality(S) \in Nat /\ Cardinality(D) \in Nat
  BY FS_CardinalityType
<1>5. Cardinality(S \cap R) = 0
  BY <1>2, FS_EmptySet
<1> QED BY <1>1, <1>3, <1>4, <1>5 DEF R

(* A process gives up its references in the places D.                       *)
LEMMA RemoveRow ==
  ASSUME NEW S, IsFiniteSet(S), NEW p, NEW D, IsFiniteSet(D), {p} \X D \subseteq S
  PROVE  Cardinality(S \ ({p} \X D)) = Cardinality(S) - Cardinality(D)
<1> DEFINE R == {p} \X D
<1>1. IsFiniteSet(R) /\ Cardinality(R) = Cardinality(D)
  BY RowCount
<1>2. S \cap R = R
  OBVIOUS
<1> HIDE DEF R
<1>3. Cardinality(S \ R) = Cardinality(S) - Cardinality(S \cap R)
  BY <1>1, FS_Difference
<1> QED BY <1>1, <1>2, <1>3 DEF R

(* A descriptor is given a file, or loses it.                               *)
LEMMA AddFd ==
  ASSUME FilesTypeOK, NEW p \in Procs, NEW fd \in Fds, NEW f \in FileIds, ~IsOpen(p, fd),
         ofile' = [ofile EXCEPT ![p][fd] = f], NEW g \in FileIds
  PROVE  Cardinality(FdRefs(g)') = IF g = f THEN Cardinality(FdRefs(g)) + 1 ELSE Cardinality(FdRefs(g))
<1>1. FdRefs(g)' = IF g = f THEN FdRefs(g) \cup {<<p, fd>>} ELSE FdRefs(g)
  BY Sizes DEF FdRefs, FilesTypeOK, IsOpen
<1>2. <<p, fd>> \notin FdRefs(f)
  BY Sizes DEF FdRefs, IsOpen
<1> QED BY <1>1, <1>2, RefSets, FS_AddElement

(* close() takes one reference from the descriptors.                        *)
LEMMA RemoveFd ==
  ASSUME FilesTypeOK, NEW p \in Procs, NEW fd \in Fds, IsOpen(p, fd),
         ofile' = [ofile EXCEPT ![p][fd] = None], NEW g \in FileIds
  PROVE  Cardinality(FdRefs(g)') =
           IF g = ofile[p][fd] THEN Cardinality(FdRefs(g)) - 1 ELSE Cardinality(FdRefs(g))
<1>1. FdRefs(g)' = IF g = ofile[p][fd] THEN FdRefs(g) \ {<<p, fd>>} ELSE FdRefs(g)
  BY Sizes DEF FdRefs, FilesTypeOK, IsOpen
<1>2. g = ofile[p][fd] => <<p, fd>> \in FdRefs(g)
  BY Sizes DEF FdRefs, IsOpen
<1>3. IsFiniteSet(FdRefs(g))
  BY RefSets
<1>4. CASE g = ofile[p][fd]
  BY <1>1, <1>2, <1>3, <1>4, FS_RemoveElement
<1>5. CASE g # ofile[p][fd]
  BY <1>1, <1>5
<1> QED BY <1>4, <1>5

(* pipe() adds one reference for each end.                                  *)
LEMMA AddTwoFds ==
  ASSUME FilesTypeOK, NEW p \in Procs, NEW d \in Fds, NEW e \in Fds, d # e,
         NEW r \in FileIds, NEW w \in FileIds, r # w, ~IsOpen(p, d), ~IsOpen(p, e),
         ofile' = [ofile EXCEPT ![p] = [@ EXCEPT ![d] = r, ![e] = w]], NEW g \in FileIds
  PROVE  Cardinality(FdRefs(g)') =
           IF g \in {r, w} THEN Cardinality(FdRefs(g)) + 1 ELSE Cardinality(FdRefs(g))
<1>1. FdRefs(g)' = IF g = r THEN FdRefs(g) \cup {<<p, d>>}
                   ELSE IF g = w THEN FdRefs(g) \cup {<<p, e>>} ELSE FdRefs(g)
  BY Sizes, SMTT(30), ZenonT(40) DEF FdRefs, FilesTypeOK, IsOpen
<1>2. <<p, d>> \notin FdRefs(g) /\ <<p, e>> \notin FdRefs(g)
  BY Sizes DEF FdRefs, IsOpen
<1>3. /\ Cardinality(FdRefs(g) \cup {<<p, d>>}) = Cardinality(FdRefs(g)) + 1
      /\ Cardinality(FdRefs(g) \cup {<<p, e>>}) = Cardinality(FdRefs(g)) + 1
  BY <1>2, RefSets, FS_AddElement
<1> QED BY <1>1, <1>3

(* The descriptors of p that name f.                                        *)
FdsOf(p, f) == {fd \in Fds : ofile[p][fd] = f}

(* fork() copies a row of the table, exit() clears it.                      *)
LEMMA CopyRow ==
  ASSUME FilesTypeOK, NEW p \in Procs, NEW q \in Procs, \A fd \in Fds : ~IsOpen(q, fd),
         ofile' = [ofile EXCEPT ![q] = ofile[p]], NEW g \in FileIds
  PROVE  Cardinality(FdRefs(g)') = Cardinality(FdRefs(g)) + Cardinality(FdsOf(p, g))
<1> DEFINE S == FdRefs(g)
           D == FdsOf(p, g)
<1>1. FdRefs(g)' = S \cup ({q} \X D)
  <2>1. ASSUME NEW x \in Procs \X Fds PROVE x \in FdRefs(g)' <=> x \in S \cup ({q} \X D)
    <3>1. CASE x[1] = q
      BY <3>1, Sizes DEF FdRefs, FilesTypeOK, IsOpen, FdsOf
    <3>2. CASE x[1] # q
      BY <3>2 DEF FdRefs, FilesTypeOK
    <3> QED BY <3>1, <3>2
  <2>2. {q} \X D \subseteq Procs \X Fds
    BY DEF FdsOf
  <2> QED BY <2>1, <2>2, RefSets
<1>2. S \cap ({q} \X D) = {}
  BY Sizes DEF FdRefs, IsOpen, FdsOf
<1>3. IsFiniteSet(D) /\ IsFiniteSet(S)
  BY Finite, RefSets DEF FdsOf
<1>4. Cardinality(S \cup ({q} \X D)) = Cardinality(S) + Cardinality(D)
  <2> HIDE DEF S, D
  <2> QED BY <1>2, <1>3, AddRow, SMTT(30), ZenonT(40)
<1> QED BY <1>1, <1>4

(* exit() takes all the references that p's descriptors are.                *)
LEMMA ClearRow ==
  ASSUME FilesTypeOK, NEW p \in Procs, ofile' = [ofile EXCEPT ![p] = [fd \in Fds |-> None]], NEW g \in FileIds
  PROVE  Cardinality(FdRefs(g)') = Cardinality(FdRefs(g)) - Cardinality(FdsOf(p, g))
<1> DEFINE S == FdRefs(g)
           D == FdsOf(p, g)
<1>1. FdRefs(g)' = S \ ({p} \X D)
  BY Sizes DEF FdRefs, FilesTypeOK, FdsOf
<1>2. {p} \X D \subseteq S
  BY DEF FdRefs, FdsOf
<1>3. IsFiniteSet(D) /\ IsFiniteSet(S)
  BY Finite, RefSets DEF FdsOf
<1>4. Cardinality(S \ ({p} \X D)) = Cardinality(S) - Cardinality(D)
  <2> HIDE DEF S, D
  <2> QED BY <1>2, <1>3, RemoveRow
<1> QED BY <1>1, <1>4

(* The places of f in a list of files.                                      *)
Places(s, f) == {k \in 1 .. Len(s) : s[k] = f}

(* A list of files to close is as many references as it has places.         *)
LEMMA StartList ==
  ASSUME FilesTypeOK, NEW p \in Procs, todo[p] = <<>>, NEW s \in Seq(FileIds), Len(s) <= 2 * NOFILE,
         todo' = [todo EXCEPT ![p] = s], NEW g \in FileIds
  PROVE  Cardinality(TodoRefs(g)') = Cardinality(TodoRefs(g)) + Cardinality(Places(s, g))
<1>1. Len(s) \in Nat /\ DOMAIN s = 1 .. Len(s) /\ DOMAIN todo[p] = {}
  BY LenProperties
<1>2. 1 .. Len(s) \subseteq 1 .. 2 * NOFILE
  BY <1>1, Sizes
<1>3. TodoRefs(g)' = TodoRefs(g) \cup ({p} \X Places(s, g))
  <2>1. ASSUME NEW x \in Procs \X (1 .. 2 * NOFILE)
        PROVE  x \in TodoRefs(g)' <=> x \in TodoRefs(g) \cup ({p} \X Places(s, g))
    <3>1. CASE x[1] = p
      BY <1>1, <3>1 DEF TodoRefs, FilesTypeOK, Places
    <3>2. CASE x[1] # p
      BY <3>2 DEF TodoRefs, FilesTypeOK
    <3> QED BY <3>1, <3>2
  <2>2. {p} \X Places(s, g) \subseteq Procs \X (1 .. 2 * NOFILE)
    BY <1>2 DEF Places
  <2> QED BY <2>1, <2>2, RefSets
<1>4. TodoRefs(g) \cap ({p} \X Places(s, g)) = {}
  BY <1>1 DEF TodoRefs
<1> DEFINE S == TodoRefs(g)
           D == Places(s, g)
<1>5. IsFiniteSet(S) /\ IsFiniteSet(D)
  <2>1. IsFiniteSet(1 .. Len(s)) /\ D \in SUBSET (1 .. Len(s))
    BY <1>1, FS_Interval DEF Places
  <2> HIDE DEF D
  <2> QED BY <2>1, RefSets, FS_Subset
<1>6. S \cap ({p} \X D) = {} /\ TodoRefs(g)' = S \cup ({p} \X D)
  BY <1>3, <1>4
<1> HIDE DEF S, D
<1>7. Cardinality(S \cup ({p} \X D)) = Cardinality(S) + Cardinality(D)
  BY <1>5, <1>6, AddRow
<1> QED BY <1>6, <1>7 DEF S, D

(* Lists of one and of two files.                                           *)
LEMMA OnePlace ==
  ASSUME NEW f, NEW g
  PROVE  Cardinality(Places(<<f>>, g)) = IF g = f THEN 1 ELSE 0
<1>1. Places(<<f>>, g) = IF g = f THEN {1} ELSE {}
  BY DEF Places
<1> QED BY <1>1, FS_Singleton, FS_EmptySet

(* Each of two different files has one place in the list of both.           *)
LEMMA TwoPlaces ==
  ASSUME NEW r, NEW w, r # w, NEW g
  PROVE  Cardinality(Places(<<r, w>>, g)) = IF g \in {r, w} THEN 1 ELSE 0
<1>1. Places(<<r, w>>, g) = IF g = r THEN {1} ELSE IF g = w THEN {2} ELSE {}
  BY DEF Places
<1> QED BY <1>1, FS_Singleton, FS_EmptySet

(* The first file of the list is closed.                                    *)
LEMMA ShortenList ==
  ASSUME FilesTypeOK, NEW p \in Procs, todo[p] # <<>>, Len(todo[p]) <= 2 * NOFILE,
         todo' = [todo EXCEPT ![p] = Tail(@)], NEW g \in FileIds
  PROVE  Cardinality(TodoRefs(g)') =
           IF g = Head(todo[p]) THEN Cardinality(TodoRefs(g)) - 1 ELSE Cardinality(TodoRefs(g))
<1> DEFINE S == TodoRefs(g)'
           T == TodoRefs(g) \ {<<p, 1>>}
           h == [x \in S |-> <<x[1], IF x[1] = p THEN x[2] + 1 ELSE x[2]>>]
<1>1. /\ todo[p] \in Seq(FileIds) /\ Len(todo[p]) \in Nat \ {0} /\ DOMAIN todo[p] = 1 .. Len(todo[p])
      /\ Tail(todo[p]) \in Seq(FileIds) /\ DOMAIN Tail(todo[p]) = 1 .. (Len(todo[p]) - 1)
      /\ \A k \in 1 .. (Len(todo[p]) - 1) : Tail(todo[p])[k] = todo[p][k + 1]
      /\ Head(todo[p]) = todo[p][1]
  <2>1. todo[p] \in Seq(FileIds)
    BY DEF FilesTypeOK
  <2>2. /\ Tail(todo[p]) \in Seq(FileIds) /\ Len(Tail(todo[p])) = Len(todo[p]) - 1
        /\ \A k \in 1 .. Len(Tail(todo[p])) : Tail(todo[p])[k] = todo[p][k + 1]
    BY <2>1, HeadTailProperties
  <2>3. Len(todo[p]) \in Nat \ {0}
    BY <2>1, EmptySeq
  <2> QED BY <2>1, <2>2, <2>3, LenProperties
<1>2. todo'[p] = Tail(todo[p]) /\ \A q \in Procs : q # p => todo'[q] = todo[q]
  BY DEF FilesTypeOK
<1>3. ASSUME NEW k \in Int
      PROVE  /\ <<p, k>> \in S <=> k \in 1 .. (Len(todo[p]) - 1) /\ todo[p][k + 1] = g
             /\ <<p, k>> \in TodoRefs(g) <=> k \in 1 .. Len(todo[p]) /\ todo[p][k] = g
  <2>1. <<p, k>> \in TodoRefs(g) <=> k \in 1 .. Len(todo[p]) /\ todo[p][k] = g
    BY <1>1, Sizes DEF TodoRefs
  <2>2. <<p, k>> \in S <=> k \in 1 .. (Len(todo[p]) - 1) /\ Tail(todo[p])[k] = g
    <3>1. DOMAIN todo'[p] = 1 .. (Len(todo[p]) - 1) /\ todo'[p][k] = Tail(todo[p])[k]
      BY <1>1, <1>2
    <3>2. k \in 1 .. (Len(todo[p]) - 1) => k \in 1 .. 2 * NOFILE
      BY <1>1, Sizes
    <3>3. <<p, k>> \in S <=> k \in 1 .. 2 * NOFILE /\ k \in DOMAIN todo'[p] /\ todo'[p][k] = g
      BY DEF TodoRefs
    <3> QED BY <3>1, <3>2, <3>3
  <2> QED BY <1>1, <2>1, <2>2
<1>4. ASSUME NEW q \in Procs, q # p, NEW k
      PROVE  <<q, k>> \in S <=> <<q, k>> \in TodoRefs(g)
  BY <1>2, <1>4 DEF TodoRefs
<1>5. /\ S \subseteq Procs \X (1 .. 2 * NOFILE) /\ T \subseteq Procs \X (1 .. 2 * NOFILE)
      /\ IsFiniteSet(S) /\ IsFiniteSet(TodoRefs(g)) /\ Cardinality(TodoRefs(g)) \in Nat
  BY RefSets, Finite
<1>6. <<p, 1>> \in TodoRefs(g) <=> g = Head(todo[p])
  BY <1>1, <1>3
<1> HIDE DEF S, T
<1>7. ASSUME NEW x \in S
      PROVE  h[x] \in T /\ h[x][1] = x[1] /\ (x[1] = p => h[x][2] = x[2] + 1) /\ (x[1] # p => h[x] = x)
  <2>1. PICK q \in Procs, k \in 1 .. 2 * NOFILE : x = <<q, k>>
    BY <1>5
  <2>2. k \in Int /\ k + 1 \in Int
    BY Sizes
  <2>3. CASE q = p
    <3>1. h[x] = <<p, k + 1>>
      BY <2>1, <2>3
    <3>2. k \in 1 .. (Len(todo[p]) - 1) /\ todo[p][k + 1] = g
      BY <1>3, <2>1, <2>2, <2>3
    <3>3. <<p, k + 1>> \in TodoRefs(g) /\ k + 1 # 1
      BY <1>1, <1>3, <2>2, <3>2
    <3> QED BY <2>1, <2>3, <3>1, <3>3 DEF T
  <2>4. CASE q # p
    BY <1>4, <2>1, <2>4 DEF T
  <2> QED BY <2>3, <2>4
<1>8. ASSUME NEW x \in S, NEW y \in S, h[x] = h[y] PROVE x = y
  <2>1. x \in Procs \X (1 .. 2 * NOFILE) /\ y \in Procs \X (1 .. 2 * NOFILE)
    BY <1>5
  <2>2. x[1] = y[1]
    BY <1>7, <1>8
  <2>3. CASE x[1] = p
    <3>1. x[2] + 1 = y[2] + 1 /\ x[2] \in Int /\ y[2] \in Int
      BY <1>7, <1>8, <2>1, <2>2, <2>3, Sizes
    <3> QED BY <2>1, <2>2, <3>1
  <2>4. CASE x[1] # p
    BY <1>7, <1>8, <2>2, <2>4
  <2> QED BY <2>3, <2>4
<1>9. ASSUME NEW y \in T PROVE \E x \in S : h[x] = y
  <2>1. PICK q \in Procs, k \in 1 .. 2 * NOFILE : y = <<q, k>> /\ y \in TodoRefs(g) /\ y # <<p, 1>>
    BY <1>5 DEF T
  <2>2. CASE q = p
    <3>1. k \in 2 .. Len(todo[p]) /\ todo[p][k] = g /\ k - 1 \in Int /\ (k - 1) + 1 = k
      BY <1>1, <1>3, <2>1, <2>2, Sizes
    <3>2. <<p, k - 1>> \in S
      BY <1>1, <1>3, <3>1
    <3>3. h[<<p, k - 1>>] = <<p, (k - 1) + 1>>
      BY <3>2
    <3> QED BY <2>1, <2>2, <3>1, <3>2, <3>3
  <2>3. CASE q # p
    BY <1>4, <1>7, <2>1, <2>3
  <2> QED BY <2>2, <2>3
<1>10. Cardinality(S) = Cardinality(T)
  <2>1. h \in [S -> T]
    BY <1>7
  <2> HIDE DEF h
  <2>2. h \in Bijection(S, T)
    BY <1>8, <1>9, <2>1 DEF Bijection, Injection, Surjection, IsInjective
  <2> QED BY <1>5, <2>2, FS_Bijection DEF ExistsBijection
<1>11. Cardinality(T) = IF g = Head(todo[p]) THEN Cardinality(TodoRefs(g)) - 1 ELSE Cardinality(TodoRefs(g))
  BY <1>5, <1>6, FS_RemoveElement DEF T
<1> QED BY <1>10, <1>11 DEF S

(* exit() closes every open file of p once for each descriptor.             *)
LEMMA OpenFilesPlaces ==
  ASSUME FilesTypeOK, NEW p \in Procs, NEW g \in FileIds
  PROVE  /\ OpenFiles(p) \in Seq(FileIds) /\ Len(OpenFiles(p)) <= NOFILE
         /\ Cardinality(Places(OpenFiles(p), g)) = Cardinality(FdsOf(p, g))
         /\ \A k \in DOMAIN OpenFiles(p) : \E fd \in Fds : OpenFiles(p)[k] = ofile[p][fd]
<1> DEFINE O == {fd \in Fds : IsOpen(p, fd)}
           upto(fd) == {e \in Fds : e <= fd /\ IsOpen(p, e)}
           n == Cardinality(O)
           pos == [fd \in O |-> Cardinality(upto(fd))]
           s == OpenFiles(p)
<1>1. IsFiniteSet(O) /\ n \in Nat /\ n <= NOFILE
  <2>1. O \in SUBSET Fds
    OBVIOUS
  <2> HIDE DEF O
  <2> QED BY <2>1, Finite, FS_Subset
<1>2. ASSUME NEW fd \in O
      PROVE  /\ upto(fd) \in SUBSET O /\ IsFiniteSet(upto(fd)) /\ Cardinality(upto(fd)) \in 1 .. n
  <2>1. upto(fd) \in SUBSET O /\ fd \in upto(fd)
    BY Sizes
  <2> HIDE DEF upto, O
  <2>2. IsFiniteSet(upto(fd)) /\ Cardinality(upto(fd)) <= n /\ Cardinality(upto(fd)) \in Nat
    BY <1>1, <2>1, FS_Subset, FS_CardinalityType
  <2>3. Cardinality(upto(fd)) # 0
    BY <2>1, <2>2, FS_EmptySet
  <2> QED BY <1>1, <2>1, <2>2, <2>3
<1>3. ASSUME NEW d \in O, NEW e \in O, d < e PROVE Cardinality(upto(d)) # Cardinality(upto(e))
  <2>1. upto(d) \in SUBSET upto(e) /\ e \in upto(e) /\ e \notin upto(d) /\ IsFiniteSet(upto(e))
    <3>1. d \in Nat /\ e \in Nat /\ \A x \in Fds : x \in Nat
      BY Sizes
    <3>2. \A x \in Fds : x <= d => x <= e
      BY <1>3, <3>1
    <3>3. e <= e /\ ~(e <= d)
      BY <1>3, <3>1
    <3> QED BY <1>2, <3>2, <3>3
  <2> HIDE DEF upto
  <2> QED BY <2>1, FS_Subset
<1>4. \A d, e \in O : Cardinality(upto(d)) = Cardinality(upto(e)) => d = e
  <2>1. O \subseteq Nat
    BY Sizes
  <2>2. ASSUME NEW d \in O, NEW e \in O, Cardinality(upto(d)) = Cardinality(upto(e)) PROVE d = e
    <3>1. ~(d < e) /\ ~(e < d)
      BY <1>3, <2>2
    <3> HIDE DEF O, upto
    <3> QED BY <2>1, <3>1
  <2> HIDE DEF O, upto
  <2> QED BY <2>2
<1>5. \A k \in 1 .. n : \E fd \in O : Cardinality(upto(fd)) = k
  <2>1. pos \in Injection(O, 1 .. n)
    BY <1>2, <1>4 DEF Injection, IsInjective
  <2>2. IsFiniteSet(1 .. n) /\ Cardinality(1 .. n) = n
    BY <1>1, FS_Interval
  <2> HIDE DEF O, upto
  <2>3. pos \in Surjection(O, 1 .. n)
    <3> HIDE DEF pos
    <3> QED BY <1>1, <2>1, <2>2, FS_Injection
  <2> QED BY <2>3 DEF Surjection
<1>6. s = [k \in 1 .. n |-> ofile[p][CHOOSE fd \in Fds : IsOpen(p, fd) /\ Cardinality(upto(fd)) = k]]
  BY DEF OpenFiles
<1>7. \A fd \in O : upto(fd) = upto(fd)
  OBVIOUS
<1>8. ASSUME NEW fd \in O
      PROVE  Cardinality(upto(fd)) \in 1 .. n /\ s[Cardinality(upto(fd))] = ofile[p][fd]
  <2> DEFINE k == Cardinality(upto(fd))
             c == CHOOSE e \in Fds : IsOpen(p, e) /\ Cardinality(upto(e)) = k
  <2>1. k \in 1 .. n
    BY <1>2
  <2>2. fd \in Fds /\ IsOpen(p, fd)
    OBVIOUS
  <2> HIDE DEF upto
  <2>3. c \in Fds /\ IsOpen(p, c) /\ Cardinality(upto(c)) = k
    BY <2>2
  <2>4. c \in O
    BY <2>3
  <2> HIDE DEF O
  <2>5. c = fd
    BY <1>4, <2>3, <2>4
  <2>6. s[k] = ofile[p][c]
    <3> HIDE DEF k, n, s
    <3> QED BY <1>6, <2>1
  <2> QED BY <2>1, <2>5, <2>6
<1> HIDE DEF s
<1>9. ASSUME NEW k \in 1 .. n PROVE s[k] \in FileIds /\ \E fd \in O : Cardinality(upto(fd)) = k /\ s[k] = ofile[p][fd]
  <2>1. PICK fd \in O : Cardinality(upto(fd)) = k
    BY <1>5
  <2>2. s[k] = ofile[p][fd]
    BY <1>8, <2>1
  <2>3. ofile[p][fd] \in FileIds
    BY DEF FilesTypeOK, IsOpen
  <2> HIDE DEF O, upto
  <2> QED BY <2>1, <2>2, <2>3
<1>10. s \in Seq(FileIds) /\ Len(s) = n
  <2> DEFINE ch(k) == ofile[p][CHOOSE fd \in Fds : IsOpen(p, fd) /\ Cardinality(upto(fd)) = k]
  <2> HIDE DEF O, upto, n
  <2>1. s = [k \in 1 .. n |-> ch(k)]
    BY <1>6
  <2> HIDE DEF ch
  <2>2. s \in [1 .. n -> FileIds]
    BY <1>9, <2>1
  <2>3. s \in Seq(FileIds)
    BY <1>1, <2>2, SeqDef
  <2>4. DOMAIN s = 1 .. n /\ DOMAIN s = 1 .. Len(s) /\ Len(s) \in Nat
    BY <2>2, <2>3, LenProperties
  <2> QED BY <1>1, <2>3, <2>4
<1>11. Cardinality(Places(s, g)) = Cardinality(FdsOf(p, g))
  <2> DEFINE D == FdsOf(p, g)
             K == Places(s, g)
             h == [fd \in D |-> Cardinality(upto(fd))]
  <2>1. D \subseteq O /\ IsFiniteSet(D) /\ \A fd \in O : fd \in D <=> ofile[p][fd] = g
    BY Finite, Sizes DEF FdsOf, IsOpen
  <2>2. \A k : k \in K <=> k \in 1 .. n /\ s[k] = g
    BY <1>10 DEF Places
  <2> HIDE DEF O, upto, n, D, K
  <2>3. ASSUME NEW fd \in D PROVE Cardinality(upto(fd)) \in K
    BY <1>8, <2>1, <2>2
  <2>4. ASSUME NEW k \in K PROVE \E fd \in D : Cardinality(upto(fd)) = k
    BY <1>9, <2>1, <2>2
  <2>5. h \in Bijection(D, K)
    BY <1>4, <2>1, <2>3, <2>4 DEF Bijection, Injection, Surjection, IsInjective
  <2> HIDE DEF h
  <2> QED BY <2>1, <2>5, FS_Bijection DEF ExistsBijection, D, K
<1>12. \A k \in DOMAIN s : \E fd \in Fds : s[k] = ofile[p][fd]
  <2>1. DOMAIN s = 1 .. n
    BY <1>10, LenProperties
  <2>2. O \subseteq Fds
    OBVIOUS
  <2> HIDE DEF O, upto, n
  <2> QED BY <1>9, <2>1, <2>2
<1> QED BY <1>1, <1>10, <1>11, <1>12 DEF s

(* A pipe() call gets its first file, and is done with it.                  *)
LEMMA AddFresh ==
  ASSUME FilesTypeOK, NEW p \in Procs, NEW f \in FileIds, pc[p] # "pipe",
         pc' = [pc EXCEPT ![p] = "pipe"], fcur' = [fcur EXCEPT ![p] = f], NEW g \in FileIds
  PROVE  Cardinality(FreshRefs(g)') =
           IF g = f THEN Cardinality(FreshRefs(g)) + 1 ELSE Cardinality(FreshRefs(g))
<1>1. FreshRefs(g)' = IF g = f THEN FreshRefs(g) \cup {p} ELSE FreshRefs(g)
  BY DEF FreshRefs, FilesTypeOK
<1>2. p \notin FreshRefs(g)
  BY DEF FreshRefs
<1> QED BY <1>1, <1>2, RefSets, FS_AddElement

(* A pipe() call that goes on gives up its reference to its first file.     *)
LEMMA RemoveFresh ==
  ASSUME FilesTypeOK, NEW p \in Procs, pc[p] = "pipe",
         \A q \in Procs : q # p => pc'[q] = pc[q] /\ fcur'[q] = fcur[q],
         pc'[p] # "pipe", NEW g \in FileIds
  PROVE  Cardinality(FreshRefs(g)') =
           IF g = fcur[p] THEN Cardinality(FreshRefs(g)) - 1 ELSE Cardinality(FreshRefs(g))
<1>1. FreshRefs(g)' = IF g = fcur[p] THEN FreshRefs(g) \ {p} ELSE FreshRefs(g)
  BY DEF FreshRefs, FilesTypeOK
<1>2. g = fcur[p] => p \in FreshRefs(g)
  BY DEF FreshRefs
<1>3. IsFiniteSet(FreshRefs(g))
  BY RefSets
<1>4. CASE g = fcur[p]
  BY <1>1, <1>2, <1>3, <1>4, FS_RemoveElement
<1>5. CASE g # fcur[p]
  BY <1>1, <1>5
<1> QED BY <1>4, <1>5

(* What leaves the pipe() calls alone leaves their references alone.        *)
LEMMA SameFresh ==
  ASSUME \A q \in Procs : (pc'[q] = "pipe" <=> pc[q] = "pipe") /\ (pc[q] = "pipe" => fcur'[q] = fcur[q]),
         NEW g
  PROVE  FreshRefs(g)' = FreshRefs(g)
BY DEF FreshRefs

(* What the counts say.                                                     *)
LEMMA Unreferenced ==
  ASSUME RefsOK, NEW f \in FileIds, file[f].ref = 0
  PROVE  /\ \A q \in Procs : \A fd \in Fds : ofile[q][fd] # f
         /\ \A q \in Procs : \A k \in DOMAIN todo[q] : k \in 1 .. 2 * NOFILE => todo[q][k] # f
         /\ \A q \in Procs : ~(pc[q] = "pipe" /\ fcur[q] = f)
<1>1. FdRefs(f) = {} /\ TodoRefs(f) = {} /\ FreshRefs(f) = {}
  <2>1. /\ Cardinality(FdRefs(f)) \in Nat /\ Cardinality(TodoRefs(f)) \in Nat /\ Cardinality(FreshRefs(f)) \in Nat
        /\ IsFiniteSet(FdRefs(f)) /\ IsFiniteSet(TodoRefs(f)) /\ IsFiniteSet(FreshRefs(f))
    BY RefSets
  <2>2. Cardinality(FdRefs(f)) = 0 /\ Cardinality(TodoRefs(f)) = 0 /\ Cardinality(FreshRefs(f)) = 0
    BY <2>1 DEF RefsOK, Holders
  <2> QED BY <2>1, <2>2, FS_EmptySet
<1>2. ASSUME NEW q \in Procs, NEW fd \in Fds PROVE ofile[q][fd] # f
  <2>1. <<q, fd>> \notin FdRefs(f)
    BY <1>1
  <2> QED BY <2>1 DEF FdRefs
<1>3. ASSUME NEW q \in Procs, NEW k \in DOMAIN todo[q], k \in 1 .. 2 * NOFILE PROVE todo[q][k] # f
  <2>1. <<q, k>> \notin TodoRefs(f)
    BY <1>1
  <2> QED BY <1>3, <2>1 DEF TodoRefs
<1>4. ASSUME NEW q \in Procs PROVE ~(pc[q] = "pipe" /\ fcur[q] = f)
  BY <1>1 DEF FreshRefs
<1> QED BY <1>2, <1>3, <1>4

(* A file that somebody refers to is in use.                                *)
LEMMA Referenced ==
  ASSUME RefsOK, NEW f \in FileIds,
         \/ \E q \in Procs : \E fd \in Fds : ofile[q][fd] = f
         \/ \E q \in Procs : \E k \in DOMAIN todo[q] : k \in 1 .. 2 * NOFILE /\ todo[q][k] = f
         \/ \E q \in Procs : pc[q] = "pipe" /\ fcur[q] = f
  PROVE  file[f].ref # 0
BY Unreferenced

(* A file that a descriptor names and a close is about has two references.  *)
LEMMA TwiceReferenced ==
  ASSUME RefsOK, NEW f \in FileIds, NEW q \in Procs, NEW fd \in Fds, ofile[q][fd] = f,
         NEW p \in Procs, NEW k \in DOMAIN todo[p], k \in 1 .. 2 * NOFILE, todo[p][k] = f
  PROVE  file[f].ref > 1
<1>1. /\ Cardinality(FdRefs(f)) \in Nat /\ Cardinality(TodoRefs(f)) \in Nat /\ Cardinality(FreshRefs(f)) \in Nat
      /\ IsFiniteSet(FdRefs(f)) /\ IsFiniteSet(TodoRefs(f)) /\ IsFiniteSet(FreshRefs(f))
  BY RefSets
<1>2. <<q, fd>> \in FdRefs(f)
  BY DEF FdRefs
<1>3. <<p, k>> \in TodoRefs(f)
  BY DEF TodoRefs
<1>4. Cardinality(FdRefs(f)) # 0 /\ Cardinality(TodoRefs(f)) # 0
  BY <1>1, <1>2, <1>3, FS_EmptySet
<1>5. file[f].ref = Cardinality(FdRefs(f)) + Cardinality(TodoRefs(f)) + Cardinality(FreshRefs(f))
  BY DEF RefsOK, Holders
<1> QED BY <1>1, <1>4, <1>5

-----------------------------------------------------------------------------
(* What an action leaves alone.                                             *)
Calling == {"read", "rsleep", "write", "wsleep"}
Writing == {"write", "wsleep"}

(* The tables of files and descriptors stay, and the ends of pipes with     *)
(* them.                                                                    *)
LEMMA TablesKept ==
  ASSUME FilesInv, ofile' = ofile, file' = file, todo' = todo, pclose' = pclose,
         \A q \in Procs : (pc'[q] = "pipe" <=> pc[q] = "pipe") /\ (pc[q] = "pipe" => fcur'[q] = fcur[q]),
         \A i \in PipeIds : pipe'[i].readopen = pipe[i].readopen /\ pipe'[i].writeopen = pipe[i].writeopen
  PROVE  RefsOK' /\ EndsOpen' /\ EndsOK' /\ FreshOK'
<1>1. \A g \in FileIds : FdRefs(g)' = FdRefs(g) /\ TodoRefs(g)' = TodoRefs(g) /\ FreshRefs(g)' = FreshRefs(g)
  BY SameFresh DEF FdRefs, TodoRefs
<1>2. RefsOK'
  BY <1>1 DEF FilesInv, FilesCounted, RefsOK, Holders
<1>3. \A i \in PipeIds, w \in BOOLEAN : EndsOf(i, w)' = EndsOf(i, w)
  BY DEF EndsOf
<1>4. EndsOpen'
  BY <1>3 DEF FilesInv, FilesCounted, EndsOpen
<1>5. EndsOK'
  BY <1>3 DEF FilesInv, EndsOK
<1>6. FreshOK'
  BY DEF FilesInv, FreshOK
<1> QED BY <1>2, <1>4, <1>5, <1>6

(* The processes in a pipe stay in it, on the same side, with its file.     *)
LEMMA CallsKept ==
  ASSUME CallsOK,
         \A q \in Procs : pc'[q] \in Calling =>
           /\ pc[q] \in Calling /\ (pc'[q] \in Writing <=> pc[q] \in Writing)
           /\ fcur'[q] = fcur[q] /\ \A fd \in Fds : ofile[q][fd] # None => ofile'[q][fd] = ofile[q][fd],
         \A f \in FileIds : (\E q \in Procs : \E fd \in Fds : ofile[q][fd] = f)
           => file'[f].type = file[f].type /\ file'[f].writable = file[f].writable
  PROVE  CallsOK'
<1> SUFFICES ASSUME NEW q \in Procs, pc'[q] \in Calling
             PROVE  /\ fcur'[q] \in FileIds
                    /\ \E fd \in Fds : ofile'[q][fd] = fcur'[q]
                    /\ file'[fcur'[q]].type = "PIPE"
                    /\ file'[fcur'[q]].writable <=> pc'[q] \in Writing
  BY DEF CallsOK, Calling, Writing
<1>1. pc[q] \in Calling /\ fcur'[q] = fcur[q] /\ (pc'[q] \in Writing <=> pc[q] \in Writing)
  OBVIOUS
<1>2. /\ fcur[q] \in FileIds /\ file[fcur[q]].type = "PIPE"
      /\ file[fcur[q]].writable <=> pc[q] \in Writing
      /\ \E fd \in Fds : ofile[q][fd] = fcur[q]
  BY <1>1 DEF CallsOK, Calling, Writing
<1>3. PICK fd \in Fds : ofile[q][fd] = fcur[q]
  BY <1>2
<1>4. ofile[q][fd] # None
  BY <1>2, <1>3, Sizes
<1>5. ofile'[q][fd] = fcur'[q]
  BY <1>1, <1>3, <1>4
<1>6. file'[fcur[q]].type = file[fcur[q]].type /\ file'[fcur[q]].writable = file[fcur[q]].writable
  BY <1>2, <1>3
<1> QED BY <1>1, <1>2, <1>5, <1>6

(* The pipes stay, and so do those that sleep in one.                       *)
LEMMA SleepersKept ==
  ASSUME CallsOK, NoLostPipeWakeup,
         \A q \in Procs : pc'[q] \in {"rsleep", "wsleep"} =>
           /\ pc'[q] = pc[q] /\ fcur'[q] = fcur[q] /\ file'[fcur[q]].pipe = file[fcur[q]].pipe
           /\ pipe'[file[fcur[q]].pipe] = pipe[file[fcur[q]].pipe]
  PROVE  NoLostPipeWakeup'
BY DEF NoLostPipeWakeup, Empty, Full

(* What leaves the pipes alone keeps what is true of them.                  *)
LEMMA PipesKept ==
  ASSUME PipesOK, pipe' = pipe
  PROVE  PipesOK'
BY DEF PipesOK, Count, Empty

(* A process that closes nothing before and after.                          *)
LEMMA ClosingKept ==
  ASSUME ClosingOK, todo' = todo, pclose' = pclose, after' = after,
         \A q \in Procs : pc'[q] = "closing" <=> pc[q] = "closing",
         \A q \in Procs : pc'[q] \in {"unborn", "zombie"} => pc[q] \in {"unborn", "zombie"},
         \A q \in Procs : pc[q] \in {"unborn", "zombie"} \/ (pc[q] = "closing" /\ after[q] = "zombie")
           => ofile'[q] = ofile[q]
  PROVE  ClosingOK'
BY DEF ClosingOK, IsOpen

(* Nothing but what a process sees of its last call.                        *)
LEMMA ResultStep ==
  ASSUME FilesInv, FilesTypeOK', ofile' = ofile, file' = file, pipe' = pipe, pc' = pc, fcur' = fcur,
         todo' = todo, pclose' = pclose, after' = after
  PROVE  FilesInv'
<1>1. RefsOK' /\ EndsOpen' /\ EndsOK' /\ FreshOK'
  BY TablesKept
<1>2. CallsOK'
  BY DEF FilesInv, CallsOK
<1>3. NoLostPipeWakeup'
  BY DEF FilesInv, NoLostPipeWakeup, Empty, Full
<1>4. PipesOK' /\ ClosingOK'
  BY PipesKept DEF FilesInv, ClosingOK, IsOpen
<1> QED BY <1>1, <1>2, <1>3, <1>4 DEF FilesInv, FilesCounted

(* A process that only moves, and is not in a pipe afterwards.              *)
LEMMA MoveStep ==
  ASSUME FilesInv, FilesTypeOK', ofile' = ofile, file' = file, pipe' = pipe,
         todo' = todo, pclose' = pclose, after' = after, ClosingOK', CallsOK',
         \A q \in Procs : (pc'[q] = "pipe" <=> pc[q] = "pipe") /\ (pc[q] = "pipe" => fcur'[q] = fcur[q]),
         \A q \in Procs : pc'[q] \in {"rsleep", "wsleep"} => pc'[q] = pc[q] /\ fcur'[q] = fcur[q]
  PROVE  FilesInv'
<1>1. RefsOK' /\ EndsOpen' /\ EndsOK' /\ FreshOK'
  BY TablesKept
<1>2. NoLostPipeWakeup'
  BY SleepersKept DEF FilesInv
<1>3. PipesOK'
  BY PipesKept DEF FilesInv
<1> QED BY <1>1, <1>2, <1>3 DEF FilesInv, FilesCounted

-----------------------------------------------------------------------------
(* The steps that change neither table.                                     *)
LEMMA CloseDoneStep ==
  ASSUME FilesInv, NEW p \in Procs, CloseDone(p)
  PROVE  FilesInv'
<1> USE DEF CloseDone, Goto, callVars, closeVars
<1>0. /\ \A q \in Procs : pc'[q] = IF q = p THEN after[p] ELSE pc[q]
      /\ after[p] \in {"user", "zombie"}
  BY DEF FilesInv, FilesTypeOK
<1>1. FilesTypeOK'
  BY DEF FilesInv, FilesTypeOK, FilesLabels
<1>2. ClosingOK'
  BY <1>0 DEF FilesInv, ClosingOK, IsOpen
<1>3. CallsOK'
  BY <1>0, CallsKept DEF FilesInv, Calling, Writing
<1> QED BY <1>0, <1>1, <1>2, <1>3, MoveStep

(* wait() frees the entry of a zombie.                                      *)
LEMMA ReapStep ==
  ASSUME FilesInv, NEW q \in Procs, Reap(q)
  PROVE  FilesInv'
<1> USE DEF Reap, callVars, closeVars
<1>0. \A r \in Procs : pc'[r] = IF r = q THEN "unborn" ELSE pc[r]
  BY DEF FilesInv, FilesTypeOK
<1>1. FilesTypeOK'
  BY DEF FilesInv, FilesTypeOK, FilesLabels
<1>2. ClosingOK'
  BY <1>0, ClosingKept DEF FilesInv
<1>3. CallsOK'
  BY <1>0, CallsKept DEF FilesInv, Calling, Writing
<1> QED BY <1>0, <1>1, <1>2, <1>3, MoveStep

(* kill() sets the flag and may wake its victim.                            *)
LEMMA KillStep ==
  ASSUME FilesInv, NEW p \in Procs, NEW q \in Procs, Kill(p, q)
  PROVE  FilesInv'
<1> USE DEF Kill, callVars, closeVars, InUser
<1>0. /\ \A r \in Procs : pc'[r] = pc[r] \/ (pc[r] = "rsleep" /\ pc'[r] = "read")
                                         \/ (pc[r] = "wsleep" /\ pc'[r] = "write")
  BY DEF WakeGoto
<1>1. FilesTypeOK'
  <2>1. pc' \in [Procs -> FilesLabels]
    BY <1>0 DEF FilesInv, FilesTypeOK, FilesLabels, WakeGoto
  <2>2. killed' \in [Procs -> BOOLEAN]
    BY DEF FilesInv, FilesTypeOK
  <2> QED BY <2>1, <2>2 DEF FilesInv, FilesTypeOK
<1>2. ClosingOK'
  BY <1>0, ClosingKept DEF FilesInv
<1>3. CallsOK'
  BY <1>0, CallsKept DEF FilesInv, Calling, Writing
<1> QED BY <1>0, <1>1, <1>2, <1>3, MoveStep

(* read() comes as far as piperead(), or returns.                           *)
LEMMA SysReadStep ==
  ASSUME FilesInv, NEW p \in Procs, NEW fd \in Fds, NEW n \in Nat, SysRead(p, fd, n)
  PROVE  FilesInv'
<1> DEFINE f == ofile[p][fd]
<1> USE DEF SysRead, Goto, Return, InUser, closeVars
<1>0. f \in FileIds /\ pc[p] = "user"
  BY DEF FilesInv, FilesTypeOK, IsOpen
<1>1. FilesTypeOK'
  <2> USE DEF FilesInv, FilesTypeOK
  <2>1. in' \in [Procs -> Seq(Byte)]
    OBVIOUS
  <2>2. fcur' \in [Procs -> FileIds \cup {None}]
    BY <1>0
  <2>3. cnt' \in [Procs -> Nat]
    BY SMTT(30), ZenonT(40)
  <2>4. pc' \in [Procs -> FilesLabels]
    <3>1. pc' = pc \/ pc' = [pc EXCEPT ![p] = "read"]
      OBVIOUS
    <3>2. "read" \in FilesLabels /\ pc \in [Procs -> FilesLabels]
      BY DEF FilesLabels
    <3> QED BY <3>1, <3>2
  <2>5. ret' \in [Procs -> Int]
    OBVIOUS
  <2> QED BY <2>1, <2>2, <2>3, <2>4, <2>5
<1>2. CASE file[f].type = "PIPE" /\ ~file[f].writable
  <2>0. /\ \A q \in Procs : pc'[q] = IF q = p THEN "read" ELSE pc[q]
        /\ \A q \in Procs : fcur'[q] = IF q = p THEN f ELSE fcur[q]
    BY <1>2 DEF FilesInv, FilesTypeOK
  <2>1. ClosingOK'
    BY <1>0, <1>2, <2>0, ClosingKept DEF FilesInv
  <2>2. CallsOK'
    BY <1>0, <1>2, <2>0 DEF FilesInv, CallsOK
  <2>3. ofile' = ofile /\ file' = file /\ pipe' = pipe /\ todo' = todo /\ pclose' = pclose /\ after' = after
    OBVIOUS
  <2> HIDE DEF f, SysRead
  <2> QED BY <1>0, <1>1, <2>0, <2>1, <2>2, <2>3, MoveStep
<1>3. CASE ~(file[f].type = "PIPE" /\ ~file[f].writable)
  BY <1>1, <1>3, ResultStep
<1> QED BY <1>2, <1>3

(* write() comes as far as pipewrite(), or returns.                         *)
LEMMA SysWriteStep ==
  ASSUME FilesInv, NEW p \in Procs, NEW fd \in Fds, NEW s \in Seq(Byte), SysWrite(p, fd, s)
  PROVE  FilesInv'
<1> DEFINE f == ofile[p][fd]
<1> USE DEF SysWrite, Goto, Return, InUser, closeVars
<1>0. f \in FileIds /\ pc[p] = "user" /\ Len(s) \in Nat
  BY LenProperties DEF FilesInv, FilesTypeOK, IsOpen
<1>1. FilesTypeOK'
  <2> USE DEF FilesInv, FilesTypeOK
  <2>1. out' \in [Procs -> Seq(Byte)]
    BY SMTT(30), ZenonT(40)
  <2>2. fcur' \in [Procs -> FileIds \cup {None}]
    BY <1>0
  <2>3. cnt' \in [Procs -> Nat]
    BY <1>0
  <2>4. pc' \in [Procs -> FilesLabels]
    <3>1. pc' = pc \/ pc' = [pc EXCEPT ![p] = "write"]
      OBVIOUS
    <3>2. "write" \in FilesLabels /\ pc \in [Procs -> FilesLabels]
      BY DEF FilesLabels
    <3> QED BY <3>1, <3>2
  <2>5. ret' \in [Procs -> Int]
    BY <1>0
  <2> QED BY <2>1, <2>2, <2>3, <2>4, <2>5
<1>2. CASE file[f].type = "PIPE" /\ file[f].writable
  <2>0. /\ \A q \in Procs : pc'[q] = IF q = p THEN "write" ELSE pc[q]
        /\ \A q \in Procs : fcur'[q] = IF q = p THEN f ELSE fcur[q]
    BY <1>2 DEF FilesInv, FilesTypeOK
  <2>1. ClosingOK'
    BY <1>0, <1>2, <2>0, ClosingKept DEF FilesInv
  <2>2. CallsOK'
    BY <1>0, <1>2, <2>0 DEF FilesInv, CallsOK
  <2>3. ofile' = ofile /\ file' = file /\ pipe' = pipe /\ todo' = todo /\ pclose' = pclose /\ after' = after
    OBVIOUS
  <2> HIDE DEF f, SysWrite
  <2> QED BY <1>0, <1>1, <2>0, <2>1, <2>2, <2>3, MoveStep
<1>3. CASE ~(file[f].type = "PIPE" /\ file[f].writable)
  BY <1>1, <1>3, ResultStep
<1> QED BY <1>2, <1>3

-----------------------------------------------------------------------------
(* Files that change hands.                                                 *)

(* The lists of files to close are short, and of files.                     *)
LEMMA TodoSlots ==
  ASSUME FilesInv, NEW q \in Procs
  PROVE  /\ todo[q] \in Seq(FileIds) /\ Len(todo[q]) \in Nat /\ DOMAIN todo[q] = 1 .. Len(todo[q])
         /\ \A k \in DOMAIN todo[q] : k \in 1 .. 2 * NOFILE /\ todo[q][k] \in FileIds
<1>1. todo[q] \in Seq(FileIds) /\ Len(todo[q]) <= 2 * NOFILE
  BY DEF FilesInv, FilesTypeOK, ClosingOK
<1>2. Len(todo[q]) \in Nat /\ DOMAIN todo[q] = 1 .. Len(todo[q])
  BY <1>1, LenProperties
<1>3. \A k \in 1 .. Len(todo[q]) : todo[q][k] \in FileIds
  BY <1>1, ElementOfSeq
<1> QED BY <1>1, <1>2, <1>3, Sizes

(* A file's count changes, and nothing else.                                *)
LEMMA CountChanged ==
  ASSUME FilesTypeOK, NEW f \in FileIds, NEW r \in Nat, file' = [file EXCEPT ![f].ref = r]
  PROVE  /\ file' \in [FileIds -> FileType]
         /\ \A g \in FileIds : file'[g].ref = IF g = f THEN r ELSE file[g].ref
         /\ \A g \in FileIds : /\ file'[g].type = file[g].type /\ file'[g].pipe = file[g].pipe
                               /\ file'[g].writable = file[g].writable
<1>1. file[f] \in FileType /\ [file[f] EXCEPT !.ref = r] \in FileType
  BY DEF FilesTypeOK, FileType
<1>2. file' = [file EXCEPT ![f] = [file[f] EXCEPT !.ref = r]]
  OBVIOUS
<1>3. file' \in [FileIds -> FileType]
  BY <1>1, <1>2 DEF FilesTypeOK
<1> QED BY <1>3 DEF FilesTypeOK, FileType

(* A free file has no type and nobody who refers to it.                     *)
LEMMA FreeUnused ==
  ASSUME FilesInv, NEW f \in FileIds, file[f].ref = 0
  PROVE  /\ file[f].type = "NONE" /\ Holders(f) = 0
         /\ \A q \in Procs : \A fd \in Fds : ofile[q][fd] # f
         /\ \A q \in Procs : \A k \in DOMAIN todo[q] : todo[q][k] # f
         /\ \A q \in Procs : ~(pc[q] = "pipe" /\ fcur[q] = f)
<1>1. RefsOK /\ file[f].type = "NONE"
  BY DEF FilesInv, FilesCounted, EndsOK
<1>2. \A q \in Procs : \A k \in DOMAIN todo[q] : k \in 1 .. 2 * NOFILE
  BY TodoSlots
<1> QED BY <1>1, <1>2, Unreferenced DEF RefsOK

(* A file with a descriptor is in use, and a process in a pipe has such a   *)
(* file; so the pipe's end is open.                                         *)
LEMMA InPipe ==
  ASSUME FilesInv, NEW q \in Procs, pc[q] \in Calling
  PROVE  /\ fcur[q] \in FileIds /\ file[fcur[q]].type = "PIPE" /\ file[fcur[q]].ref # 0
         /\ file[fcur[q]].pipe \in PipeIds
         /\ fcur[q] \in EndsOf(file[fcur[q]].pipe, pc[q] \in Writing)
         /\ pc[q] \in Writing => pipe[file[fcur[q]].pipe].writeopen
         /\ pc[q] \notin Writing => pipe[file[fcur[q]].pipe].readopen
<1>1. /\ fcur[q] \in FileIds /\ file[fcur[q]].type = "PIPE"
      /\ file[fcur[q]].writable <=> pc[q] \in Writing
      /\ \E fd \in Fds : ofile[q][fd] = fcur[q]
  BY DEF FilesInv, CallsOK, Calling, Writing
<1>2. file[fcur[q]].ref # 0
  BY <1>1, Referenced DEF FilesInv, FilesCounted
<1>3. file[fcur[q]].pipe \in PipeIds /\ file[fcur[q]].ref \in Nat /\ file[fcur[q]].writable \in BOOLEAN
  BY <1>1 DEF FilesInv, EndsOK, FilesTypeOK, FileType
<1>4. fcur[q] \in EndsOf(file[fcur[q]].pipe, pc[q] \in Writing)
  BY <1>1, <1>2, <1>3 DEF EndsOf
<1>5. /\ pc[q] \in Writing => pipe[file[fcur[q]].pipe].writeopen
      /\ pc[q] \notin Writing => pipe[file[fcur[q]].pipe].readopen
  <2> DEFINE i == file[fcur[q]].pipe
             w == pc[q] \in Writing
  <2>1. i \in PipeIds /\ w \in BOOLEAN /\ EndsOf(i, w) # {}
    BY <1>3, <1>4
  <2>2. IF w THEN pipe[i].writeopen ELSE pipe[i].readopen
    <3> HIDE DEF i, w
    <3> QED BY <2>1 DEF FilesInv, FilesCounted, EndsOpen
  <2> QED BY <2>2
<1> QED BY <1>1, <1>2, <1>3, <1>4, <1>5

(* The files that stand for ends of pipes stay, and so do the ends.         *)
LEMMA EndsKept ==
  ASSUME FilesInv, \A i \in PipeIds, w \in BOOLEAN : EndsOf(i, w)' = EndsOf(i, w), pclose' = pclose,
         \A i \in PipeIds : pipe'[i].readopen = pipe[i].readopen /\ pipe'[i].writeopen = pipe[i].writeopen,
         \A f \in FileIds : /\ file'[f].ref = 0 => file'[f].type = "NONE"
                            /\ file'[f].type = "PIPE" => file'[f].pipe \in PipeIds
  PROVE  EndsOpen' /\ EndsOK'
<1>1. EndsOpen'
  BY DEF FilesInv, FilesCounted, EndsOpen
<1>2. EndsOK'
  BY DEF FilesInv, EndsOK
<1> QED BY <1>1, <1>2

(* The call of p goes on to close the files of a list.                      *)
LEMMA CloseStarted ==
  ASSUME FilesInv, NEW p \in Procs, pc[p] \in {"user", "pipe"}, Len(todo'[p]) <= 2 * NOFILE,
         \A q \in Procs : pc'[q] = IF q = p THEN "closing" ELSE pc[q],
         \A q \in Procs : q # p => /\ todo'[q] = todo[q] /\ after'[q] = after[q]
                                   /\ ofile'[q] = ofile[q],
         pclose' = pclose,
         after'[p] = "user" \/ \A fd \in Fds : ofile'[p][fd] = None
  PROVE  ClosingOK'
<1> SUFFICES ASSUME NEW q \in Procs
             PROVE  /\ Len(todo'[q]) <= 2 * NOFILE
                    /\ pc'[q] # "closing" => todo'[q] = <<>> /\ pclose'[q] = NoEnd
                    /\ pc'[q] \in {"unborn", "zombie"} \/ (pc'[q] = "closing" /\ after'[q] = "zombie")
                         => \A fd \in Fds : ofile'[q][fd] = None
  BY DEF ClosingOK, IsOpen
<1>1. CASE q = p
  BY <1>1
<1>2. CASE q # p
  BY <1>2 DEF FilesInv, ClosingOK, IsOpen
<1> QED BY <1>1, <1>2

-----------------------------------------------------------------------------
(* The steps that change the tables.                                        *)

(* pipe(), its first file.                                                  *)
LEMMA SysPipeStep ==
  ASSUME FilesInv, NEW p \in Procs, SysPipe(p)
  PROVE  FilesInv'
<1> USE DEF SysPipe, Goto, Return, InUser, closeVars
<1>1. CASE FreeFiles = {}
  <2>1. ret' \in [Procs -> Int]
    BY <1>1 DEF FilesInv, FilesTypeOK
  <2>2. FilesTypeOK'
    BY <1>1, <2>1 DEF FilesInv, FilesTypeOK
  <2> QED BY <1>1, <2>2, ResultStep
<1>2. CASE FreeFiles # {}
  <2> DEFINE f == Min(FreeFiles)
  <2>0. /\ f \in FileIds /\ file[f].ref = 0 /\ pc[p] = "user"
        /\ file' = [file EXCEPT ![f].ref = 1] /\ fcur' = [fcur EXCEPT ![p] = f] /\ pc' = [pc EXCEPT ![p] = "pipe"]
        /\ UNCHANGED <<ret, ofile, pipe, cnt, out, in, pfd, todo, pclose, after, killed>>
    BY <1>2, FreeFile
  <2> HIDE DEF f, SysPipe
  <2>1. /\ file[f].type = "NONE" /\ Holders(f) = 0
        /\ \A q \in Procs : \A fd \in Fds : ofile[q][fd] # f
        /\ \A q \in Procs : \A k \in DOMAIN todo[q] : todo[q][k] # f
        /\ \A q \in Procs : ~(pc[q] = "pipe" /\ fcur[q] = f)
    BY <2>0, FreeUnused
  <2>2. /\ \A q \in Procs : pc'[q] = IF q = p THEN "pipe" ELSE pc[q]
        /\ \A q \in Procs : fcur'[q] = IF q = p THEN f ELSE fcur[q]
        /\ file' \in [FileIds -> FileType]
        /\ \A g \in FileIds : file'[g].ref = IF g = f THEN 1 ELSE file[g].ref
        /\ \A g \in FileIds : /\ file'[g].type = file[g].type /\ file'[g].pipe = file[g].pipe
                              /\ file'[g].writable = file[g].writable
    BY <2>0, CountChanged, SMTT(30), ZenonT(40) DEF FilesInv, FilesTypeOK
  <2>3. FilesTypeOK'
    BY <2>0, <2>2 DEF FilesInv, FilesTypeOK, FilesLabels
  <2>4. ClosingOK'
    BY <2>0, <2>2, ClosingKept DEF FilesInv
  <2>5. CallsOK'
    BY <2>0, <2>2, CallsKept DEF FilesInv, Calling, Writing
  <2>6. PipesOK'
    BY <2>0, PipesKept DEF FilesInv
  <2>7. NoLostPipeWakeup'
    <3>1. \A q \in Procs : pc[q] \in Calling => fcur[q] \in FileIds
      BY InPipe
    <3> QED BY <2>0, <2>2, <3>1, SleepersKept DEF FilesInv, Calling
  <2>8. RefsOK'
    <3> SUFFICES ASSUME NEW g \in FileIds PROVE file'[g].ref = Holders(g)'
      BY DEF RefsOK
    <3>1. FdRefs(g)' = FdRefs(g) /\ TodoRefs(g)' = TodoRefs(g)
      BY <2>0 DEF FdRefs, TodoRefs
    <3>2. Cardinality(FreshRefs(g)') = IF g = f THEN Cardinality(FreshRefs(g)) + 1 ELSE Cardinality(FreshRefs(g))
      BY <2>0, AddFresh DEF FilesInv
    <3>3. /\ Cardinality(FdRefs(g)) \in Nat /\ Cardinality(TodoRefs(g)) \in Nat
          /\ Cardinality(FreshRefs(g)) \in Nat
      BY RefSets
    <3>4. file[g].ref = Holders(g)
      BY DEF FilesInv, FilesCounted, RefsOK
    <3>5. CASE g = f
      BY <2>1, <2>2, <3>1, <3>2, <3>3, <3>5 DEF Holders
    <3>6. CASE g # f
      BY <2>2, <3>1, <3>2, <3>4, <3>6 DEF Holders
    <3> QED BY <3>5, <3>6
  <2>9. EndsOpen' /\ EndsOK'
    <3>1. \A i \in PipeIds, w \in BOOLEAN : EndsOf(i, w)' = EndsOf(i, w)
      BY <2>1, <2>2 DEF EndsOf
    <3>2. \A g \in FileIds : /\ file'[g].ref = 0 => file'[g].type = "NONE"
                             /\ file'[g].type = "PIPE" => file'[g].pipe \in PipeIds
      BY <2>1, <2>2 DEF FilesInv, EndsOK
    <3> QED BY <2>0, <3>1, <3>2, EndsKept
  <2>10. FreshOK'
    BY <2>0, <2>1, <2>2 DEF FilesInv, FreshOK
  <2> QED BY <2>3, <2>4, <2>5, <2>6, <2>7, <2>8, <2>9, <2>10 DEF FilesInv, FilesCounted
<1> QED BY <1>1, <1>2

(* dup()                                                                    *)
LEMMA SysDupStep ==
  ASSUME FilesInv, NEW p \in Procs, NEW fd \in Fds, SysDup(p, fd)
  PROVE  FilesInv'
<1> USE DEF SysDup, Return, InUser, closeVars
<1>1. CASE FreeFds(p) = {}
  <2>1. ret' \in [Procs -> Int]
    BY <1>1 DEF FilesInv, FilesTypeOK
  <2>2. FilesTypeOK'
    BY <1>1, <2>1 DEF FilesInv, FilesTypeOK
  <2> QED BY <1>1, <2>2, ResultStep
<1>2. CASE FreeFds(p) # {}
  <2> DEFINE new == Min(FreeFds(p))
             f == ofile[p][fd]
  <2>0. /\ new \in Fds /\ ofile[p][new] = None /\ f \in FileIds /\ file[f].ref # 0 /\ pc[p] = "user"
        /\ ofile' = [ofile EXCEPT ![p][new] = f] /\ file' = [file EXCEPT ![f].ref = @ + 1]
        /\ ret' = [ret EXCEPT ![p] = new]
        /\ UNCHANGED <<pipe, pc, fcur, cnt, out, in, pfd, todo, pclose, after, killed>>
    <3>1. f \in FileIds
      BY DEF FilesInv, FilesTypeOK, IsOpen
    <3>2. file[f].ref # 0
      BY <3>1, Referenced DEF FilesInv, FilesCounted
    <3> QED BY <1>2, <3>1, <3>2, FreeFd
  <2> HIDE DEF new, f, SysDup
  <2>1. /\ \A q \in Procs : q # p => ofile'[q] = ofile[q]
        /\ \A e \in Fds : ofile'[p][e] = IF e = new THEN f ELSE ofile[p][e]
        /\ file' \in [FileIds -> FileType]
        /\ \A g \in FileIds : file'[g].ref = IF g = f THEN file[g].ref + 1 ELSE file[g].ref
        /\ \A g \in FileIds : /\ file'[g].type = file[g].type /\ file'[g].pipe = file[g].pipe
                              /\ file'[g].writable = file[g].writable
    <3>1. file[f].ref + 1 \in Nat /\ file' = [file EXCEPT ![f].ref = file[f].ref + 1]
      BY <2>0 DEF FilesInv, FilesTypeOK, FileType
    <3>2. \A q \in Procs : q # p => ofile'[q] = ofile[q]
      BY <2>0 DEF FilesInv, FilesTypeOK
    <3>3. \A e \in Fds : ofile'[p][e] = IF e = new THEN f ELSE ofile[p][e]
      BY <2>0 DEF FilesInv, FilesTypeOK
    <3>4. FilesTypeOK /\ f \in FileIds
      BY <2>0 DEF FilesInv
    <3>5. /\ file' \in [FileIds -> FileType]
          /\ \A g \in FileIds : file'[g].ref = IF g = f THEN file[f].ref + 1 ELSE file[g].ref
          /\ \A g \in FileIds : /\ file'[g].type = file[g].type /\ file'[g].pipe = file[g].pipe
                                /\ file'[g].writable = file[g].writable
      BY <3>1, <3>4, CountChanged
    <3> QED BY <3>2, <3>3, <3>5
  <2>2. FilesTypeOK'
    <3> USE <2>0 DEF FilesInv, FilesTypeOK
    <3>1. ofile' \in [Procs -> [Fds -> FileIds \cup {None}]]
      OBVIOUS
    <3>2. ret' \in [Procs -> Int]
      BY Sizes
    <3> QED BY <2>1, <3>1, <3>2
  <2>3. ClosingOK'
    BY <2>0, <2>1, ClosingKept DEF FilesInv
  <2>4. CallsOK'
    BY <2>0, <2>1, CallsKept DEF FilesInv, Calling, Writing
  <2>5. PipesOK'
    BY <2>0, PipesKept DEF FilesInv
  <2>6. NoLostPipeWakeup'
    <3>1. \A q \in Procs : pc[q] \in Calling => fcur[q] \in FileIds
      BY InPipe
    <3> QED BY <2>0, <2>1, <3>1, SleepersKept DEF FilesInv, Calling
  <2>7. RefsOK'
    <3> SUFFICES ASSUME NEW g \in FileIds PROVE file'[g].ref = Holders(g)'
      BY DEF RefsOK
    <3>1. FreshRefs(g)' = FreshRefs(g) /\ TodoRefs(g)' = TodoRefs(g)
      BY <2>0 DEF FreshRefs, TodoRefs
    <3>2. Cardinality(FdRefs(g)') = IF g = f THEN Cardinality(FdRefs(g)) + 1 ELSE Cardinality(FdRefs(g))
      BY <2>0, AddFd DEF FilesInv, IsOpen
    <3> QED BY <2>1, <3>1, <3>2, RefSets DEF FilesInv, FilesCounted, RefsOK, Holders
  <2>8. EndsOpen' /\ EndsOK'
    <3>1. \A i \in PipeIds, w \in BOOLEAN : EndsOf(i, w)' = EndsOf(i, w)
      BY <2>0, <2>1 DEF EndsOf, FilesInv, FilesTypeOK, FileType
    <3>2. \A g \in FileIds : /\ file'[g].ref = 0 => file'[g].type = "NONE"
                             /\ file'[g].type = "PIPE" => file'[g].pipe \in PipeIds
      BY <2>0, <2>1 DEF FilesInv, EndsOK, FilesTypeOK, FileType
    <3> QED BY <2>0, <3>1, <3>2, EndsKept
  <2>9. FreshOK'
    <3>1. \A q \in Procs : pc[q] = "pipe" => fcur[q] # f /\ fcur[q] \in FileIds
      BY DEF FilesInv, FreshOK, f
    <3> QED BY <2>0, <2>1, <3>1 DEF FilesInv, FreshOK
  <2> QED BY <2>2, <2>3, <2>4, <2>5, <2>6, <2>7, <2>8, <2>9 DEF FilesInv, FilesCounted
<1> QED BY <1>1, <1>2

(* close()                                                                  *)
LEMMA SysCloseStep ==
  ASSUME FilesInv, NEW p \in Procs, NEW fd \in Fds, SysClose(p, fd)
  PROVE  FilesInv'
<1> DEFINE f == ofile[p][fd]
           s == <<f>>
<1>0. /\ f \in FileIds /\ pc[p] = "user" /\ IsOpen(p, fd)
      /\ ofile' = [ofile EXCEPT ![p][fd] = None] /\ todo' = [todo EXCEPT ![p] = s]
      /\ after' = [after EXCEPT ![p] = "user"] /\ pc' = [pc EXCEPT ![p] = "closing"]
      /\ ret' = [ret EXCEPT ![p] = 0]
      /\ UNCHANGED <<pclose, file, pipe, fcur, cnt, out, in, pfd, killed>>
  BY DEF SysClose, CloseAll, Return, InUser, Goto, FilesInv, FilesTypeOK, IsOpen
<1>1. s \in Seq(FileIds) /\ Len(s) = 1 /\ DOMAIN s = {1} /\ s[1] = f
  BY <1>0
<1> HIDE DEF f, s
<1>2. /\ \A q \in Procs : q # p => ofile'[q] = ofile[q]
      /\ \A e \in Fds : ofile'[p][e] = IF e = fd THEN None ELSE ofile[p][e]
      /\ \A q \in Procs : pc'[q] = IF q = p THEN "closing" ELSE pc[q]
      /\ \A q \in Procs : todo'[q] = IF q = p THEN s ELSE todo[q]
  BY <1>0 DEF FilesInv, FilesTypeOK
<1>3. FilesTypeOK'
  <2> USE <1>0, <1>1 DEF FilesInv, FilesTypeOK
  <2>1. ofile' \in [Procs -> [Fds -> FileIds \cup {None}]]
    OBVIOUS
  <2>2. todo' \in [Procs -> Seq(FileIds)] /\ after' \in [Procs -> {"user", "zombie"}] /\ ret' \in [Procs -> Int]
    OBVIOUS
  <2>3. pc' \in [Procs -> FilesLabels]
    BY DEF FilesLabels
  <2> QED BY <2>1, <2>2, <2>3
<1>4. ClosingOK'
  <2>1. Len(todo'[p]) <= 2 * NOFILE /\ pc[p] \in {"user", "pipe"}
    <3>1. PICK n \in {1} : Len(todo'[p]) = n
      BY <1>1, <1>2
    <3>2. n <= 2 * NOFILE
      BY Sizes
    <3> QED BY <1>0, <3>1, <3>2
  <2>2. after'[p] = "user" /\ \A q \in Procs : q # p => after'[q] = after[q]
    BY <1>0 DEF FilesInv, FilesTypeOK
  <2> QED BY <1>0, <1>2, <2>1, <2>2, CloseStarted
<1>5. CallsOK'
  BY <1>0, <1>2, CallsKept DEF FilesInv, Calling, Writing
<1>6. PipesOK'
  BY <1>0, PipesKept DEF FilesInv
<1>7. NoLostPipeWakeup'
  BY <1>0, <1>2, SleepersKept DEF FilesInv
<1>8. RefsOK'
  <2> SUFFICES ASSUME NEW g \in FileIds PROVE file'[g].ref = Holders(g)'
    BY DEF RefsOK
  <2>1. FreshRefs(g)' = FreshRefs(g)
    BY <1>0, <1>2 DEF FreshRefs
  <2>2. Cardinality(FdRefs(g)') = IF g = f THEN Cardinality(FdRefs(g)) - 1 ELSE Cardinality(FdRefs(g))
    BY <1>0, RemoveFd DEF FilesInv, f
  <2>3. Cardinality(TodoRefs(g)') = Cardinality(TodoRefs(g)) + Cardinality(Places(s, g))
    <3>1. todo[p] = <<>> /\ Len(s) <= 2 * NOFILE
      BY <1>0, <1>1, Sizes DEF FilesInv, ClosingOK
    <3> QED BY <1>0, <1>1, <3>1, StartList DEF FilesInv
  <2>4. Cardinality(Places(s, g)) = IF g = f THEN 1 ELSE 0
    BY OnePlace DEF s
  <2> QED BY <1>0, <2>1, <2>2, <2>3, <2>4, RefSets DEF FilesInv, FilesCounted, RefsOK, Holders
<1>9. EndsOpen' /\ EndsOK'
  <2>1. \A i \in PipeIds, w \in BOOLEAN : EndsOf(i, w)' = EndsOf(i, w)
    BY <1>0 DEF EndsOf
  <2>2. \A g \in FileIds : /\ file'[g].ref = 0 => file'[g].type = "NONE"
                           /\ file'[g].type = "PIPE" => file'[g].pipe \in PipeIds
    BY <1>0 DEF FilesInv, EndsOK
  <2> QED BY <1>0, <2>1, <2>2, EndsKept
<1>10. FreshOK'
  <2>1. \A q \in Procs : pc[q] = "pipe" => fcur[q] # f
    BY DEF FilesInv, FreshOK, f
  <2>2. \A q \in Procs : \A e \in Fds : ofile'[q][e] \in {None, ofile[q][e]}
    BY <1>2
  <2>3. \A q \in Procs : \A k \in DOMAIN todo'[q] : todo'[q][k] = f \/ (k \in DOMAIN todo[q] /\ todo'[q][k] = todo[q][k])
    BY <1>1, <1>2
  <2>4. \A q \in Procs : (pc'[q] = "pipe" => pc[q] = "pipe") /\ fcur'[q] = fcur[q] /\ file' = file
    BY <1>0, <1>2
  <2> HIDE DEF f, s
  <2> QED BY <2>1, <2>2, <2>3, <2>4, Sizes DEF FilesInv, FreshOK
<1> QED BY <1>3, <1>4, <1>5, <1>6, <1>7, <1>8, <1>9, <1>10 DEF FilesInv, FilesCounted

(* exit()                                                                   *)
LEMMA ExitStep ==
  ASSUME FilesInv, NEW p \in Procs, Exit(p)
  PROVE  FilesInv'
<1> DEFINE s == OpenFiles(p)
<1>0. /\ pc[p] = "user"
      /\ ofile' = [ofile EXCEPT ![p] = [fd \in Fds |-> None]] /\ todo' = [todo EXCEPT ![p] = s]
      /\ after' = [after EXCEPT ![p] = "zombie"] /\ pc' = [pc EXCEPT ![p] = "closing"]
      /\ UNCHANGED <<pclose, file, pipe, fcur, cnt, out, in, ret, pfd, killed>>
  BY DEF Exit, CloseAll, Goto, callVars
<1>1. /\ s \in Seq(FileIds) /\ Len(s) <= NOFILE /\ Len(s) \in Nat
      /\ \A g \in FileIds : Cardinality(Places(s, g)) = Cardinality(FdsOf(p, g))
      /\ \A k \in DOMAIN s : \E fd \in Fds : s[k] = ofile[p][fd]
  <2>1. 1 \in FileIds
    BY FilesAssumption DEF FilesAssumption, FileIds
  <2>2. FilesTypeOK
    BY DEF FilesInv
  <2> HIDE DEF s
  <2>3. s \in Seq(FileIds)
    BY <2>1, <2>2, OpenFilesPlaces DEF s
  <2> QED BY <2>1, <2>2, <2>3, OpenFilesPlaces, LenProperties DEF s
<1> HIDE DEF s
<1>2. /\ \A q \in Procs : q # p => ofile'[q] = ofile[q]
      /\ \A e \in Fds : ofile'[p][e] = None
      /\ \A q \in Procs : pc'[q] = IF q = p THEN "closing" ELSE pc[q]
      /\ \A q \in Procs : todo'[q] = IF q = p THEN s ELSE todo[q]
  BY <1>0 DEF FilesInv, FilesTypeOK
<1>3. FilesTypeOK'
  <2> USE <1>0, <1>1 DEF FilesInv, FilesTypeOK
  <2>1. ofile' \in [Procs -> [Fds -> FileIds \cup {None}]]
    OBVIOUS
  <2>2. todo' \in [Procs -> Seq(FileIds)] /\ after' \in [Procs -> {"user", "zombie"}]
    OBVIOUS
  <2>3. pc' \in [Procs -> FilesLabels]
    BY DEF FilesLabels
  <2> QED BY <2>1, <2>2, <2>3
<1>4. ClosingOK'
  <2>1. Len(todo'[p]) <= 2 * NOFILE /\ pc[p] \in {"user", "pipe"}
    BY <1>0, <1>1, <1>2, Sizes
  <2>2. \A q \in Procs : q # p => after'[q] = after[q]
    BY <1>0 DEF FilesInv, FilesTypeOK
  <2> QED BY <1>0, <1>2, <2>1, <2>2, CloseStarted
<1>5. CallsOK'
  BY <1>0, <1>2, CallsKept DEF FilesInv, Calling, Writing
<1>6. PipesOK'
  BY <1>0, PipesKept DEF FilesInv
<1>7. NoLostPipeWakeup'
  BY <1>0, <1>2, SleepersKept DEF FilesInv
<1>8. RefsOK'
  <2> SUFFICES ASSUME NEW g \in FileIds PROVE file'[g].ref = Holders(g)'
    BY DEF RefsOK
  <2>1. FreshRefs(g)' = FreshRefs(g)
    BY <1>0, <1>2 DEF FreshRefs
  <2>2. Cardinality(FdRefs(g)') = Cardinality(FdRefs(g)) - Cardinality(FdsOf(p, g))
    BY <1>0, ClearRow DEF FilesInv
  <2>3. Cardinality(TodoRefs(g)') = Cardinality(TodoRefs(g)) + Cardinality(Places(s, g))
    <3>1. todo[p] = <<>> /\ Len(s) <= 2 * NOFILE
      BY <1>0, <1>1, Sizes DEF FilesInv, ClosingOK
    <3> QED BY <1>0, <1>1, <3>1, StartList DEF FilesInv
  <2>4. Cardinality(Places(s, g)) = Cardinality(FdsOf(p, g)) /\ Cardinality(FdsOf(p, g)) \in Nat
    BY <1>1, Finite DEF FdsOf
  <2> QED BY <1>0, <2>1, <2>2, <2>3, <2>4, RefSets DEF FilesInv, FilesCounted, RefsOK, Holders
<1>9. EndsOpen' /\ EndsOK'
  <2>1. \A i \in PipeIds, w \in BOOLEAN : EndsOf(i, w)' = EndsOf(i, w)
    BY <1>0 DEF EndsOf
  <2>2. \A g \in FileIds : /\ file'[g].ref = 0 => file'[g].type = "NONE"
                           /\ file'[g].type = "PIPE" => file'[g].pipe \in PipeIds
    BY <1>0 DEF FilesInv, EndsOK
  <2> QED BY <1>0, <2>1, <2>2, EndsKept
<1>10. FreshOK'
  <2>1. \A q \in Procs : pc[q] = "pipe" => \A k \in DOMAIN s : s[k] # fcur[q]
    BY <1>1 DEF FilesInv, FreshOK
  <2>2. \A q \in Procs : \A e \in Fds : ofile'[q][e] \in {None, ofile[q][e]}
    BY <1>2
  <2>3. \A q \in Procs : \A k \in DOMAIN todo'[q] :
           (k \in DOMAIN s /\ todo'[q][k] = s[k]) \/ (k \in DOMAIN todo[q] /\ todo'[q][k] = todo[q][k])
    BY <1>1, <1>2
  <2>4. \A q \in Procs : (pc'[q] = "pipe" => pc[q] = "pipe") /\ fcur'[q] = fcur[q] /\ file' = file
    BY <1>0, <1>2
  <2> QED BY <2>1, <2>2, <2>3, <2>4, Sizes DEF FilesInv, FreshOK
<1> QED BY <1>3, <1>4, <1>5, <1>6, <1>7, <1>8, <1>9, <1>10 DEF FilesInv, FilesCounted

(* pipe() that finds no second file, or no page.                            *)
LEMMA PipeNoneStep ==
  ASSUME FilesInv, NEW p \in Procs, PipeNone(p)
  PROVE  FilesInv'
<1> DEFINE r == fcur[p]
           w == Min(FreeFiles)
<1>0. /\ pc[p] = "pipe" /\ r \in FileIds
      /\ fcur' = [fcur EXCEPT ![p] = None] /\ ret' = [ret EXCEPT ![p] = -1]
      /\ after' = [after EXCEPT ![p] = "user"] /\ pc' = [pc EXCEPT ![p] = "closing"]
      /\ UNCHANGED <<ofile, pclose, pipe, cnt, out, in, pfd, killed>>
  BY DEF PipeNone, CloseAll, Goto, Return, FilesInv, FreshOK
<1>1. /\ file[r].type = "NONE" /\ file[r].ref # 0
      /\ \A q \in Procs : /\ \A fd \in Fds : ofile[q][fd] # r
                          /\ \A k \in DOMAIN todo[q] : todo[q][k] # r
                          /\ pc[q] = "pipe" /\ fcur[q] = r => q = p
  BY <1>0, Referenced DEF FilesInv, FreshOK, FilesCounted
<1> DEFINE s == todo'[p]
<1>2. /\ s \in Seq(FileIds) /\ Len(s) \in {1, 2} /\ todo' = [todo EXCEPT ![p] = s]
      /\ \A k \in DOMAIN s : s[k] = r \/ (Len(s) = 2 /\ s[k] = w)
      /\ \A g \in FileIds : Cardinality(Places(s, g)) = IF g = r \/ (Len(s) = 2 /\ g = w) THEN 1 ELSE 0
      /\ Len(s) = 1 => file' = file
      /\ Len(s) = 2 => FreeFiles # {} /\ w \in FileIds /\ file[w].ref = 0 /\ w # r
                       /\ file' = [file EXCEPT ![w].ref = 1]
  <2>1. CASE todo' = [todo EXCEPT ![p] = <<r>>] /\ file' = file
    <3>1. \A g \in FileIds : Cardinality(Places(<<r>>, g)) = IF g = r THEN 1 ELSE 0
      BY OnePlace
    <3>2. <<r>> \in Seq(FileIds) /\ Len(<<r>>) = 1 /\ DOMAIN <<r>> = {1} /\ <<r>>[1] = r
      BY <1>0
    <3>3. s = <<r>> /\ todo' = [todo EXCEPT ![p] = s]
      BY <2>1 DEF FilesInv, FilesTypeOK
    <3> HIDE DEF s, r, w
    <3> QED BY <2>1, <3>1, <3>2, <3>3
  <2>2. CASE FreeFiles # {} /\ todo' = [todo EXCEPT ![p] = <<r, w>>] /\ file' = [file EXCEPT ![w].ref = 1]
    <3>1. w \in FileIds /\ file[w].ref = 0 /\ w # r
      BY <1>1, <2>2, FreeFile
    <3>2. \A g \in FileIds : Cardinality(Places(<<r, w>>, g)) = IF g \in {r, w} THEN 1 ELSE 0
      BY <3>1, TwoPlaces
    <3>3. <<r, w>> \in Seq(FileIds) /\ Len(<<r, w>>) = 2 /\ \A k \in DOMAIN <<r, w>> : <<r, w>>[k] \in {r, w}
      BY <1>0, <3>1
    <3>4. s = <<r, w>> /\ todo' = [todo EXCEPT ![p] = s]
      BY <2>2 DEF FilesInv, FilesTypeOK
    <3> HIDE DEF s, r, w
    <3> QED BY <2>2, <3>1, <3>2, <3>3, <3>4
  <2> QED BY <2>1, <2>2 DEF PipeNone, CloseAll
<1>3. FreeFiles # {} => /\ w \in FileIds /\ file[w].type = "NONE" /\ Holders(w) = 0
                        /\ \A q \in Procs : ~(pc[q] = "pipe" /\ fcur[q] = w)
  BY FreeFile, FreeUnused
<1> HIDE DEF s, w, r
<1>4. /\ file' \in [FileIds -> FileType]
      /\ \A g \in FileIds : file'[g].ref = IF Len(s) = 2 /\ g = w THEN 1 ELSE file[g].ref
      /\ \A g \in FileIds : /\ file'[g].type = file[g].type /\ file'[g].pipe = file[g].pipe
                            /\ file'[g].writable = file[g].writable
  <2>1. CASE Len(s) = 1
    BY <1>2, <2>1 DEF FilesInv, FilesTypeOK
  <2>2. CASE Len(s) = 2
    <3>1. FilesTypeOK /\ w \in FileIds /\ 1 \in Nat /\ file' = [file EXCEPT ![w].ref = 1]
      BY <1>2, <2>2 DEF FilesInv
    <3>2. /\ file' \in [FileIds -> FileType]
          /\ \A g \in FileIds : file'[g].ref = IF g = w THEN 1 ELSE file[g].ref
          /\ \A g \in FileIds : /\ file'[g].type = file[g].type /\ file'[g].pipe = file[g].pipe
                                /\ file'[g].writable = file[g].writable
      BY <3>1, CountChanged
    <3> QED BY <2>2, <3>2
  <2> QED BY <1>2, <2>1, <2>2
<1>5. /\ \A q \in Procs : pc'[q] = IF q = p THEN "closing" ELSE pc[q]
      /\ \A q \in Procs : todo'[q] = IF q = p THEN s ELSE todo[q]
      /\ \A q \in Procs : q # p => fcur'[q] = fcur[q]
  BY <1>0, <1>2 DEF FilesInv, FilesTypeOK
<1>6. FilesTypeOK'
  <2> USE <1>0, <1>2 DEF FilesInv, FilesTypeOK
  <2>1. todo' \in [Procs -> Seq(FileIds)]
    OBVIOUS
  <2>2. after' \in [Procs -> {"user", "zombie"}] /\ ret' \in [Procs -> Int]
    OBVIOUS
  <2>3. fcur' \in [Procs -> FileIds \cup {None}]
    OBVIOUS
  <2>4. pc' \in [Procs -> FilesLabels]
    BY DEF FilesLabels
  <2> QED BY <1>4, <2>1, <2>2, <2>3, <2>4
<1>7. ClosingOK'
  <2>1. Len(todo'[p]) <= 2 * NOFILE /\ pc[p] \in {"user", "pipe"}
    <3>1. todo'[p] = s /\ Len(s) \in Nat /\ Len(s) <= 2
      BY <1>2, <1>5
    <3> QED BY <1>0, <3>1, Sizes
  <2>2. after'[p] = "user" /\ \A q \in Procs : q # p => after'[q] = after[q]
    BY <1>0 DEF FilesInv, FilesTypeOK
  <2> QED BY <1>0, <1>5, <2>1, <2>2, CloseStarted
<1>8. CallsOK'
  BY <1>0, <1>4, <1>5, CallsKept DEF FilesInv, Calling, Writing
<1>9. PipesOK'
  BY <1>0, PipesKept DEF FilesInv
<1>10. NoLostPipeWakeup'
  <2>1. \A q \in Procs : pc[q] \in Calling => fcur[q] \in FileIds
    BY InPipe
  <2> QED BY <1>0, <1>4, <1>5, <2>1, SleepersKept DEF FilesInv, Calling
<1>11. RefsOK'
  <2> SUFFICES ASSUME NEW g \in FileIds PROVE file'[g].ref = Holders(g)'
    BY DEF RefsOK
  <2>1. FdRefs(g)' = FdRefs(g)
    BY <1>0 DEF FdRefs
  <2>2. Cardinality(FreshRefs(g)') = IF g = r THEN Cardinality(FreshRefs(g)) - 1 ELSE Cardinality(FreshRefs(g))
    BY <1>0, <1>5, RemoveFresh DEF FilesInv, r
  <2>3. Cardinality(TodoRefs(g)') = Cardinality(TodoRefs(g)) + Cardinality(Places(s, g))
    <3>1. todo[p] = <<>>
      BY <1>0 DEF FilesInv, ClosingOK
    <3>2. Len(s) \in Nat /\ Len(s) <= 2
      <4>1. PICK n \in {1, 2} : Len(s) = n
        BY <1>2
      <4>2. n \in Nat /\ n <= 2
        OBVIOUS
      <4> QED BY <4>1, <4>2
    <3>3. Len(s) <= 2 * NOFILE
      BY <3>2, Sizes
    <3> QED BY <1>2, <3>1, <3>3, StartList DEF FilesInv
  <2>4. /\ Cardinality(FdRefs(g)) \in Nat /\ Cardinality(TodoRefs(g)) \in Nat
        /\ Cardinality(FreshRefs(g)) \in Nat
    BY RefSets
  <2>5. file[g].ref = Holders(g)
    BY DEF FilesInv, FilesCounted, RefsOK
  <2>6. CASE Len(s) = 2 /\ g = w
    BY <1>2, <1>3, <1>4, <2>1, <2>2, <2>3, <2>4, <2>6 DEF Holders
  <2>7. CASE ~(Len(s) = 2 /\ g = w)
    BY <1>2, <1>4, <2>1, <2>2, <2>3, <2>4, <2>5, <2>7 DEF Holders
  <2> QED BY <2>6, <2>7
<1>12. EndsOpen' /\ EndsOK'
  <2>1. \A i \in PipeIds, v \in BOOLEAN : EndsOf(i, v)' = EndsOf(i, v)
    BY <1>2, <1>3, <1>4 DEF EndsOf
  <2>2. \A g \in FileIds : /\ file'[g].ref = 0 => file'[g].type = "NONE"
                           /\ file'[g].type = "PIPE" => file'[g].pipe \in PipeIds
    BY <1>4 DEF FilesInv, EndsOK
  <2> QED BY <1>0, <2>1, <2>2, EndsKept
<1>13. FreshOK'
  <2>1. \A q \in Procs : pc'[q] = "pipe" => q # p /\ pc[q] = "pipe" /\ fcur'[q] = fcur[q]
    BY <1>5
  <2>2. \A q \in Procs : \A k \in DOMAIN todo'[q] :
           (k \in DOMAIN s /\ todo'[q][k] = s[k]) \/ (k \in DOMAIN todo[q] /\ todo'[q][k] = todo[q][k])
    BY <1>5
  <2>3. \A q \in Procs : pc[q] = "pipe" /\ q # p => \A k \in DOMAIN s : s[k] # fcur[q]
    BY <1>1, <1>2, <1>3
  <2> QED BY <1>0, <1>4, <2>1, <2>2, <2>3 DEF FilesInv, FreshOK
<1> QED BY <1>6, <1>7, <1>8, <1>9, <1>10, <1>11, <1>12, <1>13 DEF FilesInv, FilesCounted

(* open(), with a file and a descriptor, or a file only.                    *)
LEMMA OpenNoFd ==
  ASSUME FilesInv, NEW p \in Procs, SysOpen(p), FreeFiles # {}, FreeFds(p) = {}
  PROVE  FilesInv'
<1> DEFINE f == Min(FreeFiles)
           s == <<f>>
<1>0. /\ f \in FileIds /\ file[f].ref = 0 /\ pc[p] = "user"
      /\ file' = [file EXCEPT ![f].ref = 1] /\ todo' = [todo EXCEPT ![p] = s]
      /\ after' = [after EXCEPT ![p] = "user"] /\ pc' = [pc EXCEPT ![p] = "closing"]
      /\ ret' = [ret EXCEPT ![p] = -1]
      /\ UNCHANGED <<pclose, ofile, pipe, fcur, cnt, out, in, pfd, killed>>
  BY FreeFile DEF SysOpen, CloseAll, Return, InUser, Goto
<1>1. /\ s \in Seq(FileIds) /\ Len(s) = 1 /\ DOMAIN s = {1} /\ s[1] = f
      /\ \A g \in FileIds : Cardinality(Places(s, g)) = IF g = f THEN 1 ELSE 0
  BY <1>0, OnePlace
<1> HIDE DEF f, s
<1>2. /\ file[f].type = "NONE" /\ Holders(f) = 0
      /\ \A q \in Procs : ~(pc[q] = "pipe" /\ fcur[q] = f)
  BY <1>0, FreeUnused
<1>3. /\ file' \in [FileIds -> FileType]
      /\ \A g \in FileIds : file'[g].ref = IF g = f THEN 1 ELSE file[g].ref
      /\ \A g \in FileIds : /\ file'[g].type = file[g].type /\ file'[g].pipe = file[g].pipe
                            /\ file'[g].writable = file[g].writable
  BY <1>0, CountChanged DEF FilesInv
<1>4. /\ \A q \in Procs : pc'[q] = IF q = p THEN "closing" ELSE pc[q]
      /\ \A q \in Procs : todo'[q] = IF q = p THEN s ELSE todo[q]
  BY <1>0 DEF FilesInv, FilesTypeOK
<1>5. FilesTypeOK'
  <2> USE <1>0, <1>1 DEF FilesInv, FilesTypeOK
  <2>1. todo' \in [Procs -> Seq(FileIds)]
    OBVIOUS
  <2>2. after' \in [Procs -> {"user", "zombie"}] /\ ret' \in [Procs -> Int]
    OBVIOUS
  <2>3. pc' \in [Procs -> FilesLabels]
    BY DEF FilesLabels
  <2> QED BY <1>3, <2>1, <2>2, <2>3
<1>6. ClosingOK'
  <2>1. Len(todo'[p]) <= 2 * NOFILE /\ pc[p] \in {"user", "pipe"}
    <3>1. PICK n \in {1} : Len(todo'[p]) = n
      BY <1>1, <1>4
    <3>2. n <= 2 * NOFILE
      BY Sizes
    <3> QED BY <1>0, <3>1, <3>2
  <2>2. after'[p] = "user" /\ \A q \in Procs : q # p => after'[q] = after[q]
    BY <1>0 DEF FilesInv, FilesTypeOK
  <2> QED BY <1>0, <1>4, <2>1, <2>2, CloseStarted
<1>7. CallsOK'
  BY <1>0, <1>3, <1>4, CallsKept DEF FilesInv, Calling, Writing
<1>8. PipesOK'
  BY <1>0, PipesKept DEF FilesInv
<1>9. NoLostPipeWakeup'
  <2>1. \A q \in Procs : pc[q] \in Calling => fcur[q] \in FileIds
    BY InPipe
  <2> QED BY <1>0, <1>3, <1>4, <2>1, SleepersKept DEF FilesInv, Calling
<1>10. RefsOK'
  <2> SUFFICES ASSUME NEW g \in FileIds PROVE file'[g].ref = Holders(g)'
    BY DEF RefsOK
  <2>1. FdRefs(g)' = FdRefs(g) /\ FreshRefs(g)' = FreshRefs(g)
    BY <1>0, <1>4 DEF FdRefs, FreshRefs
  <2>2. Cardinality(TodoRefs(g)') = Cardinality(TodoRefs(g)) + Cardinality(Places(s, g))
    <3>1. todo[p] = <<>>
      BY <1>0 DEF FilesInv, ClosingOK
    <3>2. PICK n \in {1} : Len(s) = n
      BY <1>1
    <3>3. Len(s) <= 2 * NOFILE
      BY <3>2, Sizes
    <3> QED BY <1>0, <1>1, <3>1, <3>3, StartList DEF FilesInv
  <2>3. /\ Cardinality(FdRefs(g)) \in Nat /\ Cardinality(TodoRefs(g)) \in Nat
        /\ Cardinality(FreshRefs(g)) \in Nat
    BY RefSets
  <2>4. file[g].ref = Holders(g)
    BY DEF FilesInv, FilesCounted, RefsOK
  <2>5. CASE g = f
    BY <1>1, <1>2, <1>3, <2>1, <2>2, <2>3, <2>5 DEF Holders
  <2>6. CASE g # f
    BY <1>1, <1>3, <2>1, <2>2, <2>3, <2>4, <2>6 DEF Holders
  <2> QED BY <2>5, <2>6
<1>11. EndsOpen' /\ EndsOK'
  <2>1. \A i \in PipeIds, v \in BOOLEAN : EndsOf(i, v)' = EndsOf(i, v)
    BY <1>2, <1>3 DEF EndsOf
  <2>2. \A g \in FileIds : /\ file'[g].ref = 0 => file'[g].type = "NONE"
                           /\ file'[g].type = "PIPE" => file'[g].pipe \in PipeIds
    BY <1>3 DEF FilesInv, EndsOK
  <2> QED BY <1>0, <2>1, <2>2, EndsKept
<1>12. FreshOK'
  <2>1. \A q \in Procs : pc'[q] = "pipe" => q # p /\ pc[q] = "pipe" /\ fcur'[q] = fcur[q]
    BY <1>0, <1>4
  <2>2. \A q \in Procs : \A k \in DOMAIN todo'[q] :
           (k \in DOMAIN s /\ todo'[q][k] = s[k]) \/ (k \in DOMAIN todo[q] /\ todo'[q][k] = todo[q][k])
    BY <1>4
  <2>3. \A q \in Procs : pc[q] = "pipe" => \A k \in DOMAIN s : s[k] # fcur[q]
    BY <1>1, <1>2
  <2> QED BY <1>0, <1>3, <2>1, <2>2, <2>3 DEF FilesInv, FreshOK
<1> QED BY <1>5, <1>6, <1>7, <1>8, <1>9, <1>10, <1>11, <1>12 DEF FilesInv, FilesCounted

(* open() takes a file and a descriptor, or neither.                        *)
LEMMA SysOpenStep ==
  ASSUME FilesInv, NEW p \in Procs, SysOpen(p)
  PROVE  FilesInv'
<1>1. CASE FreeFiles = {}
  <2> USE DEF SysOpen, Return, InUser, closeVars
  <2>1. ret' \in [Procs -> Int]
    BY <1>1 DEF FilesInv, FilesTypeOK
  <2>2. FilesTypeOK'
    BY <1>1, <2>1 DEF FilesInv, FilesTypeOK
  <2> QED BY <1>1, <2>2, ResultStep
<1>2. CASE FreeFiles # {} /\ FreeFds(p) # {}
  <2> DEFINE new == Min(FreeFds(p))
             f == Min(FreeFiles)
  <2>0. /\ new \in Fds /\ ofile[p][new] = None /\ f \in FileIds /\ file[f].ref = 0 /\ pc[p] = "user"
        /\ file' = [file EXCEPT ![f] = [@ EXCEPT !.ref = 1, !.type = "INODE", !.writable = TRUE]]
        /\ ofile' = [ofile EXCEPT ![p][new] = f]
        /\ ret' = [ret EXCEPT ![p] = new]
        /\ UNCHANGED <<pc, todo, pclose, after, pipe, fcur, cnt, out, in, pfd, killed>>
    BY <1>2, FreeFd, FreeFile DEF SysOpen, Return, InUser, closeVars
  <2> HIDE DEF new, f
  <2>1. /\ file[f].type = "NONE" /\ Holders(f) = 0
        /\ \A q \in Procs : \A fd \in Fds : ofile[q][fd] # f
        /\ \A q \in Procs : ~(pc[q] = "pipe" /\ fcur[q] = f)
    BY <2>0, FreeUnused
  <2>2. /\ file' \in [FileIds -> FileType]
        /\ \A g \in FileIds : g # f => file'[g] = file[g]
        /\ file'[f].ref = 1 /\ file'[f].type = "INODE" /\ file'[f].pipe = file[f].pipe
    <3>1. [file[f] EXCEPT !.ref = 1, !.type = "INODE", !.writable = TRUE] \in FileType
      <4>1. file[f] \in FileType
        BY <2>0 DEF FilesInv, FilesTypeOK
      <4> QED BY <4>1 DEF FileType
    <3>2. file' \in [FileIds -> FileType]
      BY <2>0, <3>1 DEF FilesInv, FilesTypeOK
    <3> QED BY <2>0, <3>2 DEF FilesInv, FilesTypeOK, FileType
  <2>3. /\ \A q \in Procs : q # p => ofile'[q] = ofile[q]
        /\ \A e \in Fds : ofile'[p][e] = IF e = new THEN f ELSE ofile[p][e]
    BY <2>0 DEF FilesInv, FilesTypeOK
  <2>4. FilesTypeOK'
    <3> USE <2>0 DEF FilesInv, FilesTypeOK
    <3>1. ofile' \in [Procs -> [Fds -> FileIds \cup {None}]]
      OBVIOUS
    <3>2. ret' \in [Procs -> Int]
      BY Sizes
    <3> QED BY <2>2, <3>1, <3>2
  <2>5. ClosingOK'
    BY <2>0, <2>3, ClosingKept DEF FilesInv
  <2>6. CallsOK'
    <3>1. \A g \in FileIds : (\E q \in Procs : \E fd \in Fds : ofile[q][fd] = g) => file'[g] = file[g]
      BY <2>1, <2>2
    <3> QED BY <2>0, <2>3, <3>1, CallsKept DEF FilesInv, Calling, Writing
  <2>7. PipesOK'
    BY <2>0, PipesKept DEF FilesInv
  <2>8. NoLostPipeWakeup'
    <3>1. \A q \in Procs : pc[q] \in Calling => fcur[q] \in FileIds /\ file[fcur[q]].type = "PIPE"
      BY InPipe
    <3> QED BY <2>0, <2>1, <2>2, <3>1, SleepersKept DEF FilesInv, Calling
  <2>9. RefsOK'
    <3> SUFFICES ASSUME NEW g \in FileIds PROVE file'[g].ref = Holders(g)'
      BY DEF RefsOK
    <3>1. FreshRefs(g)' = FreshRefs(g) /\ TodoRefs(g)' = TodoRefs(g)
      BY <2>0 DEF FreshRefs, TodoRefs
    <3>2. Cardinality(FdRefs(g)') = IF g = f THEN Cardinality(FdRefs(g)) + 1 ELSE Cardinality(FdRefs(g))
      BY <2>0, AddFd DEF FilesInv, IsOpen
    <3>3. /\ Cardinality(FdRefs(g)) \in Nat /\ Cardinality(TodoRefs(g)) \in Nat
          /\ Cardinality(FreshRefs(g)) \in Nat
      BY RefSets
    <3>4. file[g].ref = Holders(g)
      BY DEF FilesInv, FilesCounted, RefsOK
    <3>5. CASE g = f
      BY <2>1, <2>2, <3>1, <3>2, <3>3, <3>5 DEF Holders
    <3>6. CASE g # f
      BY <2>2, <3>1, <3>2, <3>4, <3>6 DEF Holders
    <3> QED BY <3>5, <3>6
  <2>10. EndsOpen' /\ EndsOK'
    <3>1. \A i \in PipeIds, w \in BOOLEAN : EndsOf(i, w)' = EndsOf(i, w)
      BY <2>1, <2>2 DEF EndsOf
    <3>2. \A g \in FileIds : /\ file'[g].ref = 0 => file'[g].type = "NONE"
                             /\ file'[g].type = "PIPE" => file'[g].pipe \in PipeIds
      BY <2>1, <2>2 DEF FilesInv, EndsOK
    <3> QED BY <2>0, <3>1, <3>2, EndsKept
  <2>11. FreshOK'
    <3>1. \A q \in Procs : pc[q] = "pipe" => fcur[q] # f
      BY <2>1
    <3>2. \A q \in Procs : \A e \in Fds : ofile'[q][e] \in {f, ofile[q][e]}
      BY <2>3
    <3> QED BY <2>0, <2>2, <3>1, <3>2 DEF FilesInv, FreshOK
  <2> QED BY <2>4, <2>5, <2>6, <2>7, <2>8, <2>9, <2>10, <2>11 DEF FilesInv, FilesCounted
<1> QED BY <1>1, <1>2, OpenNoFd

(* fork()                                                                   *)
LEMMA ForkStep ==
  ASSUME FilesInv, NEW p \in Procs, NEW q \in Procs, Fork(p, q)
  PROVE  FilesInv'
<1>0. /\ pc[p] = "user" /\ pc[q] = "unborn" /\ \A fd \in Fds : ofile[q][fd] = None
      /\ todo[q] = <<>> /\ pclose[q] = NoEnd
      /\ pc' = [pc EXCEPT ![q] = "user"] /\ ofile' = [ofile EXCEPT ![q] = ofile[p]]
      /\ file' = [f \in FileIds |-> [file[f] EXCEPT !.ref = @ + Cardinality(FdsOf(p, f))]]
      /\ ret' = [ret EXCEPT ![p] = q, ![q] = 0]
      /\ UNCHANGED <<pipe, fcur, cnt, out, in, todo, pclose, after, killed>>
  BY DEF Fork, InUser, closeVars, FdsOf, FilesInv, ClosingOK, IsOpen
<1>1. \A g \in FileIds : /\ Cardinality(FdsOf(p, g)) \in Nat
                         /\ file[g].ref = 0 => Cardinality(FdsOf(p, g)) = 0
  <2> SUFFICES ASSUME NEW g \in FileIds
               PROVE  /\ Cardinality(FdsOf(p, g)) \in Nat
                      /\ file[g].ref = 0 => Cardinality(FdsOf(p, g)) = 0
    OBVIOUS
  <2>1. Cardinality(FdsOf(p, g)) \in Nat
    BY Finite DEF FdsOf
  <2>2. file[g].ref = 0 => FdsOf(p, g) = {}
    BY FreeUnused DEF FdsOf
  <2> QED BY <2>1, <2>2, FS_EmptySet
<1>2. /\ file' \in [FileIds -> FileType]
      /\ \A g \in FileIds : file'[g].ref = file[g].ref + Cardinality(FdsOf(p, g))
      /\ \A g \in FileIds : /\ file'[g].type = file[g].type /\ file'[g].pipe = file[g].pipe
                            /\ file'[g].writable = file[g].writable
  <2>1. \A g \in FileIds : file[g] \in FileType /\ file[g].ref \in Nat
    BY DEF FilesInv, FilesTypeOK, FileType
  <2>2. \A g \in FileIds : [file[g] EXCEPT !.ref = file[g].ref + Cardinality(FdsOf(p, g))] \in FileType
    <3> SUFFICES ASSUME NEW g \in FileIds
                 PROVE  [file[g] EXCEPT !.ref = file[g].ref + Cardinality(FdsOf(p, g))] \in FileType
      OBVIOUS
    <3> DEFINE n == file[g].ref + Cardinality(FdsOf(p, g))
    <3>1. n \in Nat /\ file[g] \in FileType
      BY <1>1, <2>1
    <3> HIDE DEF n
    <3>2. [file[g] EXCEPT !.ref = n] \in FileType
      BY <3>1 DEF FileType
    <3> QED BY <3>2 DEF n
  <2>3. \A g \in FileIds : file'[g] = [file[g] EXCEPT !.ref = file[g].ref + Cardinality(FdsOf(p, g))]
    BY <1>0
  <2>4. file' \in [FileIds -> FileType]
    BY <1>0, <2>2
  <2> QED BY <2>1, <2>3, <2>4 DEF FileType
<1>3. /\ \A r \in Procs : pc'[r] = IF r = q THEN "user" ELSE pc[r]
      /\ \A r \in Procs : ofile'[r] = IF r = q THEN ofile[p] ELSE ofile[r]
  BY <1>0 DEF FilesInv, FilesTypeOK
<1>4. FilesTypeOK'
  <2> USE <1>0 DEF FilesInv, FilesTypeOK
  <2>1. ofile' \in [Procs -> [Fds -> FileIds \cup {None}]]
    OBVIOUS
  <2>2. ret' \in [Procs -> Int]
    BY DEF Procs
  <2>3. pc' \in [Procs -> FilesLabels]
    BY DEF FilesLabels
  <2> QED BY <1>2, <2>1, <2>2, <2>3
<1>5. ClosingOK'
  BY <1>0, <1>3 DEF FilesInv, ClosingOK, IsOpen
<1>6. CallsOK'
  BY <1>0, <1>2, <1>3, CallsKept DEF FilesInv, Calling, Writing
<1>7. PipesOK'
  BY <1>0, PipesKept DEF FilesInv
<1>8. NoLostPipeWakeup'
  <2>1. \A r \in Procs : pc[r] \in Calling => fcur[r] \in FileIds
    BY InPipe
  <2> QED BY <1>0, <1>2, <1>3, <2>1, SleepersKept DEF FilesInv, Calling
<1>9. RefsOK'
  <2> SUFFICES ASSUME NEW g \in FileIds PROVE file'[g].ref = Holders(g)'
    BY DEF RefsOK
  <2>1. FreshRefs(g)' = FreshRefs(g) /\ TodoRefs(g)' = TodoRefs(g)
    BY <1>0, <1>3 DEF FreshRefs, TodoRefs
  <2>2. Cardinality(FdRefs(g)') = Cardinality(FdRefs(g)) + Cardinality(FdsOf(p, g))
    BY <1>0, CopyRow DEF FilesInv, IsOpen
  <2> QED BY <1>1, <1>2, <2>1, <2>2, RefSets DEF FilesInv, FilesCounted, RefsOK, Holders
<1>10. EndsOpen' /\ EndsOK'
  <2>1. \A g \in FileIds : file[g].ref \in Nat /\ (file'[g].ref > 0 <=> file[g].ref > 0)
    BY <1>1, <1>2 DEF FilesInv, FilesTypeOK, FileType
  <2>2. \A i \in PipeIds, w \in BOOLEAN : EndsOf(i, w)' = EndsOf(i, w)
    BY <1>2, <2>1 DEF EndsOf
  <2>3. \A g \in FileIds : /\ file'[g].ref = 0 => file'[g].type = "NONE"
                           /\ file'[g].type = "PIPE" => file'[g].pipe \in PipeIds
    BY <1>2, <2>1 DEF FilesInv, EndsOK
  <2> QED BY <1>0, <2>2, <2>3, EndsKept
<1>11. FreshOK'
  <2>1. \A r \in Procs : pc'[r] = "pipe" => pc[r] = "pipe" /\ fcur'[r] = fcur[r]
    BY <1>0, <1>3
  <2>2. \A r \in Procs : \A fd \in Fds : ofile'[r][fd] = ofile[r][fd] \/ ofile'[r][fd] = ofile[p][fd]
    BY <1>3
  <2> QED BY <1>0, <1>2, <2>1, <2>2 DEF FilesInv, FreshOK
<1> QED BY <1>4, <1>5, <1>6, <1>7, <1>8, <1>9, <1>10, <1>11 DEF FilesInv, FilesCounted

(* The next file of a list, and what is left of the list.                   *)
LEMMA NextToClose ==
  ASSUME FilesInv, NEW p \in Procs, todo[p] # <<>>
  PROVE  /\ Head(todo[p]) \in FileIds /\ Head(todo[p]) = todo[p][1] /\ 1 \in DOMAIN todo[p]
         /\ Tail(todo[p]) \in Seq(FileIds) /\ Len(Tail(todo[p])) <= 2 * NOFILE
         /\ \A k \in DOMAIN Tail(todo[p]) : k + 1 \in DOMAIN todo[p] /\ Tail(todo[p])[k] = todo[p][k + 1]
<1>1. todo[p] \in Seq(FileIds) /\ Len(todo[p]) <= 2 * NOFILE
  BY DEF FilesInv, FilesTypeOK, ClosingOK
<1>2. /\ Tail(todo[p]) \in Seq(FileIds) /\ Len(Tail(todo[p])) = Len(todo[p]) - 1
      /\ \A k \in 1 .. Len(Tail(todo[p])) : Tail(todo[p])[k] = todo[p][k + 1]
      /\ Head(todo[p]) \in FileIds /\ Head(todo[p]) = todo[p][1]
  BY <1>1, HeadTailProperties
<1>3. Len(todo[p]) \in Nat \ {0} /\ DOMAIN todo[p] = 1 .. Len(todo[p])
  BY <1>1, EmptySeq, LenProperties
<1>4. DOMAIN Tail(todo[p]) = 1 .. (Len(todo[p]) - 1)
  BY <1>2, LenProperties
<1>5. Len(Tail(todo[p])) <= 2 * NOFILE
  BY <1>1, <1>2, <1>3, Sizes
<1>6. \A k \in DOMAIN Tail(todo[p]) : k + 1 \in DOMAIN todo[p] /\ Tail(todo[p])[k] = todo[p][k + 1]
  BY <1>2, <1>3, <1>4
<1>7. 1 \in DOMAIN todo[p]
  BY <1>3
<1> QED BY <1>2, <1>5, <1>6, <1>7

(* fileclose() under ftable.lock                                            *)
LEMMA FileCloseStep ==
  ASSUME FilesInv, NEW p \in Procs, FileClose(p)
  PROVE  FilesInv'
<1> DEFINE f == Head(todo[p])
           last == ~(file[f].ref > 1)
<1>0. /\ pc[p] = "closing" /\ pclose[p] = NoEnd /\ todo[p] # <<>>
      /\ todo' = [todo EXCEPT ![p] = Tail(@)]
      /\ UNCHANGED <<ofile, pipe, pc, fcur, cnt, out, in, ret, pfd, after, killed>>
  BY DEF FileClose, callVars
<1>1. /\ f \in FileIds /\ f = todo[p][1] /\ 1 \in DOMAIN todo[p]
      /\ Tail(todo[p]) \in Seq(FileIds) /\ Len(Tail(todo[p])) <= 2 * NOFILE
      /\ \A k \in DOMAIN Tail(todo[p]) : k + 1 \in DOMAIN todo[p] /\ Tail(todo[p])[k] = todo[p][k + 1]
  BY <1>0, NextToClose
<1>2. /\ file[f].ref \in Nat \ {0}
      /\ last => \A q \in Procs : \A fd \in Fds : ofile[q][fd] # f
      /\ \A q \in Procs : ~(pc[q] = "pipe" /\ fcur[q] = f)
  <2>1. 1 \in 1 .. 2 * NOFILE
    BY Sizes
  <2>2. file[f].ref # 0
    BY <1>1, <2>1, Referenced DEF FilesInv, FilesCounted
  <2>3. file[f].ref \in Nat
    BY <1>1 DEF FilesInv, FilesTypeOK, FileType
  <2>4. last => \A q \in Procs : \A fd \in Fds : ofile[q][fd] # f
    BY <1>1, <2>1, TwiceReferenced DEF FilesInv, FilesCounted
  <2>5. \A q \in Procs : ~(pc[q] = "pipe" /\ fcur[q] = f)
    BY <1>1 DEF FilesInv, FreshOK
  <2> QED BY <2>2, <2>3, <2>4, <2>5
<1>3. /\ file' \in [FileIds -> FileType]
      /\ \A g \in FileIds : g # f => file'[g] = file[g]
      /\ file'[f].ref = file[f].ref - 1 /\ file'[f].pipe = file[f].pipe /\ file'[f].writable = file[f].writable
      /\ file'[f].type = IF last THEN "NONE" ELSE file[f].type
      /\ IF last /\ file[f].type = "PIPE"
         THEN pclose' = [pclose EXCEPT ![p] = End(file[f].pipe, file[f].writable)]
         ELSE pclose' = pclose
  <2>0. file[f] \in FileType
    BY <1>1 DEF FilesInv, FilesTypeOK
  <2>1. CASE last
    <3>1. file[f].ref = 1
      BY <1>2, <2>1
    <3>2. file' = [file EXCEPT ![f] = [@ EXCEPT !.ref = 0, !.type = "NONE"]]
      BY <2>1 DEF FileClose
    <3>3. [file[f] EXCEPT !.ref = 0, !.type = "NONE"] \in FileType
      BY <2>0 DEF FileType
    <3>4. file' \in [FileIds -> FileType] /\ file'[f] = [file[f] EXCEPT !.ref = 0, !.type = "NONE"]
          /\ \A g \in FileIds : g # f => file'[g] = file[g]
      BY <1>1, <3>2, <3>3 DEF FilesInv, FilesTypeOK
    <3>5. IF file[f].type = "PIPE"
          THEN pclose' = [pclose EXCEPT ![p] = End(file[f].pipe, file[f].writable)]
          ELSE pclose' = pclose
      BY <1>0, <2>1 DEF FileClose, End, FilesInv, FilesTypeOK
    <3> HIDE DEF f
    <3> QED BY <2>0, <2>1, <3>1, <3>4, <3>5 DEF FileType
  <2>2. CASE ~last
    <3>1. file' = [file EXCEPT ![f].ref = file[f].ref - 1] /\ pclose' = pclose
      BY <2>2 DEF FileClose
    <3>2. file[f].ref - 1 \in Nat
      BY <1>2
    <3>3. [file[f] EXCEPT !.ref = file[f].ref - 1] \in FileType
      BY <2>0, <3>2 DEF FileType
    <3>4. file' \in [FileIds -> FileType] /\ file'[f] = [file[f] EXCEPT !.ref = file[f].ref - 1]
          /\ \A g \in FileIds : g # f => file'[g] = file[g]
      BY <1>1, <3>1, <3>3 DEF FilesInv, FilesTypeOK
    <3> HIDE DEF f
    <3> QED BY <2>0, <2>2, <3>1, <3>4 DEF FileType
  <2> QED BY <2>1, <2>2
<1> HIDE DEF f
<1>4. \A q \in Procs : todo'[q] = IF q = p THEN Tail(todo[p]) ELSE todo[q]
  BY <1>0 DEF FilesInv, FilesTypeOK
<1>5. /\ last /\ file[f].type = "PIPE" => file[f].pipe \in PipeIds /\ file[f].writable \in BOOLEAN
                                         /\ f \in EndsOf(file[f].pipe, file[f].writable)
  BY <1>1, <1>2 DEF FilesInv, FilesTypeOK, FileType, EndsOK, EndsOf
<1>6. FilesTypeOK'
  <2>1. todo' \in [Procs -> Seq(FileIds)]
    BY <1>0, <1>1 DEF FilesInv, FilesTypeOK
  <2>2. pclose' \in [Procs -> [pipe : PipeIds, writable : BOOLEAN] \cup {NoEnd}]
    <3>1. pclose \in [Procs -> [pipe : PipeIds, writable : BOOLEAN] \cup {NoEnd}]
      BY DEF FilesInv, FilesTypeOK
    <3>2. CASE last /\ file[f].type = "PIPE"
      <4>1. End(file[f].pipe, file[f].writable) \in [pipe : PipeIds, writable : BOOLEAN]
        BY <1>5, <3>2 DEF End
      <4>2. pclose' = [pclose EXCEPT ![p] = End(file[f].pipe, file[f].writable)]
        BY <1>3, <3>2
      <4> HIDE DEF last
      <4> QED BY <3>1, <4>1, <4>2
    <3>3. CASE ~(last /\ file[f].type = "PIPE")
      BY <1>3, <3>1, <3>3
    <3> QED BY <3>2, <3>3
  <2> QED BY <1>0, <1>3, <2>1, <2>2 DEF FilesInv, FilesTypeOK
<1>7. ClosingOK'
  <2>1. \A q \in Procs : Len(todo'[q]) <= 2 * NOFILE
    BY <1>1, <1>4 DEF FilesInv, ClosingOK
  <2>2. \A q \in Procs : q # p => todo'[q] = todo[q] /\ pclose'[q] = pclose[q]
    BY <1>3, <1>4 DEF FilesInv, FilesTypeOK
  <2> QED BY <1>0, <2>1, <2>2 DEF FilesInv, ClosingOK, IsOpen
<1>8. CallsOK'
  <2>1. \A g \in FileIds : (\E q \in Procs : \E fd \in Fds : ofile[q][fd] = g)
           => file'[g].type = file[g].type /\ file'[g].writable = file[g].writable
    BY <1>2, <1>3
  <2> QED BY <1>0, <2>1, CallsKept DEF FilesInv, Calling, Writing
<1>9. PipesOK'
  BY <1>0, PipesKept DEF FilesInv
<1>10. NoLostPipeWakeup'
  <2>1. \A q \in Procs : pc[q] \in Calling => fcur[q] \in FileIds
    BY InPipe
  <2>2. \A g \in FileIds : file'[g].pipe = file[g].pipe
    BY <1>3
  <2> QED BY <1>0, <2>1, <2>2, SleepersKept DEF FilesInv, Calling
<1>11. RefsOK'
  <2> SUFFICES ASSUME NEW g \in FileIds PROVE file'[g].ref = Holders(g)'
    BY DEF RefsOK
  <2>1. FdRefs(g)' = FdRefs(g) /\ FreshRefs(g)' = FreshRefs(g)
    BY <1>0 DEF FdRefs, FreshRefs
  <2>2. Cardinality(TodoRefs(g)') = IF g = f THEN Cardinality(TodoRefs(g)) - 1 ELSE Cardinality(TodoRefs(g))
    BY <1>0, ShortenList DEF FilesInv, ClosingOK, f
  <2>3. /\ Cardinality(FdRefs(g)) \in Nat /\ Cardinality(TodoRefs(g)) \in Nat
        /\ Cardinality(FreshRefs(g)) \in Nat
    BY RefSets
  <2>4. file[g].ref = Holders(g)
    BY DEF FilesInv, FilesCounted, RefsOK
  <2>5. file'[g].ref = IF g = f THEN file[g].ref - 1 ELSE file[g].ref
    BY <1>3
  <2> QED BY <2>1, <2>2, <2>3, <2>4, <2>5 DEF Holders
<1>12. \A g \in FileIds : /\ file'[g].ref = 0 => file'[g].type = "NONE"
                          /\ file'[g].type = "PIPE" => file'[g].pipe \in PipeIds
  <2> SUFFICES ASSUME NEW g \in FileIds
               PROVE  /\ file'[g].ref = 0 => file'[g].type = "NONE"
                      /\ file'[g].type = "PIPE" => file'[g].pipe \in PipeIds
    OBVIOUS
  <2>1. CASE g = f
    BY <1>2, <1>3, <2>1 DEF FilesInv, EndsOK
  <2>2. CASE g # f
    BY <1>3, <2>2 DEF FilesInv, EndsOK
  <2> QED BY <2>1, <2>2
<1>13. EndsOpen' /\ EndsOK'
  <2>1. CASE ~(last /\ file[f].type = "PIPE")
    <3>1. \A i \in PipeIds, w \in BOOLEAN : EndsOf(i, w)' = EndsOf(i, w)
      <4> SUFFICES ASSUME NEW i \in PipeIds, NEW w \in BOOLEAN, NEW g \in FileIds
                   PROVE  g \in EndsOf(i, w)' <=> g \in EndsOf(i, w)
        BY DEF EndsOf
      <4>1. CASE g = f
        BY <1>2, <1>3, <2>1, <4>1 DEF EndsOf
      <4>2. CASE g # f
        BY <1>3, <4>2 DEF EndsOf
      <4> QED BY <4>1, <4>2
    <3>2. pclose' = pclose
      BY <1>3, <2>1
    <3> QED BY <1>0, <1>12, <3>1, <3>2, EndsKept
  <2>2. CASE last /\ file[f].type = "PIPE"
    <3> DEFINE j == file[f].pipe
               v == file[f].writable
    <3>1. j \in PipeIds /\ v \in BOOLEAN /\ f \in EndsOf(j, v)
      BY <1>5, <2>2
    <3>2. \A q \in Procs : pclose'[q] = IF q = p THEN End(j, v) ELSE pclose[q]
      BY <1>3, <2>2 DEF FilesInv, FilesTypeOK
    <3>3. \A i \in PipeIds, w \in BOOLEAN : EndsOf(i, w)' = EndsOf(i, w) \ {f}
      <4> SUFFICES ASSUME NEW i \in PipeIds, NEW w \in BOOLEAN, NEW g \in FileIds
                   PROVE  g \in EndsOf(i, w)' <=> g \in EndsOf(i, w) /\ g # f
        BY DEF EndsOf
      <4>1. CASE g = f
        BY <1>3, <2>2, <4>1 DEF EndsOf
      <4>2. CASE g # f
        BY <1>3, <4>2 DEF EndsOf
      <4> QED BY <4>1, <4>2
    <3>4. \A i \in PipeIds, w \in BOOLEAN : f \in EndsOf(i, w) <=> i = j /\ w = v
      BY <1>1, <3>1 DEF EndsOf
    <3>5. \A g \in EndsOf(j, v) : g = f
      BY <3>1 DEF FilesInv, EndsOK
    <3>6. \A q \in Procs : pclose[q] # End(j, v)
      BY <3>1 DEF FilesInv, EndsOK
    <3>7. \A i, w : End(i, w) # NoEnd \/ i = None
      BY DEF End, NoEnd
    <3> HIDE DEF j, v
    <3>8. \A i \in PipeIds, w \in BOOLEAN : End(i, w) = End(j, v) <=> i = j /\ w = v
      BY DEF End
    <3>9. EndsOpen'
      <4> SUFFICES ASSUME NEW i \in PipeIds, NEW w \in BOOLEAN
                   PROVE  (IF w THEN pipe[i].writeopen ELSE pipe[i].readopen)
                            <=> EndsOf(i, w)' # {} \/ \E q \in Procs : pclose'[q] = End(i, w)
        BY <1>0 DEF EndsOpen, End
      <4>0. (IF w THEN pipe[i].writeopen ELSE pipe[i].readopen)
              <=> EndsOf(i, w) # {} \/ \E q \in Procs : pclose[q] = End(i, w)
        BY DEF FilesInv, FilesCounted, EndsOpen, End
      <4>1. CASE i = j /\ w = v
        BY <3>1, <3>2, <4>0, <4>1
      <4>2. CASE ~(i = j /\ w = v)
        <5>1. EndsOf(i, w)' = EndsOf(i, w)
          BY <3>3, <3>4, <4>2
        <5>2. \A q \in Procs : pclose'[q] = End(i, w) <=> pclose[q] = End(i, w)
          BY <1>0, <3>2, <3>7, <3>8, <4>2, Sizes
        <5> QED BY <4>0, <5>1, <5>2
      <4> QED BY <4>1, <4>2
    <3>10. EndsOK'
      <4> SUFFICES ASSUME NEW i \in PipeIds, NEW w \in BOOLEAN
                   PROVE  /\ \A g, h \in EndsOf(i, w)' : g = h
                          /\ \A q, r \in Procs : pclose'[q] = End(i, w) /\ pclose'[r] = End(i, w) => q = r
                          /\ EndsOf(i, w)' # {} => \A q \in Procs : pclose'[q] # End(i, w)
        BY <1>12 DEF EndsOK
      <4>0. /\ \A g, h \in EndsOf(i, w) : g = h
            /\ \A q, r \in Procs : pclose[q] = End(i, w) /\ pclose[r] = End(i, w) => q = r
            /\ EndsOf(i, w) # {} => \A q \in Procs : pclose[q] # End(i, w)
        BY DEF FilesInv, EndsOK
      <4>1. CASE i = j /\ w = v
        <5>1. EndsOf(i, w)' = {}
          BY <3>3, <3>5, <4>1
        <5>2. \A q \in Procs : q # p => pclose'[q] # End(i, w)
          BY <3>2, <3>6, <4>1
        <5> QED BY <5>1, <5>2
      <4>2. CASE ~(i = j /\ w = v)
        <5>1. EndsOf(i, w)' = EndsOf(i, w)
          BY <3>3, <3>4, <4>2
        <5>2. \A q \in Procs : pclose'[q] = End(i, w) <=> pclose[q] = End(i, w)
          BY <1>0, <3>2, <3>7, <3>8, <4>2, Sizes
        <5> QED BY <4>0, <5>1, <5>2
      <4> QED BY <4>1, <4>2
    <3> QED BY <3>9, <3>10
  <2> QED BY <2>1, <2>2
<1>14. FreshOK'
  <2>1. \A q \in Procs : \A k \in DOMAIN todo'[q] : \E m \in DOMAIN todo[q] : todo'[q][k] = todo[q][m]
    BY <1>1, <1>4
  <2>2. \A q \in Procs : pc[q] = "pipe" => fcur[q] # f
    BY <1>2
  <2> QED BY <1>0, <1>3, <2>1, <2>2 DEF FilesInv, FreshOK
<1> QED BY <1>6, <1>7, <1>8, <1>9, <1>10, <1>11, <1>13, <1>14 DEF FilesInv, FilesCounted

(* pipeclose()                                                              *)
LEMMA PipeCloseStep ==
  ASSUME FilesInv, NEW p \in Procs, PipeClose(p)
  PROVE  FilesInv'
<1> DEFINE i == pclose[p].pipe
           w == pclose[p].writable
           b == IF w THEN [pipe[i] EXCEPT !.writeopen = FALSE] ELSE [pipe[i] EXCEPT !.readopen = FALSE]
           S == CloseWakes(i, w)
<1>0. /\ pc[p] = "closing" /\ pclose[p] # NoEnd
      /\ pipe' = [pipe EXCEPT ![i] = IF b.readopen \/ b.writeopen THEN b ELSE NoPipe]
      /\ pclose' = [pclose EXCEPT ![p] = NoEnd]
      /\ pc' = [q \in Procs |-> IF q = p THEN "closing"
                                ELSE IF q \notin S THEN pc[q]
                                ELSE IF pc[q] = "rsleep" THEN "read" ELSE "write"]
      /\ UNCHANGED <<ofile, file, fcur, cnt, out, in, ret, pfd, todo, after, killed>>
  BY DEF PipeClose, WakeGoto, callVars
<1>1. i \in PipeIds /\ w \in BOOLEAN /\ pclose[p] = End(i, w)
  BY <1>0 DEF FilesInv, FilesTypeOK, End
<1>2. S = {q \in Procs : pc[q] = (IF w THEN "rsleep" ELSE "wsleep") /\ file[fcur[q]].pipe = i}
  BY DEF CloseWakes, Readers, Writers
<1>3. pipe[i] \in PipeType
  BY <1>1 DEF FilesInv, FilesTypeOK
<1>4. /\ pipe'[i] \in PipeType
      /\ pipe'[i].readopen = IF w THEN pipe[i].readopen ELSE FALSE
      /\ pipe'[i].writeopen = IF w THEN FALSE ELSE pipe[i].writeopen
      /\ pipe'[i] = NoPipe \/ (/\ pipe'[i].live = pipe[i].live /\ pipe'[i].nread = pipe[i].nread
                               /\ pipe'[i].nwrite = pipe[i].nwrite
                               /\ pipe'[i].readopen \/ pipe'[i].writeopen)
      /\ \A j \in PipeIds : j # i => pipe'[j] = pipe[j]
  <2>1. NoPipe \in PipeType /\ ~NoPipe.readopen /\ ~NoPipe.writeopen
    BY Sizes DEF NoPipe, PipeType
  <2>2. /\ b \in PipeType /\ b.live = pipe[i].live /\ b.nread = pipe[i].nread /\ b.nwrite = pipe[i].nwrite
        /\ b.readopen = IF w THEN pipe[i].readopen ELSE FALSE
        /\ b.writeopen = IF w THEN FALSE ELSE pipe[i].writeopen
    BY <1>1, <1>3 DEF PipeType
  <2>3. /\ pipe'[i] = IF b.readopen \/ b.writeopen THEN b ELSE NoPipe
        /\ \A j \in PipeIds : j # i => pipe'[j] = pipe[j]
    BY <1>0, <1>1 DEF FilesInv, FilesTypeOK
  <2> HIDE DEF i, w, b
  <2>4. CASE b.readopen \/ b.writeopen
    BY <2>2, <2>3, <2>4
  <2>5. CASE ~(b.readopen \/ b.writeopen)
    <3>1. b.readopen \in BOOLEAN /\ b.writeopen \in BOOLEAN
      BY <2>2 DEF PipeType
    <3>2. b.readopen = FALSE /\ b.writeopen = FALSE /\ pipe'[i] = NoPipe
      BY <2>3, <2>5, <3>1
    <3>3. NoPipe.readopen = FALSE /\ NoPipe.writeopen = FALSE
      BY DEF NoPipe
    <3> QED BY <2>1, <2>2, <2>3, <3>2, <3>3
  <2> QED BY <2>4, <2>5
<1> HIDE DEF i, w, b, S
<1>5. /\ \A q \in Procs : pc'[q] = pc[q] \/ (pc[q] = "rsleep" /\ pc'[q] = "read")
                                         \/ (pc[q] = "wsleep" /\ pc'[q] = "write")
      /\ \A q \in Procs : pc'[q] \in {"rsleep", "wsleep"} => pc'[q] = pc[q] /\ q \notin S
  BY <1>0, <1>2
<1>6. \A q \in Procs : pclose'[q] = IF q = p THEN NoEnd ELSE pclose[q]
  BY <1>0 DEF FilesInv, FilesTypeOK
<1>7. EndsOf(i, w) = {} /\ \A q \in Procs : pclose[q] = End(i, w) => q = p
  BY <1>1 DEF FilesInv, EndsOK
<1>8. FilesTypeOK'
  <2>1. pipe' \in [PipeIds -> PipeType]
    BY <1>0, <1>1, <1>4 DEF FilesInv, FilesTypeOK
  <2>2. pclose' \in [Procs -> [pipe : PipeIds, writable : BOOLEAN] \cup {NoEnd}]
    BY <1>0 DEF FilesInv, FilesTypeOK
  <2>3. pc' \in [Procs -> FilesLabels]
    <3>1. \A q \in Procs : pc'[q] \in FilesLabels
      BY <1>5 DEF FilesInv, FilesTypeOK, FilesLabels
    <3> QED BY <1>0, <3>1
  <2> QED BY <1>0, <2>1, <2>2, <2>3 DEF FilesInv, FilesTypeOK
<1>9. ClosingOK'
  BY <1>0, <1>5, <1>6 DEF FilesInv, ClosingOK, IsOpen
<1>10. CallsOK'
  BY <1>0, <1>5, CallsKept DEF FilesInv, Calling, Writing
<1>11. PipesOK'
  <2> SUFFICES ASSUME NEW j \in PipeIds
               PROVE  /\ Count(pipe'[j]) <= PIPESIZE
                      /\ pipe'[j].live <=> pipe'[j].readopen \/ pipe'[j].writeopen
                      /\ ~pipe'[j].live => Empty(pipe'[j])
    BY DEF PipesOK, Count, Empty
  <2>0. /\ Count(pipe[j]) <= PIPESIZE
        /\ pipe[j].live <=> pipe[j].readopen \/ pipe[j].writeopen
        /\ ~pipe[j].live => Empty(pipe[j])
    BY DEF FilesInv, PipesOK
  <2>1. CASE j # i
    BY <1>4, <2>0, <2>1
  <2>2. CASE j = i /\ pipe'[i] = NoPipe
    <3>1. Empty(NoPipe) /\ NoPipe \in PipeType
      BY <1>4, <2>2 DEF Empty, NoPipe
    <3>2. Count(NoPipe) = 0
      BY <3>1, CountCases
    <3> QED BY <2>2, <3>1, <3>2, Sizes DEF NoPipe
  <2>3. CASE j = i /\ pipe'[i] # NoPipe
    BY <1>1, <1>4, <2>0, <2>3 DEF Count, Empty
  <2> QED BY <2>1, <2>2, <2>3
<1>12. NoLostPipeWakeup'
  <2> SUFFICES ASSUME NEW q \in Procs, pc'[q] \in {"rsleep", "wsleep"}
               PROVE  pipe'[file[fcur[q]].pipe] = pipe[file[fcur[q]].pipe]
    BY <1>0, <1>5, SleepersKept DEF FilesInv
  <2>1. pc[q] = pc'[q] /\ q \notin S /\ pc[q] \in Calling
    BY <1>5 DEF Calling
  <2>2. file[fcur[q]].pipe \in PipeIds /\ fcur[q] \in EndsOf(file[fcur[q]].pipe, pc[q] \in Writing)
    BY <2>1, InPipe
  <2>3. CASE file[fcur[q]].pipe = i
    <3>1. pc[q] \in Writing <=> w
      BY <1>1, <1>2, <2>1, <2>3 DEF Writing
    <3>2. EndsOf(i, pc[q] \in Writing) = EndsOf(i, w)
      BY <1>1, <3>1 DEF EndsOf
    <3> QED BY <1>7, <2>2, <2>3, <3>2
  <2> QED BY <1>4, <2>2, <2>3
<1>13. RefsOK'
  <2>1. \A g \in FileIds : FdRefs(g)' = FdRefs(g) /\ TodoRefs(g)' = TodoRefs(g) /\ FreshRefs(g)' = FreshRefs(g)
    BY <1>0, <1>5, SameFresh DEF FdRefs, TodoRefs
  <2> QED BY <1>0, <2>1 DEF FilesInv, FilesCounted, RefsOK, Holders
<1>14. \A j \in PipeIds, v \in BOOLEAN : EndsOf(j, v)' = EndsOf(j, v)
  BY <1>0 DEF EndsOf
<1>15. \A j \in PipeIds, v \in BOOLEAN : End(j, v) # NoEnd /\ (End(j, v) = End(i, w) <=> j = i /\ v = w)
  BY <1>1, Sizes DEF End, NoEnd
<1>16. EndsOK'
  <2> SUFFICES ASSUME NEW j \in PipeIds, NEW v \in BOOLEAN
               PROVE  /\ \A g, h \in EndsOf(j, v)' : g = h
                      /\ \A q, r \in Procs : pclose'[q] = End(j, v) /\ pclose'[r] = End(j, v) => q = r
                      /\ EndsOf(j, v)' # {} => \A q \in Procs : pclose'[q] # End(j, v)
    BY <1>0 DEF FilesInv, EndsOK
  <2>1. /\ \A g, h \in EndsOf(j, v) : g = h
        /\ \A q, r \in Procs : pclose[q] = End(j, v) /\ pclose[r] = End(j, v) => q = r
        /\ EndsOf(j, v) # {} => \A q \in Procs : pclose[q] # End(j, v)
    BY DEF FilesInv, EndsOK
  <2> QED BY <1>6, <1>14, <1>15, <2>1
<1>17. EndsOpen'
  <2> SUFFICES ASSUME NEW j \in PipeIds, NEW v \in BOOLEAN
               PROVE  (IF v THEN pipe'[j].writeopen ELSE pipe'[j].readopen)
                        <=> EndsOf(j, v)' # {} \/ \E q \in Procs : pclose'[q] = End(j, v)
    BY DEF EndsOpen, End
  <2>1. (IF v THEN pipe[j].writeopen ELSE pipe[j].readopen)
          <=> EndsOf(j, v) # {} \/ \E q \in Procs : pclose[q] = End(j, v)
    BY DEF FilesInv, FilesCounted, EndsOpen, End
  <2>2. CASE j = i /\ v = w
    BY <1>1, <1>4, <1>6, <1>7, <1>14, <1>15, <2>2
  <2>3. CASE ~(j = i /\ v = w)
    <3>1. (IF v THEN pipe'[j].writeopen ELSE pipe'[j].readopen)
            <=> (IF v THEN pipe[j].writeopen ELSE pipe[j].readopen)
      BY <1>1, <1>4, <2>3
    <3>2. (\E q \in Procs : pclose'[q] = End(j, v)) <=> (\E q \in Procs : pclose[q] = End(j, v))
      BY <1>1, <1>6, <1>15, <2>3
    <3> QED BY <1>14, <2>1, <3>1, <3>2
  <2> QED BY <2>2, <2>3
<1>18. FreshOK'
  BY <1>0, <1>5 DEF FilesInv, FreshOK
<1> QED BY <1>8, <1>9, <1>10, <1>11, <1>12, <1>13, <1>16, <1>17, <1>18 DEF FilesInv, FilesCounted

(* pipe() that succeeds: with two descriptors, or with none.                *)
LEMMA PipeMadeStep ==
  ASSUME FilesInv, NEW p \in Procs, PipeMade(p)
  PROVE  FilesInv'
<1> DEFINE r == fcur[p]
           w == Min(FreeFiles)
           fds == FreeFds(p)
           d == Min(fds)
           e == Min(fds \ {d})
           two == Cardinality(fds) >= 2
           s == EndsToClose(r, w)
           end(i, b) == [ref |-> 1, type |-> "PIPE", pipe |-> i, writable |-> b]
<1>1. PICK i \in PipeIds :
        /\ ~pipe[i].live
        /\ pipe' = [pipe EXCEPT ![i] = [@ EXCEPT !.live = TRUE, !.readopen = TRUE, !.writeopen = TRUE,
                                                !.nread = 0, !.nwrite = 0]]
        /\ file' = [file EXCEPT ![r] = end(i, FALSE), ![w] = end(i, TRUE)]
        /\ IF two
           THEN /\ ofile' = [ofile EXCEPT ![p] = [@ EXCEPT ![d] = r, ![e] = w]]
                /\ pc' = [pc EXCEPT ![p] = "user"] /\ ret' = [ret EXCEPT ![p] = 0]
                /\ UNCHANGED <<todo, after>>
           ELSE /\ todo' = [todo EXCEPT ![p] = s] /\ after' = [after EXCEPT ![p] = "user"]
                /\ pc' = [pc EXCEPT ![p] = "closing"] /\ ret' = [ret EXCEPT ![p] = -1]
                /\ UNCHANGED ofile
        /\ UNCHANGED pclose
  BY DEF PipeMade, CloseAll, Goto, Return, closeVars
<1>2. /\ pc[p] = "pipe" /\ FreeFiles # {} /\ fcur' = [fcur EXCEPT ![p] = None]
      /\ UNCHANGED <<cnt, out, in, killed>>
  BY DEF PipeMade
<1>3. /\ r \in FileIds /\ file[r].type = "NONE" /\ file[r].ref # 0
      /\ \A q \in Procs : /\ \A fd \in Fds : ofile[q][fd] # r
                          /\ \A k \in DOMAIN todo[q] : todo[q][k] # r
                          /\ pc[q] = "pipe" /\ fcur[q] = r => q = p
  BY <1>2, Referenced DEF FilesInv, FreshOK, FilesCounted
<1>4. w \in FileIds /\ file[w].ref = 0 /\ w # r
  BY <1>2, <1>3, FreeFile
<1>5. /\ file[w].type = "NONE" /\ Holders(w) = 0
      /\ \A q \in Procs : /\ \A fd \in Fds : ofile[q][fd] # w
                          /\ \A k \in DOMAIN todo[q] : todo[q][k] # w
                          /\ ~(pc[q] = "pipe" /\ fcur[q] = w)
  BY <1>4, FreeUnused
<1>6. two => d \in Fds /\ e \in Fds /\ d # e /\ ofile[p][d] = None /\ ofile[p][e] = None
  BY TwoFreeFds DEF FreeFds
<1>7. /\ s \in Seq(FileIds) /\ Len(s) = 2 /\ \A k \in DOMAIN s : s[k] \in {r, w}
      /\ \A g \in FileIds : Cardinality(Places(s, g)) = IF g \in {r, w} THEN 1 ELSE 0
  BY <1>3, <1>4, TwoPlaces DEF EndsToClose
<1>8. todo[p] = <<>> /\ pclose[p] = NoEnd
  BY <1>2 DEF FilesInv, ClosingOK
<1> HIDE DEF r, w, fds, d, e, two, s
<1>9. /\ file' \in [FileIds -> FileType] /\ file'[r] = end(i, FALSE) /\ file'[w] = end(i, TRUE)
      /\ \A g \in FileIds : g \notin {r, w} => file'[g] = file[g]
  <2>1. end(i, FALSE) \in FileType /\ end(i, TRUE) \in FileType
    BY DEF FileType
  <2> HIDE DEF end
  <2> QED BY <1>1, <1>3, <1>4, <2>1 DEF FilesInv, FilesTypeOK
<1>10. /\ pipe'[i] \in PipeType /\ pipe'[i].live = TRUE /\ pipe'[i].readopen = TRUE /\ pipe'[i].writeopen = TRUE
       /\ pipe'[i].nread = 0 /\ pipe'[i].nwrite = 0
       /\ \A j \in PipeIds : j # i => pipe'[j] = pipe[j]
  <2>1. pipe[i] \in PipeType
    BY DEF FilesInv, FilesTypeOK
  <2> DEFINE b == [pipe[i] EXCEPT !.live = TRUE, !.readopen = TRUE, !.writeopen = TRUE, !.nread = 0, !.nwrite = 0]
  <2>2. /\ b \in PipeType /\ b.live = TRUE /\ b.readopen = TRUE /\ b.writeopen = TRUE
        /\ b.nread = 0 /\ b.nwrite = 0
    <3>1. 0 \in 0 .. (CtrMod - 1)
      BY Sizes
    <3> QED BY <2>1, <3>1 DEF PipeType
  <2>3. pipe'[i] = b /\ \A j \in PipeIds : j # i => pipe'[j] = pipe[j]
    BY <1>1 DEF FilesInv, FilesTypeOK
  <2> HIDE DEF b
  <2> QED BY <2>2, <2>3
<1>11. /\ \A q \in Procs : q # p => pc'[q] = pc[q] /\ todo'[q] = todo[q] /\ after'[q] = after[q]
                                    /\ ofile'[q] = ofile[q] /\ fcur'[q] = fcur[q]
       /\ pc'[p] = IF two THEN "user" ELSE "closing"
       /\ todo'[p] = IF two THEN <<>> ELSE s
       /\ ~two => after'[p] = "user"
       /\ \A fd \in Fds : ofile'[p][fd] = IF two /\ fd = d THEN r
                                          ELSE IF two /\ fd = e THEN w ELSE ofile[p][fd]
       /\ fcur'[p] = None /\ pclose' = pclose
  <2>1. CASE two
    BY <1>1, <1>2, <1>6, <1>8, <2>1 DEF FilesInv, FilesTypeOK
  <2>2. CASE ~two
    BY <1>1, <1>2, <2>2 DEF FilesInv, FilesTypeOK
  <2> QED BY <2>1, <2>2
<1>12. FilesTypeOK'
  <2>1. pipe' \in [PipeIds -> PipeType]
    BY <1>1, <1>10 DEF FilesInv, FilesTypeOK
  <2>2. CASE two
    <3>0. /\ ofile' = [ofile EXCEPT ![p] = [@ EXCEPT ![d] = r, ![e] = w]]
          /\ pc' = [pc EXCEPT ![p] = "user"] /\ ret' = [ret EXCEPT ![p] = 0]
          /\ UNCHANGED <<todo, after, pclose>>
      BY <1>1, <2>2
    <3> USE DEF FilesInv, FilesTypeOK
    <3>1. ofile' \in [Procs -> [Fds -> FileIds \cup {None}]]
      BY <1>3, <1>4, <3>0
    <3>2. pc' \in [Procs -> FilesLabels]
      BY <3>0 DEF FilesLabels
    <3>3. ret' \in [Procs -> Int]
      BY <3>0
    <3>4. fcur' \in [Procs -> FileIds \cup {None}]
      BY <1>2
    <3> QED BY <1>2, <1>9, <2>1, <3>0, <3>1, <3>2, <3>3, <3>4
  <2>3. CASE ~two
    <3>0. /\ todo' = [todo EXCEPT ![p] = s] /\ after' = [after EXCEPT ![p] = "user"]
          /\ pc' = [pc EXCEPT ![p] = "closing"] /\ ret' = [ret EXCEPT ![p] = -1]
          /\ UNCHANGED <<ofile, pclose>>
      BY <1>1, <2>3
    <3> USE DEF FilesInv, FilesTypeOK
    <3>1. todo' \in [Procs -> Seq(FileIds)] /\ after' \in [Procs -> {"user", "zombie"}]
      BY <1>7, <3>0
    <3>2. pc' \in [Procs -> FilesLabels]
      BY <3>0 DEF FilesLabels
    <3>3. ret' \in [Procs -> Int]
      BY <3>0
    <3>4. fcur' \in [Procs -> FileIds \cup {None}]
      BY <1>2
    <3> QED BY <1>2, <1>9, <2>1, <3>0, <3>1, <3>2, <3>3, <3>4
  <2> QED BY <2>2, <2>3
<1>13. ClosingOK'
  <2>1. CASE two
    <3>1. \A q \in Procs : todo'[q] = todo[q]
      BY <1>8, <1>11, <2>1
    <3>2. \A q \in Procs : pc'[q] = IF q = p THEN "user" ELSE pc[q]
      BY <1>11, <2>1
    <3> QED BY <1>11, <1>8, <3>1, <3>2 DEF FilesInv, ClosingOK, IsOpen
  <2>2. CASE ~two
    <3>1. PICK n \in {2} : Len(todo'[p]) = n
      BY <1>7, <1>11, <2>2
    <3>2. n <= 2 * NOFILE
      BY Sizes
    <3>3. Len(todo'[p]) <= 2 * NOFILE /\ pc[p] \in {"user", "pipe"}
      BY <1>2, <3>1, <3>2
    <3>4. \A q \in Procs : pc'[q] = IF q = p THEN "closing" ELSE pc[q]
      BY <1>11, <2>2
    <3>5. after'[p] = "user"
      BY <1>11, <2>2
    <3> QED BY <1>11, <3>3, <3>4, <3>5, CloseStarted
  <2> QED BY <2>1, <2>2
<1>14. \A q \in Procs : pc'[q] \in Calling => q # p /\ pc[q] \in Calling
  BY <1>11 DEF Calling
<1>15. CallsOK'
  <2>1. \A q \in Procs : pc'[q] \in Calling =>
          /\ pc[q] \in Calling /\ (pc'[q] \in Writing <=> pc[q] \in Writing)
          /\ fcur'[q] = fcur[q] /\ \A fd \in Fds : ofile[q][fd] # None => ofile'[q][fd] = ofile[q][fd]
    BY <1>11, <1>14
  <2>2. \A f \in FileIds : (\E q \in Procs : \E fd \in Fds : ofile[q][fd] = f) => file'[f] = file[f]
    BY <1>3, <1>5, <1>9
  <2> QED BY <2>1, <2>2, CallsKept DEF FilesInv
<1>16. EndsOf(i, FALSE) = {} /\ EndsOf(i, TRUE) = {} /\ \A q \in Procs, b \in BOOLEAN : pclose[q] # End(i, b)
  <2>1. ~pipe[i].readopen /\ ~pipe[i].writeopen
    BY <1>1 DEF FilesInv, PipesOK
  <2>2. \A b \in BOOLEAN : EndsOf(i, b) = {} /\ \A q \in Procs : pclose[q] # End(i, b)
    BY <2>1 DEF FilesInv, FilesCounted, EndsOpen, End
  <2> QED BY <2>2
<1>17. PipesOK'
  <2> SUFFICES ASSUME NEW j \in PipeIds
               PROVE  /\ Count(pipe'[j]) <= PIPESIZE
                      /\ pipe'[j].live <=> pipe'[j].readopen \/ pipe'[j].writeopen
                      /\ ~pipe'[j].live => Empty(pipe'[j])
    BY DEF PipesOK, Count, Empty
  <2>1. CASE j # i
    BY <1>10, <2>1 DEF FilesInv, PipesOK
  <2>2. CASE j = i
    <3>1. Empty(pipe'[i])
      BY <1>10 DEF Empty
    <3>2. Count(pipe'[i]) = 0
      BY <1>10, <3>1, CountCases
    <3> QED BY <1>10, <2>2, <3>1, <3>2, Sizes
  <2> QED BY <2>1, <2>2
<1>18. NoLostPipeWakeup'
  <2> SUFFICES ASSUME NEW q \in Procs, pc'[q] \in {"rsleep", "wsleep"}
               PROVE  /\ pc'[q] = pc[q] /\ fcur'[q] = fcur[q] /\ file'[fcur[q]].pipe = file[fcur[q]].pipe
                      /\ pipe'[file[fcur[q]].pipe] = pipe[file[fcur[q]].pipe]
    BY SleepersKept DEF FilesInv
  <2>1. q # p /\ pc[q] \in Calling /\ pc'[q] = pc[q] /\ fcur'[q] = fcur[q]
    BY <1>11, <1>14 DEF Calling
  <2>2. /\ fcur[q] \in FileIds /\ file[fcur[q]].type = "PIPE" /\ file[fcur[q]].pipe \in PipeIds
        /\ fcur[q] \in EndsOf(file[fcur[q]].pipe, pc[q] \in Writing)
    BY <2>1, InPipe
  <2>3. fcur[q] \notin {r, w}
    BY <1>3, <1>5, <2>2
  <2>4. file[fcur[q]].pipe # i
    <3>1. (pc[q] \in Writing) \in BOOLEAN
      OBVIOUS
    <3> QED BY <1>16, <2>2, <3>1
  <2> QED BY <1>9, <1>10, <2>1, <2>2, <2>3, <2>4
<1>19. RefsOK'
  <2> SUFFICES ASSUME NEW g \in FileIds PROVE file'[g].ref = Holders(g)'
    BY DEF RefsOK
  <2>1. Cardinality(FreshRefs(g)') = IF g = r THEN Cardinality(FreshRefs(g)) - 1 ELSE Cardinality(FreshRefs(g))
    <3>1. pc'[p] # "pipe"
      BY <1>11
    <3> QED BY <1>2, <1>11, <3>1, RemoveFresh DEF FilesInv, r
  <2>2. Cardinality(FdRefs(g)') + Cardinality(TodoRefs(g)')
          = Cardinality(FdRefs(g)) + Cardinality(TodoRefs(g)) + (IF g \in {r, w} THEN 1 ELSE 0)
    <3>0. /\ Cardinality(FdRefs(g)) \in Nat /\ Cardinality(TodoRefs(g)) \in Nat
      BY RefSets
    <3>1. CASE two
      <4>1. TodoRefs(g)' = TodoRefs(g)
        BY <1>1, <3>1 DEF TodoRefs
      <4>2. Cardinality(FdRefs(g)') = IF g \in {r, w} THEN Cardinality(FdRefs(g)) + 1 ELSE Cardinality(FdRefs(g))
        <5>1. ofile' = [ofile EXCEPT ![p] = [@ EXCEPT ![d] = r, ![e] = w]]
          BY <1>1, <3>1
        <5>2. FilesTypeOK /\ d \in Fds /\ e \in Fds /\ d # e /\ r # w /\ ~IsOpen(p, d) /\ ~IsOpen(p, e)
          BY <1>4, <1>6, <3>1 DEF FilesInv, IsOpen
        <5> QED BY <1>3, <1>4, <5>1, <5>2, AddTwoFds, SMTT(30), ZenonT(40)
      <4> QED BY <3>0, <4>1, <4>2
    <3>2. CASE ~two
      <4>1. FdRefs(g)' = FdRefs(g)
        BY <1>1, <3>2 DEF FdRefs
      <4>2. Cardinality(TodoRefs(g)') = Cardinality(TodoRefs(g)) + Cardinality(Places(s, g))
        <5>1. PICK n \in {2} : Len(s) = n
          BY <1>7
        <5>2. n <= 2 * NOFILE
          BY Sizes
        <5>3. todo' = [todo EXCEPT ![p] = s] /\ Len(s) <= 2 * NOFILE
          BY <1>1, <3>2, <5>1, <5>2
        <5> QED BY <1>7, <1>8, <5>3, StartList DEF FilesInv
      <4> QED BY <1>7, <3>0, <4>1, <4>2
    <3> QED BY <3>1, <3>2
  <2>3. /\ Cardinality(FdRefs(g)) \in Nat /\ Cardinality(TodoRefs(g)) \in Nat
        /\ Cardinality(FreshRefs(g)) \in Nat
    BY RefSets
  <2>4. /\ Cardinality(FdRefs(g)') \in Nat /\ Cardinality(TodoRefs(g)') \in Nat
    BY RefSets, Finite
  <2>5. CASE g = r
    <3>1. FdRefs(r) = {} /\ TodoRefs(r) = {} /\ FreshRefs(r) = {p}
      BY <1>2, <1>3 DEF FdRefs, TodoRefs, FreshRefs, r
    <3>2. /\ Cardinality(FdRefs(r)) = 0 /\ Cardinality(TodoRefs(r)) = 0
          /\ Cardinality(FreshRefs(r)) = 1
      BY <3>1, FS_EmptySet, FS_Singleton
    <3> QED BY <1>9, <2>1, <2>2, <2>4, <2>5, <3>2 DEF Holders
  <2>6. CASE g = w
    BY <1>4, <1>5, <1>9, <2>1, <2>2, <2>3, <2>4, <2>6 DEF Holders
  <2>7. CASE g \notin {r, w}
    <3>1. file[g].ref = Holders(g)
      BY DEF FilesInv, FilesCounted, RefsOK
    <3> QED BY <1>9, <2>1, <2>2, <2>3, <2>4, <2>7, <3>1 DEF Holders
  <2> QED BY <2>5, <2>6, <2>7
<1>20. \A j \in PipeIds, v \in BOOLEAN :
         EndsOf(j, v)' = IF j = i THEN IF v THEN {w} ELSE {r} ELSE EndsOf(j, v)
  <2> SUFFICES ASSUME NEW j \in PipeIds, NEW v \in BOOLEAN, NEW g \in FileIds
               PROVE  g \in EndsOf(j, v)' <=> IF j = i THEN g = (IF v THEN w ELSE r) ELSE g \in EndsOf(j, v)
    BY <1>3, <1>4 DEF EndsOf
  <2>1. CASE g = r
    <3>1. g \in EndsOf(j, v)' <=> j = i /\ v = FALSE
      <4>1. file'[g].ref = 1 /\ file'[g].type = "PIPE" /\ file'[g].pipe = i /\ file'[g].writable = FALSE /\ file'[g].ref > 0
        BY <1>3, <1>9, <2>1
      <4>2. v = TRUE \/ v = FALSE
        OBVIOUS
      <4>3. g \in EndsOf(j, v)' <=> file'[g].pipe = j /\ file'[g].writable = v
        BY <4>1 DEF EndsOf
      <4>4. CASE v = TRUE
        BY <4>1, <4>3, <4>4
      <4>5. CASE v = FALSE
        BY <4>1, <4>3, <4>5
      <4> QED BY <4>2, <4>4, <4>5
    <3>2. g \notin EndsOf(j, v)
      BY <1>3, <2>1 DEF EndsOf
    <3> QED BY <1>4, <2>1, <3>1, <3>2
  <2>2. CASE g = w
    <3>1. g \in EndsOf(j, v)' <=> j = i /\ v = TRUE
      <4>1. file'[g].ref = 1 /\ file'[g].type = "PIPE" /\ file'[g].pipe = i /\ file'[g].writable = TRUE /\ file'[g].ref > 0
        BY <1>4, <1>9, <2>2
      <4>2. v = TRUE \/ v = FALSE
        OBVIOUS
      <4>3. g \in EndsOf(j, v)' <=> file'[g].pipe = j /\ file'[g].writable = v
        BY <4>1 DEF EndsOf
      <4>4. CASE v = TRUE
        BY <4>1, <4>3, <4>4
      <4>5. CASE v = FALSE
        BY <4>1, <4>3, <4>5
      <4> QED BY <4>2, <4>4, <4>5
    <3>2. g \notin EndsOf(j, v)
      BY <1>5, <2>2 DEF EndsOf
    <3> QED BY <1>4, <2>2, <3>1, <3>2
  <2>3. CASE g \notin {r, w}
    <3>1. g \in EndsOf(j, v)' <=> g \in EndsOf(j, v)
      BY <1>9, <2>3 DEF EndsOf
    <3> QED BY <1>16, <2>3, <3>1
  <2> QED BY <2>1, <2>2, <2>3
<1>21. EndsOpen'
  <2> SUFFICES ASSUME NEW j \in PipeIds, NEW v \in BOOLEAN
               PROVE  (IF v THEN pipe'[j].writeopen ELSE pipe'[j].readopen)
                        <=> EndsOf(j, v)' # {} \/ \E q \in Procs : pclose'[q] = End(j, v)
    BY DEF EndsOpen, End
  <2>1. CASE j = i
    BY <1>10, <1>20, <2>1
  <2>2. CASE j # i
    <3>1. (IF v THEN pipe[j].writeopen ELSE pipe[j].readopen)
            <=> EndsOf(j, v) # {} \/ \E q \in Procs : pclose[q] = End(j, v)
      BY DEF FilesInv, FilesCounted, EndsOpen, End
    <3> QED BY <1>10, <1>11, <1>20, <2>2, <3>1
  <2> QED BY <2>1, <2>2
<1>22. EndsOK'
  <2>1. \A g \in FileIds : /\ file'[g].ref = 0 => file'[g].type = "NONE"
                           /\ file'[g].type = "PIPE" => file'[g].pipe \in PipeIds
    <3> SUFFICES ASSUME NEW g \in FileIds
                 PROVE  /\ file'[g].ref = 0 => file'[g].type = "NONE"
                        /\ file'[g].type = "PIPE" => file'[g].pipe \in PipeIds
      OBVIOUS
    <3>1. CASE g \in {r, w}
      BY <1>9, <3>1
    <3>2. CASE g \notin {r, w}
      BY <1>9, <3>2 DEF FilesInv, EndsOK
    <3> QED BY <3>1, <3>2
  <2> SUFFICES ASSUME NEW j \in PipeIds, NEW v \in BOOLEAN
               PROVE  /\ \A g, h \in EndsOf(j, v)' : g = h
                      /\ \A q, t \in Procs : pclose'[q] = End(j, v) /\ pclose'[t] = End(j, v) => q = t
                      /\ EndsOf(j, v)' # {} => \A q \in Procs : pclose'[q] # End(j, v)
    BY <2>1 DEF EndsOK
  <2>2. CASE j = i
    BY <1>11, <1>16, <1>20, <2>2
  <2>3. CASE j # i
    BY <1>11, <1>20, <2>3 DEF FilesInv, EndsOK
  <2> QED BY <2>2, <2>3
<1>23. FreshOK'
  <2> SUFFICES ASSUME NEW q \in Procs, pc'[q] = "pipe"
               PROVE  /\ fcur'[q] \in FileIds /\ file'[fcur'[q]].type = "NONE"
                      /\ \A t \in Procs :
                           /\ \A fd \in Fds : ofile'[t][fd] # fcur'[q]
                           /\ \A k \in DOMAIN todo'[t] : todo'[t][k] # fcur'[q]
                           /\ pc'[t] = "pipe" /\ fcur'[t] = fcur'[q] => t = q
    BY DEF FreshOK
  <2>1. q # p /\ pc[q] = "pipe" /\ fcur'[q] = fcur[q] /\ fcur[q] \notin {r, w}
    BY <1>3, <1>5, <1>11
  <2>2. /\ fcur[q] \in FileIds /\ file[fcur[q]].type = "NONE"
        /\ \A t \in Procs :
             /\ \A fd \in Fds : ofile[t][fd] # fcur[q]
             /\ \A k \in DOMAIN todo[t] : todo[t][k] # fcur[q]
             /\ pc[t] = "pipe" /\ fcur[t] = fcur[q] => t = q
    BY <2>1 DEF FilesInv, FreshOK
  <2>3. \A t \in Procs : \A fd \in Fds : ofile'[t][fd] # fcur[q]
    BY <1>11, <2>1, <2>2
  <2>4. \A t \in Procs : \A k \in DOMAIN todo'[t] : todo'[t][k] # fcur[q]
    BY <1>7, <1>11, <2>1, <2>2
  <2> QED BY <1>9, <1>11, <2>1, <2>2, <2>3, <2>4
<1> QED BY <1>12, <1>13, <1>15, <1>17, <1>18, <1>19, <1>21, <1>22, <1>23 DEF FilesInv, FilesCounted

-----------------------------------------------------------------------------
(* The steps on the bytes of a pipe.                                        *)

(* One pipe changes, and its ends do not; processes that slept in a pipe    *)
(* may be in it awake; p leaves it, or goes to sleep where it wrote.        *)
LEMMA BytesStep ==
  ASSUME FilesInv, FilesTypeOK', NoLostPipeWakeup', NEW p \in Procs, pc[p] \in {"read", "write"},
         NEW i \in PipeIds, \A j \in PipeIds : j # i => pipe'[j] = pipe[j],
         pipe'[i].live = pipe[i].live, pipe'[i].readopen = pipe[i].readopen,
         pipe'[i].writeopen = pipe[i].writeopen,
         Count(pipe'[i]) <= PIPESIZE, ~pipe[i].live => Empty(pipe'[i]),
         \A q \in Procs : q # p => \/ pc'[q] = pc[q]
                                   \/ pc[q] = "rsleep" /\ pc'[q] = "read"
                                   \/ pc[q] = "wsleep" /\ pc'[q] = "write",
         pc'[p] = "user" \/ (pc[p] = "write" /\ pc'[p] = "wsleep") \/ (pc[p] = "read" /\ pc'[p] = "rsleep"),
         UNCHANGED <<ofile, file, fcur, todo, pclose, after>>
  PROVE  FilesInv'
<1>1. \A j \in PipeIds : pipe'[j].readopen = pipe[j].readopen /\ pipe'[j].writeopen = pipe[j].writeopen
  OBVIOUS
<1>2. \A q \in Procs : pc'[q] = "pipe" <=> pc[q] = "pipe"
  OBVIOUS
<1>3. RefsOK' /\ EndsOpen' /\ EndsOK' /\ FreshOK'
  BY <1>1, <1>2, TablesKept
<1>4. CallsOK'
  <2>1. \A q \in Procs : pc'[q] \in Calling => pc[q] \in Calling /\ (pc'[q] \in Writing <=> pc[q] \in Writing)
    BY DEF Calling, Writing
  <2> QED BY <2>1, CallsKept DEF FilesInv
<1>5. ClosingOK'
  BY ClosingKept DEF FilesInv
<1>6. PipesOK'
  <2> SUFFICES ASSUME NEW j \in PipeIds
               PROVE  /\ Count(pipe'[j]) <= PIPESIZE
                      /\ pipe'[j].live <=> pipe'[j].readopen \/ pipe'[j].writeopen
                      /\ ~pipe'[j].live => Empty(pipe'[j])
    BY DEF PipesOK, Count, Empty
  <2>1. CASE j # i
    BY <2>1 DEF FilesInv, PipesOK
  <2>2. CASE j = i
    BY <2>2 DEF FilesInv, PipesOK
  <2> QED BY <2>1, <2>2
<1> QED BY <1>3, <1>4, <1>5, <1>6 DEF FilesInv, FilesCounted

(* The pipe that p reads or writes.                                         *)
LEMMA MyPipe ==
  ASSUME FilesInv, NEW p \in Procs, pc[p] \in {"read", "write"}
  PROVE  /\ file[fcur[p]].pipe \in PipeIds /\ pipe[file[fcur[p]].pipe] \in PipeType
         /\ Count(pipe[file[fcur[p]].pipe]) \in 0 .. PIPESIZE
         /\ ~pipe[file[fcur[p]].pipe].live => Count(pipe[file[fcur[p]].pipe]) = 0
<1>1. file[fcur[p]].pipe \in PipeIds
  BY InPipe DEF Calling
<1>2. pipe[file[fcur[p]].pipe] \in PipeType
  BY <1>1 DEF FilesInv, FilesTypeOK
<1>3. /\ Count(pipe[file[fcur[p]].pipe]) <= PIPESIZE
      /\ ~pipe[file[fcur[p]].pipe].live => Empty(pipe[file[fcur[p]].pipe])
  BY <1>1 DEF FilesInv, PipesOK
<1>4. /\ Count(pipe[file[fcur[p]].pipe]) \in 0 .. (CtrMod - 1)
      /\ Count(pipe[file[fcur[p]].pipe]) = 0 <=> Empty(pipe[file[fcur[p]].pipe])
  BY <1>2, CountCases
<1> QED BY <1>1, <1>2, <1>3, <1>4, Sizes

(* piperead() that sleeps, or is killed.                                    *)
LEMMA ReadSleepStep ==
  ASSUME FilesInv, NEW p \in Procs, ReadSleep(p)
  PROVE  FilesInv'
<1> DEFINE i == file[fcur[p]].pipe
<1>0. /\ pc[p] = "read" /\ Empty(pipe[i]) /\ pipe[i].writeopen
      /\ \/ pc' = [pc EXCEPT ![p] = "user"] /\ ret' = [ret EXCEPT ![p] = -1]
         \/ pc' = [pc EXCEPT ![p] = "rsleep"] /\ ret' = ret
      /\ UNCHANGED <<ofile, file, pipe, fcur, cnt, out, in, pfd, todo, pclose, after, killed>>
  BY DEF ReadSleep, Goto, Return, closeVars
<1>1. i \in PipeIds /\ Count(pipe[i]) \in 0 .. PIPESIZE /\ (~pipe[i].live => Count(pipe[i]) = 0) /\ pipe[i] \in PipeType
  BY <1>0, MyPipe
<1> HIDE DEF i
<1>2. FilesTypeOK'
  <2>1. pc' \in [Procs -> FilesLabels]
    BY <1>0, SMTT(30), ZenonT(40) DEF FilesInv, FilesTypeOK, FilesLabels
  <2>2. ret' \in [Procs -> Int]
    BY <1>0 DEF FilesInv, FilesTypeOK
  <2> QED BY <1>0, <2>1, <2>2 DEF FilesInv, FilesTypeOK
<1>3. /\ \A q \in Procs : q # p => pc'[q] = pc[q]
      /\ pc'[p] \in {"user", "rsleep"}
  BY <1>0 DEF FilesInv, FilesTypeOK
<1>4. NoLostPipeWakeup'
  BY <1>0, <1>3 DEF FilesInv, NoLostPipeWakeup, Empty, Full, i
<1>5. Count(pipe'[i]) <= PIPESIZE /\ (~pipe[i].live => Empty(pipe'[i]))
  BY <1>0, <1>1, CountCases
<1> QED BY <1>0, <1>1, <1>2, <1>3, <1>4, <1>5, BytesStep

(* piperead() that takes n bytes and gives k of them.                       *)
LEMMA ReadEndStep ==
  ASSUME FilesInv, NEW p \in Procs, pc[p] = "read", NEW k \in Nat, NEW n \in Nat,
         k <= n, n <= Count(pipe[file[fcur[p]].pipe]), ReadEnd(p, k, n)
  PROVE  FilesInv'
<1> DEFINE i == file[fcur[p]].pipe
           b == pipe[i]
           c == TakeBytes(b, n)
<1>0. /\ pipe' = [pipe EXCEPT ![i] = c] /\ in' = [in EXCEPT ![p] = SubSeq(Contents(b), 1, k)]
      /\ ret' = [ret EXCEPT ![p] = k]
      /\ pc' = [q \in Procs |-> IF q = p THEN "user"
                                ELSE IF q \notin Writers(i) THEN pc[q]
                                ELSE IF pc[q] = "rsleep" THEN "read" ELSE "write"]
      /\ UNCHANGED <<ofile, file, fcur, cnt, out, pfd, todo, pclose, after, killed>>
  BY DEF ReadEnd, WakeGoto, Return, closeVars
<1>1. i \in PipeIds /\ Count(b) \in 0 .. PIPESIZE /\ (~b.live => Count(b) = 0) /\ b \in PipeType
  BY MyPipe
<1>2. n \in 0 .. Count(b)
  BY <1>1
<1>3. /\ c \in PipeType /\ Count(c) = Count(b) - n
      /\ c.live = b.live /\ c.readopen = b.readopen /\ c.writeopen = b.writeopen /\ c.cut = b.cut
  <2>1. c \in PipeType /\ Count(c) = Count(b) - n
    BY <1>1, <1>2, TakeCount
  <2>2. c.live = b.live /\ c.readopen = b.readopen /\ c.writeopen = b.writeopen /\ c.cut = b.cut
    BY <1>1 DEF TakeBytes, PipeType
  <2> QED BY <2>1, <2>2
<1>4. Count(b) = 0 => Empty(c)
  BY <1>1, <1>2, <1>3, CountCases
<1>5. SubSeq(Contents(b), 1, k) \in Seq(Byte)
  <2>1. Contents(b) \in Seq(Byte) /\ Len(Contents(b)) = Count(b)
    BY <1>1, ContentsIn
  <2>2. k \in 0 .. Count(b)
    BY <1>1
  <2> HIDE DEF b
  <2> QED BY <1>1, <2>1, <2>2, SubSeqProperties
<1>6. /\ \A q \in Procs : q # p => \/ pc'[q] = pc[q] /\ q \notin Writers(i)
                                   \/ pc[q] = "wsleep" /\ pc'[q] = "write"
      /\ pc'[p] = "user"
  BY <1>0 DEF Writers
<1>7. pipe'[i] = c /\ \A j \in PipeIds : j # i => pipe'[j] = pipe[j]
  <2>1. pipe \in [PipeIds -> PipeType]
    BY DEF FilesInv, FilesTypeOK
  <2> HIDE DEF i, c
  <2> QED BY <1>0, <1>1, <2>1
<1>8. FilesTypeOK'
  <2>1. pipe' \in [PipeIds -> PipeType]
    <3>1. pipe \in [PipeIds -> PipeType]
      BY DEF FilesInv, FilesTypeOK
    <3> HIDE DEF i, c
    <3> QED BY <1>0, <1>1, <1>3, <3>1
  <2>2. in' \in [Procs -> Seq(Byte)]
    BY <1>0, <1>5 DEF FilesInv, FilesTypeOK
  <2>3. ret' \in [Procs -> Int]
    BY <1>0 DEF FilesInv, FilesTypeOK
  <2>4. pc' \in [Procs -> FilesLabels]
    <3>1. \A q \in Procs : pc'[q] \in FilesLabels
      BY <1>6 DEF FilesInv, FilesTypeOK, FilesLabels
    <3> QED BY <1>0, <3>1
  <2> QED BY <1>0, <2>1, <2>2, <2>3, <2>4 DEF FilesInv, FilesTypeOK
<1>9. NoLostPipeWakeup'
  <2> SUFFICES ASSUME NEW q \in Procs, pc'[q] \in {"rsleep", "wsleep"}
               PROVE  LET a == pipe'[file[fcur[q]].pipe] IN
                      /\ pc'[q] = "rsleep" => (Empty(a) \/ a.cut) /\ a.writeopen
                      /\ pc'[q] = "wsleep" => Full(a) /\ a.readopen
    BY <1>0 DEF NoLostPipeWakeup, Empty, Full
  <2> DEFINE j == file[fcur[q]].pipe
  <2>1. q # p /\ pc'[q] = pc[q] /\ q \notin Writers(i) /\ pc[q] \in Calling
    BY <1>6 DEF Calling
  <2>2. j \in PipeIds
    BY <2>1, InPipe
  <2>3. /\ pc[q] = "rsleep" => (Empty(pipe[j]) \/ pipe[j].cut) /\ pipe[j].writeopen
        /\ pc[q] = "wsleep" => Full(pipe[j]) /\ pipe[j].readopen
    BY DEF FilesInv, NoLostPipeWakeup
  <2>4. CASE j # i
    BY <1>7, <2>1, <2>2, <2>3, <2>4
  <2>5. CASE j = i
    <3>1. pc[q] = "rsleep"
      BY <2>1, <2>5 DEF Writers
    <3>2. Empty(b) => Empty(c)
      BY <1>1, <1>4, CountCases
    <3> HIDE DEF c
    <3> QED BY <1>3, <1>7, <2>1, <2>3, <2>5, <3>1, <3>2
  <2> QED BY <2>4, <2>5
<1>10. Count(pipe'[i]) <= PIPESIZE /\ (~pipe[i].live => Empty(pipe'[i]))
  <2> HIDE DEF c
  <2> QED BY <1>1, <1>2, <1>3, <1>4, <1>7, Sizes
<1>11. /\ pipe'[i].live = pipe[i].live /\ pipe'[i].readopen = pipe[i].readopen
       /\ pipe'[i].writeopen = pipe[i].writeopen
  <2> HIDE DEF c
  <2> QED BY <1>3, <1>7
<1> HIDE DEF i, b, c
<1>12. UNCHANGED <<ofile, file, fcur, todo, pclose, after>>
  BY <1>0
<1> QED BY <1>1, <1>6, <1>7, <1>8, <1>9, <1>10, <1>11, <1>12, BytesStep

(* There are at least as many bytes in the pipe as a read takes.            *)
LEMMA AvailableIn ==
  ASSUME FilesInv, NEW p \in Procs, pc[p] = "read"
  PROVE  Available(p) \in Nat /\ Available(p) <= Count(pipe[file[fcur[p]].pipe])
<1> DEFINE n == Count(pipe[file[fcur[p]].pipe])
<1>1. n \in Nat /\ cnt[p] \in Nat
  BY MyPipe DEF FilesInv, FilesTypeOK
<1> HIDE DEF n
<1>2. Min({cnt[p], n}) \in {cnt[p], n} /\ \A y \in {cnt[p], n} : Min({cnt[p], n}) <= y
  BY <1>1, MinIn
<1> QED BY <1>1, <1>2 DEF Available, n

(* piperead() that returns.                                                 *)
LEMMA PipeReadStep ==
  ASSUME FilesInv, NEW p \in Procs, PipeRead(p) \/ ReadFault(p)
  PROVE  FilesInv'
<1>1. pc[p] = "read"
  BY DEF PipeRead, ReadFault
<1>2. Available(p) \in Nat /\ Available(p) <= Count(pipe[file[fcur[p]].pipe])
  BY <1>1, AvailableIn
<1>3. CASE PipeRead(p)
  BY <1>1, <1>2, <1>3, ReadEndStep DEF PipeRead
<1>4. CASE ReadFault(p)
  <2>1. PICK k \in 0 .. (Available(p) - 1) : ReadEnd(p, k, k + 1)
    BY <1>4 DEF ReadFault
  <2>2. Count(pipe[file[fcur[p]].pipe]) \in Nat
    BY <1>1, MyPipe
  <2>3. k \in Nat /\ k + 1 \in Nat /\ k <= k + 1 /\ k + 1 <= Count(pipe[file[fcur[p]].pipe])
    BY <1>2, <2>1, <2>2
  <2> QED BY <1>1, <2>1, <2>3, ReadEndStep
<1> QED BY <1>3, <1>4

(* pipewrite() that puts k bytes into the pipe, and wakes the readers or    *)
(* not.                                                                     *)
LEMMA WriteSomeStep ==
  ASSUME FilesInv, NEW p \in Procs, pc[p] = "write",
         NEW k \in 0 .. Len(out[p]), k <= Room(p), NEW wake \in BOOLEAN, NEW l \in {"user", "wsleep"},
         l = "user" \/ (k = Room(p) /\ wake = TRUE /\ ~Broken(p)),
         NEW r \in Int, WriteSome(p, k, wake, l, r)
  PROVE  FilesInv'
<1> DEFINE i == file[fcur[p]].pipe
           b == pipe[i]
           s == SubSeq(out[p], 1, k)
           a == PutBytes(b, s)
           c == [a EXCEPT !.cut = ~wake /\ (a.cut \/ (l = "user" /\ k > 0))]
           S == IF wake THEN Readers(i) ELSE {}
<1>0. /\ pipe' = [pipe EXCEPT ![i] = c]
      /\ out' = [out EXCEPT ![p] = SubSeq(out[p], k + 1, Len(out[p]))]
      /\ pc' = [q \in Procs |-> IF q = p THEN l
                                ELSE IF q \notin S THEN pc[q]
                                ELSE IF pc[q] = "rsleep" THEN "read" ELSE "write"]
      /\ ret' = IF l = "user" THEN [ret EXCEPT ![p] = r] ELSE ret
      /\ UNCHANGED <<ofile, file, fcur, cnt, in, pfd, todo, pclose, after, killed>>
  <2>1. pipe' = [pipe EXCEPT ![i] = c]
    BY DEF WriteSome
  <2>2. out' = [out EXCEPT ![p] = SubSeq(out[p], k + 1, Len(out[p]))]
    BY DEF WriteSome
  <2>3. WakeGoto(S, p, l) /\ ret' = (IF l = "user" THEN [ret EXCEPT ![p] = r] ELSE ret)
    BY DEF WriteSome
  <2>4. UNCHANGED <<ofile, file, fcur, cnt, in, pfd, todo, pclose, after, killed>>
    BY DEF WriteSome, closeVars
  <2> HIDE DEF c, S
  <2> QED BY <2>1, <2>2, <2>3, <2>4 DEF WakeGoto
<1>1. i \in PipeIds /\ Count(b) \in 0 .. PIPESIZE /\ (~b.live => Count(b) = 0) /\ b \in PipeType
  BY MyPipe
<1>2. out[p] \in Seq(Byte) /\ Len(out[p]) \in Nat /\ k \in Nat
  BY LenProperties DEF FilesInv, FilesTypeOK
<1>3. /\ s \in Seq(Byte) /\ Len(s) = k
      /\ SubSeq(out[p], k + 1, Len(out[p])) \in Seq(Byte)
  <2>1. \A j \in 1 .. Len(out[p]) : out[p][j] \in Byte
    BY <1>2, ElementOfSeq
  <2>2. s \in Seq(Byte) /\ Len(s) = IF 1 <= k THEN k - 1 + 1 ELSE 0
    BY <1>2, <2>1, SubSeqProperties
  <2>3. SubSeq(out[p], k + 1, Len(out[p])) \in Seq(Byte)
    BY <1>2, <2>1, SubSeqProperties
  <2> HIDE DEF s
  <2> QED BY <1>2, <2>2, <2>3
<1>4. k <= PIPESIZE - Count(b) /\ PIPESIZE - Count(b) = Room(p)
  BY DEF Room
<1>5. /\ a \in PipeType /\ Count(a) = Count(b) + k
      /\ a.live = b.live /\ a.readopen = b.readopen /\ a.writeopen = b.writeopen /\ a.cut = b.cut
  <2>1. Len(s) <= PIPESIZE - Count(b)
    BY <1>3, <1>4
  <2>2. a \in PipeType /\ Count(a) = Count(b) + k
    <3> HIDE DEF s, b
    <3> QED BY <1>1, <1>3, <2>1, PutContents
  <2>3. a.live = b.live /\ a.readopen = b.readopen /\ a.writeopen = b.writeopen /\ a.cut = b.cut
    BY <1>1 DEF PutBytes, PipeType
  <2> QED BY <2>2, <2>3
<1>6. /\ c \in PipeType /\ Count(c) = Count(b) + k
      /\ c.live = b.live /\ c.readopen = b.readopen /\ c.writeopen = b.writeopen
      /\ ~wake /\ (b.cut \/ (l = "user" /\ k > 0)) => c.cut
  <2> DEFINE v == ~wake /\ (a.cut \/ (l = "user" /\ k > 0))
             d == [a EXCEPT !.cut = v]
  <2>1. v \in BOOLEAN
    OBVIOUS
  <2> HIDE DEF v, a, b
  <2>2. d \in PipeType /\ d.cut = v /\ d.live = a.live /\ d.readopen = a.readopen /\ d.writeopen = a.writeopen
    BY <1>5, <2>1 DEF PipeType
  <2>3. Count(d) = Count(a)
    BY <1>5 DEF Count, PipeType
  <2>4. c = d
    BY DEF v
  <2> HIDE DEF c, d
  <2>5. ~wake /\ (b.cut \/ (l = "user" /\ k > 0)) => c.cut
    BY <1>5, <2>2, <2>4 DEF v
  <2> QED BY <1>5, <2>2, <2>3, <2>4, <2>5
<1> HIDE DEF s, a, c
<1>7. pipe'[i] = c /\ \A j \in PipeIds : j # i => pipe'[j] = pipe[j]
  <2>1. pipe \in [PipeIds -> PipeType]
    BY DEF FilesInv, FilesTypeOK
  <2> HIDE DEF i
  <2> QED BY <1>0, <1>1, <2>1
<1>8. /\ \A q \in Procs : q # p => \/ pc'[q] = pc[q] /\ q \notin S
                                   \/ pc[q] = "rsleep" /\ pc'[q] = "read"
      /\ pc'[p] = l
  BY <1>0 DEF Readers
<1>9. FilesTypeOK'
  <2>1. pipe' \in [PipeIds -> PipeType]
    <3>1. pipe \in [PipeIds -> PipeType]
      BY DEF FilesInv, FilesTypeOK
    <3> HIDE DEF i
    <3> QED BY <1>0, <1>1, <1>6, <3>1
  <2>2. out' \in [Procs -> Seq(Byte)]
    BY <1>0, <1>3 DEF FilesInv, FilesTypeOK
  <2>3. ret' \in [Procs -> Int]
    BY <1>0 DEF FilesInv, FilesTypeOK
  <2>4. pc' \in [Procs -> FilesLabels]
    <3>1. \A q \in Procs : pc'[q] \in FilesLabels
      BY <1>8 DEF FilesInv, FilesTypeOK, FilesLabels
    <3> QED BY <1>0, <3>1
  <2> QED BY <1>0, <2>1, <2>2, <2>3, <2>4 DEF FilesInv, FilesTypeOK
<1>10. NoLostPipeWakeup'
  <2> SUFFICES ASSUME NEW q \in Procs, pc'[q] \in {"rsleep", "wsleep"}
               PROVE  LET e == pipe'[file[fcur[q]].pipe] IN
                      /\ pc'[q] = "rsleep" => (Empty(e) \/ e.cut) /\ e.writeopen
                      /\ pc'[q] = "wsleep" => Full(e) /\ e.readopen
    BY <1>0 DEF NoLostPipeWakeup, Empty, Full
  <2> DEFINE j == file[fcur[q]].pipe
  <2>1. CASE q = p
    <3>1. l = "wsleep" /\ pc'[q] = "wsleep" /\ j = i
      BY <1>8, <2>1
    <3>2. k = Room(p) /\ ~Broken(p)
      BY <3>1
    <3>3. Count(c) = PIPESIZE
      BY <1>1, <1>4, <1>6, <3>2, Sizes
    <3>4. Full(c) /\ c.readopen
      BY <1>6, <3>2, <3>3, CountCases DEF Broken
    <3> QED BY <1>7, <3>1, <3>4
  <2>2. CASE q # p
    <3>1. pc'[q] = pc[q] /\ q \notin S /\ pc[q] \in Calling
      BY <1>8, <2>2 DEF Calling
    <3>2. j \in PipeIds
      BY <3>1, InPipe
    <3>3. /\ pc[q] = "rsleep" => (Empty(pipe[j]) \/ pipe[j].cut) /\ pipe[j].writeopen
          /\ pc[q] = "wsleep" => Full(pipe[j]) /\ pipe[j].readopen
      BY DEF FilesInv, NoLostPipeWakeup
    <3>4. CASE j # i
      BY <1>7, <3>1, <3>2, <3>3, <3>4
    <3>5. CASE j = i /\ pc[q] = "rsleep"
      <4>1. ~wake /\ l = "user"
        BY <3>1, <3>5 DEF Readers
      <4>2. CASE k = 0 /\ ~b.cut
        <5>1. Count(b) = 0
          BY <1>1, <3>3, <3>5, <4>2, CountCases
        <5>2. Count(c) = 0
          BY <1>6, <4>2, <5>1
        <5>3. Empty(c)
          BY <1>6, <5>2, CountCases
        <5> QED BY <1>6, <1>7, <3>1, <3>3, <3>5, <5>3
      <4>3. CASE k > 0 \/ b.cut
        BY <1>6, <1>7, <3>1, <3>3, <3>5, <4>1, <4>3
      <4> QED BY <1>2, <4>2, <4>3
    <3>6. CASE j = i /\ pc[q] = "wsleep"
      <4>1. Count(b) = PIPESIZE
        BY <1>1, <3>3, <3>6, CountCases
      <4>2. k = 0
        BY <1>2, <1>4, <4>1, Sizes
      <4>3. Full(c)
        BY <1>6, <4>1, <4>2, CountCases, Sizes
      <4> QED BY <1>6, <1>7, <3>1, <3>3, <3>6, <4>3
    <3> QED BY <3>1, <3>4, <3>5, <3>6
  <2> QED BY <2>1, <2>2
<1>11. Count(pipe'[i]) <= PIPESIZE /\ (~pipe[i].live => Empty(pipe'[i]))
  <2>1. Count(c) <= PIPESIZE
    BY <1>1, <1>2, <1>4, <1>6, Sizes
  <2>2. ~pipe[i].live => k = 0
    <3>1. ~pipe[i].live => Empty(pipe[i]) /\ ~pipe[i].readopen /\ ~pipe[i].writeopen
      BY <1>1 DEF FilesInv, PipesOK
    <3>2. pipe[i].writeopen
      BY InPipe DEF Calling, Writing
    <3> QED BY <3>1, <3>2
  <2>3. ~pipe[i].live => Count(c) = 0
    BY <1>1, <1>6, <2>2
  <2> QED BY <1>6, <1>7, <2>1, <2>3, CountCases
<1>12. /\ pipe'[i].live = pipe[i].live /\ pipe'[i].readopen = pipe[i].readopen
       /\ pipe'[i].writeopen = pipe[i].writeopen
  BY <1>6, <1>7
<1> HIDE DEF i, b
<1>13. UNCHANGED <<ofile, file, fcur, todo, pclose, after>>
  BY <1>0
<1> QED BY <1>1, <1>7, <1>8, <1>9, <1>10, <1>11, <1>12, <1>13, BytesStep

(* Every way in which a critical section of pipewrite() ends puts some      *)
(* bytes into the pipe for which there is room.                             *)
WriteGoes(p, k, wake, l, r) ==
  /\ k <= Room(p) /\ (l = "user" \/ (k = Room(p) /\ wake = TRUE /\ ~Broken(p)))
  /\ WriteSome(p, k, wake, l, r)

(* Every way in which a critical section of pipewrite() ends is one of these. *)
LEMMA WriteCases ==
  ASSUME FilesInv, NEW p \in Procs,
         PipeWrite(p) \/ WriteSleep(p) \/ WriteBroken(p) \/ WriteFault(p)
  PROVE  /\ pc[p] = "write"
         /\ \E k \in 0 .. Len(out[p]), wake \in BOOLEAN, l \in {"user", "wsleep"}, r \in Int :
              WriteGoes(p, k, wake, l, r)
<1>1. pc[p] = "write"
  BY DEF PipeWrite, WriteSleep, WriteBroken, WriteFault
<1>2. /\ Len(out[p]) \in Nat /\ Room(p) \in Nat /\ cnt[p] \in Nat
      /\ out[p] # <<>> => Len(out[p]) # 0
  <2>1. out[p] \in Seq(Byte) /\ cnt[p] \in Nat
    BY DEF FilesInv, FilesTypeOK
  <2>2. Len(out[p]) \in Nat /\ (out[p] # <<>> => Len(out[p]) # 0)
    BY <2>1, LenProperties, EmptySeq
  <2>3. Count(pipe[file[fcur[p]].pipe]) \in 0 .. PIPESIZE
    BY <1>1, MyPipe
  <2>4. Room(p) \in Nat
    BY <2>3, Sizes DEF Room
  <2> QED BY <2>1, <2>2, <2>4
<1>3. out[p] # <<>> => \A k \in 0 .. Min({Len(out[p]) - 1, Room(p)}) : k \in 0 .. Len(out[p]) /\ k <= Room(p)
  <2> SUFFICES ASSUME out[p] # <<>>, NEW k \in 0 .. Min({Len(out[p]) - 1, Room(p)})
               PROVE  k \in 0 .. Len(out[p]) /\ k <= Room(p)
    OBVIOUS
  <2> DEFINE m == Len(out[p]) - 1
             n == Room(p)
  <2>1. m \in Nat /\ n \in Nat
    BY <1>2
  <2> HIDE DEF m, n
  <2>2. Min({m, n}) \in {m, n} /\ \A y \in {m, n} : Min({m, n}) <= y
    BY <2>1, MinIn
  <2>3. Min({m, n}) \in Nat /\ Min({m, n}) <= m /\ Min({m, n}) <= n
    BY <2>1, <2>2
  <2>4. k \in 0 .. Min({m, n})
    BY DEF m, n
  <2>5. k \in Nat /\ k <= m /\ k <= n
    BY <2>1, <2>3, <2>4
  <2> QED BY <1>2, <2>5 DEF m, n
<1>4. CASE PipeWrite(p)
  <2>1. Len(out[p]) \in 0 .. Len(out[p]) /\ Len(out[p]) <= Room(p) /\ cnt[p] \in Int
    BY <1>2, <1>4 DEF PipeWrite
  <2>2. WriteGoes(p, Len(out[p]), TRUE, "user", cnt[p])
    BY <1>4, <2>1 DEF PipeWrite, WriteGoes
  <2> QED BY <1>1, <2>1, <2>2
<1>5. CASE WriteSleep(p)
  <2>1. Room(p) \in 0 .. Len(out[p]) /\ Room(p) <= Room(p) /\ ~Broken(p)
    BY <1>2, <1>5 DEF WriteSleep
  <2> DEFINE n == Room(p)
  <2>2. WriteSome(p, n, TRUE, "wsleep", 0) /\ n \in 0 .. Len(out[p]) /\ n <= Room(p) /\ n = Room(p)
    BY <1>5, <2>1 DEF WriteSleep
  <2>3. WriteGoes(p, n, TRUE, "wsleep", 0)
    BY <2>1, <2>2 DEF WriteGoes
  <2>4. n \in 0 .. Len(out[p]) /\ 0 \in Int
    BY <2>2
  <2> HIDE DEF n
  <2> QED BY <1>1, <2>3, <2>4
<1>6. CASE WriteBroken(p)
  <2>1. CASE WriteSome(p, 0, FALSE, "user", -1)
    <3>1. 0 \in 0 .. Len(out[p]) /\ 0 <= Room(p) /\ -1 \in Int
      BY <1>2
    <3>2. WriteGoes(p, 0, FALSE, "user", -1)
      BY <2>1, <3>1 DEF WriteGoes
    <3> QED BY <1>1, <3>1, <3>2
  <2>2. CASE \E k \in 0 .. Min({Len(out[p]) - 1, Room(p)}) : WriteSome(p, k, FALSE, "user", -1)
    <3>1. PICK k \in 0 .. Min({Len(out[p]) - 1, Room(p)}) : WriteSome(p, k, FALSE, "user", -1)
      BY <2>2
    <3>2. k \in 0 .. Len(out[p]) /\ k <= Room(p)
      <4>1. out[p] # <<>>
        BY <1>6 DEF WriteBroken
      <4> QED BY <1>3, <3>1, <4>1
    <3>3. WriteGoes(p, k, FALSE, "user", -1)
      BY <3>1, <3>2 DEF WriteGoes
    <3>4. -1 \in Int
      OBVIOUS
    <3> QED BY <1>1, <3>2, <3>3, <3>4
  <2> QED BY <1>6, <2>1, <2>2 DEF WriteBroken
<1>7. CASE WriteFault(p)
  <2>1. PICK k \in 0 .. Min({Len(out[p]) - 1, Room(p)}) :
          WriteSome(p, k, TRUE, "user", cnt[p] - Len(out[p]) + k)
    BY <1>7 DEF WriteFault
  <2>2. k \in 0 .. Len(out[p]) /\ k <= Room(p)
    BY <1>3, <1>7, <2>1 DEF WriteFault
  <2>3. WriteGoes(p, k, TRUE, "user", cnt[p] - Len(out[p]) + k)
    BY <2>1, <2>2 DEF WriteGoes
  <2>4. cnt[p] - Len(out[p]) + k \in Int
    BY <1>2
  <2> QED BY <1>1, <2>2, <2>3, <2>4
<1> QED BY <1>4, <1>5, <1>6, <1>7

(* And so each of them keeps the invariant.                                 *)
LEMMA PipeWriteStep ==
  ASSUME FilesInv, NEW p \in Procs,
         PipeWrite(p) \/ WriteSleep(p) \/ WriteBroken(p) \/ WriteFault(p)
  PROVE  FilesInv'
<1>1. PICK k \in 0 .. Len(out[p]), wake \in BOOLEAN, l \in {"user", "wsleep"}, r \in Int :
        WriteGoes(p, k, wake, l, r)
  BY WriteCases
<1>2. pc[p] = "write"
  BY WriteCases
<1> QED BY <1>1, <1>2, WriteSomeStep DEF WriteGoes

-----------------------------------------------------------------------------
(* The invariant holds in the initial state, and every step preserves it.   *)
LEMMA InitOK ==
  ASSUME FilesInit
  PROVE  FilesInv
<1>0. 1 \in FileIds /\ 1 \in Procs
  <2>1. \A n \in Nat \ {0} : 1 \in 1 .. n
    OBVIOUS
  <2> QED BY <2>1, FilesAssumption DEF FilesAssumption, FileIds, Procs
<1>1. \A i \in PipeIds : pipe[i] = NoPipe
  BY DEF FilesInit
<1>2. NoPipe \in PipeType /\ Empty(NoPipe) /\ ~NoPipe.live /\ ~NoPipe.readopen /\ ~NoPipe.writeopen
  <2>1. 0 \in 0 .. (CtrMod - 1) /\ Byte0 \in Byte
    BY Sizes
  <2>2. [k \in 0 .. (PIPESIZE - 1) |-> Byte0] \in [0 .. (PIPESIZE - 1) -> Byte]
    BY <2>1
  <2> QED BY <2>1, <2>2 DEF NoPipe, PipeType, Empty
<1>3. FilesTypeOK
  <2>1. Cardinality({fd \in Fds : fd < 2}) \in Nat
    BY Finite
  <2>2. file \in [FileIds -> FileType]
    <3>1. NoFile \in FileType /\ [NoFile EXCEPT !.ref = Cardinality({fd \in Fds : fd < 2}),
                                               !.type = "DEVICE", !.writable = TRUE] \in FileType
      BY <2>1 DEF NoFile, FileType
    <3> QED BY <3>1 DEF FilesInit
  <2>3. ofile \in [Procs -> [Fds -> FileIds \cup {None}]]
    BY <1>0 DEF FilesInit
  <2>4. pc \in [Procs -> FilesLabels]
    BY DEF FilesInit, FilesLabels
  <2>5. pipe \in [PipeIds -> PipeType]
    BY <1>2 DEF FilesInit
  <2>6. fcur \in [Procs -> FileIds \cup {None}]
    BY DEF FilesInit
  <2>7. cnt \in [Procs -> Nat] /\ ret \in [Procs -> Int]
    <3>1. cnt \in [Procs -> Nat]
      BY DEF FilesInit
    <3>2. ret = [q \in Procs |-> 0]
      BY DEF FilesInit
    <3>3. ret \in [Procs -> Int]
      BY <3>2
    <3> QED BY <3>1, <3>3
  <2>8. out \in [Procs -> Seq(Byte)] /\ in \in [Procs -> Seq(Byte)] /\ todo \in [Procs -> Seq(FileIds)]
    <3>1. \A S : <<>> \in Seq(S)
      BY EmptySeq
    <3> QED BY <3>1 DEF FilesInit
  <2>9. pclose \in [Procs -> [pipe : PipeIds, writable : BOOLEAN] \cup {NoEnd}]
    BY DEF FilesInit
  <2>10. after \in [Procs -> {"user", "zombie"}] /\ killed \in [Procs -> BOOLEAN]
    BY DEF FilesInit
  <2> QED BY <2>2, <2>3, <2>4, <2>5, <2>6, <2>7, <2>8, <2>9, <2>10 DEF FilesTypeOK
<1>4. \A p \in Procs : todo[p] = <<>> /\ pclose[p] = NoEnd /\ after[p] = "user" /\ pc[p] \in {"user", "unborn"}
  BY DEF FilesInit
<1>5. ClosingOK
  <2>1. \A p \in Procs : pc[p] = "unborn" => \A fd \in Fds : ofile[p][fd] = None
    BY DEF FilesInit
  <2>2. Len(<<>>) <= 2 * NOFILE
    <3>1. Len(<<>>) = 0
      BY EmptySeq
    <3>2. 0 <= 2 * NOFILE
      BY Sizes
    <3> QED BY <3>1, <3>2
  <2> QED BY <1>4, <2>1, <2>2 DEF ClosingOK, IsOpen
<1>6. FreshOK /\ CallsOK /\ NoLostPipeWakeup
  BY <1>4 DEF FreshOK, CallsOK, NoLostPipeWakeup
<1>7. \A f \in FileIds : file[f].type # "PIPE" /\ (f # 1 => file[f].ref = 0 /\ file[f].type = "NONE")
  BY DEF FilesInit, NoFile
<1>8. file[1].ref = Cardinality({fd \in Fds : fd < 2})
  BY <1>0 DEF FilesInit, NoFile
<1>9. EndsOK /\ EndsOpen
  <2>1. \A i \in PipeIds, w \in BOOLEAN : EndsOf(i, w) = {}
    BY <1>7 DEF EndsOf
  <2>2. \A i \in PipeIds, w \in BOOLEAN : End(i, w) # NoEnd
    BY Sizes DEF End, NoEnd
  <2>3. EndsOpen
    BY <1>1, <1>2, <1>4, <2>1, <2>2 DEF EndsOpen, End
  <2>4. \A f \in FileIds : file[f].ref = 0 => file[f].type = "NONE"
    <3> DEFINE D == {fd \in Fds : fd < 2}
    <3>1. 0 \in D /\ D \in SUBSET Fds
      BY Sizes
    <3>2. file[1].ref = Cardinality(D)
      BY <1>8
    <3> HIDE DEF D
    <3>3. file[1].ref # 0
      BY <3>1, <3>2, Finite, FS_EmptySet
    <3> QED BY <1>7, <3>3
  <2> QED BY <1>4, <1>7, <2>1, <2>2, <2>3, <2>4 DEF EndsOK
<1>10. RefsOK
  <2> SUFFICES ASSUME NEW f \in FileIds PROVE file[f].ref = Holders(f)
    BY DEF RefsOK
  <2>1. TodoRefs(f) = {} /\ FreshRefs(f) = {}
    <3>1. DOMAIN <<>> = {}
      OBVIOUS
    <3> QED BY <1>4, <3>1 DEF TodoRefs, FreshRefs
  <2>2. Cardinality(TodoRefs(f)) = 0 /\ Cardinality(FreshRefs(f)) = 0
    BY <2>1, FS_EmptySet
  <2> DEFINE D == {fd \in Fds : fd < 2}
  <2>3. IsFiniteSet(D) /\ Cardinality(D) \in Nat
    BY Finite
  <2>4. FdRefs(f) = IF f = 1 THEN {1} \X D ELSE {}
    <3>1. \A q \in Procs : \A fd \in Fds : ofile[q][fd] = f <=> q = 1 /\ fd < 2 /\ f = 1
      BY Sizes DEF FilesInit
    <3> QED BY <1>0, <3>1 DEF FdRefs
  <2> HIDE DEF D
  <2>5. Cardinality(FdRefs(f)) = IF f = 1 THEN Cardinality(D) ELSE 0
    <3>1. Cardinality({1} \X D) = Cardinality(D)
      BY <2>3, RowCount
    <3> QED BY <2>4, <3>1, FS_EmptySet
  <2>6. file[f].ref = IF f = 1 THEN Cardinality(D) ELSE 0
    BY <1>7, <1>8 DEF D
  <2> QED BY <2>2, <2>3, <2>5, <2>6 DEF Holders
<1>11. PipesOK
  <2>1. Count(NoPipe) = 0
    BY <1>2, CountCases
  <2> QED BY <1>1, <1>2, <2>1, Sizes DEF PipesOK
<1> QED BY <1>3, <1>5, <1>6, <1>9, <1>10, <1>11 DEF FilesInv, FilesCounted

(* Every step keeps the invariant.                                          *)
LEMMA NextOK ==
  ASSUME FilesInv, [FilesNext]_fileVars
  PROVE  FilesInv'
<1>1. CASE UNCHANGED fileVars
  <2>1. FilesTypeOK'
    BY <1>1 DEF FilesInv, FilesTypeOK, fileVars
  <2> QED BY <1>1, <2>1, ResultStep DEF fileVars
<1>2. ASSUME NEW p \in Procs, KernelStep(p) PROVE FilesInv'
  BY <1>2, PipeNoneStep, PipeMadeStep, FileCloseStep, CloseDoneStep, PipeCloseStep, ReadSleepStep,
     PipeReadStep, PipeWriteStep DEF KernelStep
<1>3. ASSUME NEW p \in Procs, FilesCall(p) PROVE FilesInv'
  BY <1>3, SysPipeStep, SysOpenStep, ExitStep, SysDupStep, SysCloseStep, SysReadStep, SysWriteStep,
     ForkStep, KillStep, ReapStep DEF FilesCall
<1>4. ASSUME NEW p \in Procs, ReadFault(p) \/ WriteFault(p) PROVE FilesInv'
  BY <1>4, PipeReadStep, PipeWriteStep
<1> QED BY <1>1, <1>2, <1>3, <1>4 DEF FilesNext

(* In every state that any processes making any calls can reach.            *)
THEOREM Invariance == FilesSpec => []FilesInv
<1>1. FilesInit => FilesInv
  BY InitOK
<1>2. FilesInv /\ [FilesNext]_fileVars => FilesInv'
  BY NextOK
<1> QED BY <1>1, <1>2, PTL DEF FilesSpec

(* Type correctness.                                                        *)
THEOREM TypeCorrect == FilesSpec => []FilesTypeOK
<1>1. FilesInv => FilesTypeOK
  BY DEF FilesInv
<1> QED BY <1>1, Invariance, PTL

(* f->ref counts the descriptors and the calls that hold f, and an end of a *)
(* pipe is open as long as a file or a close under way stands for it        *)
(* (filealloc, filedup, fileclose; pipealloc, pipeclose; fork and exit).    *)
THEOREM ReferencesCounted == FilesSpec => []FilesCounted
<1>1. FilesInv => FilesCounted
  BY DEF FilesInv
<1> QED BY <1>1, Invariance, PTL

(* Nobody sleeps in piperead() or pipewrite() with something to do, but for *)
(* the readers of what a killed writer left.                                *)
THEOREM PipeWakeupsNotLost == FilesSpec => []NoLostPipeWakeup
<1>1. FilesInv => NoLostPipeWakeup
  BY DEF FilesInv
<1> QED BY <1>1, Invariance, PTL

-----------------------------------------------------------------------------
(* Pipes implement the bounded queues of AbstractPipe.                      *)
Queues == [i \in PipeIds |-> Contents(pipe[i])]

(* A pipe whose counters are equal has no bytes.                            *)
LEMMA EmptyContents ==
  ASSUME NEW b \in PipeType, Count(b) = 0
  PROVE  Contents(b) = <<>>
<1>1. Contents(b) \in Seq(Byte) /\ Len(Contents(b)) = 0
  BY ContentsIn
<1> HIDE DEF Contents
<1> QED BY <1>1, EmptySeq

(* A step that changes no pipe and no buffer.                               *)
LEMMA NothingMoves ==
  ASSUME \A i \in PipeIds : Contents(pipe'[i]) = Contents(pipe[i]), UNCHANGED <<out, in>>
  PROVE  UNCHANGED APipe!avars
<1>1. Queues' = Queues
  BY DEF Queues, Contents, Count
<1> QED BY <1>1 DEF APipe!avars, Queues


(* What pipe() and pipeclose() do to the queues.                            *)
LEMMA PipeMadeRefines ==
  ASSUME FilesInv, FilesInv', NEW p \in Procs, PipeMade(p)
  PROVE  UNCHANGED APipe!avars
<1>1. PICK i \in PipeIds :
        /\ ~pipe[i].live
        /\ pipe' = [pipe EXCEPT ![i] = [@ EXCEPT !.live = TRUE, !.readopen = TRUE, !.writeopen = TRUE,
                                                !.nread = 0, !.nwrite = 0]]
  BY DEF PipeMade
<1>2. UNCHANGED <<out, in>>
  BY DEF PipeMade
<1>3. pipe[i] \in PipeType /\ pipe'[i] \in PipeType
  BY DEF FilesInv, FilesTypeOK
<1>4. Empty(pipe[i]) /\ Empty(pipe'[i])
  BY <1>1, <1>3 DEF FilesInv, FilesTypeOK, PipesOK, Empty, PipeType
<1>5. Contents(pipe[i]) = <<>> /\ Contents(pipe'[i]) = <<>>
  BY <1>3, <1>4, CountCases, EmptyContents
<1>6. \A j \in PipeIds : j # i => pipe'[j] = pipe[j]
  BY <1>1 DEF FilesInv, FilesTypeOK
<1>7. \A j \in PipeIds : Contents(pipe'[j]) = Contents(pipe[j])
  BY <1>5, <1>6
<1> QED BY <1>2, <1>7, NothingMoves

(* pipeclose() of the second end throws the bytes away.                     *)
LEMMA PipeCloseRefines ==
  ASSUME FilesInv, FilesInv', NEW p \in Procs, PipeClose(p)
  PROVE  APipe!ANext \/ UNCHANGED APipe!avars
<1> DEFINE i == pclose[p].pipe
           b == IF pclose[p].writable THEN [pipe[i] EXCEPT !.writeopen = FALSE]
                                      ELSE [pipe[i] EXCEPT !.readopen = FALSE]
<1>0. /\ pclose[p] # NoEnd /\ pipe' = [pipe EXCEPT ![i] = IF b.readopen \/ b.writeopen THEN b ELSE NoPipe]
      /\ UNCHANGED <<out, in>>
  BY DEF PipeClose, callVars
<1>1. i \in PipeIds /\ pipe[i] \in PipeType /\ pipe'[i] \in PipeType
  BY <1>0 DEF FilesInv, FilesTypeOK
<1>2. /\ b.data = pipe[i].data /\ b.nread = pipe[i].nread /\ b.nwrite = pipe[i].nwrite
  BY <1>1 DEF PipeType
<1>3. Contents(b) = Contents(pipe[i])
  BY <1>2 DEF Contents, Count
<1> HIDE DEF i, b
<1>4. /\ \A j \in PipeIds : j # i => pipe'[j] = pipe[j]
      /\ pipe'[i] = b \/ pipe'[i] = NoPipe
  BY <1>0, <1>1 DEF FilesInv, FilesTypeOK
<1>5. CASE pipe'[i] = b
  <2>1. \A j \in PipeIds : Contents(pipe'[j]) = Contents(pipe[j])
    BY <1>3, <1>4, <1>5
  <2> QED BY <1>0, <2>1, NothingMoves
<1>6. CASE pipe'[i] = NoPipe
  <2>1. Contents(pipe'[i]) = <<>>
    <3>1. Empty(pipe'[i])
      BY <1>6 DEF Empty, NoPipe
    <3> QED BY <1>1, <3>1, CountCases, EmptyContents
  <2>2. Queues' = [Queues EXCEPT ![i] = <<>>]
    <3>1. Queues' = [j \in PipeIds |-> Contents(pipe'[j])]
      BY DEF Queues, Contents, Count
    <3>2. \A j \in PipeIds : Contents(pipe'[j]) = IF j = i THEN <<>> ELSE Contents(pipe[j])
      BY <1>4, <2>1
    <3> QED BY <1>1, <3>1, <3>2 DEF Queues
  <2>3. APipe!Discard(i)
    BY <1>0, <2>2 DEF APipe!Discard, Queues
  <2> QED BY <1>1, <2>3 DEF APipe!ANext
<1> QED BY <1>4, <1>5, <1>6

(* A read takes bytes from the front.                                       *)
LEMMA ReadEndRefines ==
  ASSUME FilesInv, NEW p \in Procs, pc[p] = "read", NEW k \in Nat, NEW n \in {k, k + 1},
         n <= Count(pipe[file[fcur[p]].pipe]), ReadEnd(p, k, n)
  PROVE  APipe!ANext
<1> DEFINE i == file[fcur[p]].pipe
           b == pipe[i]
           c == TakeBytes(b, n)
<1>0. pipe' = [pipe EXCEPT ![i] = c] /\ in' = [in EXCEPT ![p] = SubSeq(Contents(b), 1, k)] /\ out' = out
  BY DEF ReadEnd
<1>1. i \in PipeIds /\ Count(b) \in 0 .. PIPESIZE /\ b \in PipeType
  BY MyPipe
<1>2. n \in 0 .. Count(b) /\ Len(Contents(b)) = Count(b)
  BY <1>1, ContentsIn
<1>3. Contents(c) = SubSeq(Contents(b), n + 1, Len(Contents(b)))
  <2> HIDE DEF b
  <2> QED BY <1>1, <1>2, TakeCount
<1>4. \A j \in PipeIds : pipe'[j] = IF j = i THEN c ELSE pipe[j]
  <2>1. pipe \in [PipeIds -> PipeType]
    BY DEF FilesInv, FilesTypeOK
  <2> HIDE DEF i, c
  <2> QED BY <1>0, <1>1, <2>1
<1>5. Queues[i] = Contents(b)
  BY <1>1 DEF Queues
<1> HIDE DEF i, b, c
<1>6. Queues' = [Queues EXCEPT ![i] = SubSeq(Queues[i], n + 1, Len(Queues[i]))]
  <2>1. Queues' = [j \in PipeIds |-> Contents(pipe'[j])]
    BY DEF Queues, Contents, Count
  <2>2. \A j \in PipeIds : Contents(pipe'[j]) =
           IF j = i THEN SubSeq(Queues[i], n + 1, Len(Queues[i])) ELSE Contents(pipe[j])
    BY <1>3, <1>4, <1>5
  <2> QED BY <1>1, <2>1, <2>2 DEF Queues
<1>7. in' = [in EXCEPT ![p] = SubSeq(Queues[i], 1, k)]
  BY <1>0, <1>5
<1>8. CASE n = k
  <2>1. k \in 0 .. Len(Queues[i])
    BY <1>2, <1>5, <1>8
  <2>2. APipe!Get(p, i)
    BY <1>0, <1>6, <1>7, <1>8, <2>1 DEF APipe!Get, Queues
  <2> QED BY <1>1, <2>2 DEF APipe!ANext
<1>9. CASE n = k + 1
  <2>1. k \in 0 .. (Len(Queues[i]) - 1) /\ n + 1 = k + 2
    BY <1>1, <1>2, <1>5, <1>9
  <2>2. APipe!Lose(p, i)
    BY <1>0, <1>6, <1>7, <2>1 DEF APipe!Lose, Queues
  <2> QED BY <1>1, <2>2 DEF APipe!ANext
<1> QED BY <1>8, <1>9

(* A write puts bytes at the end, as many as there is room for.             *)
LEMMA WriteSomeRefines ==
  ASSUME FilesInv, NEW p \in Procs, pc[p] = "write", NEW k \in 0 .. Len(out[p]), k <= Room(p),
         NEW wake, NEW l, NEW r, WriteSome(p, k, wake, l, r)
  PROVE  APipe!ANext
<1> DEFINE i == file[fcur[p]].pipe
           b == pipe[i]
           s == SubSeq(out[p], 1, k)
           a == PutBytes(b, s)
           c == [a EXCEPT !.cut = ~wake /\ (a.cut \/ (l = "user" /\ k > 0))]
<1>0. /\ pipe' = [pipe EXCEPT ![i] = c] /\ in' = in
      /\ out' = [out EXCEPT ![p] = SubSeq(out[p], k + 1, Len(out[p]))]
  <2>1. pipe' = [pipe EXCEPT ![i] = c]
    BY DEF WriteSome
  <2>2. out' = [out EXCEPT ![p] = SubSeq(out[p], k + 1, Len(out[p]))] /\ in' = in
    BY DEF WriteSome
  <2> QED BY <2>1, <2>2
<1>1. i \in PipeIds /\ Count(b) \in 0 .. PIPESIZE /\ b \in PipeType
  BY MyPipe
<1>2. out[p] \in Seq(Byte) /\ Len(out[p]) \in Nat /\ k \in Nat
  BY LenProperties DEF FilesInv, FilesTypeOK
<1>3. s \in Seq(Byte) /\ Len(s) = k
  <2>1. \A j \in 1 .. Len(out[p]) : out[p][j] \in Byte
    BY <1>2, ElementOfSeq
  <2>2. s \in Seq(Byte) /\ Len(s) = IF 1 <= k THEN k - 1 + 1 ELSE 0
    BY <1>2, <2>1, SubSeqProperties
  <2> HIDE DEF s
  <2> QED BY <1>2, <2>2
<1>4. k <= PIPESIZE - Count(b)
  BY DEF Room
<1>5. a \in PipeType /\ Contents(a) = Contents(b) \o s
  <2> HIDE DEF b, s
  <2> QED BY <1>1, <1>3, <1>4, PutContents
<1>6. Contents(c) = Contents(a)
  <2> HIDE DEF a
  <2>1. c.data = a.data /\ c.nread = a.nread /\ c.nwrite = a.nwrite
    BY <1>5 DEF PipeType
  <2> HIDE DEF c
  <2> QED BY <2>1 DEF Contents, Count
<1>7. \A j \in PipeIds : pipe'[j] = IF j = i THEN c ELSE pipe[j]
  <2>1. pipe \in [PipeIds -> PipeType]
    BY DEF FilesInv, FilesTypeOK
  <2> HIDE DEF i, c
  <2> QED BY <1>0, <1>1, <2>1
<1>8. Queues[i] = Contents(b) /\ Len(Queues[i]) + k <= PIPESIZE
  <2>1. Queues[i] = Contents(b) /\ Len(Contents(b)) = Count(b)
    BY <1>1, ContentsIn DEF Queues
  <2> HIDE DEF b
  <2> QED BY <1>1, <1>2, <1>4, <2>1, Sizes
<1> HIDE DEF i, b, a, c
<1>9. Queues' = [Queues EXCEPT ![i] = Queues[i] \o s]
  <2>1. Queues' = [j \in PipeIds |-> Contents(pipe'[j])]
    BY DEF Queues, Contents, Count
  <2>2. \A j \in PipeIds : Contents(pipe'[j]) = IF j = i THEN Queues[i] \o s ELSE Contents(pipe[j])
    BY <1>5, <1>6, <1>7, <1>8
  <2> HIDE DEF s
  <2> QED BY <1>1, <2>1, <2>2 DEF Queues
<1>10. APipe!Put(p, i)
  BY <1>0, <1>8, <1>9 DEF APipe!Put, Queues
<1> QED BY <1>1, <1>10 DEF APipe!ANext

(* What the steps of the kernel do to the queues.                           *)
LEMMA KernelRefines ==
  ASSUME FilesInv, FilesInv', NEW p \in Procs, KernelStep(p) \/ ReadFault(p) \/ WriteFault(p)
  PROVE  APipe!ANext \/ UNCHANGED APipe!avars
<1>1. CASE PipeNone(p) \/ FileClose(p) \/ CloseDone(p) \/ ReadSleep(p)
  <2>1. UNCHANGED <<pipe, out, in>>
    BY <1>1 DEF PipeNone, FileClose, CloseDone, ReadSleep, callVars
  <2>2. \A i \in PipeIds : Contents(pipe'[i]) = Contents(pipe[i])
    BY <2>1
  <2> QED BY <2>1, <2>2, NothingMoves
<1>2. CASE PipeMade(p)
  BY <1>2, PipeMadeRefines
<1>3. CASE PipeClose(p)
  BY <1>3, PipeCloseRefines
<1>4. CASE PipeRead(p) \/ ReadFault(p)
  <2>1. pc[p] = "read"
    BY <1>4 DEF PipeRead, ReadFault
  <2>2. Available(p) \in Nat /\ Available(p) <= Count(pipe[file[fcur[p]].pipe])
    BY <2>1, AvailableIn
  <2>3. CASE PipeRead(p)
    <3> DEFINE k == Available(p)
    <3>1. ReadEnd(p, k, k) /\ k \in Nat /\ k <= Count(pipe[file[fcur[p]].pipe])
      BY <2>2, <2>3 DEF PipeRead
    <3> HIDE DEF k
    <3>2. k \in {k, k + 1}
      OBVIOUS
    <3> QED BY <2>1, <3>1, <3>2, ReadEndRefines
  <2>4. CASE ReadFault(p)
    <3>1. PICK k \in 0 .. (Available(p) - 1) : ReadEnd(p, k, k + 1)
      BY <2>4 DEF ReadFault
    <3>2. Count(pipe[file[fcur[p]].pipe]) \in Nat
      BY <2>1, MyPipe
    <3> DEFINE n == k + 1
    <3>3. k \in Nat /\ n \in {k, k + 1} /\ n <= Count(pipe[file[fcur[p]].pipe]) /\ ReadEnd(p, k, n)
      BY <2>2, <3>1, <3>2
    <3> HIDE DEF n
    <3> QED BY <2>1, <3>3, ReadEndRefines
  <2> QED BY <1>4, <2>3, <2>4
<1>5. CASE PipeWrite(p) \/ WriteSleep(p) \/ WriteBroken(p) \/ WriteFault(p)
  <2>1. PICK k \in 0 .. Len(out[p]), wake \in BOOLEAN, l \in {"user", "wsleep"}, r \in Int :
          WriteGoes(p, k, wake, l, r)
    BY <1>5, WriteCases
  <2>2. pc[p] = "write"
    BY <1>5, WriteCases
  <2>3. k <= Room(p) /\ WriteSome(p, k, wake, l, r)
    BY <2>1 DEF WriteGoes
  <2> QED BY <2>2, <2>3, WriteSomeRefines
<1> QED BY <1>1, <1>2, <1>3, <1>4, <1>5 DEF KernelStep

(* What the calls do to them: at most a new buffer, to read or to write.    *)
LEMMA CallRefines ==
  ASSUME NEW p \in Procs, FilesCall(p)
  PROVE  APipe!ANext \/ UNCHANGED APipe!avars
<1>1. UNCHANGED pipe
  BY DEF FilesCall, SysPipe, SysOpen, Exit, SysDup, SysClose, SysRead, SysWrite, Fork, Kill, Reap
<1>2. UNCHANGED Queues
  <2>1. Queues' = [i \in PipeIds |-> Contents(pipe'[i])]
    BY DEF Queues, Contents, Count
  <2> QED BY <1>1, <2>1 DEF Queues
<1>3. \/ UNCHANGED <<out, in>>
      \/ in' = [in EXCEPT ![p] = <<>>] /\ UNCHANGED out
      \/ UNCHANGED in /\ \E s \in Seq(Byte) : out' = [out EXCEPT ![p] = s]
  <2>1. CASE \E fd \in Fds, n \in Nat : SysRead(p, fd, n)
    BY <2>1 DEF SysRead
  <2>2. CASE \E fd \in Fds, s \in Seq(Byte) : SysWrite(p, fd, s)
    BY <2>2 DEF SysWrite
  <2>3. CASE \/ SysPipe(p) \/ SysOpen(p) \/ Exit(p)
             \/ \E fd \in Fds : SysDup(p, fd) \/ SysClose(p, fd)
             \/ \E q \in Procs : Fork(p, q) \/ Kill(p, q) \/ Reap(q)
    BY <2>3 DEF SysPipe, SysOpen, Exit, SysDup, SysClose, Fork, Kill, Reap, callVars
  <2> QED BY <2>1, <2>2, <2>3 DEF FilesCall
<1>4. CASE UNCHANGED <<out, in>>
  BY <1>2, <1>4 DEF APipe!avars, Queues
<1>5. CASE in' = [in EXCEPT ![p] = <<>>] /\ UNCHANGED out
  <2>1. APipe!Start(p)
    BY <1>2, <1>5 DEF APipe!Start, Queues
  <2> QED BY <2>1 DEF APipe!ANext
<1>6. CASE UNCHANGED in /\ \E s \in Seq(Byte) : out' = [out EXCEPT ![p] = s]
  <2>1. PICK s \in Seq(Byte) : out' = [out EXCEPT ![p] = s]
    BY <1>6
  <2>2. out' = [out EXCEPT ![p] = out'[p]]
    BY <2>1
  <2>3. APipe!Start(p)
    BY <1>2, <1>6, <2>2 DEF APipe!Start, Queues
  <2> QED BY <2>3 DEF APipe!ANext
<1> QED BY <1>3, <1>4, <1>5, <1>6

(* A pipe is a queue of bytes, through every interleaving of readers,       *)
(* writers, closes and kills, with the ring wrapping and the counters       *)
(* overflowing (piperead, pipewrite, pipealloc, pipeclose).                 *)
THEOREM PipesAreQueues == FilesSpec => PipeIsQueue
<1>1. FilesInit => APipe!AInit
  <2> SUFFICES ASSUME FilesInit PROVE APipe!AInit
    OBVIOUS
  <2>1. FilesInv
    BY InitOK
  <2>2. \A i \in PipeIds : pipe[i] = NoPipe /\ pipe[i] \in PipeType
    BY <2>1 DEF FilesInit, FilesInv, FilesTypeOK
  <2>3. \A i \in PipeIds : Contents(pipe[i]) = <<>>
    <3> SUFFICES ASSUME NEW i \in PipeIds PROVE Contents(pipe[i]) = <<>>
      OBVIOUS
    <3>1. Empty(pipe[i])
      BY <2>2 DEF Empty, NoPipe
    <3> QED BY <2>2, <3>1, CountCases, EmptyContents
  <2>4. out = [q \in Procs |-> <<>>] /\ in = [q \in Procs |-> <<>>]
    BY DEF FilesInit
  <2> QED BY <2>3, <2>4 DEF APipe!AInit
<1>2. FilesInv /\ FilesInv' /\ [FilesNext]_fileVars => [APipe!ANext]_(APipe!avars)
  <2> SUFFICES ASSUME FilesInv, FilesInv', [FilesNext]_fileVars
               PROVE  APipe!ANext \/ UNCHANGED APipe!avars
    OBVIOUS
  <2>1. CASE UNCHANGED fileVars
    <3>1. UNCHANGED <<pipe, out, in>>
      BY <2>1 DEF fileVars
    <3> QED BY <3>1, NothingMoves
  <2>2. CASE FilesNext
    BY <2>2, KernelRefines, CallRefines DEF FilesNext
  <2> QED BY <2>1, <2>2
<1> QED BY <1>1, <1>2, Invariance, PTL DEF FilesSpec, PipeIsQueue, APipe!ASpec
=====================================
