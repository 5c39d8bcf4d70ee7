------------------------------- MODULE LogProofs -------------------------------
(***************************************************************************)
(* Proofs about module Log, for every number of processes, set of blocks    *)
(* and size of the log: the inductive invariant IndInv, that the log        *)
(* implements AbstractDisk, and that with a log as large as the one mkfs    *)
(* makes no call meets the panic of log_write().                            *)
(***************************************************************************)
EXTENDS Log, FiniteSetTheorems, SequenceTheorems, TLAPS

(* What the proofs need to know of the constants.                           *)
LEMMA Basic ==
  /\ NPROC \in Nat \ {0} /\ LOGSIZE \in Nat \ {0} /\ MAXOPBLOCKS \in Nat \ {0}
  /\ NLOG \in Nat \ {0} /\ OPBLOCKS \in Nat /\ OPBLOCKS <= MAXOPBLOCKS
  /\ Zero \in Vals /\ New \in Vals /\ Torn \notin Vals /\ NoBuf \notin Vals /\ NoBuf # Torn
  /\ FIRST \in Procs /\ None \notin Procs
  /\ MaxOps \in Nat /\ MaxCrashes \in Nat
BY LogAssumption DEF LogAssumption, Procs, FIRST, None

(* The table of processes is finite.                                        *)
LEMMA CountedFinite == IsFiniteSet(Procs) /\ IsFiniteSet(Counted)
<1>1. IsFiniteSet(Procs)
  BY Basic, FS_Interval DEF Procs
<1> QED BY <1>1, FS_Subset DEF Counted

(* The log in memory and the header as functions.                           *)
LEMMA SeqFacts ==
  ASSUME NEW s \in Seq(Blocks)
  PROVE  /\ Len(s) \in Nat /\ DOMAIN s = 1 .. Len(s)
         /\ \A i \in DOMAIN s : s[i] \in Blocks /\ i \in Nat /\ 1 <= i /\ i <= Len(s)
         /\ s = <<>> <=> DOMAIN s = {}
         /\ s = <<>> <=> Len(s) = 0
<1>1. /\ Len(s) \in Nat /\ DOMAIN s = 1 .. Len(s) /\ s \in [1 .. Len(s) -> Blocks]
  BY LenProperties
<1>2. s = <<>> <=> Len(s) = 0
  BY EmptySeq
<1>3. Len(s) # 0 => 1 \in DOMAIN s
  BY <1>1
<1> QED BY <1>1, <1>2, <1>3

LEMMA LogFacts ==
  ASSUME TypeOK
  PROVE  /\ Len(lh) \in Nat /\ DOMAIN lh = 1 .. Len(lh)
         /\ \A i \in DOMAIN lh : lh[i] \in Blocks /\ i \in Nat /\ 1 <= i /\ i <= Len(lh)
         /\ lh = <<>> <=> DOMAIN lh = {}
         /\ Len(header) \in Nat /\ DOMAIN header = 1 .. Len(header)
         /\ \A i \in DOMAIN header : header[i] \in Blocks /\ i \in Nat /\ 1 <= i /\ i <= Len(header)
         /\ header = <<>> <=> DOMAIN header = {}
<1>1. lh \in Seq(Blocks) /\ header \in Seq(Blocks)
  BY DEF TypeOK
<1> QED BY <1>1, SeqFacts

(* A process more among those that are counted.                             *)
LEMMA CountedGrows ==
  ASSUME NEW p \in Procs, p \notin Counted, Counted' = Counted \cup {p},
         outstanding = Cardinality(Counted), outstanding' = outstanding + 1
  PROVE  outstanding' = Cardinality(Counted')
BY CountedFinite, FS_AddElement

(* A process less.                                                          *)
LEMMA CountedShrinks ==
  ASSUME NEW p \in Procs, p \in Counted, Counted' = Counted \ {p},
         outstanding = Cardinality(Counted), outstanding' = outstanding - 1
  PROVE  outstanding' = Cardinality(Counted')
BY CountedFinite, FS_RemoveElement

(* Somebody is counted exactly when the number is not 0.                    *)
LEMMA CountedSome ==
  ASSUME outstanding = Cardinality(Counted)
  PROVE  /\ outstanding \in Nat
         /\ outstanding = 0 <=> Counted = {}
         /\ \A p \in Counted : outstanding = 1 => Counted = {p}
<1>1. outstanding \in Nat /\ (outstanding = 0 <=> Counted = {})
  BY CountedFinite, FS_CardinalityType, FS_EmptySet
<1>2. outstanding = 1 => \E q : Counted = {q}
  BY CountedFinite, FS_Singleton
<1> QED BY <1>1, <1>2

USE Basic DEF LogLabels, RecoveryLabels, CommitLabels, Commits, Goto, disk


-----------------------------------------------------------------------------
(* The disk at boot: the header of a commit that a power failure cut short. *)
LEMMA PendingHeader ==
  /\ SetToSeq(Pending) \in Seq(Blocks)
  /\ Len(SetToSeq(Pending)) = Cardinality(Pending)
  /\ \A i, j \in DOMAIN SetToSeq(Pending) :
       SetToSeq(Pending)[i] = SetToSeq(Pending)[j] => i = j
<1> DEFINE n == Cardinality(Pending)
           s == SetToSeq(Pending)
<1>1. IsFiniteSet(Pending)
  BY LogAssumption, FS_Subset DEF LogAssumption
<1>2. n \in Nat /\ ExistsBijection(1 .. n, Pending)
  BY <1>1, FS_CardinalityType
<1>3. PICK f : f \in Bijection(1 .. n, Pending)
  BY <1>2 DEF ExistsBijection
<1>4. f \in [1 .. n -> Pending] /\ IsInjective(f)
  BY <1>3 DEF Bijection, Injection
<1>5. s \in [1 .. n -> Pending] /\ IsInjective(s)
  BY <1>4 DEF SetToSeq
<1>6. s \in Seq(Pending) /\ Len(s) = n
  BY <1>2, <1>5
<1>7. s \in Seq(Blocks)
  BY <1>6, LogAssumption, SeqMonotonic DEF LogAssumption
<1> QED BY <1>5, <1>6, <1>7 DEF IsInjective

(* The machine boots.                                                       *)
LEMMA InitOK == Init => IndInv
<1> SUFFICES ASSUME Init PROVE IndInv
  OBVIOUS
<1> USE SeqFacts DEF Init
<1>0. header \in Seq(Blocks) /\ Len(header) <= LOGSIZE /\ Counted = {}
  BY PendingHeader, LogAssumption DEF LogAssumption, Counted
<1>1. TypeOK
  BY <1>0, EmptySeq DEF TypeOK
<1>2. PhasesOK
  BY <1>0, FS_EmptySet DEF PhasesOK, Recovering
<1>3. HoldersOK /\ PinsOK /\ CleanBuffers /\ CopiesOK
  BY DEF HoldersOK, PinsOK, CleanBuffers, CopiesOK
<1>4. LogOK
  BY <1>0, PendingHeader DEF LogOK
<1>5. HeaderOK
  BY DEF HeaderOK
<1>6. DiskWhole
  BY <1>0 DEF DiskWhole, InHeader
<1> QED BY <1>1, <1>2, <1>3, <1>4, <1>5, <1>6 DEF IndInv

(* While one process commits there is no call, no recovery and no locked    *)
(* buffer, and the rest of the processes wait.                              *)
LEMMA CommitAlone ==
  ASSUME IndInv, NEW p \in Procs, Commits(p)
  PROVE  /\ committing /\ outstanding = 0 /\ Counted = {} /\ ~Recovering
         /\ \A q \in Procs \ {p} : pc[q] \in {"idle", "begin", "begin_sleep"}
         /\ \A b \in Blocks : holder[b] = None
<1> USE DEF IndInv, TypeOK
<1>1. committing /\ Counted = {} /\ \A q \in Procs : Commits(q) => q = p
  BY DEF PhasesOK
<1>2. outstanding = 0
  BY <1>1, FS_EmptySet DEF PhasesOK
<1>3. ~Recovering
  BY DEF PhasesOK
<1>4. \A q \in Procs : pc[q] # "off" /\ pc[q] \notin RecoveryLabels
  BY <1>3 DEF PhasesOK, Recovering
<1>5. \A q \in Procs : pc[q] \notin {"op", "log_write", "panic"}
  BY <1>1 DEF Counted
<1>6. \A q \in Procs \ {p} : pc[q] \in {"idle", "begin", "begin_sleep"}
  BY <1>1, <1>4, <1>5
<1>7. \A b \in Blocks : holder[b] = None
  BY <1>5 DEF HoldersOK
<1> QED BY <1>1, <1>2, <1>3, <1>6, <1>7

(* Whoever recovers the disk is the first process, and alone.               *)
LEMMA RecoverAlone ==
  ASSUME IndInv, NEW p \in Procs, pc[p] \in RecoveryLabels
  PROVE  /\ p = FIRST /\ Recovering
         /\ ~committing /\ outstanding = 0 /\ Counted = {}
         /\ \A q \in Procs \ {p} : pc[q] = "off"
         /\ \A b \in Blocks : holder[b] = None
         /\ pinned = {}
<1> USE DEF IndInv, TypeOK
<1>1. Recovering /\ p = FIRST /\ \A q \in Procs \ {p} : pc[q] = "off"
  BY DEF PhasesOK, Recovering
<1>2. Counted = {}
  BY <1>1 DEF Counted
<1>3. ~committing
  BY <1>1 DEF PhasesOK
<1>4. outstanding = 0
  BY <1>2, FS_EmptySet DEF PhasesOK
<1>5. \A b \in Blocks : holder[b] = None
  BY <1>1 DEF HoldersOK
<1>6. pinned = {}
  BY <1>1 DEF PinsOK, Logs
<1> QED BY <1>1, <1>2, <1>3, <1>4, <1>5, <1>6

(* A process in a file system call runs when the disk has been recovered.   *)
LEMMA CallRuns ==
  ASSUME IndInv, NEW p \in Procs, ~Commits(p), pc[p] \notin RecoveryLabels, pc[p] # "off"
  PROVE  ~Recovering /\ \A q \in Procs : pc[q] # "off"
BY DEF IndInv, TypeOK, PhasesOK, Recovering

(* The copies do not depend on what else happens.                           *)
LEMMA CopiesKept ==
  ASSUME CopiesOK, home' = home, logged' = logged, lh' = lh, tail' = tail,
         \A i \in DOMAIN lh : cache'[lh[i]] = cache[lh[i]] \/ lh[i] \notin pinned \/ Counted # {},
         PhasesOK, PinsOK, LogOK, TypeOK,
         \A q \in Procs : pc'[q] = pc[q] \/ pc'[q] \notin CommitLabels \cup RecoveryLabels
  PROVE  CopiesOK'
<1> SUFFICES ASSUME NEW q \in Procs, NEW i \in DOMAIN lh
             PROVE  /\ pc'[q] = "write_log" /\ i < tail[q] => logged[i] = cache'[lh[i]]
                    /\ pc'[q] = "write_head" => logged[i] = cache'[lh[i]]
                    /\ pc'[q] = "install" /\ tail[q] <= i => logged[i] = cache'[lh[i]]
                    /\ pc'[q] \in {"install", "recover"} /\ i < tail[q] => home[lh[i]] = logged[i]
                    /\ pc'[q] \in {"erase", "recover_erase"} => home[lh[i]] = logged[i]
  BY DEF CopiesOK
<1>1. CASE pc'[q] # pc[q]
  BY <1>1
<1>2. CASE pc'[q] = pc[q]
  <2>1. Commits(q) => Counted = {} /\ \A r \in Procs : Commits(r) => r = q
    BY DEF PhasesOK
  <2>2. ASSUME pc[q] \in {"write_log", "write_head"} \/ (pc[q] = "install" /\ tail[q] <= i)
        PROVE  lh[i] \in pinned
    <3>1. ~Recovering
      BY <2>2 DEF PhasesOK, Recovering
    <3>2. \A r \in Procs : r # q => pc[r] \notin {"install", "erase"}
      BY <2>1, <2>2
    <3> QED BY <2>2, <3>1, <3>2 DEF PinsOK
  <2>3. pc[q] \in {"write_log", "write_head"} \/ (pc[q] = "install" /\ tail[q] <= i) =>
          cache'[lh[i]] = cache[lh[i]]
    BY <2>1, <2>2
  <2> QED BY <1>2, <2>3 DEF CopiesOK
<1> QED BY <1>1, <1>2

(* The pins do not depend on calls that only come and go.                   *)
LEMMA PinsKept ==
  ASSUME PinsOK, TypeOK, lh' = lh, pinned' = pinned, tail' = tail, Recovering' <=> Recovering,
         \A b \in pinned : cache'[b] = cache[b] \/ cache'[b] # NoBuf,
         \A q \in Procs : \/ pc'[q] = pc[q]
                          \/ {pc[q], pc'[q]} \cap {"install", "erase"} = {}
  PROVE  PinsOK'
<1>1. \A b \in pinned' : Logs(b)' /\ cache'[b] # NoBuf
  BY DEF PinsOK, Logs
<1>2. \A q \in Procs : /\ pc'[q] = "install" <=> pc[q] = "install"
                       /\ pc'[q] = "erase" <=> pc[q] = "erase"
  OBVIOUS
<1> HIDE DEF Recovering
<1>3. \A i \in DOMAIN lh :
        lh[i] \in pinned <=> /\ ~Recovering'
                             /\ \A q \in Procs : /\ pc'[q] # "erase"
                                                 /\ pc'[q] = "install" => tail[q] <= i
  BY <1>2 DEF PinsOK
<1> QED BY <1>1, <1>3 DEF PinsOK

(* log_write() appends the block unless it is in the log.                   *)
LEMMA LogGrows ==
  ASSUME TypeOK, NEW b \in Blocks, lh' = IF Logs(b) THEN lh ELSE Append(lh, b)
  PROVE  /\ lh' \in Seq(Blocks) /\ lh' # <<>>
         /\ Len(lh') = IF Logs(b) THEN Len(lh) ELSE Len(lh) + 1
         /\ DOMAIN lh' = 1 .. Len(lh')
         /\ \A i \in DOMAIN lh : i \in DOMAIN lh' /\ lh'[i] = lh[i]
         /\ \A i \in DOMAIN lh' : i \in DOMAIN lh \/ (lh'[i] = b /\ i = Len(lh) + 1 /\ ~Logs(b))
         /\ \E i \in DOMAIN lh' : lh'[i] = b
<1>1. lh \in Seq(Blocks)
  BY DEF TypeOK
<1>2. CASE Logs(b)
  BY <1>1, <1>2, LogFacts DEF Logs
<1>3. CASE ~Logs(b)
  <2>1. lh' = Append(lh, b)
    BY <1>3
  <2>2. /\ Append(lh, b) \in Seq(Blocks)
        /\ Len(Append(lh, b)) = Len(lh) + 1
        /\ \A i \in 1 .. Len(lh) : Append(lh, b)[i] = lh[i]
        /\ Append(lh, b)[Len(lh) + 1] = b
    BY <1>1, AppendProperties
  <2>3. lh' \in Seq(Blocks) /\ Len(lh') = Len(lh) + 1 /\ Len(lh) \in Nat
    BY <2>1, <2>2, LogFacts
  <2>4. DOMAIN lh' = 1 .. Len(lh) + 1 /\ DOMAIN lh = 1 .. Len(lh)
    BY <2>3, LenProperties, LogFacts
  <2>5. Len(lh) + 1 \in DOMAIN lh' /\ lh' # <<>>
    BY <2>3, <2>4, EmptySeq
  <2> QED BY <1>3, <2>1, <2>2, <2>3, <2>4, <2>5
<1> QED BY <1>2, <1>3

(* A commit goes on: nobody else commits, calls or recovers.                *)
LEMMA PhasesInCommit ==
  ASSUME NEW p \in Procs, committing', outstanding' = 0, Counted' = {}, ~Recovering',
         pc'[p] \in CommitLabels, \A q \in Procs : q # p => pc'[q] \notin CommitLabels,
         \A q \in Procs : pc'[q] # "off"
  PROVE  PhasesOK'
BY FS_EmptySet DEF PhasesOK

(* Nobody commits or recovers.                                              *)
LEMMA PhasesNoCommit ==
  ASSUME outstanding' = Cardinality(Counted'), ~committing', ~Recovering',
         \A q \in Procs : pc'[q] \notin CommitLabels \cup {"off"}
  PROVE  PhasesOK'
BY DEF PhasesOK

(* Who has which buffer locked does not change.                             *)
LEMMA HoldersKept ==
  ASSUME HoldersOK, TypeOK, holder' = holder, written' = written,
         \A b \in Blocks : holder[b] # None =>
           /\ pc'[holder[b]] = pc[holder[b]]
           /\ cache[b] # NoBuf => cache'[b] # NoBuf
  PROVE  HoldersOK'
BY DEF HoldersOK, TypeOK

(* No buffer is locked.                                                     *)
LEMMA NoHolders ==
  ASSUME \A b \in Blocks : holder'[b] = None
  PROVE  HoldersOK'
BY DEF HoldersOK

(* A file system call.                                                      *)
LEMMA CallStep ==
  ASSUME IndInv, NEW p \in Procs, Call(p)
  PROVE  IndInv'
<1> USE DEF IndInv, TypeOK, Call
<1>0. /\ Counted' = Counted /\ (Recovering' <=> Recovering)
      /\ \A q \in Procs : pc'[q] = IF q = p THEN "begin" ELSE pc[q]
  BY DEF Counted, Recovering
<1>1. TypeOK'
  BY <1>0, LogFacts
<1>2. PhasesOK'
  BY <1>0, LogFacts DEF PhasesOK, Counted, Recovering
<1>3. HoldersOK'
  BY <1>0, LogFacts DEF HoldersOK
<1>4. LogOK'
  BY <1>0, LogFacts DEF LogOK, PhasesOK, Counted, Recovering
<1>5. HeaderOK'
  BY <1>0, LogFacts DEF HeaderOK, PhasesOK, Recovering
<1>6. PinsOK'
  BY <1>0, PinsKept
<1>7. DiskWhole'
  BY <1>0, LogFacts DEF DiskWhole, HeaderOK, LogOK, InHeader
<1>8. CopiesOK'
  BY <1>0, LogFacts DEF CopiesOK, LogOK, HeaderOK
<1>9. CleanBuffers'
  BY <1>0, LogFacts DEF CleanBuffers
<1> QED BY <1>1, <1>2, <1>3, <1>4, <1>5, <1>6, <1>7, <1>8, <1>9 DEF IndInv

(* begin_op().                                                              *)
LEMMA BeginOpStep ==
  ASSUME IndInv, NEW p \in Procs, BeginOp(p)
  PROVE  IndInv'
<1> USE DEF IndInv, TypeOK, BeginOp, NoRoom
<1>1. CASE committing \/ NoRoom
  <2> USE <1>1
  <2>0. /\ Counted' = Counted /\ (Recovering' <=> Recovering)
        /\ \A q \in Procs : pc'[q] = IF q = p THEN "begin_sleep" ELSE pc[q]
    BY DEF Counted, Recovering
  <2>1. TypeOK'
    BY <2>0, LogFacts
  <2>2. PhasesOK'
    BY <2>0, LogFacts DEF PhasesOK, Counted, Recovering
  <2>3. HoldersOK'
    BY DEF HoldersOK
  <2>4. LogOK'
    BY <2>0, LogFacts DEF LogOK, PhasesOK, Counted, Recovering
  <2>5. HeaderOK'
    BY <2>0, LogFacts DEF HeaderOK, PhasesOK, Recovering
  <2>6. PinsOK'
    BY <2>0, PinsKept
  <2>7. DiskWhole'
    BY <2>0, LogFacts DEF DiskWhole, HeaderOK, LogOK, InHeader
  <2>8. CopiesOK'
    BY <2>0, LogFacts DEF CopiesOK, LogOK, HeaderOK
  <2>9. CleanBuffers'
    BY <2>0, LogFacts DEF CleanBuffers
  <2> QED BY <2>1, <2>2, <2>3, <2>4, <2>5, <2>6, <2>7, <2>8, <2>9 DEF IndInv
<1>2. CASE ~(committing \/ NoRoom)
  <2> USE <1>2
  <2>0. /\ Counted' = Counted \cup {p} /\ p \notin Counted /\ ~Recovering /\ ~Recovering'
        /\ \A q \in Procs : ~Commits(q) /\ pc'[q] = IF q = p THEN "op" ELSE pc[q]
    BY SMTT(30), CallRuns DEF Counted, Recovering, PhasesOK
  <2>1. TypeOK'
    BY <2>0, LogFacts
  <2>2. PhasesOK'
    <3>1. outstanding' = Cardinality(Counted')
      BY <2>0, CountedGrows DEF PhasesOK
    <3> QED BY <2>0, <3>1 DEF PhasesOK
  <2>3. HoldersOK'
    BY DEF HoldersOK
  <2>4. LogOK'
    BY <2>0, LogFacts DEF LogOK, PhasesOK, Counted, Recovering
  <2>5. HeaderOK'
    BY <2>0, LogFacts DEF HeaderOK, PhasesOK, Recovering
  <2>6. PinsOK'
    <3>1. \A q \in Procs : pc'[q] = pc[q] \/ {pc[q], pc'[q]} \cap {"install", "erase"} = {}
      BY <2>0
    <3>2. TypeOK /\ PinsOK /\ lh' = lh /\ pinned' = pinned /\ tail' = tail /\ cache' = cache
      OBVIOUS
    <3> QED BY <2>0, <3>1, <3>2, PinsKept
  <2>7. DiskWhole'
    BY <2>0, LogFacts DEF DiskWhole, HeaderOK, LogOK, InHeader
  <2>8. CopiesOK'
    BY <2>0, LogFacts DEF CopiesOK, LogOK, HeaderOK
  <2>9. CleanBuffers'
    BY <2>0, LogFacts DEF CleanBuffers
  <2> QED BY <2>1, <2>2, <2>3, <2>4, <2>5, <2>6, <2>7, <2>8, <2>9 DEF IndInv
<1> QED BY <1>1, <1>2

(* A call modifies a buffer.                                                *)
LEMMA ModifyStep ==
  ASSUME IndInv, NEW p \in Procs, NEW b \in Blocks, NEW v \in Vals, Modify(p, b, v)
  PROVE  IndInv'
<1> USE DEF IndInv, TypeOK, Modify
<1>0. /\ Counted' = Counted /\ p \in Counted /\ (Recovering' <=> Recovering)
      /\ \A q \in Procs : pc'[q] = IF q = p THEN "log_write" ELSE pc[q]
  BY DEF Counted, Recovering
<1>1. TypeOK'
  BY <1>0, LogFacts
<1>2. PhasesOK'
  BY <1>0, LogFacts DEF PhasesOK, Counted, Recovering
<1>3. HoldersOK'
  <2>1. \A c \in Blocks : holder[c] # p
    BY DEF HoldersOK
  <2>2. \A c \in Blocks : holder'[c] = IF c = b THEN p ELSE holder[c]
    OBVIOUS
  <2>3. \A q \in Procs : q # p => pc'[q] = pc[q] /\ written'[q] = written[q]
    BY <1>0
  <2>4. b \in written'[p] /\ cache'[b] # NoBuf /\ pc'[p] = "log_write"
    BY <1>0
  <2>5. \A c \in Blocks : c # b => cache'[c] = cache[c]
    OBVIOUS
  <2> SUFFICES ASSUME NEW c \in Blocks, holder'[c] # None
               PROVE  /\ pc'[holder'[c]] \in {"log_write", "panic"}
                      /\ c \in written'[holder'[c]]
                      /\ cache'[c] # NoBuf
                      /\ \A d \in Blocks : holder'[d] = holder'[c] => d = c
    BY DEF HoldersOK
  <2>6. CASE c = b
    BY <2>1, <2>2, <2>4, <2>6
  <2>7. CASE c # b
    <3>1. holder'[c] = holder[c] /\ holder[c] \in Procs /\ holder[c] # p
      BY <2>1, <2>2, <2>7
    <3> QED BY <2>1, <2>2, <2>3, <2>5, <2>7, <3>1 DEF HoldersOK
  <2> QED BY <2>6, <2>7
<1>4. LogOK'
  BY <1>0, LogFacts DEF LogOK, PhasesOK, Counted, Recovering
<1>5. HeaderOK'
  BY <1>0, LogFacts DEF HeaderOK, PhasesOK, Recovering
<1>6. PinsOK'
  BY <1>0, PinsKept
<1>7. DiskWhole'
  BY <1>0, LogFacts DEF DiskWhole, HeaderOK, LogOK, InHeader
<1>8. CopiesOK'
  <2>1. Counted # {} /\ PhasesOK /\ PinsOK /\ LogOK /\ TypeOK /\ CopiesOK
    BY <1>0
  <2>2. \A q \in Procs : pc'[q] = pc[q] \/ pc'[q] \notin CommitLabels \cup RecoveryLabels
    BY <1>0
  <2>3. home' = home /\ logged' = logged /\ lh' = lh /\ tail' = tail
    OBVIOUS
  <2> QED BY <2>1, <2>2, <2>3, CopiesKept
<1>9. CleanBuffers'
  BY <1>0, LogFacts DEF CleanBuffers
<1> QED BY <1>1, <1>2, <1>3, <1>4, <1>5, <1>6, <1>7, <1>8, <1>9 DEF IndInv

(* log_write().                                                             *)
LEMMA LogWriteStep ==
  ASSUME IndInv, NEW p \in Procs, NEW b \in Blocks, LogWrite(p, b)
  PROVE  IndInv'
<1> USE DEF IndInv, TypeOK, LogWrite, TooBig
<1>a. p \in Counted /\ ~committing /\ ~Recovering /\ \A q \in Procs : ~Commits(q)
  BY CallRuns DEF Counted, PhasesOK
<1>1. CASE TooBig \/ outstanding < 1
  <2> USE <1>1
  <2>0. /\ Counted' = Counted /\ ~Recovering' /\ committing' = committing
        /\ \A q \in Procs : pc'[q] = IF q = p THEN "panic" ELSE pc[q]
    BY <1>a DEF Counted, Recovering
  <2>1. TypeOK'
    BY <2>0, LogFacts
  <2>2. PhasesOK'
    <3>1. outstanding' = Cardinality(Counted')
      BY <2>0 DEF PhasesOK
    <3>2. \A q \in Procs : pc'[q] \notin CommitLabels \cup {"off"}
      BY <2>0, <1>a, CallRuns
    <3> QED BY <2>0, <1>a, <3>1, <3>2, PhasesNoCommit
  <2>3. HoldersOK'
    BY <2>0, LogFacts DEF HoldersOK
  <2>4. LogOK'
    BY <2>0, LogFacts DEF LogOK, PhasesOK, Counted, Recovering
  <2>5. HeaderOK'
    BY <2>0, LogFacts DEF HeaderOK, PhasesOK, Recovering
  <2>6. PinsOK'
    <3>1. \A q \in Procs : pc'[q] = pc[q] \/ {pc[q], pc'[q]} \cap {"install", "erase"} = {}
      BY <2>0
    <3>2. TypeOK /\ PinsOK /\ lh' = lh /\ pinned' = pinned /\ tail' = tail /\ cache' = cache
      OBVIOUS
    <3> QED BY <2>0, <1>a, <3>1, <3>2, PinsKept
  <2>7. DiskWhole'
    BY <2>0, LogFacts DEF DiskWhole, HeaderOK, LogOK, InHeader
  <2>8. CopiesOK'
    BY <2>0, LogFacts DEF CopiesOK, LogOK, HeaderOK
  <2>9. CleanBuffers'
    BY <2>0, LogFacts DEF CleanBuffers
  <2> QED BY <2>1, <2>2, <2>3, <2>4, <2>5, <2>6, <2>7, <2>8, <2>9 DEF IndInv
<1>2. CASE ~(TooBig \/ outstanding < 1)
  <2> USE <1>2
  <2>0. /\ Counted' = Counted /\ ~Recovering' /\ committing' = committing
        /\ \A q \in Procs : pc'[q] = IF q = p THEN "op" ELSE pc[q]
        /\ lh' \in Seq(Blocks) /\ lh' # <<>> /\ DOMAIN lh' = 1 .. Len(lh') /\ Len(lh) < LOGSIZE
        /\ Len(lh') = (IF Logs(b) THEN Len(lh) ELSE Len(lh) + 1)
        /\ \A i \in DOMAIN lh : i \in DOMAIN lh' /\ lh'[i] = lh[i]
        /\ \A i \in DOMAIN lh' : i \in DOMAIN lh \/ (lh'[i] = b /\ i = Len(lh) + 1 /\ ~Logs(b))
        /\ \E i \in DOMAIN lh' : lh'[i] = b
    <3>1. lh' = (IF Logs(b) THEN lh ELSE Append(lh, b)) /\ Len(lh) < LOGSIZE
      BY LogFacts
    <3>2. /\ Counted' = Counted /\ ~Recovering' /\ committing' = committing
          /\ \A q \in Procs : pc'[q] = IF q = p THEN "op" ELSE pc[q]
      BY <1>a DEF Counted, Recovering
    <3>3. TypeOK
      OBVIOUS
    <3> HIDE DEF IndInv, TypeOK, LogWrite, TooBig
    <3> QED BY <3>1, <3>2, <3>3, LogGrows
  <2>1. TypeOK'
    <3>1. pc' \in [Procs -> LogLabels] /\ holder' \in [Blocks -> Procs \cup {None}]
      OBVIOUS
    <3>2. pinned' \subseteq Blocks
      OBVIOUS
    <3> QED BY <2>0, <3>1, <3>2
  <2>2. PhasesOK'
    <3>1. outstanding' = Cardinality(Counted')
      BY <2>0 DEF PhasesOK
    <3>2. \A q \in Procs : pc'[q] \notin CommitLabels \cup {"off"}
      BY <2>0, <1>a, CallRuns
    <3> QED BY <2>0, <1>a, <3>1, <3>2, PhasesNoCommit
  <2>3. HoldersOK'
    <3>1. \A c \in Blocks : holder[c] = p => c = b
      BY DEF HoldersOK
    <3>2. \A c \in Blocks : holder'[c] = IF c = b THEN None ELSE holder[c]
      OBVIOUS
    <3>3. \A c \in Blocks : holder'[c] # None => /\ holder'[c] = holder[c] /\ holder[c] # p
                                                 /\ pc'[holder[c]] = pc[holder[c]]
      BY <2>0, <3>1, <3>2
    <3> QED BY <3>2, <3>3 DEF HoldersOK
  <2>4. LogOK'
    <3>1. Len(lh') <= LOGSIZE
      BY <2>0, LogFacts
    <3>2. \A i, j \in DOMAIN lh' : lh'[i] = lh'[j] => i = j
      BY <2>0, LogFacts DEF LogOK, Logs
    <3>3. \A q \in Procs : pc'[q] \notin {"write_log", "install", "recover", "read_head", "commit_end"}
      BY <2>0, <1>a DEF Recovering
    <3> QED BY <2>0, <1>a, <3>1, <3>2, <3>3 DEF LogOK
  <2>5. HeaderOK'
    <3>1. \A q \in Procs : pc[q] \notin {"install", "erase"} \cup RecoveryLabels
      BY <1>a DEF Recovering
    <3>2. header = <<>>
      BY <3>1 DEF HeaderOK
    <3>3. \A q \in Procs : pc'[q] \notin {"install", "erase"} \cup RecoveryLabels
      BY <2>0, <3>1
    <3> QED BY <3>2, <3>3 DEF HeaderOK
  <2>6. PinsOK'
    <3>1. cache[b] # NoBuf
      BY DEF HoldersOK
    <3>2. \A c \in pinned' : Logs(c)' /\ cache'[c] # NoBuf
      BY <3>1, <2>0 DEF PinsOK, Logs
    <3>3. \A q \in Procs : pc[q] \notin {"install", "erase"} /\ pc'[q] \notin {"install", "erase"}
      BY <2>0, <1>a
    <3>4. \A i \in DOMAIN lh : lh[i] \in pinned
      BY <3>3, <1>a DEF PinsOK
    <3>5. \A i \in DOMAIN lh' : lh'[i] \in pinned'
      BY <3>4, <2>0
    <3> QED BY <2>0, <3>2, <3>3, <3>5 DEF PinsOK
  <2>7. DiskWhole'
    BY <2>0, LogFacts DEF DiskWhole, HeaderOK, LogOK, InHeader
  <2>8. CopiesOK'
    <3>1. \A q \in Procs : pc'[q] \notin CommitLabels \cup RecoveryLabels
      BY <2>0, <1>a DEF Recovering
    <3> QED BY <3>1 DEF CopiesOK
  <2>9. CleanBuffers'
    BY <2>0, LogFacts DEF CleanBuffers
  <2> QED BY <2>1, <2>2, <2>3, <2>4, <2>5, <2>6, <2>7, <2>8, <2>9 DEF IndInv
<1> QED BY <1>1, <1>2

(* bget() recycles a buffer.                                                *)
LEMMA RecycleStep ==
  ASSUME IndInv, NEW b \in Blocks, Recycle(b)
  PROVE  IndInv'
<1> USE DEF IndInv, TypeOK, Recycle
<1>1. TypeOK'
  BY LogFacts
<1>2. PhasesOK'
  BY LogFacts DEF PhasesOK, Counted, Recovering
<1>3. HoldersOK'
  BY LogFacts DEF HoldersOK
<1>4. LogOK'
  BY LogFacts DEF LogOK, PhasesOK, Counted, Recovering
<1>5. HeaderOK'
  BY LogFacts DEF HeaderOK, PhasesOK, Recovering
<1>6. PinsOK'
  BY LogFacts DEF PinsOK, LogOK, PhasesOK, Recovering, Logs
<1>7. DiskWhole'
  BY LogFacts DEF DiskWhole, HeaderOK, LogOK, InHeader
<1>8. CopiesOK'
  <2>1. PhasesOK /\ PinsOK /\ LogOK /\ TypeOK /\ CopiesOK
    OBVIOUS
  <2>2. \A i \in DOMAIN lh : cache'[lh[i]] = cache[lh[i]] \/ lh[i] \notin pinned
    BY LogFacts
  <2>3. home' = home /\ logged' = logged /\ lh' = lh /\ tail' = tail /\ pc' = pc
    OBVIOUS
  <2> QED BY <2>1, <2>2, <2>3, CopiesKept
<1>9. CleanBuffers'
  BY LogFacts DEF CleanBuffers
<1> QED BY <1>1, <1>2, <1>3, <1>4, <1>5, <1>6, <1>7, <1>8, <1>9 DEF IndInv

(* end_op().                                                                *)
LEMMA EndOpStep ==
  ASSUME IndInv, NEW p \in Procs, EndOp(p)
  PROVE  IndInv'
<1> USE DEF IndInv, TypeOK, EndOp, WakeupGoto
<1>a. p \in Counted /\ ~committing /\ ~Recovering /\ \A q \in Procs : ~Commits(q)
  BY CallRuns DEF Counted, PhasesOK
<1>b. \A b \in Blocks : holder[b] # p
  BY DEF HoldersOK
<1>c. outstanding \in Nat /\ (outstanding = 1 => Counted = {p})
  BY <1>a, CountedSome DEF PhasesOK
<1>1. CASE outstanding = 1 /\ lh = <<>>
  <2> USE <1>1
  <2>0. /\ Counted = {p} /\ Counted' = {} /\ ~Recovering' /\ committing' /\ outstanding' = 0
        /\ \A q \in Procs : pc'[q] = IF q = p THEN "commit_end" ELSE pc[q]
    BY <1>a, <1>c DEF Counted, Recovering
  <2>1. TypeOK'
    BY <2>0, LogFacts
  <2>2. PhasesOK'
    <3>1. \A q \in Procs : pc[q] # "off" /\ pc[q] \notin CommitLabels
      BY <1>a, CallRuns
    <3>2. /\ pc'[p] \in CommitLabels /\ \A q \in Procs : pc'[q] # "off"
          /\ \A q \in Procs : q # p => pc'[q] \notin CommitLabels
      BY <2>0, <3>1
    <3> QED BY <2>0, <3>2, PhasesInCommit
  <2>3. HoldersOK'
    <3>1. \A b \in Blocks : holder[b] # None => pc[holder[b]] # "begin_sleep" /\ holder[b] # p
      BY <1>b DEF HoldersOK
    <3> QED BY <2>0, <3>1, HoldersKept
  <2>4. LogOK'
    BY <2>0, LogFacts DEF LogOK, PhasesOK, Counted, Recovering
  <2>5. HeaderOK'
    BY <2>0, LogFacts DEF HeaderOK, PhasesOK, Recovering
  <2>6. PinsOK'
    BY <2>0, LogFacts DEF PinsOK, LogOK, PhasesOK, Recovering, Logs
  <2>7. DiskWhole'
    BY <2>0, LogFacts DEF DiskWhole, HeaderOK, LogOK, InHeader
  <2>8. CopiesOK'
    BY <2>0, LogFacts DEF CopiesOK, LogOK, HeaderOK
  <2>9. CleanBuffers'
    BY <2>0, LogFacts DEF CleanBuffers
  <2> QED BY <2>1, <2>2, <2>3, <2>4, <2>5, <2>6, <2>7, <2>8, <2>9 DEF IndInv
<1>2. CASE outstanding = 1 /\ lh # <<>>
  <2> USE <1>2
  <2>0. /\ Counted = {p} /\ Counted' = {} /\ ~Recovering' /\ committing' /\ outstanding' = 0
        /\ \A q \in Procs : pc'[q] = IF q = p THEN "write_log" ELSE pc[q]
    BY <1>a, <1>c DEF Counted, Recovering
  <2>1. TypeOK'
    <3>1. pc' \in [Procs -> LogLabels] /\ tail' \in [Procs -> Nat] /\ committing'
      OBVIOUS
    <3> QED BY <2>0, <3>1
  <2>2. PhasesOK'
    <3>1. \A q \in Procs : pc[q] # "off" /\ pc[q] \notin CommitLabels
      BY <1>a, CallRuns
    <3>2. /\ pc'[p] \in CommitLabels /\ \A q \in Procs : pc'[q] # "off"
          /\ \A q \in Procs : q # p => pc'[q] \notin CommitLabels
      BY <2>0, <3>1
    <3> QED BY <2>0, <3>2, PhasesInCommit
  <2>3. HoldersOK'
    <3>1. \A b \in Blocks : holder[b] # None => pc[holder[b]] # "begin_sleep" /\ holder[b] # p
      BY <1>b DEF HoldersOK
    <3> QED BY <2>0, <3>1, HoldersKept
  <2>4. LogOK'
    BY <2>0, LogFacts DEF LogOK, PhasesOK, Counted, Recovering
  <2>5. HeaderOK'
    BY <2>0, LogFacts DEF HeaderOK, PhasesOK, Recovering
  <2>6. PinsOK'
    BY SMTT(30), <2>0, LogFacts DEF PinsOK, LogOK, PhasesOK, Recovering, Logs
  <2>7. DiskWhole'
    BY <2>0, LogFacts DEF DiskWhole, HeaderOK, LogOK, InHeader
  <2>8. CopiesOK'
    BY <2>0, LogFacts DEF CopiesOK, LogOK, HeaderOK
  <2>9. CleanBuffers'
    BY <2>0, LogFacts DEF CleanBuffers
  <2> QED BY <2>1, <2>2, <2>3, <2>4, <2>5, <2>6, <2>7, <2>8, <2>9 DEF IndInv
<1>3. CASE outstanding # 1
  <2> USE <1>3
  <2>0. /\ Counted' = Counted \ {p} /\ Counted' # {} /\ ~Recovering' /\ ~committing'
        /\ outstanding' = Cardinality(Counted')
        /\ \A q \in Procs : pc'[q] = IF q = p THEN "idle"
                                     ELSE IF pc[q] = "begin_sleep" THEN "begin" ELSE pc[q]
    <3>1. /\ ~committing'
          /\ \A q \in Procs : pc'[q] = IF q = p THEN "idle"
                                       ELSE IF pc[q] = "begin_sleep" THEN "begin" ELSE pc[q]
      BY <1>a
    <3>2. Counted' = Counted \ {p} /\ ~Recovering'
      BY <1>a, <3>1 DEF Counted, Recovering
    <3>3. outstanding' = Cardinality(Counted')
      BY <1>a, <3>2, CountedShrinks DEF PhasesOK
    <3>4. outstanding' # 0
      BY <1>c
    <3>5. Counted' # {}
      BY <3>3, <3>4, FS_EmptySet
    <3> QED BY <3>1, <3>2, <3>3, <3>5
  <2>1. TypeOK'
    <3>1. pc' \in [Procs -> LogLabels] /\ tail' \in [Procs -> Nat] /\ committing' = committing
      BY <1>a
    <3>2. outstanding' \in Nat
      BY <1>a, <1>c, CountedSome DEF PhasesOK
    <3> QED BY <3>1, <3>2
  <2>2. PhasesOK'
    <3>1. \A q \in Procs : pc'[q] \notin CommitLabels \cup {"off"}
      BY <2>0, <1>a, CallRuns
    <3> QED BY <2>0, <1>a, <3>1, PhasesNoCommit
  <2>3. HoldersOK'
    <3>1. \A b \in Blocks : holder[b] # None => pc[holder[b]] # "begin_sleep" /\ holder[b] # p
      BY <1>b DEF HoldersOK
    <3> QED BY <2>0, <3>1, HoldersKept
  <2>4. LogOK'
    BY <2>0, LogFacts DEF LogOK, PhasesOK, Counted, Recovering
  <2>5. HeaderOK'
    BY <2>0, LogFacts DEF HeaderOK, PhasesOK, Recovering
  <2>6. PinsOK'
    BY <2>0, LogFacts DEF PinsOK, LogOK, PhasesOK, Recovering, Logs
  <2>7. DiskWhole'
    BY <2>0, LogFacts DEF DiskWhole, HeaderOK, LogOK, InHeader
  <2>8. CopiesOK'
    BY <2>0, LogFacts DEF CopiesOK, LogOK, HeaderOK
  <2>9. CleanBuffers'
    BY <2>0, LogFacts DEF CleanBuffers
  <2> QED BY <2>1, <2>2, <2>3, <2>4, <2>5, <2>6, <2>7, <2>8, <2>9 DEF IndInv
<1> QED BY <1>1, <1>2, <1>3

(* A block goes to the log.                                                 *)
LEMMA WriteLogStep ==
  ASSUME IndInv, NEW p \in Procs, WriteLog(p)
  PROVE  IndInv'
<1> USE DEF IndInv, TypeOK, WriteLog, Advance, BufData
<1>a. tail[p] \in DOMAIN lh /\ lh[tail[p]] \in Blocks /\ tail[p] \in 1 .. LOGSIZE
  BY LogFacts DEF LogOK
<1>1. CASE tail[p] < Len(lh)
  <2> USE <1>1
  <2>0. /\ Counted = {} /\ Counted' = {} /\ ~Recovering' /\ committing' = committing
        /\ pc' = pc /\ tail[p] + 1 \in DOMAIN lh
        /\ \A q \in Procs : tail'[q] = IF q = p THEN tail[p] + 1 ELSE tail[q]
    BY <1>a, CommitAlone, LogFacts DEF Counted, Recovering
  <2>1. TypeOK'
    <3>1. BufData(lh[tail[p]]) \in Vals \cup {Torn}
      BY <1>a
    <3>2. logged' \in [1 .. LOGSIZE -> Vals \cup {Torn}]
      BY <1>a, <3>1
    <3>a. tail' = [tail EXCEPT ![p] = tail[p] + 1]
      OBVIOUS
    <3>b. tail[p] \in Nat
      OBVIOUS
    <3>3. tail' \in [Procs -> Nat]
      BY <3>a, <3>b
    <3>4. pc' \in [Procs -> LogLabels]
      OBVIOUS
    <3> QED BY <3>2, <3>3, <3>4
  <2>2. PhasesOK'
    <3>1. \A q \in Procs : q # p => pc[q] \in {"idle", "begin", "begin_sleep"}
      BY CommitAlone
    <3>2. /\ pc'[p] \in CommitLabels /\ \A q \in Procs : pc'[q] # "off"
          /\ \A q \in Procs : q # p => pc'[q] \notin CommitLabels
      BY <2>0, <3>1
    <3>3. committing' /\ outstanding' = 0
      BY CommitAlone
    <3> QED BY <2>0, <3>2, <3>3, PhasesInCommit
  <2>3. HoldersOK'
    BY CommitAlone, NoHolders
  <2>4. LogOK'
    BY <2>0, LogFacts, CommitAlone DEF LogOK, PhasesOK, Counted, Recovering
  <2>5. HeaderOK'
    BY <2>0, LogFacts, CommitAlone DEF HeaderOK, PhasesOK, Recovering
  <2>6. PinsOK'
    BY <2>0, LogFacts, CommitAlone DEF PinsOK, LogOK, PhasesOK, Recovering, Logs
  <2>7. DiskWhole'
    BY <2>0, LogFacts, CommitAlone DEF DiskWhole, HeaderOK, LogOK, InHeader
  <2>8. CopiesOK'
    <3>1. \A q \in Procs : q # p => pc[q] \in {"idle", "begin", "begin_sleep"}
      BY CommitAlone
    <3>2. \A i \in DOMAIN lh : lh[i] \in pinned
      BY <3>1, CommitAlone DEF PinsOK
    <3>3. logged'[tail[p]] = cache[lh[tail[p]]]
      BY <1>a, <3>2 DEF PinsOK
    <3>4. \A i \in DOMAIN lh : i < tail[p] => logged'[i] = cache[lh[i]]
      BY <1>a, LogFacts DEF CopiesOK, LogOK
    <3>5. \A i \in DOMAIN lh : i < tail[p] + 1 => logged'[i] = cache[lh[i]]
      BY <1>a, <3>3, <3>4, LogFacts
    <3> QED BY ZenonT(40), <2>0, <3>1, <3>5 DEF CopiesOK
  <2>9. CleanBuffers'
    BY <2>0, LogFacts, CommitAlone DEF CleanBuffers
  <2> QED BY <2>1, <2>2, <2>3, <2>4, <2>5, <2>6, <2>7, <2>8, <2>9 DEF IndInv
<1>2. CASE ~(tail[p] < Len(lh))
  <2> USE <1>2
  <2>0. /\ Counted = {} /\ Counted' = {} /\ ~Recovering' /\ committing' = committing
        /\ tail[p] = Len(lh)
        /\ \A q \in Procs : pc'[q] = IF q = p THEN "write_head" ELSE pc[q]
    BY <1>a, CommitAlone, LogFacts DEF Counted, Recovering
  <2>1. TypeOK'
    <3>1. BufData(lh[tail[p]]) \in Vals \cup {Torn}
      BY <1>a
    <3>2. logged' \in [1 .. LOGSIZE -> Vals \cup {Torn}]
      BY <1>a, <3>1
    <3>a. tail' = [tail EXCEPT ![p] = 1]
      OBVIOUS
    <3>b. tail[p] \in Nat
      OBVIOUS
    <3>3. tail' \in [Procs -> Nat]
      BY <3>a, <3>b
    <3>4. pc' \in [Procs -> LogLabels]
      BY ZenonT(40)
    <3> QED BY <3>2, <3>3, <3>4
  <2>2. PhasesOK'
    <3>1. \A q \in Procs : q # p => pc[q] \in {"idle", "begin", "begin_sleep"}
      BY CommitAlone
    <3>2. /\ pc'[p] \in CommitLabels /\ \A q \in Procs : pc'[q] # "off"
          /\ \A q \in Procs : q # p => pc'[q] \notin CommitLabels
      BY <2>0, <3>1
    <3>3. committing' /\ outstanding' = 0
      BY CommitAlone
    <3> QED BY <2>0, <3>2, <3>3, PhasesInCommit
  <2>3. HoldersOK'
    BY CommitAlone, NoHolders
  <2>4. LogOK'
    BY SMTT(30), <2>0, LogFacts, CommitAlone DEF LogOK, PhasesOK, Counted, Recovering
  <2>5. HeaderOK'
    BY <2>0, LogFacts, CommitAlone DEF HeaderOK, PhasesOK, Recovering
  <2>6. PinsOK'
    <3>1. \A q \in Procs : q # p => pc[q] \in {"idle", "begin", "begin_sleep"}
      BY CommitAlone
    <3>2. \A q \in Procs : {pc[q], pc'[q]} \cap {"install", "erase"} = {}
      BY <2>0, <3>1
    <3>3. \A i \in DOMAIN lh : lh[i] \in pinned
      BY <3>1, CommitAlone DEF PinsOK
    <3>4. \A b \in pinned' : Logs(b)' /\ cache'[b] # NoBuf
      BY DEF PinsOK, Logs
    <3> QED BY <2>0, <3>2, <3>3, <3>4 DEF PinsOK
  <2>7. DiskWhole'
    BY <2>0, LogFacts, CommitAlone DEF DiskWhole, HeaderOK, LogOK, InHeader
  <2>8. CopiesOK'
    <3>1. \A q \in Procs : q # p => pc[q] \in {"idle", "begin", "begin_sleep"}
      BY CommitAlone
    <3>2. \A i \in DOMAIN lh : lh[i] \in pinned
      BY <3>1, CommitAlone DEF PinsOK
    <3>3. logged'[tail[p]] = cache[lh[tail[p]]]
      BY <1>a, <3>2 DEF PinsOK
    <3>4. \A i \in DOMAIN lh : i < tail[p] => logged'[i] = cache[lh[i]]
      BY <1>a, LogFacts DEF CopiesOK, LogOK
    <3>5. \A i \in DOMAIN lh : i < tail[p] \/ i = tail[p]
      BY <2>0, <1>a, LogFacts
    <3>6. \A i \in DOMAIN lh : logged'[i] = cache[lh[i]]
      BY <3>3, <3>4, <3>5
    <3> QED BY <2>0, <3>1, <3>6 DEF CopiesOK
  <2>9. CleanBuffers'
    BY <2>0, LogFacts, CommitAlone DEF CleanBuffers
  <2> QED BY <2>1, <2>2, <2>3, <2>4, <2>5, <2>6, <2>7, <2>8, <2>9 DEF IndInv
<1> QED BY <1>1, <1>2

(* The header is written.                                                   *)
LEMMA WriteHeadStep ==
  ASSUME IndInv, NEW p \in Procs, WriteHead(p)
  PROVE  IndInv'
<1> USE DEF IndInv, TypeOK, WriteHead
<1>0. /\ Counted = {} /\ Counted' = {} /\ ~Recovering' /\ committing' = committing
      /\ \A q \in Procs : pc'[q] = IF q = p THEN "install" ELSE pc[q]
  BY CommitAlone, LogFacts DEF Counted, Recovering
<1>1. TypeOK'
  BY <1>0, LogFacts, CommitAlone
<1>2. PhasesOK'
  <2>1. \A q \in Procs : q # p => pc[q] \in {"idle", "begin", "begin_sleep"}
    BY CommitAlone
  <2>2. /\ pc'[p] \in CommitLabels /\ \A q \in Procs : pc'[q] # "off"
        /\ \A q \in Procs : q # p => pc'[q] \notin CommitLabels
    BY <1>0, <2>1
  <2>3. committing' /\ outstanding' = 0
    BY CommitAlone
  <2> QED BY <1>0, <2>2, <2>3, PhasesInCommit
<1>3. HoldersOK'
  BY CommitAlone, NoHolders
<1>4. LogOK'
  <2>1. \A q \in Procs : q # p => pc[q] \in {"idle", "begin", "begin_sleep"}
    BY CommitAlone
  <2>2. tail[p] \in DOMAIN lh /\ \A i, j \in DOMAIN lh : lh[i] = lh[j] => i = j
    BY DEF LogOK
  <2>3. Len(header') <= LOGSIZE /\ Len(lh) <= LOGSIZE
    BY DEF LogOK
  <2> QED BY <1>0, <2>1, <2>2, <2>3, CommitAlone DEF LogOK
<1>5. HeaderOK'
  BY <1>0, LogFacts, CommitAlone DEF HeaderOK, PhasesOK, Recovering
<1>6. PinsOK'
  <2>1. \A q \in Procs : q # p => pc[q] \in {"idle", "begin", "begin_sleep"}
    BY CommitAlone
  <2>2. tail[p] = 1
    BY DEF LogOK
  <2>3. \A i \in DOMAIN lh : lh[i] \in pinned /\ tail[p] <= i
    BY <2>1, <2>2, CommitAlone, LogFacts DEF PinsOK
  <2>4. \A b \in pinned' : Logs(b)' /\ cache'[b] # NoBuf
    BY DEF PinsOK, Logs
  <2>5. \A q \in Procs : pc'[q] # "erase" /\ (pc'[q] = "install" => q = p)
    BY <1>0, <2>1
  <2> QED BY <1>0, <2>3, <2>4, <2>5 DEF PinsOK
<1>7. DiskWhole'
  <2>1. \A q \in Procs : q # p => pc[q] \in {"idle", "begin", "begin_sleep"}
    BY CommitAlone
  <2>2. header = <<>>
    BY <2>1, RecoverAlone, CommitAlone DEF HeaderOK, Recovering
  <2>3. \A b \in Blocks : home[b] \in Vals
    BY <2>2, LogFacts DEF DiskWhole, InHeader
  <2>4. \A i \in DOMAIN lh : lh[i] \in pinned
    BY <2>1, CommitAlone DEF PinsOK
  <2>5. \A i \in DOMAIN lh : logged[i] \in Vals
    BY <2>4, LogFacts DEF PinsOK, CopiesOK
  <2> QED BY <2>3, <2>5 DEF DiskWhole
<1>8. CopiesOK'
  <2>1. \A q \in Procs : q # p => pc[q] \in {"idle", "begin", "begin_sleep"}
    BY CommitAlone
  <2>2. tail[p] = 1
    BY DEF LogOK
  <2>3. \A i \in DOMAIN lh : logged[i] = cache[lh[i]] /\ ~(i < tail[p])
    BY <2>2, LogFacts DEF CopiesOK
  <2>4. \A q \in Procs : pc'[q] \in CommitLabels \cup RecoveryLabels => q = p /\ pc'[q] = "install"
    BY <1>0, <2>1
  <2> QED BY <2>3, <2>4 DEF CopiesOK
<1>9. CleanBuffers'
  BY <1>0, LogFacts, CommitAlone DEF CleanBuffers
<1> QED BY <1>1, <1>2, <1>3, <1>4, <1>5, <1>6, <1>7, <1>8, <1>9 DEF IndInv

(* A block goes to its home.                                                *)
LEMMA InstallStep ==
  ASSUME IndInv, NEW p \in Procs, Install(p)
  PROVE  IndInv'
<1> USE DEF IndInv, TypeOK, Install, Advance
<1>a. tail[p] \in DOMAIN lh /\ lh[tail[p]] \in Blocks /\ tail[p] \in 1 .. LOGSIZE
  BY LogFacts DEF LogOK
<1>1. CASE tail[p] < Len(lh)
  <2> USE <1>1
  <2>0. /\ Counted = {} /\ Counted' = {} /\ ~Recovering' /\ committing' = committing
        /\ pc' = pc /\ tail[p] + 1 \in DOMAIN lh
        /\ \A q \in Procs : tail'[q] = IF q = p THEN tail[p] + 1 ELSE tail[q]
    BY <1>a, CommitAlone, LogFacts DEF Counted, Recovering
  <2>1. TypeOK'
    <3>1. logged[tail[p]] \in Vals
      BY <1>a DEF HeaderOK, DiskWhole
    <3>2. /\ cache' \in [Blocks -> Vals \cup {NoBuf}] /\ home' \in [Blocks -> Vals \cup {Torn}]
          /\ pinned' \subseteq Blocks
      BY <1>a, <3>1
    <3>a. tail' = [tail EXCEPT ![p] = tail[p] + 1]
      OBVIOUS
    <3>b. tail[p] \in Nat
      OBVIOUS
    <3>3. tail' \in [Procs -> Nat]
      BY <3>a, <3>b
    <3>4. pc' \in [Procs -> LogLabels]
      OBVIOUS
    <3> QED BY <3>2, <3>3, <3>4
  <2>2. PhasesOK'
    <3>1. \A q \in Procs : q # p => pc[q] \in {"idle", "begin", "begin_sleep"}
      BY CommitAlone
    <3>2. /\ pc'[p] \in CommitLabels /\ \A q \in Procs : pc'[q] # "off"
          /\ \A q \in Procs : q # p => pc'[q] \notin CommitLabels
      BY <2>0, <3>1
    <3>3. committing' /\ outstanding' = 0
      BY CommitAlone
    <3> QED BY <2>0, <3>2, <3>3, PhasesInCommit
  <2>3. HoldersOK'
    BY CommitAlone, NoHolders
  <2>4. LogOK'
    BY <2>0, LogFacts, CommitAlone DEF LogOK, PhasesOK, Counted, Recovering
  <2>5. HeaderOK'
    BY <2>0, LogFacts, CommitAlone DEF HeaderOK, PhasesOK, Recovering
  <2>6. PinsOK'
    BY SMTT(30), <2>0, LogFacts, CommitAlone DEF PinsOK, LogOK, PhasesOK, Recovering, Logs
  <2>7. DiskWhole'
    BY <2>0, LogFacts, CommitAlone DEF DiskWhole, HeaderOK, LogOK, InHeader
  <2>8. CopiesOK'
    BY SMTT(30), <2>0, LogFacts, CommitAlone DEF CopiesOK, LogOK, HeaderOK
  <2>9. CleanBuffers'
    BY <2>0, LogFacts, CommitAlone DEF CleanBuffers
  <2> QED BY <2>1, <2>2, <2>3, <2>4, <2>5, <2>6, <2>7, <2>8, <2>9 DEF IndInv
<1>2. CASE ~(tail[p] < Len(lh))
  <2> USE <1>2
  <2>0. /\ Counted = {} /\ Counted' = {} /\ ~Recovering' /\ committing' = committing
        /\ tail[p] = Len(lh)
        /\ \A q \in Procs : pc'[q] = IF q = p THEN "erase" ELSE pc[q]
    BY <1>a, CommitAlone, LogFacts DEF Counted, Recovering
  <2>1. TypeOK'
    <3>1. logged[tail[p]] \in Vals
      BY <1>a DEF HeaderOK, DiskWhole
    <3>2. /\ cache' \in [Blocks -> Vals \cup {NoBuf}] /\ home' \in [Blocks -> Vals \cup {Torn}]
          /\ pinned' \subseteq Blocks
      BY <1>a, <3>1
    <3>a. tail' = [tail EXCEPT ![p] = 1]
      OBVIOUS
    <3>b. tail[p] \in Nat
      OBVIOUS
    <3>3. tail' \in [Procs -> Nat]
      BY <3>a, <3>b
    <3>4. pc' \in [Procs -> LogLabels]
      BY ZenonT(40)
    <3> QED BY <3>2, <3>3, <3>4
  <2>2. PhasesOK'
    <3>1. \A q \in Procs : q # p => pc[q] \in {"idle", "begin", "begin_sleep"}
      BY CommitAlone
    <3>2. /\ pc'[p] \in CommitLabels /\ \A q \in Procs : pc'[q] # "off"
          /\ \A q \in Procs : q # p => pc'[q] \notin CommitLabels
      BY <2>0, <3>1
    <3>3. committing' /\ outstanding' = 0
      BY CommitAlone
    <3> QED BY <2>0, <3>2, <3>3, PhasesInCommit
  <2>3. HoldersOK'
    BY CommitAlone, NoHolders
  <2>4. LogOK'
    <3>1. \A q \in Procs : q # p => pc[q] \in {"idle", "begin", "begin_sleep"}
      BY CommitAlone
    <3>2. \A q \in Procs : pc'[q] \in {"idle", "begin", "begin_sleep", "erase"}
      BY <2>0, <3>1
    <3> QED BY <3>2, CommitAlone DEF LogOK
  <2>5. HeaderOK'
    BY <2>0, LogFacts, CommitAlone DEF HeaderOK, PhasesOK, Recovering
  <2>6. PinsOK'
    BY <2>0, LogFacts, CommitAlone DEF PinsOK, LogOK, PhasesOK, Recovering, Logs
  <2>7. DiskWhole'
    BY <2>0, LogFacts, CommitAlone DEF DiskWhole, HeaderOK, LogOK, InHeader
  <2>8. CopiesOK'
    BY <2>0, LogFacts, CommitAlone DEF CopiesOK, LogOK, HeaderOK
  <2>9. CleanBuffers'
    BY <2>0, LogFacts, CommitAlone DEF CleanBuffers
  <2> QED BY <2>1, <2>2, <2>3, <2>4, <2>5, <2>6, <2>7, <2>8, <2>9 DEF IndInv
<1> QED BY <1>1, <1>2

(* The header is cleared after a commit.                                    *)
LEMMA EraseStep ==
  ASSUME IndInv, NEW p \in Procs, Erase(p)
  PROVE  IndInv'
<1> USE DEF IndInv, TypeOK, Erase
<1>0. /\ Counted = {} /\ Counted' = {} /\ ~Recovering' /\ committing' = committing
      /\ \A q \in Procs : pc'[q] = IF q = p THEN "commit_end" ELSE pc[q]
  BY CommitAlone, LogFacts DEF Counted, Recovering
<1>1. TypeOK'
  BY <1>0, LogFacts, CommitAlone
<1>2. PhasesOK'
  <2>1. \A q \in Procs : q # p => pc[q] \in {"idle", "begin", "begin_sleep"}
    BY CommitAlone
  <2>2. /\ pc'[p] \in CommitLabels /\ \A q \in Procs : pc'[q] # "off"
        /\ \A q \in Procs : q # p => pc'[q] \notin CommitLabels
    BY <1>0, <2>1
  <2>3. committing' /\ outstanding' = 0
    BY CommitAlone
  <2> QED BY <1>0, <2>2, <2>3, PhasesInCommit
<1>3. HoldersOK'
  BY CommitAlone, NoHolders
<1>4. LogOK'
  BY <1>0, LogFacts, CommitAlone DEF LogOK, PhasesOK, Counted, Recovering
<1>5. HeaderOK'
  BY <1>0, LogFacts, CommitAlone DEF HeaderOK, PhasesOK, Recovering
<1>6. PinsOK'
  BY <1>0, LogFacts, CommitAlone DEF PinsOK, LogOK, PhasesOK, Recovering, Logs
<1>7. DiskWhole'
  <2>1. \A i \in DOMAIN header : home[header[i]] \in Vals
    BY ZenonT(40), LogFacts DEF CopiesOK, HeaderOK, DiskWhole
  <2>2. \A b \in Blocks : home[b] \in Vals
    BY <2>1 DEF DiskWhole, InHeader
  <2> QED BY <2>2, EmptySeq DEF DiskWhole
<1>8. CopiesOK'
  BY <1>0, LogFacts, CommitAlone DEF CopiesOK, LogOK, HeaderOK
<1>9. CleanBuffers'
  BY <1>0, LogFacts, CommitAlone DEF CleanBuffers
<1> QED BY <1>1, <1>2, <1>3, <1>4, <1>5, <1>6, <1>7, <1>8, <1>9 DEF IndInv

(* The commit ends.                                                         *)
LEMMA CommitEndStep ==
  ASSUME IndInv, NEW p \in Procs, CommitEnd(p)
  PROVE  IndInv'
<1> USE DEF IndInv, TypeOK, CommitEnd, WakeupGoto
<1>0. /\ Counted = {} /\ Counted' = {} /\ ~Recovering' /\ ~committing'
      /\ \A q \in Procs : pc'[q] \in {"idle", "begin"}
  BY CommitAlone DEF Counted, Recovering
<1>1. TypeOK'
  BY <1>0, LogFacts, CommitAlone
<1>2. PhasesOK'
  <2>1. \A q \in Procs : pc'[q] \notin CommitLabels \cup {"off"}
    BY <1>0
  <2> QED BY <1>0, <2>1, FS_EmptySet, CommitAlone, RecoverAlone, PhasesNoCommit
<1>3. HoldersOK'
  BY CommitAlone, NoHolders
<1>4. LogOK'
  BY <1>0, LogFacts, CommitAlone DEF LogOK, PhasesOK, Counted, Recovering
<1>5. HeaderOK'
  BY <1>0, LogFacts, CommitAlone DEF HeaderOK, PhasesOK, Recovering
<1>6. PinsOK'
  BY <1>0, LogFacts, CommitAlone DEF PinsOK, LogOK, PhasesOK, Recovering, Logs
<1>7. DiskWhole'
  BY <1>0, LogFacts, CommitAlone DEF DiskWhole, HeaderOK, LogOK, InHeader
<1>8. CopiesOK'
  BY <1>0, LogFacts, CommitAlone DEF CopiesOK, LogOK, HeaderOK
<1>9. CleanBuffers'
  BY <1>0, LogFacts, CommitAlone DEF CleanBuffers
<1> QED BY <1>1, <1>2, <1>3, <1>4, <1>5, <1>6, <1>7, <1>8, <1>9 DEF IndInv

(* A crash.                                                                 *)
LEMMA CrashStep ==
  ASSUME IndInv, Crash
  PROVE  IndInv'
<1> USE DEF IndInv, TypeOK, Crash, TornLog, TornHome
<1>0. /\ Counted' = {} /\ Recovering' /\ pc'[FIRST] = "read_head"
      /\ \A q \in Procs \ {FIRST} : pc'[q] = "off"
  BY DEF Counted, Recovering
<1>1. TypeOK'
  <2>1. home' \in [Blocks -> Vals \cup {Torn}] /\ logged' \in [1 .. LOGSIZE -> Vals \cup {Torn}]
    OBVIOUS
  <2>2. lh' \in Seq(Blocks) /\ header' \in Seq(Blocks)
    BY EmptySeq
  <2>3. pc' \in [Procs -> LogLabels] /\ tail' \in [Procs -> Nat]
    OBVIOUS
  <2>4. written' \in [Procs -> SUBSET Blocks] /\ holder' \in [Blocks -> Procs \cup {None}]
    OBVIOUS
  <2>5. cache' \in [Blocks -> Vals \cup {NoBuf}]
    OBVIOUS
  <2>6. pinned' \subseteq Blocks /\ outstanding' \in Nat
    OBVIOUS
  <2>7. committing' \in BOOLEAN
    BY Zenon
  <2>8. ops' \in Nat /\ crashes' \in Nat
    OBVIOUS
  <2> HIDE DEF Crash
  <2> QED BY <2>6, <2>7, <2>8, <2>1, <2>2, <2>3, <2>4, <2>5
<1>2. PhasesOK'
  BY <1>0, LogFacts, FS_EmptySet, CountedSome DEF PhasesOK, Recovering
<1>3. HoldersOK'
  BY <1>0, LogFacts DEF HoldersOK
<1>4. LogOK'
  BY <1>0, LogFacts DEF LogOK, PhasesOK, Counted, Recovering
<1>5. HeaderOK'
  BY <1>0, LogFacts DEF HeaderOK, PhasesOK, Recovering
<1>6. PinsOK'
  BY <1>0, LogFacts DEF PinsOK, LogOK, PhasesOK, Recovering, Logs
<1>7. DiskWhole'
  <2>1. \A i \in DOMAIN header : logged'[i] = logged[i]
    <3>1. CASE logged' = logged
      BY <3>1
    <3>2. ASSUME NEW p \in Procs, pc[p] = "write_log"
          PROVE  header = <<>>
      BY <3>2, CommitAlone DEF HeaderOK, PhasesOK, Recovering
    <3>3. CASE logged' # logged
      BY <3>2, <3>3, LogFacts
    <3> QED BY <3>1, <3>3
  <2>2. \A b \in Blocks : home'[b] = home[b] \/ InHeader(b)
    <3>1. ASSUME NEW p \in Procs, pc[p] \in {"install", "recover"}
          PROVE  InHeader(lh[tail[p]])
      BY <3>1, LogFacts DEF HeaderOK, LogOK, InHeader
    <3>2. ASSUME NEW p \in Procs, pc[p] \in {"install", "recover"}
          PROVE  lh[tail[p]] \in Blocks
      BY <3>2, LogFacts DEF LogOK
    <3> QED BY <3>1, <3>2
  <2> QED BY <2>1, <2>2 DEF DiskWhole, InHeader
<1>8. CopiesOK'
  BY <1>0, LogFacts DEF CopiesOK, LogOK, HeaderOK
<1>9. CleanBuffers'
  BY <1>0, LogFacts DEF CleanBuffers
<1> QED BY <1>1, <1>2, <1>3, <1>4, <1>5, <1>6, <1>7, <1>8, <1>9 DEF IndInv

(* Recovery reads the header.                                               *)
LEMMA ReadHeadStep ==
  ASSUME IndInv, NEW p \in Procs, ReadHead(p)
  PROVE  IndInv'
<1> USE DEF IndInv, TypeOK, ReadHead
<1>0. /\ Counted = {} /\ Counted' = {} /\ Recovering' /\ committing' = committing
      /\ \A q \in Procs : pc'[q] = IF q = p THEN IF header = <<>> THEN "recover_erase" ELSE "recover" ELSE pc[q]
  BY RecoverAlone, LogFacts DEF Counted, Recovering
<1>1. TypeOK'
  BY <1>0, LogFacts
<1>2. PhasesOK'
  BY <1>0, LogFacts, FS_EmptySet, CountedSome DEF PhasesOK, Recovering
<1>3. HoldersOK'
  BY RecoverAlone, NoHolders
<1>4. LogOK'
  BY <1>0, LogFacts DEF LogOK, PhasesOK, Counted, Recovering
<1>5. HeaderOK'
  BY <1>0, LogFacts DEF HeaderOK, PhasesOK, Recovering
<1>6. PinsOK'
  BY <1>0, LogFacts DEF PinsOK, LogOK, PhasesOK, Recovering, Logs
<1>7. DiskWhole'
  BY <1>0, LogFacts DEF DiskWhole, HeaderOK, LogOK, InHeader
<1>8. CopiesOK'
  BY <1>0, LogFacts DEF CopiesOK, LogOK, HeaderOK
<1>9. CleanBuffers'
  BY <1>0, LogFacts DEF CleanBuffers
<1> QED BY <1>1, <1>2, <1>3, <1>4, <1>5, <1>6, <1>7, <1>8, <1>9 DEF IndInv

(* Recovery brings a block home.                                            *)
LEMMA RecoverStep ==
  ASSUME IndInv, NEW p \in Procs, Recover(p)
  PROVE  IndInv'
<1> USE DEF IndInv, TypeOK, Recover, Advance
<1>a. tail[p] \in DOMAIN lh /\ lh[tail[p]] \in Blocks /\ tail[p] \in 1 .. LOGSIZE
  BY LogFacts DEF LogOK
<1>1. CASE tail[p] < Len(lh)
  <2> USE <1>1
  <2>0. /\ Counted = {} /\ Counted' = {} /\ Recovering' /\ committing' = committing
        /\ pc' = pc /\ tail[p] + 1 \in DOMAIN lh
        /\ \A q \in Procs : tail'[q] = IF q = p THEN tail[p] + 1 ELSE tail[q]
    BY <1>a, RecoverAlone, LogFacts DEF Counted, Recovering
  <2>1. TypeOK'
    <3>1. logged[tail[p]] \in Vals
      BY <1>a DEF HeaderOK, DiskWhole
    <3>2. /\ cache' \in [Blocks -> Vals \cup {NoBuf}] /\ home' \in [Blocks -> Vals \cup {Torn}]
          /\ pinned' \subseteq Blocks
      BY <1>a, <3>1
    <3>a. tail' = [tail EXCEPT ![p] = tail[p] + 1]
      OBVIOUS
    <3>b. tail[p] \in Nat
      OBVIOUS
    <3>3. tail' \in [Procs -> Nat]
      BY <3>a, <3>b
    <3>4. pc' \in [Procs -> LogLabels]
      OBVIOUS
    <3> QED BY <3>2, <3>3, <3>4
  <2>2. PhasesOK'
    <3>1. \A q \in Procs : q # p => pc'[q] = "off"
      BY <2>0, RecoverAlone
    <3>2. outstanding' = 0 /\ ~committing' /\ p = FIRST /\ pc'[p] \in RecoveryLabels
      BY <2>0, RecoverAlone
    <3> QED BY <2>0, <3>1, <3>2, FS_EmptySet DEF PhasesOK
  <2>3. HoldersOK'
    BY RecoverAlone, NoHolders
  <2>4. LogOK'
    BY <2>0, LogFacts DEF LogOK, PhasesOK, Counted, Recovering
  <2>5. HeaderOK'
    BY <2>0, LogFacts DEF HeaderOK, PhasesOK, Recovering
  <2>6. PinsOK'
    BY <2>0, LogFacts DEF PinsOK, LogOK, PhasesOK, Recovering, Logs
  <2>7. DiskWhole'
    BY <2>0, LogFacts DEF DiskWhole, HeaderOK, LogOK, InHeader
  <2>8. CopiesOK'
    <3>1. \A q \in Procs : q # p => pc'[q] = "off" /\ pc[q] = "off"
      BY <2>0, RecoverAlone
    <3>2. \A i \in DOMAIN lh : i < tail[p] => lh[i] # lh[tail[p]] /\ home[lh[i]] = logged[i]
      BY <1>a, LogFacts DEF LogOK, CopiesOK
    <3>3. \A c \in Blocks : home'[c] = IF c = lh[tail[p]] THEN logged[tail[p]] ELSE home[c]
      BY <1>a
    <3>4. \A i \in DOMAIN lh : i < tail[p] + 1 => i < tail[p] \/ i = tail[p]
      BY LogFacts
    <3>5. \A i \in DOMAIN lh : i < tail[p] + 1 => home'[lh[i]] = logged[i]
      BY <1>a, <3>2, <3>3, <3>4, LogFacts
    <3> QED BY <2>0, <3>1, <3>5 DEF CopiesOK
  <2>9. CleanBuffers'
    BY <2>0, LogFacts DEF CleanBuffers
  <2> QED BY <2>1, <2>2, <2>3, <2>4, <2>5, <2>6, <2>7, <2>8, <2>9 DEF IndInv
<1>2. CASE ~(tail[p] < Len(lh))
  <2> USE <1>2
  <2>0. /\ Counted = {} /\ Counted' = {} /\ Recovering' /\ committing' = committing
        /\ tail[p] = Len(lh)
        /\ \A q \in Procs : pc'[q] = IF q = p THEN "recover_erase" ELSE pc[q]
    BY <1>a, RecoverAlone, LogFacts DEF Counted, Recovering
  <2>1. TypeOK'
    <3>1. logged[tail[p]] \in Vals
      BY <1>a DEF HeaderOK, DiskWhole
    <3>2. /\ cache' \in [Blocks -> Vals \cup {NoBuf}] /\ home' \in [Blocks -> Vals \cup {Torn}]
          /\ pinned' \subseteq Blocks
      BY <1>a, <3>1
    <3>a. tail' = [tail EXCEPT ![p] = 1]
      OBVIOUS
    <3>b. tail[p] \in Nat
      OBVIOUS
    <3>3. tail' \in [Procs -> Nat]
      BY <3>a, <3>b
    <3>4. pc' \in [Procs -> LogLabels]
      OBVIOUS
    <3> QED BY <3>2, <3>3, <3>4
  <2>2. PhasesOK'
    <3>1. \A q \in Procs : q # p => pc'[q] = "off"
      BY <2>0, RecoverAlone
    <3>2. outstanding' = 0 /\ ~committing' /\ p = FIRST /\ pc'[p] \in RecoveryLabels
      BY <2>0, RecoverAlone
    <3> QED BY <2>0, <3>1, <3>2, FS_EmptySet DEF PhasesOK
  <2>3. HoldersOK'
    BY RecoverAlone, NoHolders
  <2>4. LogOK'
    <3>1. \A q \in Procs : q # p => pc'[q] = "off" /\ pc[q] = "off"
      BY <2>0, RecoverAlone
    <3>2. /\ Len(lh) <= LOGSIZE /\ Len(header) <= LOGSIZE
          /\ \A i, j \in DOMAIN lh : lh[i] = lh[j] => i = j
          /\ \A i, j \in DOMAIN header : header[i] = header[j] => i = j
      BY DEF LogOK
    <3>3. pc'[p] = "recover_erase"
      BY <2>0
    <3> QED BY <2>0, <3>1, <3>2, <3>3 DEF LogOK
  <2>5. HeaderOK'
    BY <2>0, LogFacts DEF HeaderOK, PhasesOK, Recovering
  <2>6. PinsOK'
    BY <2>0, LogFacts DEF PinsOK, LogOK, PhasesOK, Recovering, Logs
  <2>7. DiskWhole'
    BY <2>0, LogFacts DEF DiskWhole, HeaderOK, LogOK, InHeader
  <2>8. CopiesOK'
    BY <2>0, LogFacts DEF CopiesOK, LogOK, HeaderOK
  <2>9. CleanBuffers'
    BY <2>0, LogFacts DEF CleanBuffers
  <2> QED BY <2>1, <2>2, <2>3, <2>4, <2>5, <2>6, <2>7, <2>8, <2>9 DEF IndInv
<1> QED BY <1>1, <1>2

(* Recovery clears the header.                                              *)
LEMMA RecoverEraseStep ==
  ASSUME IndInv, NEW p \in Procs, RecoverErase(p)
  PROVE  IndInv'
<1> USE DEF IndInv, TypeOK, RecoverErase
<1>0. /\ Counted = {} /\ Counted' = {} /\ ~Recovering' /\ ~committing' /\ pinned = {}
      /\ \A q \in Procs : pc'[q] = "idle" /\ ~Commits(q)
  BY RecoverAlone DEF Counted, Recovering
<1>1. TypeOK'
  BY <1>0, LogFacts
<1>2. PhasesOK'
  <2>1. \A q \in Procs : pc'[q] \notin CommitLabels \cup {"off"}
    BY <1>0
  <2> QED BY <1>0, <2>1, FS_EmptySet, CommitAlone, RecoverAlone, PhasesNoCommit
<1>3. HoldersOK'
  BY RecoverAlone, NoHolders
<1>4. LogOK'
  BY <1>0, LogFacts DEF LogOK, PhasesOK, Counted, Recovering
<1>5. HeaderOK'
  BY <1>0, LogFacts DEF HeaderOK, PhasesOK, Recovering
<1>6. PinsOK'
  BY <1>0, LogFacts DEF PinsOK, LogOK, PhasesOK, Recovering, Logs
<1>7. DiskWhole'
  <2>1. \A i \in DOMAIN header : home[header[i]] \in Vals
    BY LogFacts DEF CopiesOK, HeaderOK, DiskWhole
  <2>2. \A b \in Blocks : home[b] \in Vals
    BY <2>1 DEF DiskWhole, InHeader
  <2> QED BY <2>2, EmptySeq DEF DiskWhole
<1>8. CopiesOK'
  BY <1>0, LogFacts DEF CopiesOK, LogOK, HeaderOK
<1>9. CleanBuffers'
  BY <1>0, LogFacts DEF CleanBuffers
<1> QED BY <1>1, <1>2, <1>3, <1>4, <1>5, <1>6, <1>7, <1>8, <1>9 DEF IndInv

-----------------------------------------------------------------------------
(* Every step keeps the invariant.                                          *)
LEMMA NextOK == IndInv /\ [Next]_vars => IndInv'
<1> SUFFICES ASSUME IndInv, [Next]_vars PROVE IndInv'
  OBVIOUS
<1>1. CASE UNCHANGED vars
  BY <1>1 DEF vars, IndInv, TypeOK, PhasesOK, HoldersOK, LogOK, HeaderOK, PinsOK, DiskWhole,
              CopiesOK, CleanBuffers, Counted, Recovering, Logs, InHeader
<1>2. ASSUME NEW p \in Procs, Step(p)
      PROVE  IndInv'
  BY <1>2, BeginOpStep, EndOpStep, LogWriteStep, WriteLogStep, WriteHeadStep, InstallStep,
     EraseStep, CommitEndStep, ReadHeadStep, RecoverStep, RecoverEraseStep DEF Step
<1>3. ASSUME NEW p \in Procs, Call(p)
      PROVE  IndInv'
  BY <1>3, CallStep
<1>4. ASSUME NEW p \in Procs, NEW b \in Blocks, NEW v \in Vals, Modify(p, b, v)
      PROVE  IndInv'
  BY <1>4, ModifyStep
<1>5. ASSUME NEW b \in Blocks, Recycle(b)
      PROVE  IndInv'
  BY <1>5, RecycleStep
<1>6. CASE Crash
  BY <1>6, CrashStep
<1> QED BY <1>1, <1>2, <1>3, <1>4, <1>5, <1>6 DEF Next

(* IndInv is an invariant: the calls, the commit and recovery exclude each  *)
(* other, what the log holds and what is pinned agree, and the header never *)
(* names a block that is not whole in the log.                              *)
THEOREM Invariance == Spec => []IndInv
BY InitOK, NextOK, PTL DEF Spec

(* The state always has the type the code gives it.                         *)
THEOREM TypeCorrect == Spec => []TypeOK
<1>1. IndInv => TypeOK
  BY DEF IndInv
<1> QED BY <1>1, Invariance, PTL

(* A buffer that bget() may recycle holds what the disk holds: nothing that *)
(* a call wrote is lost when its buffer goes to another block.              *)
THEOREM RecycledBuffersClean == Spec => []CleanBuffers
<1>1. IndInv => CleanBuffers
  BY DEF IndInv
<1> QED BY <1>1, Invariance, PTL
-----------------------------------------------------------------------------
(* The log implements AbstractDisk: one lemma per kind of step.             *)

(* The entry of a block is the only one.                                    *)
LEMMA OneEntry ==
  ASSUME NEW s, NEW i \in DOMAIN s, \A j, k \in DOMAIN s : s[j] = s[k] => j = k
  PROVE  (CHOOSE j \in DOMAIN s : s[j] = s[i]) = i
OBVIOUS

(* What a crash leaves of the disk, before a step and after it.             *)
LEMMA DurableNow ==
  ASSUME IndInv
  PROVE  /\ \A i \in DOMAIN header : header[i] \in Blocks /\ Durable[header[i]] = logged[i]
         /\ \A b \in Blocks : ~InHeader(b) => Durable[b] = home[b]
         /\ Durable = [b \in Blocks |-> Durable[b]]
<1>1. \A i \in DOMAIN header : header[i] \in Blocks
  BY LogFacts DEF IndInv
<1>2. \A i, j \in DOMAIN header : header[i] = header[j] => i = j
  BY DEF IndInv, LogOK
<1>3. \A i \in DOMAIN header : Durable[header[i]] = logged[i]
  BY <1>1, <1>2, OneEntry DEF Durable, InHeader
<1> QED BY <1>1, <1>3 DEF Durable

LEMMA DurableNext ==
  ASSUME IndInv'
  PROVE  /\ \A i \in DOMAIN header' : header'[i] \in Blocks /\ Durable'[header'[i]] = logged'[i]
         /\ \A b \in Blocks : ~InHeader(b)' => Durable'[b] = home'[b]
         /\ Durable' = [b \in Blocks |-> Durable'[b]]
<1>1. \A i \in DOMAIN header' : header'[i] \in Blocks
  <2>1. header' \in Seq(Blocks)
    BY DEF IndInv, TypeOK
  <2> QED BY <2>1, SeqFacts
<1>2. \A i, j \in DOMAIN header' : header'[i] = header'[j] => i = j
  BY DEF IndInv, LogOK
<1>3. \A i \in DOMAIN header' : Durable'[header'[i]] = logged'[i]
  BY <1>1, <1>2, OneEntry DEF Durable, InHeader
<1>4. \A b \in Blocks : ~InHeader(b)' => Durable'[b] = home'[b]
  BY DEF Durable, InHeader
<1>5. Durable' = [b \in Blocks |-> Durable'[b]]
  BY DEF Durable, InHeader
<1> QED BY <1>1, <1>3, <1>4, <1>5

(* What a crash leaves is whole.                                            *)
LEMMA DurableWhole == IndInv => Durable \in [Blocks -> Vals]
<1> SUFFICES ASSUME IndInv PROVE Durable \in [Blocks -> Vals]
  OBVIOUS
<1>1. ASSUME NEW b \in Blocks PROVE Durable[b] \in Vals
  <2>1. CASE InHeader(b)
    BY <2>1, DurableNow DEF InHeader, IndInv, DiskWhole
  <2>2. CASE ~InHeader(b)
    BY <2>2, DurableNow DEF IndInv, DiskWhole
  <2> QED BY <2>1, <2>2
<1> QED BY <1>1, DurableNow

(* The machine boots with the disk of mkfs, or of the commit cut short.     *)
LEMMA InitRefines == Init => ADisk!DInit
<1> SUFFICES ASSUME Init PROVE ADisk!DInit
  OBVIOUS
<1>1. Durable \in [Blocks -> Vals]
  BY InitOK, DurableWhole
<1>2. Recovering /\ Active = {}
  BY DEF Init, Recovering, Active, InOp
<1> QED BY <1>1, <1>2 DEF ADisk!DInit, Seen

(* A step that writes no block of the disk and changes no buffer.           *)
LEMMA DiskKept ==
  ASSUME UNCHANGED disk, \A b \in Blocks : BufData(b)' = BufData(b), Recovering' <=> Recovering
  PROVE  Durable' = Durable /\ Seen' = Seen
<1>1. Durable' = Durable
  BY DEF Durable, InHeader
<1>2. [b \in Blocks |-> BufData(b)]' = [b \in Blocks |-> BufData(b)]
  OBVIOUS
<1> QED BY <1>1, <1>2 DEF Seen

(* The calls that come, go and write.                                       *)
LEMMA CallRefines ==
  ASSUME IndInv, IndInv', NEW p \in Procs, Call(p)
  PROVE  UNCHANGED <<Durable, Seen, Active>>
<1> USE DEF IndInv, TypeOK, Call
<1>1. Active' = Active /\ (Recovering' <=> Recovering)
  BY DEF Active, InOp, Recovering
<1> QED BY <1>1, DiskKept DEF BufData

LEMMA BeginOpRefines ==
  ASSUME IndInv, IndInv', NEW p \in Procs, BeginOp(p)
  PROVE  ADisk!Begin(p) \/ UNCHANGED <<Durable, Seen, Active>>
<1> USE DEF IndInv, TypeOK, BeginOp
<1>1. Recovering' <=> Recovering
  BY DEF Recovering
<1>2. Durable' = Durable /\ Seen' = Seen
  BY <1>1, DiskKept DEF BufData
<1>3. CASE committing \/ NoRoom
  BY <1>2, <1>3 DEF Active, InOp
<1>4. CASE ~(committing \/ NoRoom)
  <2>1. p \notin Active /\ Active' = Active \cup {p}
    BY <1>4 DEF Active, InOp
  <2> QED BY <1>2, <2>1 DEF ADisk!Begin
<1> QED BY <1>3, <1>4

LEMMA ModifyRefines ==
  ASSUME IndInv, IndInv', NEW p \in Procs, NEW b \in Blocks, NEW v \in Vals, Modify(p, b, v)
  PROVE  ADisk!Write(p, b, v)
<1> USE DEF IndInv, TypeOK, Modify
<1>1. ~Recovering /\ ~Recovering'
  BY CallRuns DEF Recovering
<1>2. Durable' = Durable
  BY DEF Durable, InHeader
<1>3. \A c \in Blocks : BufData(c)' = IF c = b THEN v ELSE BufData(c)
  BY DEF BufData
<1>4. Seen' = [Seen EXCEPT ![b] = v]
  BY <1>1, <1>3 DEF Seen
<1>5. p \in Active /\ Active' = Active
  BY DEF Active, InOp
<1> QED BY <1>2, <1>4, <1>5 DEF ADisk!Write

LEMMA LogWriteRefines ==
  ASSUME IndInv, IndInv', NEW p \in Procs, NEW b \in Blocks, LogWrite(p, b)
  PROVE  ADisk!End(p) \/ UNCHANGED <<Durable, Seen, Active>>
<1> USE DEF IndInv, TypeOK, LogWrite
<1>1. Recovering' <=> Recovering
  BY DEF Recovering
<1>2. Durable' = Durable /\ Seen' = Seen
  BY <1>1, DiskKept DEF BufData
<1>3. CASE TooBig \/ outstanding < 1
  <2>1. p \in Active /\ Active' = Active \ {p}
    BY <1>3 DEF Active, InOp
  <2> QED BY <1>2, <2>1 DEF ADisk!End
<1>4. CASE ~(TooBig \/ outstanding < 1)
  BY <1>2, <1>4 DEF Active, InOp
<1> QED BY <1>3, <1>4

LEMMA RecycleRefines ==
  ASSUME IndInv, IndInv', NEW b \in Blocks, Recycle(b)
  PROVE  UNCHANGED <<Durable, Seen, Active>>
<1> USE DEF IndInv, TypeOK, Recycle
<1>1. \A c \in Blocks : BufData(c)' = BufData(c)
  BY DEF BufData, CleanBuffers
<1>2. Active' = Active /\ (Recovering' <=> Recovering)
  BY DEF Active, InOp, Recovering
<1> QED BY <1>1, <1>2, DiskKept

LEMMA EndOpRefines ==
  ASSUME IndInv, IndInv', NEW p \in Procs, EndOp(p)
  PROVE  ADisk!End(p)
<1> USE DEF IndInv, TypeOK, EndOp, WakeupGoto
<1>1. p \in Counted /\ ~committing
  BY DEF Counted, PhasesOK
<1>2. \A q \in Procs : q # p => pc'[q] = pc[q] \/ (pc[q] = "begin_sleep" /\ pc'[q] = "begin")
  BY <1>1
<1>3. pc'[p] \in {"commit_end", "write_log", "idle"}
  BY <1>1
<1>4. Recovering' <=> Recovering
  BY <1>2, <1>3 DEF Recovering
<1>5. p \in Active /\ Active' = Active \ {p}
  BY <1>2, <1>3 DEF Active, InOp
<1>6. Durable' = Durable /\ Seen' = Seen
  BY <1>4, DiskKept DEF BufData
<1> QED BY <1>5, <1>6 DEF ADisk!End

(* The commit: nothing is seen to change, and writing the header makes what *)
(* is seen durable.                                                         *)
LEMMA Quiet ==
  ASSUME IndInv, IndInv', NEW p \in Procs, Commits(p), Commits(p)',
         \A q \in Procs : q # p => pc'[q] = pc[q]
  PROVE  Active = {} /\ Active' = {} /\ ~Recovering /\ ~Recovering'
<1>1. \A q \in Procs : q # p => pc[q] \in {"idle", "begin", "begin_sleep"}
  BY CommitAlone
<1> QED BY <1>1 DEF Active, InOp, Recovering

LEMMA WriteLogRefines ==
  ASSUME IndInv, IndInv', NEW p \in Procs, WriteLog(p)
  PROVE  UNCHANGED <<Durable, Seen, Active>>
<1> USE DEF IndInv, TypeOK, WriteLog, Advance
<1>1. Active = {} /\ Active' = {} /\ ~Recovering /\ ~Recovering'
  BY Quiet
<1>2. header = <<>> /\ header' = <<>>
  BY CommitAlone DEF HeaderOK, Recovering
<1>3. \A b \in Blocks : ~InHeader(b) /\ ~InHeader(b)'
  BY <1>2, LogFacts DEF InHeader
<1>4. Durable' = Durable
  BY <1>3 DEF Durable
<1>5. Seen' = Seen
  BY <1>1 DEF Seen, BufData
<1> QED BY <1>1, <1>4, <1>5

LEMMA WriteHeadRefines ==
  ASSUME IndInv, IndInv', NEW p \in Procs, WriteHead(p)
  PROVE  ADisk!Commit
<1> USE DEF IndInv, TypeOK, WriteHead
<1>1. Active = {} /\ Active' = {} /\ ~Recovering /\ ~Recovering'
  BY Quiet
<1>2. \A q \in Procs : pc[q] \notin {"install", "erase"}
  BY CommitAlone
<1>3. \A i \in DOMAIN lh : lh[i] \in pinned /\ logged[i] = cache[lh[i]] /\ cache[lh[i]] # NoBuf
  BY <1>1, <1>2 DEF PinsOK, CopiesOK
<1>4. ASSUME NEW b \in Blocks PROVE Durable'[b] = BufData(b)
  <2>1. CASE InHeader(b)'
    BY SMTT(30), <1>3, <2>1, DurableNext DEF InHeader, BufData
  <2>2. CASE ~InHeader(b)'
    <3>1. b \notin pinned
      BY <2>2 DEF PinsOK, Logs, InHeader
    <3>2. BufData(b) = home[b]
      BY <3>1, CommitAlone DEF CleanBuffers, BufData
    <3> QED BY <2>2, <3>2, DurableNext
  <2> QED BY <2>1, <2>2
<1>5. Durable' = Seen
  BY <1>1, <1>4, DurableNext DEF Seen
<1>6. Seen' = Seen
  BY <1>1 DEF Seen, BufData
<1> QED BY <1>1, <1>5, <1>6 DEF ADisk!Commit

LEMMA InstallRefines ==
  ASSUME IndInv, IndInv', NEW p \in Procs, Install(p)
  PROVE  UNCHANGED <<Durable, Seen, Active>>
<1> USE DEF IndInv, TypeOK, Install, Advance
<1>1. Active = {} /\ Active' = {} /\ ~Recovering /\ ~Recovering'
  BY Quiet
<1>2. tail[p] \in DOMAIN lh /\ lh[tail[p]] \in Blocks /\ header = lh
  BY LogFacts DEF LogOK, HeaderOK
<1>3. logged[tail[p]] = cache[lh[tail[p]]] /\ cache[lh[tail[p]]] # NoBuf
  <2>1. \A q \in Procs : pc[q] # "erase" /\ (pc[q] = "install" => q = p)
    BY CommitAlone
  <2>2. lh[tail[p]] \in pinned
    BY <1>1, <1>2, <2>1 DEF PinsOK
  <2> QED BY <1>2, <2>2 DEF PinsOK, CopiesOK
<1>4. \A b \in Blocks : BufData(b)' = BufData(b)
  BY <1>2, <1>3 DEF BufData
<1>5. \A b \in Blocks : home'[b] = home[b] \/ InHeader(b)
  BY <1>2 DEF InHeader
<1>6. Durable' = Durable
  BY <1>5 DEF Durable, InHeader
<1>7. Seen' = Seen
  BY <1>1, <1>4 DEF Seen
<1> QED BY <1>1, <1>6, <1>7

LEMMA EraseRefines ==
  ASSUME IndInv, IndInv', NEW p \in Procs, Erase(p)
  PROVE  UNCHANGED <<Durable, Seen, Active>>
<1> USE DEF IndInv, TypeOK, Erase
<1>1. Active = {} /\ Active' = {} /\ ~Recovering /\ ~Recovering'
  BY Quiet
<1>2. \A i \in DOMAIN header : home[header[i]] = logged[i]
  BY DEF HeaderOK, CopiesOK
<1>3. \A b \in Blocks : ~InHeader(b)'
  BY EmptySeq DEF InHeader
<1>4. \A b \in Blocks : Durable[b] = home[b]
  BY <1>2, DurableNow DEF InHeader
<1>5. Durable' = Durable
  BY <1>3, <1>4, DurableNow, DurableNext
<1>6. Seen' = Seen
  BY <1>1 DEF Seen, BufData
<1> QED BY <1>1, <1>5, <1>6

LEMMA CommitEndRefines ==
  ASSUME IndInv, IndInv', NEW p \in Procs, CommitEnd(p)
  PROVE  UNCHANGED <<Durable, Seen, Active>>
<1> USE DEF IndInv, TypeOK, CommitEnd, WakeupGoto
<1>1. \A q \in Procs : q # p => pc[q] \in {"idle", "begin", "begin_sleep"}
  BY CommitAlone
<1>2. \A q \in Procs : pc'[q] \in {"idle", "begin"}
  BY <1>1
<1>3. Active = {} /\ Active' = {} /\ ~Recovering /\ ~Recovering'
  BY <1>1, <1>2 DEF Active, InOp, Recovering
<1> QED BY <1>3, DiskKept DEF BufData

(* A crash and the recovery after it.                                       *)
LEMMA CrashRefines ==
  ASSUME IndInv, IndInv', Crash
  PROVE  ADisk!Crash
<1> USE DEF IndInv, TypeOK, Crash
<1>1. Recovering' /\ Active' = {}
  BY DEF Recovering, Active, InOp
<1>2. header' = header
  OBVIOUS
<1>3. \A i \in DOMAIN header : logged'[i] = logged[i]
  <2>1. CASE logged' = logged
    BY <2>1
  <2>2. ASSUME NEW p \in Procs, pc[p] = "write_log"
        PROVE  header = <<>>
    BY <2>2, CommitAlone DEF HeaderOK, PhasesOK, Recovering
  <2>3. CASE logged' # logged
    BY <2>2, <2>3, LogFacts DEF TornLog
  <2> QED BY <2>1, <2>3
<1>4. \A b \in Blocks : home'[b] = home[b] \/ InHeader(b)
  <2>1. ASSUME NEW p \in Procs, pc[p] \in {"install", "recover"}
        PROVE  InHeader(lh[tail[p]]) /\ lh[tail[p]] \in Blocks
    BY <2>1, LogFacts DEF HeaderOK, LogOK, InHeader
  <2> QED BY <2>1 DEF TornHome
<1>5. \A b \in Blocks : InHeader(b)' <=> InHeader(b)
  BY <1>2 DEF InHeader
<1>6. \A b \in Blocks : Durable'[b] = Durable[b]
  <2> TAKE b \in Blocks
  <2>1. CASE InHeader(b)
    <3>1. PICK i \in DOMAIN header : header[i] = b
      BY <2>1 DEF InHeader
    <3>2. Durable[b] = logged[i]
      BY <3>1, DurableNow
    <3>3. Durable'[b] = logged'[i]
      BY <1>2, <3>1, DurableNext
    <3> QED BY <1>3, <3>2, <3>3
  <2>2. CASE ~InHeader(b)
    BY <1>4, <1>5, <2>2, DurableNow, DurableNext
  <2> QED BY <2>1, <2>2
<1>7. Durable' = Durable
  BY <1>6, DurableNow, DurableNext
<1> QED BY <1>1, <1>7 DEF ADisk!Crash, Seen

LEMMA ReadHeadRefines ==
  ASSUME IndInv, IndInv', NEW p \in Procs, ReadHead(p)
  PROVE  UNCHANGED <<Durable, Seen, Active>>
<1> USE DEF IndInv, TypeOK, ReadHead
<1>1. \A q \in Procs : q # p => pc[q] = "off" /\ pc'[q] = "off"
  BY RecoverAlone
<1>2. Active = {} /\ Active' = {} /\ Recovering /\ Recovering'
  BY <1>1 DEF Active, InOp, Recovering
<1> QED BY <1>2, DiskKept DEF BufData

LEMMA RecoverRefines ==
  ASSUME IndInv, IndInv', NEW p \in Procs, Recover(p)
  PROVE  UNCHANGED <<Durable, Seen, Active>>
<1> USE DEF IndInv, TypeOK, Recover, Advance
<1>1. \A q \in Procs : q # p => pc[q] = "off" /\ pc'[q] = "off"
  BY RecoverAlone
<1>2. Active = {} /\ Active' = {} /\ Recovering /\ Recovering'
  BY ZenonT(40), <1>1 DEF Active, InOp, Recovering
<1>3. tail[p] \in DOMAIN lh /\ lh[tail[p]] \in Blocks /\ header = lh
  BY LogFacts DEF LogOK, HeaderOK
<1>4. \A b \in Blocks : home'[b] = home[b] \/ InHeader(b)
  BY <1>3 DEF InHeader
<1>5. Durable' = Durable
  BY <1>4 DEF Durable, InHeader
<1> QED BY <1>2, <1>5 DEF Seen

LEMMA RecoverEraseRefines ==
  ASSUME IndInv, IndInv', NEW p \in Procs, RecoverErase(p)
  PROVE  UNCHANGED <<Durable, Seen, Active>>
<1> USE DEF IndInv, TypeOK, RecoverErase
<1>1. /\ \A q \in Procs : q # p => pc[q] = "off"
      /\ pinned = {} /\ \A b \in Blocks : holder[b] = None
  BY RecoverAlone
<1>2. Active = {} /\ Active' = {} /\ Recovering /\ ~Recovering'
  BY <1>1 DEF Active, InOp, Recovering
<1>3. \A i \in DOMAIN header : home[header[i]] = logged[i]
  BY DEF HeaderOK, CopiesOK
<1>4. \A b \in Blocks : ~InHeader(b)'
  BY EmptySeq DEF InHeader
<1>5. \A b \in Blocks : Durable[b] = home[b]
  BY <1>3, DurableNow DEF InHeader
<1>6. Durable' = Durable
  BY <1>4, <1>5, DurableNow, DurableNext
<1>7. \A b \in Blocks : BufData(b)' = home[b]
  BY <1>1 DEF BufData, CleanBuffers
<1>8. Seen' = Seen
  BY <1>2, <1>5, <1>7, DurableNow DEF Seen
<1> QED BY <1>2, <1>6, <1>8

(* Every step of the log is a step of the abstract disk, or none.           *)
LEMMA NextRefines == IndInv /\ IndInv' /\ [Next]_vars => [ADisk!DNext]_ADisk!dvars
<1> SUFFICES ASSUME IndInv, IndInv', [Next]_vars PROVE [ADisk!DNext]_ADisk!dvars
  OBVIOUS
<1> USE DEF ADisk!DNext, ADisk!dvars
<1>1. CASE UNCHANGED vars
  BY <1>1 DEF vars, Durable, Seen, Active, Recovering, InHeader, InOp, BufData
<1>2. ASSUME NEW p \in Procs, Step(p)
      PROVE  [ADisk!DNext]_ADisk!dvars
  BY <1>2, BeginOpRefines, EndOpRefines, LogWriteRefines, WriteLogRefines, WriteHeadRefines,
     InstallRefines, EraseRefines, CommitEndRefines, ReadHeadRefines, RecoverRefines,
     RecoverEraseRefines DEF Step
<1>3. ASSUME NEW p \in Procs, Call(p)
      PROVE  [ADisk!DNext]_ADisk!dvars
  BY <1>3, CallRefines
<1>4. ASSUME NEW p \in Procs, NEW b \in Blocks, NEW v \in Vals, Modify(p, b, v)
      PROVE  [ADisk!DNext]_ADisk!dvars
  BY <1>4, ModifyRefines
<1>5. ASSUME NEW b \in Blocks, Recycle(b)
      PROVE  [ADisk!DNext]_ADisk!dvars
  BY <1>5, RecycleRefines
<1>6. CASE Crash
  BY <1>6, CrashRefines
<1> QED BY <1>1, <1>2, <1>3, <1>4, <1>5, <1>6 DEF Next

(* The calls between begin_op() and end_op() commit together, and a crash   *)
(* at any moment, in recovery too, keeps all that was committed and nothing *)
(* else.                                                                    *)
THEOREM Atomicity == Spec => CrashAtomic
<1>1. Spec => []IndInv
  BY Invariance
<1> QED BY <1>1, InitRefines, NextRefines, PTL DEF Spec, CrashAtomic, ADisk!DSpec
-----------------------------------------------------------------------------
(* The log has room for the calls that begin_op() admits.                   *)

(* A set of at most n elements fits in 1 .. n.                              *)
LEMMA FitsIn ==
  ASSUME NEW S, IsFiniteSet(S), NEW n \in Nat, Cardinality(S) <= n
  PROVE  \E h \in [S -> 1 .. n] : \A x, y \in S : h[x] = h[y] => x = y
<1> DEFINE c == Cardinality(S)
<1>1. c \in Nat /\ ExistsBijection(1 .. c, S)
  BY FS_CardinalityType
<1>2. PICK f : f \in Bijection(1 .. c, S)
  BY <1>1 DEF ExistsBijection
<1>3. f \in [1 .. c -> S] /\ \A x \in S : \E i \in 1 .. c : f[i] = x
  BY <1>2 DEF Bijection, Injection, Surjection
<1> DEFINE h == [x \in S |-> CHOOSE i \in 1 .. c : f[i] = x]
<1>4. \A x \in S : h[x] \in 1 .. c /\ f[h[x]] = x
  BY <1>3
<1>5. h \in [S -> 1 .. n]
  BY <1>1, <1>4
<1>6. \A x, y \in S : h[x] = h[y] => x = y
  BY <1>4
<1> QED BY <1>5, <1>6

(* The blocks are finitely many, and so is what a call has written.         *)
LEMMA WrittenFinite ==
  ASSUME TypeOK
  PROVE  /\ IsFiniteSet(Blocks)
         /\ \A p \in Procs : IsFiniteSet(written[p]) /\ Cardinality(written[p]) \in Nat
         /\ IsFiniteSet(InLog) /\ Cardinality(InLog) \in Nat
<1>1. IsFiniteSet(Blocks)
  BY LogAssumption DEF LogAssumption
<1>2. \A p \in Procs : written[p] \in SUBSET Blocks
  BY DEF TypeOK
<1>3. \A p \in Procs : IsFiniteSet(written[p]) /\ Cardinality(written[p]) \in Nat
  BY <1>1, <1>2, FS_Subset, FS_CardinalityType
<1>4. IsFiniteSet(Procs \X Blocks)
  BY <1>1, CountedFinite, FS_Product
<1>5. IsFiniteSet(InLog) /\ Cardinality(InLog) \in Nat
  BY <1>4, FS_Subset, FS_CardinalityType DEF InLog
<1> QED BY <1>1, <1>3, <1>5

LEMMA WrittenFiniteNext ==
  ASSUME TypeOK'
  PROVE  IsFiniteSet(InLog') /\ Cardinality(InLog') \in Nat
<1>1. IsFiniteSet(Procs \X Blocks)
  BY LogAssumption, CountedFinite, FS_Product DEF LogAssumption
<1> QED BY <1>1, FS_Subset, FS_CardinalityType DEF InLog

(* The calls in progress have at most OPBLOCKS blocks each in the log.      *)
LEMMA InLogBound ==
  ASSUME IndInv, RoomOK
  PROVE  Cardinality(InLog) <= outstanding * OPBLOCKS
<1> USE DEF IndInv
<1>1. \A p \in Procs : \E h \in [written[p] -> 1 .. OPBLOCKS] :
                         \A x, y \in written[p] : h[x] = h[y] => x = y
  BY WrittenFinite, FitsIn DEF RoomOK
<1> DEFINE h == [p \in Procs |-> CHOOSE f \in [written[p] -> 1 .. OPBLOCKS] :
                                   \A x, y \in written[p] : f[x] = f[y] => x = y]
           F == [x \in InLog |-> <<x[1], h[x[1]][x[2]]>>]
           T == Counted \X (1 .. OPBLOCKS)
<1>2. \A p \in Procs : /\ h[p] \in [written[p] -> 1 .. OPBLOCKS]
                       /\ \A x, y \in written[p] : h[p][x] = h[p][y] => x = y
  BY <1>1
<1> HIDE DEF h
<1>3. \A x \in InLog : /\ x = <<x[1], x[2]>> /\ x[1] \in Procs /\ x[1] \in Counted
                       /\ x[2] \in written[x[1]]
  BY DEF InLog
<1>4. F \in [InLog -> T]
  BY <1>2, <1>3
<1>5. \A x, y \in InLog : F[x] = F[y] => x = y
  <2> SUFFICES ASSUME NEW x \in InLog, NEW y \in InLog, F[x] = F[y]
               PROVE  x = y
    OBVIOUS
  <2>1. x[1] = y[1] /\ h[x[1]][x[2]] = h[y[1]][y[2]]
    OBVIOUS
  <2>2. x[2] = y[2]
    BY <1>2, <1>3, <2>1
  <2> QED BY <1>3, <2>1, <2>2
<1>6. F \in Injection(InLog, T)
  BY <1>4, <1>5 DEF Injection, IsInjective
<1>7. IsFiniteSet(T) /\ Cardinality(T) = outstanding * OPBLOCKS
  <2>1. IsFiniteSet(1 .. OPBLOCKS) /\ Cardinality(1 .. OPBLOCKS) = OPBLOCKS
    BY FS_Interval
  <2> QED BY <2>1, CountedFinite, FS_Product DEF PhasesOK
<1> QED BY <1>6, <1>7, FS_Injection

(* A log that holds only blocks of one call is no longer than what the call *)
(* has written.                                                             *)
LEMMA OneCallLog ==
  ASSUME IndInv, NEW p \in Procs, \A b \in Blocks : Logs(b) => b \in written[p]
  PROVE  Len(lh) <= Cardinality(written[p])
<1> USE DEF IndInv
<1>1. lh \in [1 .. Len(lh) -> Blocks] /\ Len(lh) \in Nat
  BY LenProperties DEF TypeOK
<1>2. lh \in [1 .. Len(lh) -> written[p]]
  BY <1>1 DEF Logs
<1>3. lh \in Injection(1 .. Len(lh), written[p])
  BY <1>1, <1>2 DEF LogOK, Injection, IsInjective
<1>4. \A n \in Nat : Cardinality(1 .. n) = n
  BY FS_Interval
<1> QED BY <1>1, <1>3, <1>4, WrittenFinite, FS_Injection

(* When the log is what mkfs makes it, log_write() finds room.              *)
LEMMA NotTooBig ==
  ASSUME LogFits, IndInv, RoomOK, NEW p \in Counted
  PROVE  ~TooBig
<1> USE DEF IndInv
<1> DEFINE k == Cardinality(InLog)
           n == Len(lh)
           o == outstanding
<1>1. o \in Nat /\ o > 0 /\ n \in Nat /\ k \in Nat /\ (o = 1 => Counted = {p})
  BY WrittenFinite, CountedSome, LogFacts DEF PhasesOK
<1>2. k <= o * OPBLOCKS /\ n + o * MAXOPBLOCKS - k <= LOGSIZE
  BY <1>1, InLogBound DEF RoomOK
<1>3. CASE o > 1
  <2> DEFINE d == MAXOPBLOCKS - OPBLOCKS
  <2>1. d \in Nat \ {0}
    BY DEF LogFits
  <2>2. o * MAXOPBLOCKS = o * OPBLOCKS + o * d
    BY <1>1, <2>1
  <2>3. o * d >= 2 * d
    <3>1. o = (o - 2) + 2 /\ o - 2 \in Nat
      BY <1>1, <1>3
    <3>2. o * d = (o - 2) * d + 2 * d
      BY <2>1, <3>1
    <3>3. (o - 2) * d >= 0
      BY <2>1, <3>1
    <3> QED BY <1>1, <2>1, <3>1, <3>2, <3>3
  <2>4. o * d \in Nat /\ o * OPBLOCKS \in Nat
    BY <1>1, <2>1
  <2> HIDE DEF o, n, k, d
  <2>5. n <= LOGSIZE - 2 * d
    BY <1>1, <1>2, <2>1, <2>2, <2>3, <2>4
  <2> QED BY <1>1, <2>1, <2>5 DEF LogFits, TooBig, n, d
<1>4. CASE o = 1
  <2>1. k <= OPBLOCKS /\ n + MAXOPBLOCKS - k <= LOGSIZE
    BY <1>1, <1>2, <1>4
  <2>2. \/ n + MAXOPBLOCKS - k <= LOGSIZE - (MAXOPBLOCKS - OPBLOCKS)
        \/ \A b \in Blocks : Logs(b) => b \in written[p]
    BY <1>1, <1>4 DEF RoomOK
  <2>3. CASE n + MAXOPBLOCKS - k <= LOGSIZE - (MAXOPBLOCKS - OPBLOCKS)
    BY <1>1, <2>1, <2>3 DEF LogFits, TooBig
  <2>4. CASE \A b \in Blocks : Logs(b) => b \in written[p]
    <3>1. p \in Procs
      BY DEF Counted
    <3>2. n <= OPBLOCKS
      BY <1>1, <2>4, <3>1, OneCallLog, WrittenFinite DEF RoomOK
    <3> QED BY <1>1, <2>1, <3>2 DEF LogFits, TooBig
  <2> QED BY <2>2, <2>3, <2>4
<1> QED BY <1>1, <1>3, <1>4

(* When no call is in progress there is nothing to reserve.                 *)
LEMMA SpaceIdle ==
  ASSUME SpaceInv, outstanding' = 0, written' = written, \A p \in Procs : pc'[p] # "panic"
  PROVE  SpaceInv'
BY DEF SpaceInv, RoomOK, NoPanic

LEMMA InitSpace == Init => SpaceInv
<1> SUFFICES ASSUME Init PROVE SpaceInv
  OBVIOUS
<1>1. \A p \in Procs : Cardinality(written[p]) <= OPBLOCKS
  BY FS_EmptySet DEF Init
<1> QED BY <1>1 DEF Init, SpaceInv, RoomOK, NoPanic

LEMMA CallSpace ==
  ASSUME IndInv, IndInv', SpaceInv, NEW p \in Procs, Call(p)
  PROVE  SpaceInv'
<1> USE DEF IndInv, TypeOK, Call, SpaceInv
<1>1. p \notin Counted /\ Counted' = Counted
  BY DEF Counted
<1>2. InLog' = InLog
  BY <1>1 DEF InLog, Logs
<1>3. \A q \in Procs : Cardinality(written'[q]) <= OPBLOCKS
  BY FS_EmptySet DEF RoomOK
<1>4. \A q \in Counted : written'[q] = written[q]
  BY <1>1 DEF Counted
<1>5. NoPanic'
  BY DEF NoPanic
<1>6. \A b \in Blocks : Logs(b)' <=> Logs(b)
  BY DEF Logs
<1>7. lh' = lh /\ outstanding' = outstanding
  OBVIOUS
<1> HIDE DEF IndInv, TypeOK, Call
<1> QED BY <1>1, <1>2, <1>3, <1>4, <1>5, <1>6, <1>7 DEF RoomOK

LEMMA BeginOpSpace ==
  ASSUME IndInv, IndInv', SpaceInv, NEW p \in Procs, BeginOp(p)
  PROVE  SpaceInv'
<1> USE DEF IndInv, TypeOK, BeginOp, SpaceInv
<1>1. NoPanic' /\ lh' = lh /\ written' = written
  BY DEF NoPanic
<1>2. CASE committing \/ NoRoom
  <2>1. Counted' = Counted /\ outstanding' = outstanding
    BY <1>2 DEF Counted
  <2>2. InLog' = InLog /\ \A b \in Blocks : Logs(b)' <=> Logs(b)
    BY <1>1, <2>1 DEF InLog, Logs
  <2> HIDE DEF IndInv, TypeOK, BeginOp
  <2> QED BY <1>1, <2>1, <2>2 DEF RoomOK
<1>3. CASE ~(committing \/ NoRoom)
  <2>1. outstanding' = outstanding + 1 /\ outstanding \in Nat /\ ~committing
    BY <1>3
  <2>2. Len(lh') + outstanding' * MAXOPBLOCKS <= LOGSIZE /\ Len(lh) \in Nat
    BY <1>1, <1>3, <2>1, LogFacts DEF NoRoom
  <2>3. Cardinality(InLog') \in Nat
    BY WrittenFiniteNext
  <2>4. outstanding' = 1 => \A b \in Blocks : ~Logs(b)'
    <3>1. outstanding' = 1 => Counted = {}
      BY <2>1, CountedSome DEF PhasesOK
    <3>2. outstanding' = 1 => lh = <<>>
      BY <2>1, <3>1 DEF LogOK
    <3> QED BY <1>1, <3>2, EmptySeq DEF Logs
  <2>5. outstanding' * MAXOPBLOCKS \in Nat
    BY <2>1
  <2> HIDE DEF IndInv, TypeOK, BeginOp
  <2>6. Len(lh') + outstanding' * MAXOPBLOCKS - Cardinality(InLog') <= LOGSIZE
    BY <1>1, <2>2, <2>3, <2>5
  <2> QED BY <1>1, <2>4, <2>6 DEF RoomOK
<1> QED BY <1>2, <1>3

LEMMA ModifySpace ==
  ASSUME IndInv, IndInv', SpaceInv, NEW p \in Procs, NEW b \in Blocks, NEW v \in Vals,
         Modify(p, b, v)
  PROVE  SpaceInv'
<1> USE DEF IndInv, TypeOK, Modify, SpaceInv
<1>1. NoPanic' /\ lh' = lh /\ outstanding' = outstanding /\ Counted' = Counted
  BY DEF NoPanic, Counted
<1>2. \A q \in Procs : written[q] \subseteq written'[q] /\ (q # p => written'[q] = written[q])
  OBVIOUS
<1>3. InLog \subseteq InLog'
  BY <1>1, <1>2 DEF InLog, Logs
<1>4. Cardinality(InLog) <= Cardinality(InLog') /\ Cardinality(InLog') \in Nat
      /\ Cardinality(InLog) \in Nat
  BY <1>3, WrittenFinite, WrittenFiniteNext, FS_Subset
<1>5. Cardinality(written'[p]) <= OPBLOCKS
  <2>1. written'[p] = written[p] \cup {b}
    OBVIOUS
  <2>2. IsFiniteSet(written[p]) /\ Cardinality(written[p]) \in Nat
    BY WrittenFinite
  <2>3. Cardinality(written'[p]) = IF b \in written[p] THEN Cardinality(written[p])
                                   ELSE Cardinality(written[p]) + 1
    BY <2>1, <2>2, FS_AddElement
  <2> QED BY <2>2, <2>3 DEF RoomOK
<1>6. \A q \in Procs : Cardinality(written'[q]) <= OPBLOCKS
  BY <1>2, <1>5 DEF RoomOK
<1>7. \A c \in Blocks : Logs(c)' <=> Logs(c)
  BY DEF Logs
<1>8. Len(lh) \in Nat /\ outstanding * MAXOPBLOCKS \in Nat /\ Counted \subseteq Procs
  BY LogFacts DEF Counted
<1> HIDE DEF IndInv, TypeOK, Modify
<1>9. outstanding' > 0 =>
        Len(lh') + outstanding' * MAXOPBLOCKS - Cardinality(InLog') <= LOGSIZE
  BY <1>1, <1>4, <1>8 DEF RoomOK
<1>10. outstanding' = 1 =>
         \/ Len(lh') + MAXOPBLOCKS - Cardinality(InLog') <= LOGSIZE - (MAXOPBLOCKS - OPBLOCKS)
         \/ \A c \in Blocks, q \in Counted' : Logs(c)' => c \in written'[q]
  <2> SUFFICES ASSUME outstanding' = 1
               PROVE  \/ Len(lh') + MAXOPBLOCKS - Cardinality(InLog') <=
                           LOGSIZE - (MAXOPBLOCKS - OPBLOCKS)
                      \/ \A c \in Blocks, q \in Counted' : Logs(c)' => c \in written'[q]
    OBVIOUS
  <2>1. \/ Len(lh) + MAXOPBLOCKS - Cardinality(InLog) <= LOGSIZE - (MAXOPBLOCKS - OPBLOCKS)
        \/ \A c \in Blocks, q \in Counted : Logs(c) => c \in written[q]
    BY <1>1 DEF RoomOK
  <2>2. CASE Len(lh) + MAXOPBLOCKS - Cardinality(InLog) <= LOGSIZE - (MAXOPBLOCKS - OPBLOCKS)
    BY <1>1, <1>4, <1>8, <2>2
  <2>3. CASE \A c \in Blocks, q \in Counted : Logs(c) => c \in written[q]
    BY <1>1, <1>2, <1>7, <1>8, <2>3
  <2> QED BY <2>1, <2>2, <2>3
<1> QED BY <1>1, <1>6, <1>9, <1>10 DEF RoomOK

LEMMA LogWriteSpace ==
  ASSUME LogFits, IndInv, IndInv', SpaceInv, NEW p \in Procs, NEW b \in Blocks, LogWrite(p, b)
  PROVE  SpaceInv'
<1> USE DEF IndInv, TypeOK, LogWrite, SpaceInv
<1>1. p \in Counted /\ b \in written[p]
  BY DEF Counted, HoldersOK
<1>2. ~TooBig /\ outstanding \in Nat /\ ~(outstanding < 1)
  BY <1>1, NotTooBig, CountedSome DEF PhasesOK
<1>3. /\ lh' = (IF Logs(b) THEN lh ELSE Append(lh, b)) /\ written' = written
      /\ outstanding' = outstanding /\ Counted' = Counted /\ NoPanic'
  BY <1>2 DEF Counted, NoPanic
<1>4. /\ Len(lh') = IF Logs(b) THEN Len(lh) ELSE Len(lh) + 1
      /\ \A c \in Blocks : Logs(c)' <=> (Logs(c) \/ c = b)
      /\ Len(lh) \in Nat
  <2>1. TypeOK
    OBVIOUS
  <2> HIDE DEF IndInv, TypeOK, LogWrite
  <2>2. /\ Len(lh') = IF Logs(b) THEN Len(lh) ELSE Len(lh) + 1
        /\ \A i \in DOMAIN lh : i \in DOMAIN lh' /\ lh'[i] = lh[i]
        /\ \A i \in DOMAIN lh' : i \in DOMAIN lh \/ lh'[i] = b
        /\ \E i \in DOMAIN lh' : lh'[i] = b
    BY <1>3, <2>1, LogGrows
  <2>3. \A c \in Blocks : Logs(c)' <=> (Logs(c) \/ c = b)
    BY <2>2 DEF Logs
  <2> QED BY <2>1, <2>2, <2>3, LogFacts
<1>5. /\ IsFiniteSet(InLog) /\ Cardinality(InLog) \in Nat
      /\ IsFiniteSet(InLog') /\ Cardinality(InLog') \in Nat
  BY WrittenFinite, WrittenFiniteNext
<1>6. Counted \subseteq Procs /\ outstanding * MAXOPBLOCKS \in Nat
  BY DEF Counted
<1> HIDE DEF IndInv, TypeOK, LogWrite
<1>7. InLog \subseteq InLog' /\ <<p, b>> \in InLog'
  BY <1>1, <1>3, <1>4 DEF InLog
<1>8. Cardinality(InLog') - Len(lh') >= Cardinality(InLog) - Len(lh)
  <2>1. CASE Logs(b)
    <3>1. Cardinality(InLog) <= Cardinality(InLog')
      BY <1>5, <1>7, FS_Subset
    <3> QED BY <1>4, <1>5, <2>1, <3>1
  <2>2. CASE ~Logs(b)
    <3>1. <<p, b>> \notin InLog
      BY <2>2 DEF InLog
    <3>2. Cardinality(InLog \cup {<<p, b>>}) = Cardinality(InLog) + 1
      BY <1>5, <3>1, FS_AddElement
    <3>3. Cardinality(InLog \cup {<<p, b>>}) <= Cardinality(InLog')
      BY <1>5, <1>7, FS_Subset
    <3> QED BY <1>4, <1>5, <2>2, <3>2, <3>3
  <2> QED BY <2>1, <2>2
<1>9. Len(lh') + outstanding' * MAXOPBLOCKS - Cardinality(InLog') <= LOGSIZE
  BY <1>2, <1>3, <1>4, <1>5, <1>6, <1>8 DEF RoomOK
<1>10. outstanding' = 1 =>
         \/ Len(lh') + MAXOPBLOCKS - Cardinality(InLog') <= LOGSIZE - (MAXOPBLOCKS - OPBLOCKS)
         \/ \A c \in Blocks, q \in Counted' : Logs(c)' => c \in written'[q]
  <2> SUFFICES ASSUME outstanding' = 1
               PROVE  \/ Len(lh') + MAXOPBLOCKS - Cardinality(InLog') <=
                           LOGSIZE - (MAXOPBLOCKS - OPBLOCKS)
                      \/ \A c \in Blocks, q \in Counted' : Logs(c)' => c \in written'[q]
    OBVIOUS
  <2>1. \/ Len(lh) + MAXOPBLOCKS - Cardinality(InLog) <= LOGSIZE - (MAXOPBLOCKS - OPBLOCKS)
        \/ \A c \in Blocks, q \in Counted : Logs(c) => c \in written[q]
    BY <1>3 DEF RoomOK
  <2>2. Counted = {p}
    BY <1>1, <1>3, CountedSome DEF IndInv, PhasesOK
  <2>3. CASE Len(lh) + MAXOPBLOCKS - Cardinality(InLog) <= LOGSIZE - (MAXOPBLOCKS - OPBLOCKS)
    BY SMTT(30), <1>4, <1>5, <1>8, <2>3
  <2>4. CASE \A c \in Blocks, q \in Counted : Logs(c) => c \in written[q]
    BY <1>1, <1>3, <1>4, <2>2, <2>4
  <2> QED BY <2>1, <2>3, <2>4
<1> QED BY <1>3, <1>9, <1>10 DEF RoomOK

LEMMA EndOpSpace ==
  ASSUME IndInv, IndInv', SpaceInv, NEW p \in Procs, EndOp(p)
  PROVE  SpaceInv'
<1> USE DEF IndInv, TypeOK, EndOp, WakeupGoto, SpaceInv
<1>1. p \in Counted /\ ~committing /\ outstanding \in Nat
  BY CountedSome DEF Counted, PhasesOK
<1>2. NoPanic' /\ lh' = lh /\ written' = written /\ outstanding' = outstanding - 1
  BY <1>1 DEF NoPanic
<1>3. CASE outstanding = 1
  BY <1>2, <1>3 DEF RoomOK
<1>4. CASE outstanding # 1
  <2>1. \A q \in Procs : pc'[q] = IF q = p THEN "idle"
                                  ELSE IF pc[q] = "begin_sleep" THEN "begin" ELSE pc[q]
    BY <1>1, <1>4
  <2>2. Counted' = Counted \ {p}
    BY <2>1 DEF Counted
  <2>3. \A b \in Blocks : Logs(b)' <=> Logs(b)
    BY <1>2 DEF Logs
  <2> DEFINE R == {p} \X written[p]
  <2>4. InLog' = InLog \ R
    BY <1>2, <2>2, <2>3 DEF InLog
  <2>5. IsFiniteSet(InLog) /\ Cardinality(InLog) \in Nat /\ Cardinality(InLog') \in Nat
    BY WrittenFinite, WrittenFiniteNext
  <2>6. Cardinality(InLog') = Cardinality(InLog) - Cardinality(InLog \cap R)
    BY <2>4, <2>5, FS_Difference
  <2>7. Cardinality(InLog \cap R) <= OPBLOCKS /\ Cardinality(InLog \cap R) \in Nat
    <3>1. IsFiniteSet(written[p]) /\ Cardinality(written[p]) <= OPBLOCKS
          /\ Cardinality(written[p]) \in Nat
      BY WrittenFinite DEF RoomOK
    <3>2. IsFiniteSet({p}) /\ Cardinality({p}) = 1
      BY FS_Singleton
    <3>3. IsFiniteSet(R) /\ Cardinality(R) = 1 * Cardinality(written[p])
      BY <3>1, <3>2, FS_Product
    <3> HIDE DEF R, IndInv, TypeOK, EndOp
    <3>4. IsFiniteSet(InLog \cap R) /\ Cardinality(InLog \cap R) <= Cardinality(R)
      BY <3>3, FS_Intersection
    <3>5. Cardinality(InLog \cap R) \in Nat
      BY <3>4, FS_CardinalityType
    <3> QED BY <3>1, <3>3, <3>4, <3>5
  <2>8. Len(lh) \in Nat /\ outstanding * MAXOPBLOCKS \in Nat /\ outstanding > 0
    BY <1>1, LogFacts, CountedSome DEF PhasesOK
  <2>9. (outstanding - 1) * MAXOPBLOCKS = outstanding * MAXOPBLOCKS - MAXOPBLOCKS
    BY <1>1
  <2> DEFINE k == Cardinality(InLog)
             r == Cardinality(InLog \cap R)
             m == outstanding * MAXOPBLOCKS
  <2>10. Len(lh) + m - k <= LOGSIZE
    BY <2>8 DEF RoomOK
  <2>11. outstanding = 2 => m = 2 * MAXOPBLOCKS
    OBVIOUS
  <2> HIDE DEF k, r, m, R, IndInv, TypeOK, EndOp
  <2>12. Len(lh) + (m - MAXOPBLOCKS) - (k - r) <= LOGSIZE - (MAXOPBLOCKS - OPBLOCKS)
    BY <2>5, <2>7, <2>8, <2>10 DEF k, r, m
  <2>13. Len(lh') + outstanding' * MAXOPBLOCKS - Cardinality(InLog') <=
           LOGSIZE - (MAXOPBLOCKS - OPBLOCKS)
    BY <1>2, <2>6, <2>9, <2>12 DEF k, r, m
  <2>14. outstanding' = 1 => Len(lh') + MAXOPBLOCKS - Cardinality(InLog') <=
           LOGSIZE - (MAXOPBLOCKS - OPBLOCKS)
    BY <2>13
  <2>15. Len(lh') + outstanding' * MAXOPBLOCKS - Cardinality(InLog') <= LOGSIZE
    <3>1. outstanding' * MAXOPBLOCKS \in Int /\ Len(lh') \in Nat
      BY <1>1, <1>2, <2>8
    <3> QED BY <2>5, <2>13, <3>1
  <2>16. \A q \in Procs : Cardinality(written'[q]) <= OPBLOCKS
    BY <1>2 DEF RoomOK
  <2> QED BY <1>2, <2>14, <2>15, <2>16 DEF RoomOK
<1> QED BY <1>3, <1>4

LEMMA CommitSpace ==
  ASSUME IndInv, SpaceInv, NEW p \in Procs,
         WriteLog(p) \/ WriteHead(p) \/ Install(p) \/ Erase(p) \/ CommitEnd(p)
  PROVE  SpaceInv'
<1> USE DEF IndInv, TypeOK, WriteLog, WriteHead, Install, Erase, CommitEnd, Advance, WakeupGoto
<1>1. outstanding' = 0 /\ written' = written
  BY CommitAlone
<1>2. \A q \in Procs : pc'[q] # "panic"
  BY ZenonT(40) DEF SpaceInv, NoPanic
<1> QED BY <1>1, <1>2, SpaceIdle

LEMMA RecoverySpace ==
  ASSUME IndInv, SpaceInv, NEW p \in Procs, ReadHead(p) \/ Recover(p) \/ RecoverErase(p)
  PROVE  SpaceInv'
<1> USE DEF IndInv, TypeOK, ReadHead, Recover, RecoverErase, Advance
<1>1. outstanding' = 0 /\ written' = written
  BY RecoverAlone
<1>2. \A q \in Procs : pc'[q] # "panic"
  BY DEF SpaceInv, NoPanic
<1> QED BY <1>1, <1>2, SpaceIdle

LEMMA NextSpace == LogFits /\ IndInv /\ IndInv' /\ SpaceInv /\ [Next]_vars => SpaceInv'
<1> SUFFICES ASSUME LogFits, IndInv, IndInv', SpaceInv, [Next]_vars PROVE SpaceInv'
  OBVIOUS
<1>1. CASE UNCHANGED vars
  BY <1>1 DEF vars, SpaceInv, RoomOK, NoPanic, InLog, Counted, Logs
<1>2. ASSUME NEW p \in Procs, Step(p)
      PROVE  SpaceInv'
  BY <1>2, BeginOpSpace, EndOpSpace, LogWriteSpace, CommitSpace, RecoverySpace DEF Step
<1>3. ASSUME NEW p \in Procs, Call(p)
      PROVE  SpaceInv'
  BY <1>3, CallSpace
<1>4. ASSUME NEW p \in Procs, NEW b \in Blocks, NEW v \in Vals, Modify(p, b, v)
      PROVE  SpaceInv'
  BY <1>4, ModifySpace
<1>5. ASSUME NEW b \in Blocks, Recycle(b)
      PROVE  SpaceInv'
  BY <1>5 DEF Recycle, SpaceInv, RoomOK, NoPanic, InLog, Counted, Logs
<1>6. CASE Crash
  <2>1. outstanding' = 0 /\ \A p \in Procs : written'[p] = {} /\ pc'[p] # "panic"
    BY <1>6 DEF Crash
  <2>2. \A p \in Procs : Cardinality(written'[p]) <= OPBLOCKS
    BY <2>1, FS_EmptySet
  <2> QED BY <2>1, <2>2 DEF SpaceInv, RoomOK, NoPanic
<1> QED BY <1>1, <1>2, <1>3, <1>4, <1>5, <1>6 DEF Next

(* With the log mkfs makes and calls that write fewer than MAXOPBLOCKS      *)
(* blocks, no call meets the panics of log_write() and end_op(): the room   *)
(* that begin_op() reserves is enough, whatever the calls in progress write *)
(* and whenever they end.                                                   *)
THEOREM NoCallPanics ==
  ASSUME LogFits
  PROVE  Spec => []NoPanic
<1>1. SpaceInv => NoPanic
  BY DEF SpaceInv
<1>2. IndInv /\ IndInv' /\ SpaceInv /\ [Next]_vars => SpaceInv'
  BY NextSpace
<1> QED BY <1>1, <1>2, InitSpace, Invariance, PTL DEF Spec

=============================================================================
