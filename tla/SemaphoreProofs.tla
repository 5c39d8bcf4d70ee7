--------------------------- MODULE SemaphoreProofs ---------------------------
(***************************************************************************)
(* Proofs about module Semaphore, for every number of processes and of      *)
(* semaphores: the inductive invariant IndInv, the safety properties it     *)
(* implies, and the refinement of AbstractSemaphore.                        *)
(***************************************************************************)
EXTENDS Semaphore, TLAPS

(* What the proofs need to know of the constants.                           *)
LEMMA Basic ==
  /\ Free \notin Procs
  /\ SemIds \subseteq OpenIds
  /\ NoChan \notin SemIds
BY NPROCAssumption, MAXSEMAssumption, NoChanAssumption, SemLocks
DEF Procs, SemIds, OpenIds, Free

(* The initial state, as seminit leaves it.                                 *)
LEMMA InitOK == Init => IndInv
<1> SUFFICES ASSUME Init PROVE IndInv
  OBVIOUS
<1> USE Basic DEF Init, BlockInit
<1>1. TypeOK
  BY NPROCAssumption, MAXSEMAssumption, MaxCallsAssumption, SemLocks
  DEF TypeOK, Labels, SemIds, OpenIds
<1>2. IdsOK /\ ParkedOK /\ TestStillTrue /\ NoLostWakeup
  BY DEF IdsOK, ParkedOK, TestStillTrue, NoLostWakeup, Dormant
<1>3. LockOwner /\ ScanComplete
  BY SemLocks DEF LockOwner, HoldLabels, ScanComplete
<1> QED BY <1>1, <1>2, <1>3 DEF IndInv

-----------------------------------------------------------------------------
(* One lemma per action.  Under it, a step for each conjunct of IndInv that *)
(* the action can disturb, and one for those it only has to carry over.     *)

(* The start of sem_close, sem_up, sem_down and get_closed_sem changes only *)
(* the caller's label and argument.                                         *)
LEMMA EnterStep ==
  ASSUME IndInv, NEW p \in Procs, calls' \in 0 .. MaxCalls,
         NEW s \in SemIds,
         NEW l \in {"close", "up_acquire", "down_acquire", "get_closed"},
         Enter(p, s, l)
  PROVE  IndInv'
<1> USE DEF IndInv
<1>1. TypeOK'
  BY Basic
  DEF TypeOK, Labels, UpLabels, DownLabels, SleepLabels, Enter, InUser,
      Goto
<1>2. IdsOK' /\ ParkedOK' /\ TestStillTrue' /\ ScanComplete' /\ NoLostWakeup'
  BY Basic
  DEF TypeOK, IdsOK, Enter, InUser, Goto, ParkedOK, TestStillTrue,
      ScanComplete, Dormant, NoLostWakeup
<1>3. LockOwner'
  BY Basic DEF TypeOK, LockOwner, HoldLabels, Enter, InUser, Goto
<1> QED BY <1>1, <1>2, <1>3

(* A sem_open that is refused.                                              *)
LEMMA OpenRejectStep ==
  ASSUME IndInv, NEW p \in Procs, calls' \in 0 .. MaxCalls,
         NEW s \in OpenIds,
         NEW v \in OpenValues,
         OpenReject(p, s, v)
  PROVE  IndInv'
<1> USE DEF IndInv
<1>1. TypeOK'
  BY Basic
  DEF TypeOK, Labels, UpLabels, DownLabels, SleepLabels, OpenReject,
      Return, InUser, Goto
<1>2. IdsOK' /\ ParkedOK' /\ TestStillTrue' /\ ScanComplete' /\ NoLostWakeup'
  BY Basic
  DEF TypeOK, IdsOK, OpenReject, Return, InUser, Goto, ParkedOK,
      TestStillTrue, ScanComplete, Dormant, NoLostWakeup
<1>3. LockOwner'
  BY Basic
  DEF TypeOK, LockOwner, HoldLabels, OpenReject, Return, InUser, Goto
<1> QED BY <1>1, <1>2, <1>3

(* The unlocked test of sem_open, passed.                                   *)
LEMMA OpenAcceptStep ==
  ASSUME IndInv, NEW p \in Procs, calls' \in 0 .. MaxCalls,
         NEW s \in OpenIds,
         NEW v \in OpenValues,
         OpenAccept(p, s, v)
  PROVE  IndInv'
<1> USE DEF IndInv
<1>1. TypeOK'
  BY Basic, OpenValuesAssumption
  DEF TypeOK, Labels, UpLabels, DownLabels, SleepLabels, OpenAccept,
      InUser, Goto
<1>2. IdsOK' /\ ParkedOK' /\ TestStillTrue' /\ ScanComplete' /\ NoLostWakeup'
  BY Basic
  DEF TypeOK, IdsOK, OpenAccept, InUser, Goto, ParkedOK, TestStillTrue,
      ScanComplete, Dormant, NoLostWakeup
<1>3. LockOwner'
  BY Basic DEF TypeOK, LockOwner, HoldLabels, OpenAccept, InUser, Goto
<1> QED BY <1>1, <1>2, <1>3

(* kill() makes a sleeper RUNNABLE and does nothing else to the semaphores. *)
LEMMA KillStep ==
  ASSUME IndInv, NEW p \in Procs, calls' \in 0 .. MaxCalls,
         NEW r \in Procs,
         Kill(p, r)
  PROVE  IndInv'
<1> USE DEF IndInv
<1>1. TypeOK'
  BY Basic
  DEF TypeOK, Labels, UpLabels, DownLabels, SleepLabels, Kill, KillProc,
      semVars
<1>2. IdsOK' /\ ParkedOK' /\ TestStillTrue' /\ ScanComplete' /\ NoLostWakeup'
  BY Basic
  DEF TypeOK, IdsOK, Kill, KillProc, semVars, ParkedOK, TestStillTrue,
      ScanComplete, Dormant, NoLostWakeup
<1>3. LockOwner'
  BY Basic DEF TypeOK, LockOwner, HoldLabels, Kill, KillProc, semVars
<1> QED BY <1>1, <1>2, <1>3

(* The locked body of sem_open: the lock is free, so nobody is between a    *)
(* test of the value and its use, and whoever is dormant when the value     *)
(* becomes positive joins orphan.                                           *)
LEMMA OpenLockedStep ==
  ASSUME IndInv, NEW p \in Procs, calls' \in 0 .. MaxCalls,
         OpenLocked(p)
  PROVE  IndInv'
<1> USE DEF IndInv
<1>a. ASSUME NEW q \in Procs, sem[q] \in SemIds, pc[q] \in HoldLabels
      PROVE  value'[sem[q]] = value[sem[q]]
  BY <1>a, Basic DEF TypeOK, LockOwner, OpenLocked
<1>b. \A q \in Procs : q # p => pc'[q] = pc[q]
  BY DEF TypeOK, OpenLocked, Return, Goto
<1>c. pc'[p] = "user" /\ UNCHANGED <<sem, wk, state>>
  BY DEF TypeOK, OpenLocked, Return, Goto
<1>5. TestStillTrue'
  BY <1>a, <1>b, <1>c DEF IdsOK, TestStillTrue, HoldLabels
<1>6. ScanComplete'
  BY <1>a, <1>b, <1>c DEF IdsOK, ScanComplete, HoldLabels, Dormant, OpenLocked
<1>1. TypeOK'
  BY Basic
  DEF TypeOK, Labels, UpLabels, DownLabels, SleepLabels, OpenLocked,
      Return, Goto, Waiters
<1>2. IdsOK' /\ ParkedOK' /\ NoLostWakeup'
  BY Basic
  DEF TypeOK, IdsOK, OpenLocked, Return, Goto, Waiters, ParkedOK,
      NoLostWakeup, Dormant
<1>3. LockOwner'
  BY Basic
  DEF TypeOK, LockOwner, HoldLabels, OpenLocked, Return, Goto, Waiters
<1> QED BY <1>1, <1>2, <1>3, <1>5, <1>6

(* sem_close leaves the value alone.                                        *)
LEMMA CloseLockedStep ==
  ASSUME IndInv, NEW p \in Procs, calls' \in 0 .. MaxCalls,
         CloseLocked(p)
  PROVE  IndInv'
<1> USE DEF IndInv
<1>0. sem[p] \in SemIds
  BY DEF IdsOK, CloseLocked
<1>1. TypeOK'
  BY <1>0, Basic
  DEF TypeOK, Labels, UpLabels, DownLabels, SleepLabels, CloseLocked,
      Return, Goto
<1>2. IdsOK' /\ ParkedOK' /\ TestStillTrue' /\ ScanComplete' /\ NoLostWakeup'
  BY <1>0, Basic
  DEF TypeOK, IdsOK, CloseLocked, Return, Goto, ParkedOK, TestStillTrue,
      ScanComplete, Dormant, NoLostWakeup
<1>3. LockOwner'
  BY <1>0, Basic
  DEF TypeOK, LockOwner, HoldLabels, CloseLocked, Return, Goto
<1> QED BY <1>1, <1>2, <1>3

(* One iteration of get_closed_sem stays inside the array.                  *)
LEMMA GetVisitStep ==
  ASSUME IndInv, NEW p \in Procs, calls' \in 0 .. MaxCalls,
         GetVisit(p)
  PROVE  IndInv'
<1> USE DEF IndInv
<1>0. sem[p] \in SemIds
  BY DEF IdsOK, GetVisit
<1>a. sem[p] \in Nat /\ sem[p] + 1 \in SemIds
  BY <1>0, MAXSEMAssumption DEF SemIds, GetVisit
<1>1. TypeOK'
  BY <1>0, <1>a, Basic DEF TypeOK, Labels, GetVisit, Return, Goto
<1>2. IdsOK'
  BY <1>0, <1>a, Basic DEF TypeOK, IdsOK, GetVisit, Return, Goto
<1>8. ParkedOK' /\ TestStillTrue' /\ ScanComplete' /\ NoLostWakeup'
  BY <1>0, Basic
  DEF TypeOK, ParkedOK, GetVisit, Return, Goto, TestStillTrue,
      ScanComplete, Dormant, NoLostWakeup
<1>3. LockOwner'
  BY <1>0, Basic DEF TypeOK, LockOwner, HoldLabels, GetVisit, Return, Goto
<1> QED BY <1>1, <1>2, <1>3, <1>8

(* The end of get_closed_sem.                                               *)
LEMMA GetEndStep ==
  ASSUME IndInv, NEW p \in Procs, calls' \in 0 .. MaxCalls,
         GetEnd(p)
  PROVE  IndInv'
<1> USE DEF IndInv
<1>0. sem[p] \in SemIds
  BY DEF IdsOK, GetEnd
<1>1. TypeOK'
  BY SMTT(30), <1>0, Basic, MAXSEMAssumption
  DEF TypeOK, SemIds, OpenIds, Labels, UpLabels, DownLabels,
      SleepLabels, GetEnd, Return, Goto
<1>2. IdsOK' /\ ParkedOK' /\ TestStillTrue' /\ ScanComplete' /\ NoLostWakeup'
  BY <1>0, Basic
  DEF TypeOK, IdsOK, GetEnd, Return, Goto, ParkedOK, TestStillTrue,
      ScanComplete, Dormant, NoLostWakeup
<1>3. LockOwner'
  BY <1>0, Basic DEF TypeOK, LockOwner, HoldLabels, GetEnd, Return, Goto
<1> QED BY <1>1, <1>2, <1>3

(* sem_up takes the lock; a scan that begins has passed no entry.           *)
LEMMA UpAcquireStep ==
  ASSUME IndInv, NEW p \in Procs, calls' \in 0 .. MaxCalls,
         UpAcquire(p)
  PROVE  IndInv'
<1> USE DEF IndInv
<1>a. \A q \in Procs : ~(q < 1)
  BY DEF Procs
<1>b. wk[p] = 1 /\ pc[p] = "up_acquire"
  BY DEF ScanComplete, UpAcquire
<1>c. UNCHANGED <<wk, value, sem, state>>
  BY DEF UpAcquire, semVars
<1>d. \A q \in Procs : q # p => pc'[q] = pc[q]
  BY DEF TypeOK, UpAcquire, Goto
<1>e. pc'[p] = "wakeup" \/ (pc'[p] = "up_inc" /\ value[sem[p]] # 0)
  BY DEF TypeOK, UpAcquire, Goto
<1>6. ScanComplete'
  BY <1>a, <1>b, <1>c, <1>d, <1>e DEF ScanComplete, Dormant
<1>0. sem[p] \in SemIds
  BY DEF IdsOK, UpAcquire
<1>1. TypeOK'
  BY <1>0, Basic
  DEF TypeOK, Labels, UpLabels, DownLabels, SleepLabels, UpAcquire,
      Acquire, Goto, semVars
<1>2. IdsOK' /\ ParkedOK' /\ TestStillTrue' /\ NoLostWakeup'
  BY <1>0, Basic
  DEF TypeOK, IdsOK, UpAcquire, Acquire, Goto, semVars, ParkedOK,
      TestStillTrue, NoLostWakeup, Dormant
<1>3. LockOwner'
  BY <1>0, Basic
  DEF TypeOK, LockOwner, HoldLabels, UpAcquire, Acquire, Goto, semVars
<1> QED BY <1>1, <1>2, <1>3, <1>6

(* One entry of the scan.  The entry visited is not dormant afterwards:     *)
(* p->lock was free, so its process was not committed to sleeping, and if   *)
(* it was asleep on this channel it has been made RUNNABLE.                 *)
LEMMA WakeupVisitStep ==
  ASSUME IndInv, NEW p \in Procs, calls' \in 0 .. MaxCalls,
         WakeupVisit(p, sem[p]),
         UNCHANGED semVars
  PROVE  IndInv'
<1> USE DEF IndInv
<1>0. sem[p] \in SemIds /\ pc[p] = "wakeup"
  BY DEF IdsOK, WakeupVisit
<1>a. wk[p] + 1 \in 1 .. (NPROC + 1)
  BY NPROCAssumption DEF WakeupVisit, Procs
<1>1. TypeOK'
  BY <1>a DEF TypeOK, WakeupVisit, semVars
<1>b. UNCHANGED <<pc, sem, value>> /\ wk' = [wk EXCEPT ![p] = @ + 1]
  BY DEF WakeupVisit, semVars
<1>c. \A q \in Procs, s \in SemIds : Dormant(q, s)' => Dormant(q, s)
  BY <1>b DEF TypeOK, Dormant, WakeupVisit
<1>d. ASSUME NEW q \in Procs, q = wk[p] PROVE ~Dormant(q, sem[p])'
  BY <1>0, <1>d DEF TypeOK, LockOwner, ParkedOK, HoldLabels, Dormant, WakeupVisit, semVars, Free, Procs
<1>e. ASSUME NEW q \in Procs, q < wk[p] + 1 PROVE q < wk[p] \/ q = wk[p]
  BY <1>e, <1>a DEF Procs, TypeOK, WakeupVisit
<1>6. ScanComplete'
  <2>1. ASSUME NEW q \in Procs, q < wk'[p] PROVE ~Dormant(q, sem[p])'
    BY <1>0, <1>b, <1>c, <1>d, <1>e, <2>1 DEF ScanComplete, TypeOK
  <2>2. ASSUME NEW r \in Procs, r # p, pc'[r] # "wakeup" PROVE wk'[r] = 1
    BY <1>b, <2>2 DEF ScanComplete, TypeOK
  <2>3. ASSUME NEW r \in Procs, r # p, pc'[r] = "wakeup", NEW q \in Procs, q < wk'[r] PROVE ~Dormant(q, sem[r])'
    BY <1>b, <1>c, <2>3 DEF ScanComplete, TypeOK, IdsOK
  <2>4. ASSUME NEW r \in Procs, pc'[r] = "up_inc", value'[sem'[r]] = 0, NEW q \in Procs PROVE ~Dormant(q, sem[r])'
    BY <1>b, <1>c, <2>4 DEF ScanComplete, TypeOK, IdsOK
  <2> QED BY <1>0, <1>b, <2>1, <2>2, <2>3, <2>4 DEF ScanComplete
<1>2. IdsOK' /\ ParkedOK' /\ TestStillTrue' /\ NoLostWakeup'
  BY <1>0, Basic
  DEF TypeOK, IdsOK, WakeupVisit, semVars, ParkedOK, TestStillTrue,
      NoLostWakeup, Dormant
<1>3. LockOwner'
  BY <1>0, Basic DEF TypeOK, LockOwner, HoldLabels, WakeupVisit, semVars
<1> QED BY <1>1, <1>2, <1>3, <1>6

(* The end of the scan: it has passed every entry.                          *)
LEMMA WakeupReturnStep ==
  ASSUME IndInv, NEW p \in Procs, calls' \in 0 .. MaxCalls,
         WakeupReturn(p, "up_inc"),
         UNCHANGED semVars
  PROVE  IndInv'
<1> USE DEF IndInv
<1>a. \A q \in Procs : q < wk[p]
  BY NPROCAssumption DEF Procs, WakeupReturn
<1>b. pc[p] = "wakeup" /\ pc'[p] = "up_inc" /\ wk'[p] = 1 /\ UNCHANGED <<sem, value, state>>
  BY DEF TypeOK, WakeupReturn, Goto, semVars
<1>c. \A q \in Procs : q # p => pc'[q] = pc[q] /\ wk'[q] = wk[q]
  BY DEF TypeOK, WakeupReturn, Goto
<1>6. ScanComplete'
  BY <1>a, <1>b, <1>c DEF ScanComplete, Dormant
<1>0. sem[p] \in SemIds
  BY DEF IdsOK, WakeupReturn
<1>1. TypeOK'
  BY <1>0, Basic
  DEF TypeOK, Labels, UpLabels, DownLabels, SleepLabels, WakeupReturn,
      Goto, semVars
<1>2. IdsOK' /\ ParkedOK' /\ TestStillTrue' /\ NoLostWakeup'
  BY <1>0, Basic
  DEF TypeOK, IdsOK, WakeupReturn, Goto, semVars, ParkedOK,
      TestStillTrue, NoLostWakeup, Dormant
<1>3. LockOwner'
  BY <1>0, Basic
  DEF TypeOK, LockOwner, HoldLabels, WakeupReturn, Goto, semVars
<1> QED BY <1>1, <1>2, <1>3, <1>6

(* The increment: with the value at 0 nobody is dormant, by the scan; with  *)
(* a positive value only orphans are.                                       *)
LEMMA UpIncStep ==
  ASSUME IndInv, NEW p \in Procs, calls' \in 0 .. MaxCalls,
         UpInc(p)
  PROVE  IndInv'
<1> USE DEF IndInv
<1>0. sem[p] \in SemIds
  BY DEF IdsOK, UpInc
<1>1. TypeOK'
  BY <1>0, Basic
  DEF TypeOK, Labels, UpLabels, DownLabels, SleepLabels, UpInc, Release,
      Return, Goto
<1>2. IdsOK' /\ ParkedOK' /\ ScanComplete'
  BY <1>0, Basic
  DEF TypeOK, IdsOK, UpInc, Release, Return, Goto, ParkedOK,
      ScanComplete, Dormant
<1>3. LockOwner'
  BY <1>0, Basic
  DEF TypeOK, LockOwner, HoldLabels, UpInc, Release, Return, Goto
<1>5. TestStillTrue'
  BY <1>0, Basic
  DEF TypeOK, LockOwner, HoldLabels, TestStillTrue, UpInc, Release,
      Return, Goto
<1>7. NoLostWakeup'
  BY <1>0, Basic
  DEF TypeOK, ScanComplete, NoLostWakeup, Dormant, UpInc, Release,
      Return, Goto
<1> QED BY <1>1, <1>2, <1>3, <1>5, <1>7

(* sem_down takes the lock.                                                 *)
LEMMA DownAcquireStep ==
  ASSUME IndInv, NEW p \in Procs, calls' \in 0 .. MaxCalls,
         DownAcquire(p)
  PROVE  IndInv'
<1> USE DEF IndInv
<1>0. sem[p] \in SemIds
  BY DEF IdsOK, DownAcquire
<1>1. TypeOK'
  BY <1>0, Basic
  DEF TypeOK, Labels, UpLabels, DownLabels, SleepLabels, DownAcquire,
      Acquire, Goto, semVars
<1>2. IdsOK' /\ ParkedOK' /\ TestStillTrue' /\ ScanComplete' /\ NoLostWakeup'
  BY <1>0, Basic
  DEF TypeOK, IdsOK, DownAcquire, Acquire, Goto, semVars, ParkedOK,
      TestStillTrue, ScanComplete, Dormant, NoLostWakeup
<1>3. LockOwner'
  BY <1>0, Basic
  DEF TypeOK, LockOwner, HoldLabels, DownAcquire, Acquire, Goto, semVars
<1> QED BY <1>1, <1>2, <1>3

(* The test of sem_down's loop.                                             *)
LEMMA DownTestStep ==
  ASSUME IndInv, NEW p \in Procs, calls' \in 0 .. MaxCalls,
         DownTest(p)
  PROVE  IndInv'
<1> USE DEF IndInv
<1>0. sem[p] \in SemIds
  BY DEF IdsOK, DownTest
<1>1. TypeOK'
  BY <1>0, Basic
  DEF TypeOK, Labels, UpLabels, DownLabels, SleepLabels, DownTest, Goto,
      semVars
<1>2. IdsOK' /\ ParkedOK' /\ TestStillTrue' /\ ScanComplete' /\ NoLostWakeup'
  BY <1>0, Basic
  DEF TypeOK, IdsOK, DownTest, Goto, semVars, ParkedOK, TestStillTrue,
      ScanComplete, Dormant, NoLostWakeup
<1>3. LockOwner'
  BY <1>0, Basic DEF TypeOK, LockOwner, HoldLabels, DownTest, Goto, semVars
<1> QED BY <1>1, <1>2, <1>3

(* sleep() takes p->lock.                                                   *)
LEMMA SleepLockProcStep ==
  ASSUME IndInv, NEW p \in Procs, calls' \in 0 .. MaxCalls,
         SleepLockProc(p),
         UNCHANGED semVars
  PROVE  IndInv'
<1> USE DEF IndInv
<1>0. sem[p] \in SemIds
  BY DEF IdsOK, SleepLockProc
<1>1. TypeOK'
  BY <1>0, Basic
  DEF TypeOK, Labels, UpLabels, DownLabels, SleepLabels, SleepLockProc,
      Goto, semVars
<1>2. IdsOK' /\ ParkedOK' /\ TestStillTrue' /\ ScanComplete' /\ NoLostWakeup'
  BY <1>0, Basic
  DEF TypeOK, IdsOK, SleepLockProc, Goto, semVars, ParkedOK,
      TestStillTrue, ScanComplete, Dormant, NoLostWakeup
<1>3. LockOwner'
  BY <1>0, Basic
  DEF TypeOK, LockOwner, HoldLabels, SleepLockProc, Goto, semVars
<1> QED BY <1>1, <1>2, <1>3

(* sleep() releases the semaphore: the process becomes dormant with the     *)
(* value still 0, and no scan is under way on this semaphore, since a       *)
(* scanner would hold its lock.                                             *)
LEMMA SleepReleaseLockStep ==
  ASSUME IndInv, NEW p \in Procs, calls' \in 0 .. MaxCalls,
         SleepReleaseLock(p, sem[p]),
         UNCHANGED semVars
  PROVE  IndInv'
<1> USE DEF IndInv
<1>0. sem[p] \in SemIds
  BY DEF IdsOK, SleepReleaseLock
<1>1. TypeOK'
  BY <1>0, Basic
  DEF TypeOK, Labels, UpLabels, DownLabels, SleepLabels,
      SleepReleaseLock, Release, Goto, semVars
<1>2. IdsOK' /\ ParkedOK' /\ TestStillTrue'
  BY <1>0, Basic
  DEF TypeOK, IdsOK, SleepReleaseLock, Release, Goto, semVars, ParkedOK,
      TestStillTrue
<1>3. LockOwner'
  BY <1>0, Basic
  DEF TypeOK, LockOwner, HoldLabels, SleepReleaseLock, Release, Goto,
      semVars
<1>6. ScanComplete'
  BY <1>0, Basic
  DEF TypeOK, LockOwner, HoldLabels, ScanComplete, Dormant,
      SleepReleaseLock, Release, Goto, semVars
<1>7. NoLostWakeup'
  BY <1>0, Basic
  DEF TypeOK, TestStillTrue, NoLostWakeup, Dormant, SleepReleaseLock,
      Release, Goto, semVars
<1> QED BY <1>1, <1>2, <1>3, <1>6, <1>7

(* sleep() switches the process out.                                        *)
LEMMA SleepParkStep ==
  ASSUME IndInv, NEW p \in Procs, calls' \in 0 .. MaxCalls,
         SleepPark(p, sem[p]),
         UNCHANGED semVars
  PROVE  IndInv'
<1> USE DEF IndInv
<1>0. sem[p] \in SemIds
  BY DEF IdsOK, SleepPark
<1>1. TypeOK'
  BY <1>0, Basic
  DEF TypeOK, Labels, UpLabels, DownLabels, SleepLabels, SleepPark,
      Goto, semVars
<1>2. IdsOK' /\ ParkedOK' /\ TestStillTrue' /\ ScanComplete' /\ NoLostWakeup'
  BY <1>0, Basic
  DEF TypeOK, IdsOK, SleepPark, Goto, semVars, ParkedOK, TestStillTrue,
      ScanComplete, Dormant, NoLostWakeup
<1>3. LockOwner'
  BY <1>0, Basic DEF TypeOK, LockOwner, HoldLabels, SleepPark, Goto, semVars
<1> QED BY <1>1, <1>2, <1>3

(* A process that was woken returns from sched().                           *)
LEMMA SleepResumeStep ==
  ASSUME IndInv, NEW p \in Procs, calls' \in 0 .. MaxCalls,
         SleepResume(p),
         orphan' = orphan \ {p},
         UNCHANGED <<value, status, sem, val, ret>>
  PROVE  IndInv'
<1> USE DEF IndInv
<1>0. sem[p] \in SemIds
  BY DEF IdsOK, SleepResume
<1>1. TypeOK'
  BY <1>0, Basic
  DEF TypeOK, Labels, UpLabels, DownLabels, SleepLabels, SleepResume,
      Goto
<1>2. IdsOK' /\ ParkedOK' /\ TestStillTrue' /\ ScanComplete' /\ NoLostWakeup'
  BY <1>0, Basic
  DEF TypeOK, IdsOK, SleepResume, Goto, ParkedOK, TestStillTrue,
      ScanComplete, Dormant, NoLostWakeup
<1>3. LockOwner'
  BY <1>0, Basic DEF TypeOK, LockOwner, HoldLabels, SleepResume, Goto
<1> QED BY <1>1, <1>2, <1>3

(* sleep() takes the semaphore's lock again.                                *)
LEMMA SleepReacquireStep ==
  ASSUME IndInv, NEW p \in Procs, calls' \in 0 .. MaxCalls,
         SleepReacquire(p, sem[p], "down_test"),
         UNCHANGED semVars
  PROVE  IndInv'
<1> USE DEF IndInv
<1>0. sem[p] \in SemIds
  BY DEF IdsOK, SleepReacquire
<1>1. TypeOK'
  BY <1>0, Basic
  DEF TypeOK, Labels, UpLabels, DownLabels, SleepLabels, SleepReacquire,
      Acquire, Goto, semVars
<1>2. IdsOK' /\ ParkedOK' /\ TestStillTrue' /\ ScanComplete' /\ NoLostWakeup'
  BY <1>0, Basic
  DEF TypeOK, IdsOK, SleepReacquire, Acquire, Goto, semVars, ParkedOK,
      TestStillTrue, ScanComplete, Dormant, NoLostWakeup
<1>3. LockOwner'
  BY <1>0, Basic
  DEF TypeOK, LockOwner, HoldLabels, SleepReacquire, Acquire, Goto,
      semVars
<1> QED BY <1>1, <1>2, <1>3

(* The decrement, of a value that is still positive.                        *)
LEMMA DownDecStep ==
  ASSUME IndInv, NEW p \in Procs, calls' \in 0 .. MaxCalls,
         DownDec(p)
  PROVE  IndInv'
<1> USE DEF IndInv
<1>0. sem[p] \in SemIds
  BY DEF IdsOK, DownDec
<1>1. TypeOK'
  BY <1>0, Basic
  DEF TypeOK, TestStillTrue, Labels, UpLabels, DownLabels, SleepLabels,
      DownDec, Release, Return, Goto
<1>2. IdsOK' /\ ParkedOK'
  BY <1>0, Basic DEF TypeOK, IdsOK, DownDec, Release, Return, Goto, ParkedOK
<1>3. LockOwner'
  BY <1>0, Basic
  DEF TypeOK, LockOwner, HoldLabels, DownDec, Release, Return, Goto
<1>5. TestStillTrue'
  BY <1>0, Basic
  DEF TypeOK, LockOwner, HoldLabels, TestStillTrue, DownDec, Release,
      Return, Goto
<1>6. ScanComplete'
  BY <1>0, Basic
  DEF TypeOK, LockOwner, HoldLabels, ScanComplete, Dormant, DownDec,
      Release, Return, Goto
<1>7. NoLostWakeup'
  BY <1>0, Basic
  DEF TypeOK, TestStillTrue, NoLostWakeup, Dormant, DownDec, Release,
      Return, Goto
<1> QED BY <1>1, <1>2, <1>3, <1>5, <1>6, <1>7

(* A killed process leaves.                                                 *)
LEMMA ExitKilledStep ==
  ASSUME IndInv, NEW p \in Procs, calls' \in 0 .. MaxCalls,
         ExitKilled(p, "user"),
         UNCHANGED semVars
  PROVE  IndInv'
<1> USE DEF IndInv
<1>1. TypeOK'
  BY Basic
  DEF TypeOK, Labels, UpLabels, DownLabels, SleepLabels, ExitKilled,
      Goto, semVars
<1>2. IdsOK' /\ ParkedOK' /\ TestStillTrue' /\ ScanComplete' /\ NoLostWakeup'
  BY Basic
  DEF TypeOK, IdsOK, ExitKilled, Goto, semVars, ParkedOK, TestStillTrue,
      ScanComplete, Dormant, NoLostWakeup
<1>3. LockOwner'
  BY Basic DEF TypeOK, LockOwner, HoldLabels, ExitKilled, Goto, semVars
<1> QED BY <1>1, <1>2, <1>3

-----------------------------------------------------------------------------
(* Every step of the specification preserves the invariant.                 *)
LEMMA StepOK == IndInv /\ [Next]_vars => IndInv'
<1> SUFFICES ASSUME IndInv, [Next]_vars PROVE IndInv'
  OBVIOUS
<1>1. ASSUME NEW p \in Procs, MakeCall(p) PROVE IndInv'
  <2>0. calls' \in 0 .. MaxCalls /\ Call(p)
    BY <1>1, MaxCallsAssumption DEF MakeCall, IndInv, TypeOK
  <2>1. CASE \E s \in OpenIds, v \in OpenValues : OpenReject(p, s, v) \/ OpenAccept(p, s, v)
    BY <2>0, <2>1, OpenRejectStep, OpenAcceptStep
  <2>2. CASE \E s \in SemIds : \/ Enter(p, s, "close")
                              \/ Enter(p, s, "up_acquire")
                              \/ Enter(p, s, "down_acquire")
    BY <2>0, <2>2, EnterStep
  <2>3. CASE Enter(p, 0, "get_closed")
    <3>1. 0 \in SemIds
      BY MAXSEMAssumption DEF SemIds
    <3> QED BY <2>0, <2>3, <3>1, EnterStep
  <2>4. CASE \E q \in Procs : Kill(p, q)
    BY <2>0, <2>4, KillStep
  <2> QED BY <2>0, <2>1, <2>2, <2>3, <2>4 DEF Call
<1>2. ASSUME NEW p \in Procs, Step(p) PROVE IndInv'
  <2>0. calls' \in 0 .. MaxCalls /\ KernelStep(p)
    BY <1>2 DEF Step, IndInv, TypeOK
  <2>1. CASE OpenLocked(p) \/ CloseLocked(p) \/ GetVisit(p) \/ GetEnd(p)
    BY <2>0, <2>1, OpenLockedStep, CloseLockedStep, GetVisitStep, GetEndStep
  <2>2. CASE UpAcquire(p) \/ UpWakeup(p) \/ UpInc(p)
    BY <2>0, <2>2, UpAcquireStep, WakeupVisitStep, WakeupReturnStep, UpIncStep DEF UpWakeup
  <2>3. CASE DownAcquire(p) \/ DownTest(p) \/ DownDec(p)
    BY <2>0, <2>3, DownAcquireStep, DownTestStep, DownDecStep
  <2>4. CASE DownSleep(p)
    BY <2>0, <2>4, SleepLockProcStep, SleepReleaseLockStep, SleepParkStep,
       SleepResumeStep, SleepReacquireStep
    DEF DownSleep
  <2>5. CASE ExitKilled(p, "user") /\ UNCHANGED semVars
    BY <2>0, <2>5, ExitKilledStep
  <2> QED BY <2>0, <2>1, <2>2, <2>3, <2>4, <2>5 DEF KernelStep
<1>3. CASE UNCHANGED vars
  BY <1>3 DEF vars, IndInv, TypeOK, IdsOK, LockOwner, ParkedOK, TestStillTrue,
              ScanComplete, NoLostWakeup, Dormant
<1> QED BY <1>1, <1>2, <1>3 DEF Next

(* IndInv holds in every reachable state, whatever the number of processes, *)
(* semaphores and calls.                                                    *)
THEOREM Invariance == Spec => []IndInv
  BY InitOK, StepOK, PTL DEF Spec

(* Every variable keeps its type; in particular no semaphore's value ever   *)
(* becomes negative.                                                        *)
THEOREM TypeCorrect == Spec => []TypeOK
<1>1. IndInv => TypeOK
  BY DEF IndInv
<1> QED BY <1>1, Invariance, PTL

(* At most one process is inside the critical section of a semaphore, and   *)
(* what sem_up and sem_down tested there is still true when they act on it. *)
THEOREM CriticalSections == Spec => [](LockOwner /\ TestStillTrue)
<1>1. IndInv => LockOwner /\ TestStillTrue
  BY DEF IndInv
<1> QED BY <1>1, Invariance, PTL

(* sem_up and sem_down lose no wakeup: a process sleeps on a semaphore with *)
(* a positive value only if a sem_open put the tokens there.                *)
THEOREM WakeupsNotLost == Spec => []NoLostWakeup
<1>1. IndInv => NoLostWakeup
  BY DEF IndInv
<1> QED BY <1>1, Invariance, PTL

-----------------------------------------------------------------------------
(* The refinement of AbstractSemaphore.                                     *)

(* The call a process is in, by its label.                                  *)
LEMMA CallOfLabel ==
  ASSUME NEW p \in Procs
  PROVE  /\ pc[p] = "open" => OpOf(p) = "open"
         /\ pc[p] = "close" => OpOf(p) = "close"
         /\ pc[p] = "get_closed" => OpOf(p) = "search"
         /\ pc[p] \in UpLabels => OpOf(p) = "up"
         /\ pc[p] \in DownLabels => OpOf(p) = "down"
         /\ pc[p] \in {"user", "dead"} => OpOf(p) = "none"
  BY DEF OpOf, UpLabels, DownLabels, SleepLabels

(* The mapping of a process depends on its label and arguments only.        *)
LEMMA SameCall ==
  ASSUME NEW q, pc'[q] = pc[q], sem'[q] = sem[q], val'[q] = val[q]
  PROVE  OpOf(q)' = OpOf(q) /\ ArgOf(q)' = ArgOf(q) /\ InitOf(q)' = InitOf(q)
  BY DEF OpOf, ArgOf, InitOf

(* Only p moves.                                                            *)
OthersKeep(p) ==
  \A q \in Procs \ {p} : pc'[q] = pc[q] /\ sem'[q] = sem[q] /\ val'[q] = val[q]

(* When only p moves, only p's entry of the mapping changes.                *)
LEMMA CallBecomes ==
  ASSUME NEW p \in Procs, OthersKeep(p)
  PROVE  /\ [q \in Procs |-> OpOf(q)]' = [[q \in Procs |-> OpOf(q)] EXCEPT ![p] = OpOf(p)']
         /\ [q \in Procs |-> ArgOf(q)]' = [[q \in Procs |-> ArgOf(q)] EXCEPT ![p] = ArgOf(p)']
         /\ [q \in Procs |-> InitOf(q)]' = [[q \in Procs |-> InitOf(q)] EXCEPT ![p] = InitOf(p)']
<1>1. \A q \in Procs \ {p} : OpOf(q)' = OpOf(q) /\ ArgOf(q)' = ArgOf(q) /\ InitOf(q)' = InitOf(q)
  BY SameCall DEF OthersKeep
<1> QED BY <1>1

(* A step inside a call that changes no semaphore is a stutter of the       *)
(* abstract specification.                                                  *)
LEMMA CallContinues ==
  ASSUME NEW p \in Procs, OthersKeep(p), UNCHANGED <<value, status>>,
         OpOf(p)' = OpOf(p), ArgOf(p)' = ArgOf(p), InitOf(p)' = InitOf(p)
  PROVE  UNCHANGED Abs!avars
<1>1. \A q \in Procs : OpOf(q)' = OpOf(q) /\ ArgOf(q)' = ArgOf(q) /\ InitOf(q)' = InitOf(q)
  BY SameCall DEF OthersKeep
<1> QED BY <1>1 DEF Abs!avars

(* A return to user mode ends the abstract call.                            *)
LEMMA CallReturns ==
  ASSUME TypeOK, NEW p \in Procs, OthersKeep(p), pc'[p] = "user"
  PROVE  Abs!Done(p)
<1>1. OpOf(p)' = "none" /\ ArgOf(p)' = 0 /\ InitOf(p)' = 0
  BY DEF OpOf, ArgOf, InitOf, UpLabels, DownLabels, SleepLabels
<1> QED BY <1>1, CallBecomes DEF Abs!Done

(* Entering a call is its invocation.                                       *)
LEMMA EnterRefines ==
  ASSUME IndInv, NEW p \in Procs, NEW s \in SemIds,
         NEW l \in {"close", "up_acquire", "down_acquire", "get_closed"},
         l = "get_closed" => s = 0, Enter(p, s, l)
  PROVE  Abs!ANext
<1> DEFINE o == IF l = "close" THEN "close" ELSE IF l = "up_acquire" THEN "up"
                ELSE IF l = "down_acquire" THEN "down" ELSE "search"
<1>1. OthersKeep(p) /\ pc[p] = "user" /\ pc'[p] = l /\ sem'[p] = s /\ UNCHANGED <<value, status>>
  BY DEF IndInv, TypeOK, Enter, InUser, Goto, OthersKeep
<1>2. OpOf(p) = "none"
  BY <1>1, CallOfLabel
<1>3. OpOf(p)' = o
  BY <1>1 DEF OpOf, UpLabels, DownLabels, SleepLabels
<1>4. ArgOf(p)' = s /\ InitOf(p)' = 0
  BY <1>1, <1>3 DEF ArgOf, InitOf
<1>5. Abs!Invoke(p, o, s, 0)
  BY <1>1, <1>2, <1>3, <1>4, CallBecomes DEF Abs!Invoke
<1>6. s \in OpenIds /\ 0 \in OpenValues \cup {0} /\ o \in {"open", "close", "up", "down", "search"}
  BY MAXSEMAssumption DEF SemIds, OpenIds
<1> QED BY <1>5, <1>6 DEF Abs!ANext

(* The decrement is the abstract down.                                      *)
LEMMA DownDecRefines ==
  ASSUME IndInv, NEW p \in Procs, DownDec(p)
  PROVE  Abs!ANext
<1>1. OthersKeep(p) /\ pc[p] = "down_dec" /\ pc'[p] = "user"
  BY DEF IndInv, TypeOK, DownDec, Return, Goto, OthersKeep
<1>2. OpOf(p) = "down" /\ ArgOf(p) = sem[p]
  BY <1>1, CallOfLabel DEF DownLabels, ArgOf
<1>3. Abs!Down(p)
  BY <1>1, <1>2, CallReturns DEF Abs!Down, DownDec, IndInv, TestStillTrue
<1> QED BY <1>3 DEF Abs!ANext

(* The increment is the abstract up.                                        *)
LEMMA UpIncRefines ==
  ASSUME IndInv, NEW p \in Procs, UpInc(p)
  PROVE  Abs!ANext
<1>1. OthersKeep(p) /\ pc[p] = "up_inc" /\ pc'[p] = "user"
  BY DEF IndInv, TypeOK, UpInc, Return, Goto, OthersKeep
<1>2. OpOf(p) = "up" /\ ArgOf(p) = sem[p]
  BY <1>1, CallOfLabel DEF UpLabels, ArgOf
<1>3. Abs!Up(p)
  BY <1>1, <1>2, CallReturns DEF Abs!Up, UpInc, IndInv
<1> QED BY <1>3 DEF Abs!ANext

(* The locked body of sem_close is the abstract close.                      *)
LEMMA CloseRefines ==
  ASSUME IndInv, NEW p \in Procs, CloseLocked(p)
  PROVE  Abs!ANext
<1>1. OthersKeep(p) /\ pc[p] = "close" /\ pc'[p] = "user"
  BY DEF IndInv, TypeOK, CloseLocked, Return, Goto, OthersKeep
<1>2. OpOf(p) = "close" /\ ArgOf(p) = sem[p]
  BY <1>1, CallOfLabel DEF ArgOf
<1>3. Abs!Close(p)
  BY <1>1, <1>2, CallReturns DEF Abs!Close, CloseLocked, IndInv
<1> QED BY <1>3 DEF Abs!ANext

(* The locked body of sem_open is the abstract open, or does nothing when   *)
(* the id is outside the array.                                             *)
LEMMA OpenRefines ==
  ASSUME IndInv, NEW p \in Procs, OpenLocked(p)
  PROVE  Abs!ANext
<1>1. OthersKeep(p) /\ pc[p] = "open" /\ pc'[p] = "user"
  BY DEF IndInv, TypeOK, OpenLocked, Return, Goto, OthersKeep
<1>2. OpOf(p) = "open" /\ ArgOf(p) = sem[p] /\ InitOf(p) = val[p]
  BY <1>1, CallOfLabel DEF ArgOf, InitOf
<1>3. Abs!Done(p)
  BY <1>1, CallReturns DEF IndInv
<1>4. CASE sem[p] \in SemIds
  BY <1>2, <1>3, <1>4 DEF Abs!ANext, Abs!Open, OpenLocked
<1>5. CASE sem[p] \notin SemIds
  BY <1>2, <1>3, <1>5 DEF Abs!ANext, Abs!Nop, OpenLocked
<1> QED BY <1>4, <1>5

(* A sem_open that passes its test is the invocation of an open.            *)
LEMMA OpenAcceptRefines ==
  ASSUME IndInv, NEW p \in Procs, NEW s \in OpenIds, NEW v \in OpenValues,
         OpenAccept(p, s, v)
  PROVE  Abs!ANext
<1>1. /\ OthersKeep(p) /\ pc[p] = "user" /\ pc'[p] = "open"
      /\ sem'[p] = s /\ val'[p] = v /\ UNCHANGED <<value, status>>
  BY DEF IndInv, TypeOK, OpenAccept, InUser, Goto, OthersKeep
<1>2. OpOf(p) = "none"
  BY <1>1, CallOfLabel
<1>3. OpOf(p)' = "open"
  BY <1>1 DEF OpOf, UpLabels, DownLabels, SleepLabels
<1>4. ArgOf(p)' = s /\ InitOf(p)' = v
  BY <1>1, <1>3 DEF ArgOf, InitOf
<1>5. Abs!Invoke(p, "open", s, v)
  BY <1>1, <1>2, <1>3, <1>4, CallBecomes DEF Abs!Invoke
<1> QED BY <1>5 DEF Abs!ANext

(* A search ends without touching the semaphores, and its visits are        *)
(* stutters.                                                                *)
LEMMA SearchRefines ==
  ASSUME IndInv, NEW p \in Procs, GetVisit(p) \/ GetEnd(p)
  PROVE  Abs!ANext \/ UNCHANGED Abs!avars
<1>1. OthersKeep(p) /\ pc[p] = "get_closed" /\ UNCHANGED <<value, status>>
  BY DEF IndInv, TypeOK, GetVisit, GetEnd, Return, Goto, OthersKeep
<1>2. OpOf(p) = "search"
  BY <1>1, CallOfLabel
<1>3. CASE pc'[p] = "user"
  <2>1. Abs!Nop(p)
    BY <1>1, <1>2, <1>3, CallReturns DEF Abs!Nop, IndInv
  <2> QED BY <2>1 DEF Abs!ANext
<1>4. CASE pc'[p] = pc[p]
  <2>1. OpOf(p)' = OpOf(p)
    BY <1>4 DEF OpOf
  <2>2. ArgOf(p)' = ArgOf(p) /\ InitOf(p)' = InitOf(p)
    BY <1>2, <2>1 DEF ArgOf, InitOf
  <2> QED BY <1>1, <2>1, <2>2, CallContinues
<1> QED BY <1>3, <1>4 DEF GetVisit, GetEnd, Return, Goto, IndInv, TypeOK

(* The steps of sem_up and sem_down before the value moves are stutters.    *)
LEMMA InternalRefines ==
  ASSUME IndInv, NEW p \in Procs,
         UpAcquire(p) \/ UpWakeup(p) \/ DownAcquire(p) \/ DownTest(p) \/ DownSleep(p)
  PROVE  UNCHANGED Abs!avars
<1>1. OthersKeep(p) /\ UNCHANGED <<value, status>> /\ sem'[p] = sem[p] /\ val'[p] = val[p]
  BY DEF IndInv, TypeOK, UpAcquire, UpWakeup, WakeupVisit, WakeupReturn, DownAcquire,
         DownTest, DownSleep, SleepLockProc, SleepReleaseLock, SleepPark, SleepResume,
         SleepReacquire, Goto, semVars, OthersKeep
<1>2. \/ pc[p] \in UpLabels /\ pc'[p] \in UpLabels
      \/ pc[p] \in DownLabels /\ pc'[p] \in DownLabels
  BY DEF IndInv, TypeOK, UpAcquire, UpWakeup, WakeupVisit, WakeupReturn, DownAcquire,
         DownTest, DownSleep, SleepLockProc, SleepReleaseLock, SleepPark, SleepResume,
         SleepReacquire, Goto, UpLabels, DownLabels, SleepLabels
<1>3. OpOf(p)' = OpOf(p)
  BY <1>2 DEF OpOf, UpLabels, DownLabels, SleepLabels
<1>4. ArgOf(p)' = ArgOf(p) /\ InitOf(p)' = InitOf(p)
  BY <1>1, <1>3 DEF ArgOf, InitOf
<1> QED BY <1>1, <1>3, <1>4, CallContinues

(* A refused sem_open, a kill and the exit of a killed process are          *)
(* stutters.                                                                *)
LEMMA OutsideRefines ==
  ASSUME IndInv, NEW p \in Procs,
         \/ \E s \in OpenIds, v \in OpenValues : OpenReject(p, s, v)
         \/ \E q \in Procs : Kill(p, q)
         \/ ExitKilled(p, "user") /\ UNCHANGED semVars
  PROVE  UNCHANGED Abs!avars
<1>1. OthersKeep(p) /\ UNCHANGED <<value, status>> /\ sem'[p] = sem[p] /\ val'[p] = val[p]
  BY DEF IndInv, TypeOK, OpenReject, Return, Kill, ExitKilled, Goto, semVars, OthersKeep
<1>2. pc[p] = "user" /\ pc'[p] \in {"user", "dead"}
  BY DEF IndInv, TypeOK, OpenReject, Return, Kill, InUser, ExitKilled, Goto
<1>3. OpOf(p)' = OpOf(p)
  BY <1>2 DEF OpOf, UpLabels, DownLabels, SleepLabels
<1>4. ArgOf(p)' = ArgOf(p) /\ InitOf(p)' = InitOf(p)
  BY <1>1, <1>3 DEF ArgOf, InitOf
<1> QED BY <1>1, <1>3, <1>4, CallContinues

(* The initial states map to initial states.                                *)
LEMMA InitRefines == Init => Abs!AInit
<1> SUFFICES ASSUME Init PROVE Abs!AInit
  OBVIOUS
<1>1. \A p \in Procs : OpOf(p) = "none" /\ ArgOf(p) = 0 /\ InitOf(p) = 0
  BY DEF Init, BlockInit, OpOf, ArgOf, InitOf, UpLabels, DownLabels, SleepLabels
<1> QED BY <1>1 DEF Init, Abs!AInit

(* Every step maps to a step or to a stutter.                               *)
LEMMA NextRefines == IndInv /\ [Next]_vars => [Abs!ANext]_(Abs!avars)
<1> SUFFICES ASSUME IndInv, [Next]_vars PROVE Abs!ANext \/ UNCHANGED Abs!avars
  OBVIOUS
<1>1. ASSUME NEW p \in Procs, MakeCall(p) PROVE Abs!ANext \/ UNCHANGED Abs!avars
  <2>1. Call(p)
    BY <1>1 DEF MakeCall
  <2>2. 0 \in SemIds
    BY MAXSEMAssumption DEF SemIds
  <2> QED BY <2>1, <2>2, OpenAcceptRefines, OutsideRefines, EnterRefines DEF Call
<1>2. ASSUME NEW p \in Procs, Step(p) PROVE Abs!ANext \/ UNCHANGED Abs!avars
  BY <1>2, OpenRefines, CloseRefines, SearchRefines, InternalRefines, UpIncRefines,
     DownDecRefines, OutsideRefines
  DEF Step, KernelStep
<1>3. CASE UNCHANGED vars
  <2>1. \A q \in Procs : OpOf(q)' = OpOf(q) /\ ArgOf(q)' = ArgOf(q) /\ InitOf(q)' = InitOf(q)
    BY <1>3, SameCall DEF vars
  <2> QED BY <1>3, <2>1 DEF vars, Abs!avars
<1> QED BY <1>1, <1>2, <1>3 DEF Next

(* The semaphores implement semaphores whose calls are atomic.              *)
THEOREM Refinement == Spec => RefinesAtomicCalls
<1>1. Spec => []IndInv
  BY Invariance
<1> QED BY <1>1, InitRefines, NextRefines, PTL DEF Spec, RefinesAtomicCalls, Abs!ASpec

=============================================================================
