----------------------------- MODULE TicksProofs -----------------------------
(***************************************************************************)
(* Proofs about module Ticks, for every number of processes and of CPUs:    *)
(* the inductive invariant IndInv, which says that no clock tick is lost to *)
(* a sleeper, and the absence of wedged CPUs when there is one CPU.         *)
(***************************************************************************)
EXTENDS Ticks, TLAPS

(* What the proofs need to know of the constants.                           *)
LEMMA Basic ==
  TicksAssumption =>
    /\ NPROC \in Nat \ {0} /\ MaxTicks \in Nat /\ MaxCalls \in Nat /\ Sleeps \subseteq Nat
    /\ None \notin Procs /\ None \notin CPUs /\ CLOCK \in CPUs
    /\ \A p : p \in Procs <=> p \in 1 .. NPROC
BY DEF TicksAssumption, Procs, CPUs, None, CLOCK

(* The scheduler's loop stays in the table.                                 *)
LEMMA NextInTable ==
  ASSUME TicksAssumption, TypeOK, NEW c \in CPUs, NextEntry(c)
  PROVE  cscan' \in [CPUs -> Procs]
<1>1. \A x \in Procs : (x % NPROC) + 1 \in Procs
  BY Basic
<1> QED BY <1>1 DEF TypeOK, NextEntry

USE Basic DEF ULabels, CLabels, procVars, CGoto, UGoto, At

(* The start of the kernel.                                                 *)
LEMMA InitOK == TicksAssumption /\ Init => IndInv
<1> SUFFICES ASSUME TicksAssumption, Init PROVE IndInv
  OBVIOUS
<1> USE DEF Init
<1>1. TypeOK
  BY DEF TypeOK
<1>2. CpusOK /\ ProcLocks /\ TicksLock
  BY DEF CpusOK, ProcLocks, TicksLock, HoldsTicks
<1>3. NoLostTick /\ SleepsLongEnough
  BY DEF NoLostTick, SleepsLongEnough
<1> QED BY <1>1, <1>2, <1>3 DEF IndInv

-----------------------------------------------------------------------------
(* One lemma per action, and under it one step per conjunct of IndInv.      *)

(* The scheduler passes over an entry.                                      *)
LEMMA SchedSkipStep ==
  ASSUME TicksAssumption, IndInv, NEW c \in CPUs, SchedSkip(c)
  PROVE  IndInv'
<1> USE DEF IndInv, TypeOK, SchedSkip, NextEntry
<1>1. TypeOK'
  BY NextInTable
<1>2. CpusOK'
  BY DEF CpusOK, ProcLocks
<1>3. ProcLocks'
  BY DEF CpusOK, ProcLocks
<1>4. TicksLock'
  BY DEF CpusOK, TicksLock, HoldsTicks
<1>5. NoLostTick'
  BY DEF CpusOK, ProcLocks, TicksLock, HoldsTicks, NoLostTick, Elapsed
<1>6. SleepsLongEnough'
  BY DEF SleepsLongEnough, Elapsed
<1> QED BY <1>1, <1>2, <1>3, <1>4, <1>5, <1>6

(* The scheduler locks the process it has chosen.                           *)
LEMMA SchedLockStep ==
  ASSUME TicksAssumption, IndInv, NEW c \in CPUs, SchedLock(c)
  PROVE  IndInv'
<1> USE DEF IndInv, TypeOK, SchedLock
<1>1. TypeOK'
  BY DEF CpusOK
<1>2. CpusOK'
  BY DEF CpusOK, ProcLocks
<1>3. ProcLocks'
  BY DEF CpusOK, ProcLocks
<1>4. TicksLock'
  BY DEF CpusOK, TicksLock, HoldsTicks
<1>5. NoLostTick'
  BY DEF CpusOK, ProcLocks, TicksLock, HoldsTicks, NoLostTick, Elapsed
<1>6. SleepsLongEnough'
  BY DEF SleepsLongEnough, Elapsed
<1> QED BY <1>1, <1>2, <1>3, <1>4, <1>5, <1>6

(* The scheduler reads the clock and switches to the process.               *)
LEMMA SchedPickStep ==
  ASSUME TicksAssumption, IndInv, NEW c \in CPUs, SchedPick(c)
  PROVE  IndInv'
<1> USE DEF IndInv, TypeOK, SchedPick
<1>1. TypeOK'
  BY DEF CpusOK
<1>2. CpusOK'
  BY DEF CpusOK, ProcLocks
<1>3. ProcLocks'
  BY DEF CpusOK, ProcLocks
<1>4. TicksLock'
  BY SMTT(30) DEF CpusOK, TicksLock, HoldsTicks
<1>5. NoLostTick'
  BY DEF CpusOK, ProcLocks, TicksLock, HoldsTicks, NoLostTick, Elapsed
<1>6. SleepsLongEnough'
  BY DEF SleepsLongEnough, Elapsed
<1> QED BY <1>1, <1>2, <1>3, <1>4, <1>5, <1>6

(* An interrupt.                                                            *)
LEMMA TimerStep ==
  ASSUME TicksAssumption, IndInv, NEW c \in CPUs, Timer(c)
  PROVE  IndInv'
<1> USE DEF IndInv, TypeOK, Timer, Interruptible
<1>1. TypeOK'
  BY DEF CpusOK
<1>2. CpusOK'
  BY DEF CpusOK, ProcLocks
<1>3. ProcLocks'
  BY DEF CpusOK, ProcLocks
<1>4. TicksLock'
  BY DEF CpusOK, TicksLock, HoldsTicks
<1>5. NoLostTick'
  BY DEF CpusOK, ProcLocks, TicksLock, HoldsTicks, NoLostTick, Elapsed
<1>6. SleepsLongEnough'
  BY DEF SleepsLongEnough, Elapsed
<1> QED BY <1>1, <1>2, <1>3, <1>4, <1>5, <1>6

(* The clock interrupt counts a tick.                                       *)
LEMMA ClockAcquireStep ==
  ASSUME TicksAssumption, IndInv, NEW c \in CPUs, ClockAcquire(c)
  PROVE  IndInv'
<1> USE DEF IndInv, TypeOK, ClockAcquire
<1>1. TypeOK'
  BY DEF CpusOK
<1>2. CpusOK'
  BY DEF CpusOK, ProcLocks
<1>3. ProcLocks'
  BY DEF CpusOK, ProcLocks
<1>4. TicksLock'
  BY DEF CpusOK, TicksLock, HoldsTicks
<1>5. NoLostTick'
  BY SMTT(30) DEF CpusOK, ProcLocks, TicksLock, HoldsTicks, NoLostTick, Elapsed
<1>6. SleepsLongEnough'
  BY DEF SleepsLongEnough, Elapsed
<1> QED BY <1>1, <1>2, <1>3, <1>4, <1>5, <1>6

(* The clock interrupt wakes a sleeper.                                     *)
LEMMA ClockWakeupStep ==
  ASSUME TicksAssumption, IndInv, NEW c \in CPUs, ClockWakeup(c)
  PROVE  IndInv'
<1> USE DEF IndInv, TypeOK, ClockWakeup
<1>1. TypeOK'
  BY DEF CpusOK
<1>2. CpusOK'
  BY DEF CpusOK, ProcLocks
<1>3. ProcLocks'
  BY DEF CpusOK, ProcLocks
<1>4. TicksLock'
  BY DEF CpusOK, TicksLock, HoldsTicks
<1>5. NoLostTick'
  BY SMTT(30) DEF CpusOK, ProcLocks, TicksLock, HoldsTicks, NoLostTick, Elapsed
<1>6. SleepsLongEnough'
  BY DEF SleepsLongEnough, Elapsed
<1> QED BY <1>1, <1>2, <1>3, <1>4, <1>5, <1>6

(* The clock interrupt ends.                                                *)
LEMMA ClockReleaseStep ==
  ASSUME TicksAssumption, IndInv, NEW c \in CPUs, ClockRelease(c)
  PROVE  IndInv'
<1> USE DEF IndInv, TypeOK, ClockRelease
<1>1. TypeOK'
  BY DEF CpusOK
<1>2. CpusOK'
  BY DEF CpusOK, ProcLocks
<1>3. ProcLocks'
  BY DEF CpusOK, ProcLocks
<1>4. TicksLock'
  BY DEF CpusOK, TicksLock, HoldsTicks
<1>5. NoLostTick'
  BY DEF CpusOK, ProcLocks, TicksLock, HoldsTicks, NoLostTick, Elapsed
<1>6. SleepsLongEnough'
  BY DEF SleepsLongEnough, Elapsed
<1> QED BY <1>1, <1>2, <1>3, <1>4, <1>5, <1>6

(* A process is preempted.                                                  *)
LEMMA YieldStep ==
  ASSUME TicksAssumption, IndInv, NEW c \in CPUs, Yield(c)
  PROVE  IndInv'
<1> USE DEF IndInv, TypeOK, Yield, SwitchOut, NextEntry
<1>1. TypeOK'
  <2>1. cscan' \in [CPUs -> Procs]
    BY NextInTable
  <2>2. cproc[c] \in Procs
    BY DEF CpusOK
  <2> QED BY <2>1, <2>2
<1>2. CpusOK'
  BY DEF CpusOK, ProcLocks
<1>3. ProcLocks'
  BY DEF CpusOK, ProcLocks
<1>4. TicksLock'
  BY DEF CpusOK, TicksLock, HoldsTicks
<1>5. NoLostTick'
  BY DEF CpusOK, ProcLocks, TicksLock, HoldsTicks, NoLostTick, Elapsed
<1>6. SleepsLongEnough'
  BY DEF SleepsLongEnough, Elapsed
<1> QED BY <1>1, <1>2, <1>3, <1>4, <1>5, <1>6

(* sleep() is called.                                                       *)
LEMMA SleepCallStep ==
  ASSUME TicksAssumption, IndInv, NEW c \in CPUs, SleepCall(c)
  PROVE  IndInv'
<1> USE DEF IndInv, TypeOK, SleepCall
<1>1. TypeOK'
  BY DEF CpusOK
<1>2. CpusOK'
  BY DEF CpusOK, ProcLocks
<1>3. ProcLocks'
  BY DEF CpusOK, ProcLocks
<1>4. TicksLock'
  BY DEF CpusOK, TicksLock, HoldsTicks
<1>5. NoLostTick'
  BY DEF CpusOK, ProcLocks, TicksLock, HoldsTicks, NoLostTick, Elapsed
<1>6. SleepsLongEnough'
  BY DEF SleepsLongEnough, Elapsed
<1> QED BY <1>1, <1>2, <1>3, <1>4, <1>5, <1>6

(* sys_sleep() takes tickslock and reads the clock.                         *)
LEMMA SleepAcquireStep ==
  ASSUME TicksAssumption, IndInv, NEW c \in CPUs, SleepAcquire(c)
  PROVE  IndInv'
<1> USE DEF IndInv, TypeOK, SleepAcquire
<1>1. TypeOK'
  BY DEF CpusOK
<1>2. CpusOK'
  BY DEF CpusOK, ProcLocks
<1>3. ProcLocks'
  BY DEF CpusOK, ProcLocks
<1>4. TicksLock'
  BY DEF CpusOK, TicksLock, HoldsTicks
<1>5. NoLostTick'
  BY DEF CpusOK, ProcLocks, TicksLock, HoldsTicks, NoLostTick, Elapsed
<1>6. SleepsLongEnough'
  BY DEF SleepsLongEnough, Elapsed
<1> QED BY <1>1, <1>2, <1>3, <1>4, <1>5, <1>6

(* The test of the loop of sys_sleep().                                     *)
LEMMA SleepTestStep ==
  ASSUME TicksAssumption, IndInv, NEW c \in CPUs, SleepTest(c)
  PROVE  IndInv'
<1> USE DEF IndInv, TypeOK, SleepTest, SleepReturn
<1>1. TypeOK'
  BY DEF CpusOK
<1>2. CpusOK'
  BY DEF CpusOK, ProcLocks
<1>3. ProcLocks'
  BY DEF CpusOK, ProcLocks
<1>4. TicksLock'
  BY DEF CpusOK, TicksLock, HoldsTicks
<1>5. NoLostTick'
  BY DEF CpusOK, ProcLocks, TicksLock, HoldsTicks, NoLostTick, Elapsed
<1>6. SleepsLongEnough'
  BY DEF SleepsLongEnough, Elapsed
<1> QED BY <1>1, <1>2, <1>3, <1>4, <1>5, <1>6

(* The test for a kill in sys_sleep().                                      *)
LEMMA SleepKilledStep ==
  ASSUME TicksAssumption, IndInv, NEW c \in CPUs, SleepKilled(c)
  PROVE  IndInv'
<1> USE DEF IndInv, TypeOK, SleepKilled, SleepReturn
<1>1. TypeOK'
  BY DEF CpusOK
<1>2. CpusOK'
  BY DEF CpusOK, ProcLocks
<1>3. ProcLocks'
  BY DEF CpusOK, ProcLocks
<1>4. TicksLock'
  BY DEF CpusOK, TicksLock, HoldsTicks
<1>5. NoLostTick'
  BY DEF CpusOK, ProcLocks, TicksLock, HoldsTicks, NoLostTick, Elapsed
<1>6. SleepsLongEnough'
  BY DEF SleepsLongEnough, Elapsed
<1> QED BY <1>1, <1>2, <1>3, <1>4, <1>5, <1>6

(* sleep() exchanges tickslock for the lock of the process.                 *)
LEMMA SleepLockStep ==
  ASSUME TicksAssumption, IndInv, NEW c \in CPUs, SleepLock(c)
  PROVE  IndInv'
<1> USE DEF IndInv, TypeOK, SleepLock
<1>1. TypeOK'
  BY DEF CpusOK
<1>2. CpusOK'
  BY DEF CpusOK, ProcLocks
<1>3. ProcLocks'
  BY DEF CpusOK, ProcLocks
<1>4. TicksLock'
  BY DEF CpusOK, TicksLock, HoldsTicks
<1>5. NoLostTick'
  BY DEF CpusOK, ProcLocks, TicksLock, HoldsTicks, NoLostTick, Elapsed
<1>6. SleepsLongEnough'
  BY DEF SleepsLongEnough, Elapsed
<1> QED BY <1>1, <1>2, <1>3, <1>4, <1>5, <1>6

(* sleep() parks the process.                                               *)
LEMMA SleepParkStep ==
  ASSUME TicksAssumption, IndInv, NEW c \in CPUs, SleepPark(c)
  PROVE  IndInv'
<1> USE DEF IndInv, TypeOK, SleepPark, SwitchOut, NextEntry
<1>1. TypeOK'
  <2>1. cscan' \in [CPUs -> Procs]
    BY NextInTable
  <2>2. cproc[c] \in Procs
    BY DEF CpusOK
  <2> QED BY <2>1, <2>2
<1>2. CpusOK'
  BY DEF CpusOK, ProcLocks
<1>3. ProcLocks'
  BY DEF CpusOK, ProcLocks
<1>4. TicksLock'
  BY DEF CpusOK, TicksLock, HoldsTicks
<1>5. NoLostTick'
  BY DEF CpusOK, ProcLocks, TicksLock, HoldsTicks, NoLostTick, Elapsed
<1>6. SleepsLongEnough'
  BY DEF SleepsLongEnough, Elapsed
<1> QED BY <1>1, <1>2, <1>3, <1>4, <1>5, <1>6

(* sleep() takes tickslock again.                                           *)
LEMMA SleepReacquireStep ==
  ASSUME TicksAssumption, IndInv, NEW c \in CPUs, SleepReacquire(c)
  PROVE  IndInv'
<1> USE DEF IndInv, TypeOK, SleepReacquire
<1>1. TypeOK'
  BY DEF CpusOK
<1>2. CpusOK'
  BY DEF CpusOK, ProcLocks
<1>3. ProcLocks'
  BY DEF CpusOK, ProcLocks
<1>4. TicksLock'
  BY DEF CpusOK, TicksLock, HoldsTicks
<1>5. NoLostTick'
  BY DEF CpusOK, ProcLocks, TicksLock, HoldsTicks, NoLostTick, Elapsed
<1>6. SleepsLongEnough'
  BY DEF SleepsLongEnough, Elapsed
<1> QED BY <1>1, <1>2, <1>3, <1>4, <1>5, <1>6

(* kill().                                                                  *)
LEMMA KillStep ==
  ASSUME TicksAssumption, IndInv, NEW c \in CPUs, NEW p \in Procs, Kill(c, p)
  PROVE  IndInv'
<1> USE DEF IndInv, TypeOK, Kill
<1>1. TypeOK'
  BY DEF CpusOK
<1>2. CpusOK'
  BY DEF CpusOK, ProcLocks
<1>3. ProcLocks'
  BY DEF CpusOK, ProcLocks
<1>4. TicksLock'
  BY DEF CpusOK, TicksLock, HoldsTicks
<1>5. NoLostTick'
  BY DEF CpusOK, ProcLocks, TicksLock, HoldsTicks, NoLostTick, Elapsed
<1>6. SleepsLongEnough'
  BY DEF SleepsLongEnough, Elapsed
<1> QED BY <1>1, <1>2, <1>3, <1>4, <1>5, <1>6

-----------------------------------------------------------------------------
(* Every step keeps the inductive invariant.                                *)
LEMMA NextOK == TicksAssumption /\ IndInv /\ [Next]_vars => IndInv'
<1> SUFFICES ASSUME TicksAssumption, IndInv, [Next]_vars PROVE IndInv'
  OBVIOUS
<1>1. ASSUME NEW c \in CPUs, Scheduler(c) \/ Timer(c) PROVE IndInv'
  BY <1>1, SchedSkipStep, SchedLockStep, SchedPickStep, TimerStep, ClockAcquireStep,
     ClockWakeupStep, ClockReleaseStep, YieldStep
  DEF Scheduler, SchedLoop
<1>2. ASSUME NEW c \in CPUs, SleepCall(c) \/ SleepStep(c) PROVE IndInv'
  BY <1>2, SleepCallStep, SleepAcquireStep, SleepTestStep, SleepKilledStep, SleepLockStep,
     SleepParkStep, SleepReacquireStep
  DEF SleepStep
<1>3. CASE UNCHANGED vars
  BY <1>3
  DEF vars, IndInv, TypeOK, CpusOK, ProcLocks, TicksLock, HoldsTicks, NoLostTick, Elapsed, SleepsLongEnough
<1> QED BY <1>1, <1>2, <1>3, KillStep DEF Next

(* The inductive invariant holds for any number of processes and CPUs.      *)
THEOREM Invariance ==
  ASSUME TicksAssumption
  PROVE  Spec => []IndInv
<1>1. Init => IndInv
  BY InitOK
<1>2. IndInv /\ [Next]_vars => IndInv'
  BY NextOK
<1> QED BY <1>1, <1>2, PTL DEF Spec

(* Every variable keeps its type.                                           *)
THEOREM TypeCorrect ==
  ASSUME TicksAssumption
  PROVE  Spec => []TypeOK
<1>1. IndInv => TypeOK
  BY DEF IndInv
<1> QED BY <1>1, Invariance, PTL

(* tickslock and the p->locks are held by whom they should be: the clock    *)
(* and the sleepers exclude each other.                                     *)
THEOREM LocksExclude ==
  ASSUME TicksAssumption
  PROVE  Spec => [](CpusOK /\ ProcLocks /\ TicksLock)
<1>1. IndInv => CpusOK /\ ProcLocks /\ TicksLock
  BY DEF IndInv
<1> QED BY <1>1, Invariance, PTL

(* sys_sleep() and the clock interrupt do not lose a tick.                  *)
THEOREM TicksNotLost ==
  ASSUME TicksAssumption
  PROVE  Spec => []NoLostTick
<1>1. IndInv => NoLostTick
  BY DEF IndInv
<1> QED BY <1>1, Invariance, PTL

(* sys_sleep(n) does not return before n ticks, unless the process is       *)
(* killed.                                                                  *)
THEOREM SleepLongEnough ==
  ASSUME TicksAssumption
  PROVE  Spec => []SleepsLongEnough
<1>1. IndInv => SleepsLongEnough
  BY DEF IndInv
<1> QED BY <1>1, Invariance, PTL

(* No CPU ever spins on a lock that it holds itself, whatever interrupts    *)
(* come.                                                                    *)
LEMMA NoSelfWedge ==
  ASSUME TicksAssumption, IndInv, NEW c \in CPUs
  PROVE  /\ ~(tlock = c /\ WaitsForTicks(c))
         /\ \A p \in Procs : ~(plock[p] = c /\ WaitsForProc(c, p))
<1> USE DEF IndInv, TypeOK
<1>1. ~(tlock = c /\ WaitsForTicks(c))
  BY DEF TicksLock, HoldsTicks, WaitsForTicks
<1>2. ASSUME NEW p \in Procs, plock[p] = c PROVE ~WaitsForProc(c, p)
  BY <1>2 DEF CpusOK, ProcLocks, WaitsForProc
<1> QED BY <1>1, <1>2

(* On one CPU nobody is wedged: the order in which the scheduler and the    *)
(* clock interrupt take tickslock and p->lock can only harm several CPUs.   *)
THEOREM OneCpuNoWedge ==
  ASSUME TicksAssumption, NCPU = 1
  PROVE  Spec => []NoWedge
<1>1. IndInv => NoWedge
  <2> SUFFICES ASSUME IndInv, NEW c \in CPUs PROVE
        /\ ~(tlock = c /\ WaitsForTicks(c))
        /\ \A p \in Procs : ~(plock[p] = c /\ WaitsForProc(c, p))
        /\ \A d \in CPUs, p \in Procs :
             ~(tlock = d /\ WaitsForTicks(c) /\ plock[p] = c /\ WaitsForProc(d, p))
    BY DEF NoWedge
  <2>1. \A d \in CPUs : d = c
    BY DEF CPUs
  <2> QED BY <2>1, NoSelfWedge
<1> QED BY <1>1, Invariance, PTL

=============================================================================
