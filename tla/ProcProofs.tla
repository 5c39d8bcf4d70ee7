----------------------------- MODULE ProcProofs -----------------------------
(***************************************************************************)
(* Proofs about module Proc, for every number of processes and of CPUs and  *)
(* every argument of kill(): the inductive invariant IndInv and the safety  *)
(* properties it implies.                                                   *)
(***************************************************************************)
EXTENDS Proc, TLAPS

(* What the proofs need to know of the constants.                           *)
LEMMA Basic ==
  /\ INIT \in Procs /\ None \notin Procs /\ None \notin CPUs
  /\ NPRIO \in Nat \ {0} /\ NPROC \in Nat \ {0} /\ MaxPick \in Nat /\ MaxCalls \in Nat
  /\ Procs \subseteq Nat /\ KillPids \subseteq Nat
BY ProcAssumption DEF INIT, None, Procs, CPUs

(* The bounded count of schedpick.                                          *)
LEMMA MinBound ==
  ASSUME NEW a \in Nat, NEW b \in Nat
  PROVE  Min({a, b}) \in 0 .. b
<1>1. \E x \in {a, b} : \A y \in {a, b} : x <= y
  <2>1. CASE a <= b
    BY <2>1
  <2>2. CASE b <= a
    BY <2>2
  <2> QED BY <2>1, <2>2
<1>2. Min({a, b}) \in {a, b} /\ \A y \in {a, b} : Min({a, b}) <= y
  BY <1>1 DEF Min
<1> QED BY <1>2

(* The scheduler's loop stays in the table.                                 *)
LEMMA NextInTable ==
  ASSUME TypeOK, NEW c \in CPUs, NextEntry(c)
  PROVE  cscan' \in [CPUs -> Procs]
<1>1. \A x \in Procs : (x % NPROC) + 1 \in Procs
  BY Basic DEF Procs
<1> QED BY <1>1 DEF TypeOK, NextEntry

USE Basic DEF OpenLabels, ReparentedLabels, WaitLockLabels, ForkingLabels, Labels, States,
              fields, stats, locks, sched, Runs, MayCall, Goto

(* Who is about to park holds its own lock.                                 *)
LEMMA FreeNotParked ==
  ASSUME IndInv, NEW q \in Procs, plock[q] = None
  PROVE  kpc[q] # "wait_park"
<1> SUFFICES ASSUME kpc[q] = "wait_park" PROVE FALSE
  OBVIOUS
<1>1. PICK d \in CPUs : cproc[d] = q
  BY DEF IndInv, WaitLock, OneCpu
<1> QED BY <1>1 DEF IndInv, ProcLocks

(* Only one process at a time is in a critical section of wait_lock.        *)
LEMMA OneWaiter ==
  ASSUME IndInv, NEW p \in Procs, NEW q \in Procs,
         kpc[p] \in WaitLockLabels, kpc[q] \in WaitLockLabels
  PROVE  p = q
BY DEF IndInv, WaitLock

(* userinit() and the start of the CPUs.                                    *)
LEMMA InitOK == Init => IndInv
<1> SUFFICES ASSUME Init PROVE IndInv
  OBVIOUS
<1> USE DEF Init
<1>1. TypeOK
  BY DEF TypeOK, INIT
<1>2. StatesOK /\ ForksOK
  BY DEF StatesOK, ForksOK
<1>3. OneCpu /\ ProcLocks /\ WaitLock
  BY DEF OneCpu, ProcLocks, WaitLock
<1>4. ExitsOK /\ NoLostExit /\ HasParent /\ PidsDistinct
  BY DEF ExitsOK, NoLostExit, HasParent, PidsDistinct, Zombies
<1> QED BY <1>1, <1>2, <1>3, <1>4 DEF IndInv

-----------------------------------------------------------------------------
(* One lemma per action, and under it one step per conjunct of IndInv.      *)

(* The scheduler passes over an entry that it cannot run.                   *)
LEMMA SchedSkipStep ==
  ASSUME IndInv, NEW c \in CPUs, SchedSkip(c)
  PROVE  IndInv'
<1> USE DEF IndInv, TypeOK, SchedSkip, NextEntry
<1>1. TypeOK'
  BY NextInTable
<1>2. StatesOK'
  BY DEF StatesOK, ForksOK, WaitLock
<1>3. ForksOK'
  BY DEF StatesOK, ForksOK, WaitLock
<1>4. OneCpu'
  BY DEF StatesOK, OneCpu, ForksOK
<1>5. ProcLocks'
  BY DEF StatesOK, OneCpu, ForksOK, ProcLocks, WaitLock
<1>6. WaitLock'
  BY DEF StatesOK, OneCpu, WaitLock, ProcLocks
<1>7. ExitsOK'
  BY DEF StatesOK, WaitLock, ExitsOK, HasParent, Children, Zombies
<1>8. NoLostExit'
  BY DEF StatesOK, WaitLock, ExitsOK, NoLostExit, HasParent, Children, Zombies
<1>9. HasParent'
  BY DEF StatesOK, WaitLock, ExitsOK, HasParent, Children
<1>10. PidsDistinct'
  BY DEF StatesOK, PidsDistinct
<1> QED BY <1>1, <1>2, <1>3, <1>4, <1>5, <1>6, <1>7, <1>8, <1>9, <1>10

(* The scheduler gives the CPU to a process.                                *)
LEMMA SchedPickStep ==
  ASSUME IndInv, NEW c \in CPUs, SchedPick(c)
  PROVE  IndInv'
<1> USE DEF IndInv, TypeOK, SchedPick
<1>1. TypeOK'
  <2>1. cscan[c] \in Procs /\ schedpick[cscan[c]] \in 0 .. MaxPick
    OBVIOUS
  <2>2. Min({schedpick[cscan[c]] + 1, MaxPick}) \in 0 .. MaxPick
    BY <2>1, MinBound
  <2> QED BY <2>1, <2>2
<1>2. StatesOK'
  BY DEF StatesOK, ForksOK, WaitLock
<1>3. ForksOK'
  BY DEF StatesOK, ForksOK, WaitLock
<1>4. OneCpu'
  <2>1. \A d \in CPUs : cproc[d] # cscan[c]
    BY DEF ProcLocks
  <2> QED BY <2>1 DEF OneCpu
<1>5. ProcLocks'
  <2>1. \A d \in CPUs : cproc[d] # cscan[c]
    BY DEF ProcLocks
  <2>2. kpc[cscan[c]] # "wait_park"
    BY DEF StatesOK
  <2> QED BY <2>1, <2>2 DEF ProcLocks
<1>6. WaitLock'
  BY DEF StatesOK, OneCpu, WaitLock, ProcLocks
<1>7. ExitsOK'
  BY DEF StatesOK, WaitLock, ExitsOK, HasParent, Children, Zombies
<1>8. NoLostExit'
  BY DEF StatesOK, WaitLock, ExitsOK, NoLostExit, HasParent, Children, Zombies
<1>9. HasParent'
  BY DEF StatesOK, WaitLock, ExitsOK, HasParent, Children
<1>10. PidsDistinct'
  BY DEF StatesOK, PidsDistinct
<1> QED BY <1>1, <1>2, <1>3, <1>4, <1>5, <1>6, <1>7, <1>8, <1>9, <1>10

(* The scheduler releases the lock of the process that gave up the CPU.     *)
LEMMA SwitchOutStep ==
  ASSUME IndInv, NEW c \in CPUs, SwitchOut(c)
  PROVE  IndInv'
<1> USE DEF IndInv, TypeOK, SwitchOut, NextEntry
<1>1. TypeOK'
  BY NextInTable
<1>2. StatesOK'
  BY DEF StatesOK, ForksOK, WaitLock
<1>3. ForksOK'
  BY DEF StatesOK, ForksOK, WaitLock
<1>4. OneCpu'
  BY DEF StatesOK, OneCpu, ForksOK
<1>5. ProcLocks'
  BY DEF StatesOK, OneCpu, ForksOK, ProcLocks, WaitLock
<1>6. WaitLock'
  <2>1. waitlock # c
    BY DEF WaitLock
  <2>2. \A p \in Procs : kpc[p] \in WaitLockLabels => p # cproc[c]
    BY DEF WaitLock
  <2> QED BY <2>1, <2>2 DEF WaitLock
<1>7. ExitsOK'
  BY DEF StatesOK, WaitLock, ExitsOK, HasParent, Children, Zombies
<1>8. NoLostExit'
  BY DEF StatesOK, WaitLock, ExitsOK, NoLostExit, HasParent, Children, Zombies
<1>9. HasParent'
  BY DEF StatesOK, WaitLock, ExitsOK, HasParent, Children
<1>10. PidsDistinct'
  BY DEF StatesOK, PidsDistinct
<1> QED BY <1>1, <1>2, <1>3, <1>4, <1>5, <1>6, <1>7, <1>8, <1>9, <1>10

(* A timer interrupt.                                                       *)
LEMMA YieldStep ==
  ASSUME IndInv, NEW c \in CPUs, NEW p \in Procs, Yield(c, p)
  PROVE  IndInv'
<1> USE DEF IndInv, TypeOK, Yield
<1>1. TypeOK'
  OBVIOUS
<1>2. StatesOK'
  BY DEF StatesOK, ForksOK, WaitLock
<1>3. ForksOK'
  BY DEF StatesOK, ForksOK, WaitLock
<1>4. OneCpu'
  BY DEF StatesOK, OneCpu, ForksOK
<1>5. ProcLocks'
  BY DEF StatesOK, OneCpu, ForksOK, ProcLocks, WaitLock
<1>6. WaitLock'
  BY DEF StatesOK, OneCpu, WaitLock, ProcLocks
<1>7. ExitsOK'
  BY DEF StatesOK, WaitLock, ExitsOK, HasParent, Children, Zombies
<1>8. NoLostExit'
  BY DEF StatesOK, WaitLock, ExitsOK, NoLostExit, HasParent, Children, Zombies
<1>9. HasParent'
  BY DEF StatesOK, WaitLock, ExitsOK, HasParent, Children
<1>10. PidsDistinct'
  BY DEF StatesOK, PidsDistinct
<1> QED BY <1>1, <1>2, <1>3, <1>4, <1>5, <1>6, <1>7, <1>8, <1>9, <1>10

(* A system call other than kill.                                           *)
LEMMA EnterStep ==
  ASSUME IndInv, NEW c \in CPUs, NEW p \in Procs, NEW l \in {"fork", "exit", "wait"}, Enter(c, p, l)
  PROVE  IndInv'
<1> USE DEF IndInv, TypeOK, Enter
<1>1. TypeOK'
  OBVIOUS
<1>2. StatesOK'
  BY DEF StatesOK, ForksOK, WaitLock
<1>3. ForksOK'
  BY DEF StatesOK, ForksOK, WaitLock
<1>4. OneCpu'
  BY DEF StatesOK, OneCpu, ForksOK
<1>5. ProcLocks'
  BY DEF StatesOK, OneCpu, ForksOK, ProcLocks, WaitLock
<1>6. WaitLock'
  BY DEF StatesOK, OneCpu, WaitLock, ProcLocks
<1>7. ExitsOK'
  BY DEF StatesOK, WaitLock, ExitsOK, HasParent, Children, Zombies
<1>8. NoLostExit'
  BY DEF StatesOK, WaitLock, ExitsOK, NoLostExit, HasParent, Children, Zombies
<1>9. HasParent'
  BY DEF StatesOK, WaitLock, ExitsOK, HasParent, Children
<1>10. PidsDistinct'
  BY DEF StatesOK, PidsDistinct
<1> QED BY <1>1, <1>2, <1>3, <1>4, <1>5, <1>6, <1>7, <1>8, <1>9, <1>10

(* A killed process exits on its way to user mode.                          *)
LEMMA ExitKilledStep ==
  ASSUME IndInv, NEW c \in CPUs, NEW p \in Procs, ExitKilled(c, p)
  PROVE  IndInv'
<1> USE DEF IndInv, TypeOK, ExitKilled
<1>1. TypeOK'
  OBVIOUS
<1>2. StatesOK'
  BY DEF StatesOK, ForksOK, WaitLock
<1>3. ForksOK'
  BY DEF StatesOK, ForksOK, WaitLock
<1>4. OneCpu'
  BY DEF StatesOK, OneCpu, ForksOK
<1>5. ProcLocks'
  BY DEF StatesOK, OneCpu, ForksOK, ProcLocks, WaitLock
<1>6. WaitLock'
  BY DEF StatesOK, OneCpu, WaitLock, ProcLocks
<1>7. ExitsOK'
  BY DEF StatesOK, WaitLock, ExitsOK, HasParent, Children, Zombies
<1>8. NoLostExit'
  BY DEF StatesOK, WaitLock, ExitsOK, NoLostExit, HasParent, Children, Zombies
<1>9. HasParent'
  BY DEF StatesOK, WaitLock, ExitsOK, HasParent, Children
<1>10. PidsDistinct'
  BY DEF StatesOK, PidsDistinct
<1> QED BY <1>1, <1>2, <1>3, <1>4, <1>5, <1>6, <1>7, <1>8, <1>9, <1>10

(* The calls of init.                                                       *)
LEMMA InitStepStep ==
  ASSUME IndInv, NEW c \in CPUs, InitStep(c)
  PROVE  IndInv'
<1> USE DEF IndInv, TypeOK, InitStep
<1>1. TypeOK'
  OBVIOUS
<1>2. StatesOK'
  BY DEF StatesOK, ForksOK, WaitLock
<1>3. ForksOK'
  BY DEF StatesOK, ForksOK, WaitLock
<1>4. OneCpu'
  BY DEF StatesOK, OneCpu, ForksOK
<1>5. ProcLocks'
  BY DEF StatesOK, OneCpu, ForksOK, ProcLocks, WaitLock
<1>6. WaitLock'
  BY DEF StatesOK, OneCpu, WaitLock, ProcLocks
<1>7. ExitsOK'
  BY DEF StatesOK, WaitLock, ExitsOK, HasParent, Children, Zombies
<1>8. NoLostExit'
  BY DEF StatesOK, WaitLock, ExitsOK, NoLostExit, HasParent, Children, Zombies
<1>9. HasParent'
  BY DEF StatesOK, WaitLock, ExitsOK, HasParent, Children
<1>10. PidsDistinct'
  BY DEF StatesOK, PidsDistinct
<1> QED BY <1>1, <1>2, <1>3, <1>4, <1>5, <1>6, <1>7, <1>8, <1>9, <1>10

(* kill().                                                                  *)
LEMMA KillStep ==
  ASSUME IndInv, NEW c \in CPUs, NEW p \in Procs, Kill(c, p)
  PROVE  IndInv'
<1>0. /\ killed' \in [Procs -> BOOLEAN] /\ calls' \in 0 .. MaxCalls /\ victims' \subseteq KillPids
      /\ UNCHANGED <<pid, parent, chan, stats, kpc, np, locks, sched, nextpid, shpid>>
  BY DEF IndInv, TypeOK, Kill
<1>a. PICK q \in Procs : /\ plock[q] = None
                         /\ pstate' = [pstate EXCEPT ![q] = IF @ = "SLEEPING" THEN "RUNNABLE" ELSE @]
  BY DEF Kill
<1>1. TypeOK'
  BY <1>0, <1>a DEF IndInv, TypeOK
<1>2. StatesOK'
  BY <1>0, <1>a DEF IndInv, TypeOK, StatesOK, ForksOK, WaitLock
<1>3. ForksOK'
  BY <1>0, <1>a DEF IndInv, TypeOK, StatesOK, ForksOK, WaitLock
<1>4. OneCpu'
  BY <1>0, <1>a DEF IndInv, TypeOK, StatesOK, OneCpu, ForksOK
<1>5. ProcLocks'
  BY <1>0, <1>a DEF IndInv, TypeOK, StatesOK, OneCpu, ForksOK, ProcLocks, WaitLock
<1>6. WaitLock'
  BY <1>0, <1>a DEF IndInv, TypeOK, StatesOK, OneCpu, WaitLock, ProcLocks
<1>7. ExitsOK'
  BY <1>0, <1>a DEF IndInv, TypeOK, StatesOK, WaitLock, ExitsOK, HasParent, Children, Zombies
<1>8. NoLostExit'
  BY <1>0, <1>a DEF IndInv, TypeOK, StatesOK, WaitLock, ExitsOK, NoLostExit, HasParent, Children, Zombies
<1>9. HasParent'
  BY <1>0, <1>a DEF IndInv, TypeOK, StatesOK, WaitLock, ExitsOK, HasParent, Children
<1>10. PidsDistinct'
  BY <1>0 DEF IndInv, PidsDistinct
<1> QED BY <1>1, <1>2, <1>3, <1>4, <1>5, <1>6, <1>7, <1>8, <1>9, <1>10 DEF IndInv

(* fork() with a full table.                                                *)
LEMMA ForkNoneStep ==
  ASSUME IndInv, NEW c \in CPUs, NEW p \in Procs, ForkNone(c, p)
  PROVE  IndInv'
<1> USE DEF IndInv, TypeOK, ForkNone, ReturnError
<1>1. TypeOK'
  OBVIOUS
<1>2. StatesOK'
  BY DEF StatesOK, ForksOK, WaitLock
<1>3. ForksOK'
  BY DEF StatesOK, ForksOK, WaitLock
<1>4. OneCpu'
  BY DEF StatesOK, OneCpu, ForksOK
<1>5. ProcLocks'
  BY DEF StatesOK, OneCpu, ForksOK, ProcLocks, WaitLock
<1>6. WaitLock'
  BY DEF StatesOK, OneCpu, WaitLock, ProcLocks
<1>7. ExitsOK'
  BY DEF StatesOK, WaitLock, ExitsOK, HasParent, Children, Zombies
<1>8. NoLostExit'
  BY DEF StatesOK, WaitLock, ExitsOK, NoLostExit, HasParent, Children, Zombies
<1>9. HasParent'
  BY DEF StatesOK, WaitLock, ExitsOK, HasParent, Children
<1>10. PidsDistinct'
  BY DEF StatesOK, PidsDistinct
<1> QED BY <1>1, <1>2, <1>3, <1>4, <1>5, <1>6, <1>7, <1>8, <1>9, <1>10

(* allocproc() in fork().                                                   *)
LEMMA ForkAllocStep ==
  ASSUME IndInv, NEW c \in CPUs, NEW p \in Procs, ForkAlloc(c, p)
  PROVE  IndInv'
<1> DEFINE Made(q) ==
     /\ pid' = [pid EXCEPT ![q] = nextpid]
     /\ pstate' = [pstate EXCEPT ![q] = "USED"]
     /\ np' = [np EXCEPT ![p] = q]
     /\ kpc' = [kpc EXCEPT ![p] = "fork_parent"]
     /\ UNCHANGED <<parent, chan, killed>>
<1>0. /\ nextpid' = nextpid + 1
      /\ UNCHANGED <<locks, sched, shpid, calls, victims>>
      /\ kpc[p] = "fork" /\ cproc[c] = p /\ pstate[p] = "RUNNING"
  BY DEF ForkAlloc
<1>1. PICK q \in Procs :
        /\ pstate[q] = "UNUSED" /\ plock[q] = None
        /\ nextpid' = nextpid + 1
        /\ schedpick' = [schedpick EXCEPT ![q] = 0]
        /\ priority' = [priority EXCEPT ![q] = NPRIO - 1]
        /\ \/ /\ pid' = [pid EXCEPT ![q] = nextpid]
              /\ pstate' = [pstate EXCEPT ![q] = "USED"]
              /\ np' = [np EXCEPT ![p] = q]
              /\ Goto(p, "fork_parent")
              /\ UNCHANGED <<parent, chan, killed>>
           \/ FreedFields(q) /\ ReturnError(p) /\ UNCHANGED np
  BY DEF ForkAlloc
<1>2. kpc[q] = "none" /\ q # p /\ pid[q] = 0
  BY <1>0, <1>1 DEF IndInv, StatesOK, TypeOK
<1>3. CASE Made(q)
  <2>1. TypeOK'
    BY <1>0, <1>1, <1>2, <1>3 DEF IndInv, TypeOK
  <2>2. StatesOK'
    BY <1>0, <1>1, <1>2, <1>3 DEF IndInv, TypeOK, StatesOK, ForksOK, WaitLock
  <2>3. ForksOK'
    BY <1>0, <1>1, <1>2, <1>3 DEF IndInv, TypeOK, StatesOK, ForksOK, WaitLock
  <2>4. OneCpu'
    BY <1>0, <1>1, <1>2, <1>3 DEF IndInv, TypeOK, StatesOK, OneCpu, ForksOK
  <2>5. ProcLocks'
    BY <1>0, <1>1, <1>2, <1>3 DEF IndInv, TypeOK, StatesOK, OneCpu, ForksOK, ProcLocks, WaitLock
  <2>6. WaitLock'
    BY <1>0, <1>1, <1>2, <1>3 DEF IndInv, TypeOK, StatesOK, OneCpu, WaitLock, ProcLocks
  <2>7. ExitsOK'
    BY <1>0, <1>1, <1>2, <1>3 DEF IndInv, TypeOK, StatesOK, WaitLock, ExitsOK, HasParent, Children, Zombies
  <2>8. NoLostExit'
    BY <1>0, <1>1, <1>2, <1>3 DEF IndInv, TypeOK, StatesOK, WaitLock, ExitsOK, NoLostExit, HasParent, Children, Zombies
  <2>9. HasParent'
    BY <1>0, <1>1, <1>2, <1>3 DEF IndInv, TypeOK, StatesOK, WaitLock, ExitsOK, HasParent, Children
  <2>10. PidsDistinct'
    BY <1>0, <1>1, <1>2, <1>3 DEF IndInv, TypeOK, StatesOK, PidsDistinct
  <2> QED BY <2>1, <2>2, <2>3, <2>4, <2>5, <2>6, <2>7, <2>8, <2>9, <2>10 DEF IndInv
<1>4. CASE FreedFields(q) /\ ReturnError(p) /\ UNCHANGED np
  <2>0. /\ pid' = [pid EXCEPT ![q] = 0] /\ parent' = [parent EXCEPT ![q] = None]
        /\ chan' = [chan EXCEPT ![q] = None] /\ killed' = [killed EXCEPT ![q] = FALSE]
        /\ pstate' = pstate /\ UNCHANGED np
        /\ \E l \in {"user", "exit"} : kpc' = [kpc EXCEPT ![p] = l]
    <3>1. pstate' = pstate
      BY <1>1, <1>4 DEF FreedFields, IndInv, TypeOK
    <3> QED BY <3>1, <1>4 DEF FreedFields, ReturnError
  <2>1. TypeOK'
    BY <1>0, <1>1, <1>2, <2>0 DEF IndInv, TypeOK
  <2>2. StatesOK'
    BY <1>0, <1>1, <1>2, <2>0 DEF IndInv, TypeOK, StatesOK, ForksOK, WaitLock
  <2>3. ForksOK'
    BY <1>0, <1>1, <1>2, <2>0 DEF IndInv, TypeOK, StatesOK, ForksOK, WaitLock
  <2>4. OneCpu'
    BY <1>0, <1>1, <1>2, <2>0 DEF IndInv, TypeOK, StatesOK, OneCpu, ForksOK
  <2>5. ProcLocks'
    BY <1>0, <1>1, <1>2, <2>0 DEF IndInv, TypeOK, StatesOK, OneCpu, ForksOK, ProcLocks, WaitLock
  <2>6. WaitLock'
    BY <1>0, <1>1, <1>2, <2>0 DEF IndInv, TypeOK, StatesOK, OneCpu, WaitLock, ProcLocks
  <2>7. ExitsOK'
    BY <1>0, <1>1, <1>2, <2>0 DEF IndInv, TypeOK, StatesOK, WaitLock, ExitsOK, HasParent, Children, Zombies
  <2>8. NoLostExit'
    BY <1>0, <1>1, <1>2, <2>0 DEF IndInv, TypeOK, StatesOK, WaitLock, ExitsOK, NoLostExit, HasParent, Children, Zombies
  <2>9. HasParent'
    BY <1>0, <1>1, <1>2, <2>0 DEF IndInv, TypeOK, StatesOK, WaitLock, ExitsOK, HasParent, Children
  <2>10. PidsDistinct'
    BY <1>0, <1>1, <1>2, <2>0 DEF IndInv, TypeOK, StatesOK, PidsDistinct
  <2> QED BY <2>1, <2>2, <2>3, <2>4, <2>5, <2>6, <2>7, <2>8, <2>9, <2>10 DEF IndInv
<1> QED BY <1>1, <1>3, <1>4

(* fork() makes the caller the parent of the new process.                   *)
LEMMA ForkParentStep ==
  ASSUME IndInv, NEW c \in CPUs, NEW p \in Procs, ForkParent(c, p)
  PROVE  IndInv'
<1> USE DEF IndInv, TypeOK, ForkParent
<1>1. TypeOK'
  OBVIOUS
<1>2. StatesOK'
  BY DEF StatesOK, ForksOK, WaitLock
<1>3. ForksOK'
  BY DEF StatesOK, ForksOK, WaitLock
<1>4. OneCpu'
  BY DEF StatesOK, OneCpu, ForksOK
<1>5. ProcLocks'
  BY DEF StatesOK, OneCpu, ForksOK, ProcLocks, WaitLock
<1>6. WaitLock'
  BY DEF StatesOK, OneCpu, WaitLock, ProcLocks
<1>7. ExitsOK'
  BY DEF StatesOK, WaitLock, ExitsOK, HasParent, Children, Zombies
<1>8. NoLostExit'
  BY DEF StatesOK, WaitLock, ExitsOK, NoLostExit, HasParent, Children, Zombies
<1>9. HasParent'
  BY DEF StatesOK, WaitLock, ExitsOK, HasParent, Children
<1>10. PidsDistinct'
  BY DEF StatesOK, PidsDistinct
<1> QED BY <1>1, <1>2, <1>3, <1>4, <1>5, <1>6, <1>7, <1>8, <1>9, <1>10

(* fork() makes the new process RUNNABLE.                                   *)
LEMMA ForkRunStep ==
  ASSUME IndInv, NEW c \in CPUs, NEW p \in Procs, ForkRun(c, p)
  PROVE  IndInv'
<1>0. kpc[p] = "fork_run" /\ cproc[c] = p /\ pstate[p] = "RUNNING"
  BY DEF ForkRun
<1>1. PICK q \in Procs : q = np[p]
  BY <1>0 DEF IndInv, ForksOK
<1>2. /\ plock[q] = None
      /\ pstate' = [pstate EXCEPT ![q] = "RUNNABLE"]
      /\ kpc' = [kpc EXCEPT ![p] = "user", ![q] = "user"]
      /\ np' = [np EXCEPT ![p] = None]
      /\ shpid' = IF p = INIT THEN pid[q] ELSE shpid
      /\ UNCHANGED <<pid, parent, chan, killed, stats, locks, sched, nextpid, calls, victims>>
  BY <1>1 DEF ForkRun
<1>3. pstate[q] = "USED" /\ parent[q] = p
  BY <1>0, <1>1 DEF IndInv, ForksOK
<1>4. kpc[q] = "none" /\ q # p /\ \A d \in CPUs : cproc[d] # q
  BY <1>0, <1>3 DEF IndInv, TypeOK, StatesOK, OneCpu
<1>5. /\ \A r \in Procs : kpc'[r] = IF r \in {p, q} THEN "user" ELSE kpc[r]
      /\ \A r \in Procs : pstate'[r] = IF r = q THEN "RUNNABLE" ELSE pstate[r]
      /\ UNCHANGED <<parent, plock, waitlock, cproc>>
  BY <1>2, <1>4 DEF IndInv, TypeOK
<1>6. TypeOK'
  BY <1>0, <1>1, <1>2, <1>3, <1>4 DEF IndInv, TypeOK
<1>7. StatesOK'
  BY <1>0, <1>1, <1>2, <1>3, <1>4 DEF IndInv, TypeOK, StatesOK, ForksOK, WaitLock
<1>8. ForksOK'
  BY <1>0, <1>1, <1>2, <1>3, <1>4 DEF IndInv, TypeOK, StatesOK, ForksOK, WaitLock
<1>9. OneCpu'
  BY <1>0, <1>1, <1>2, <1>3, <1>4 DEF IndInv, TypeOK, StatesOK, OneCpu, ForksOK
<1>10. ProcLocks'
  <2>1. ASSUME NEW r \in Procs, plock'[r] # None
        PROVE  cproc'[plock'[r]] = r /\ (pstate'[r] = "RUNNING" => kpc'[r] = "wait_park")
    BY <1>0, <1>2, <1>3, <1>4, <1>5, <2>1 DEF IndInv, TypeOK, ProcLocks
  <2>2. ASSUME NEW d \in CPUs, cproc'[d] # None, pstate'[cproc'[d]] # "RUNNING" \/ kpc'[cproc'[d]] = "wait_park"
        PROVE  plock'[cproc'[d]] = d
    <3>1. cproc[d] \in Procs \ {q} /\ cproc'[d] = cproc[d]
      BY <1>4, <1>5, <2>2 DEF IndInv, TypeOK
    <3>2. pstate[cproc[d]] # "RUNNING" \/ kpc[cproc[d]] = "wait_park"
      BY <1>5, <2>2, <3>1
    <3> QED BY <1>5, <3>1, <3>2 DEF IndInv, ProcLocks
  <2> QED BY <2>1, <2>2 DEF ProcLocks
<1>11. WaitLock'
  BY <1>0, <1>3, <1>4, <1>5 DEF IndInv, TypeOK, WaitLock
<1>12. ExitsOK'
  <2>1. kpc'[INIT] \notin ReparentedLabels \cup {"exit_reparent", "none"}
    BY <1>5 DEF IndInv, ExitsOK
  <2>2. ASSUME NEW r \in Procs
        PROVE  Children(r)' = Children(r) /\ Zombies(r)' \subseteq Zombies(r)
    BY <1>5 DEF Children, Zombies
  <2>3. ASSUME NEW r \in Procs, kpc'[r] = "exit_zombie"
        PROVE  pstate'[parent'[r]] # "SLEEPING" /\ kpc'[parent'[r]] # "wait_park"
    <3>1. kpc[r] = "exit_zombie"
      BY <1>5, <2>3
    <3>2. parent[r] \in Procs
      BY <3>1 DEF IndInv, ExitsOK, HasParent, WaitLock
    <3> QED BY <1>5, <3>1, <3>2 DEF IndInv, ExitsOK
  <2>4. ASSUME NEW r \in Procs, kpc'[r] \in ReparentedLabels
        PROVE  Children(r)' = {}
    BY <1>5, <2>2, <2>4 DEF IndInv, ExitsOK
  <2>5. ASSUME NEW r \in Procs, kpc'[r] \in {"wait_killed", "wait_sleep"}
        PROVE  Zombies(r)' = {}
    BY <1>5, <2>2, <2>5 DEF IndInv, ExitsOK
  <2> QED BY <2>1, <2>3, <2>4, <2>5 DEF ExitsOK
<1>13. NoLostExit'
  BY <1>0, <1>1, <1>2, <1>3, <1>4 DEF IndInv, TypeOK, StatesOK, WaitLock, ExitsOK, NoLostExit, HasParent, Children, Zombies
<1>14. HasParent'
  BY <1>3, <1>4, <1>5 DEF IndInv, HasParent, TypeOK
<1>15. PidsDistinct'
  BY <1>0, <1>1, <1>2, <1>3, <1>4 DEF IndInv, TypeOK, StatesOK, PidsDistinct
<1> QED BY <1>6, <1>7, <1>8, <1>9, <1>10, <1>11, <1>12, <1>13, <1>14, <1>15 DEF IndInv

(* exit() takes wait_lock, or init panics.                                  *)
LEMMA ExitAcquireStep ==
  ASSUME IndInv, NEW c \in CPUs, NEW p \in Procs, ExitAcquire(c, p)
  PROVE  IndInv'
<1>0. /\ kpc[p] = "exit" /\ cproc[c] = p /\ pstate[p] = "RUNNING"
      /\ UNCHANGED <<fields, stats, np, plock, sched, nextpid, shpid, calls, victims>>
  BY DEF ExitAcquire
<1>1. CASE p = INIT
  <2>0. kpc' = [kpc EXCEPT ![INIT] = "panic"] /\ UNCHANGED waitlock
    BY <1>1 DEF ExitAcquire
  <2>1. TypeOK'
    BY <1>0, <1>1, <2>0 DEF IndInv, TypeOK
  <2>2. StatesOK'
    BY <1>0, <1>1, <2>0 DEF IndInv, TypeOK, StatesOK, ForksOK, WaitLock
  <2>3. ForksOK'
    BY <1>0, <1>1, <2>0 DEF IndInv, TypeOK, StatesOK, ForksOK, WaitLock
  <2>4. OneCpu'
    BY <1>0, <1>1, <2>0 DEF IndInv, TypeOK, StatesOK, OneCpu, ForksOK
  <2>5. ProcLocks'
    BY <1>0, <1>1, <2>0 DEF IndInv, TypeOK, StatesOK, OneCpu, ForksOK, ProcLocks, WaitLock
  <2>6. WaitLock'
    BY <1>0, <1>1, <2>0 DEF IndInv, TypeOK, StatesOK, OneCpu, WaitLock, ProcLocks
  <2>7. ExitsOK'
    BY <1>0, <1>1, <2>0 DEF IndInv, TypeOK, StatesOK, WaitLock, ExitsOK, HasParent, Children, Zombies
  <2>8. NoLostExit'
    BY <1>0, <1>1, <2>0 DEF IndInv, TypeOK, StatesOK, WaitLock, ExitsOK, NoLostExit, HasParent, Children, Zombies
  <2>9. HasParent'
    BY <1>0, <1>1, <2>0 DEF IndInv, TypeOK, StatesOK, WaitLock, ExitsOK, HasParent, Children
  <2>10. PidsDistinct'
    BY <1>0, <1>1, <2>0 DEF IndInv, TypeOK, StatesOK, PidsDistinct
  <2> QED BY <2>1, <2>2, <2>3, <2>4, <2>5, <2>6, <2>7, <2>8, <2>9, <2>10 DEF IndInv
<1>2. CASE p # INIT
  <2>0. kpc' = [kpc EXCEPT ![p] = "exit_reparent"] /\ waitlock = None /\ waitlock' = c
    BY <1>2 DEF ExitAcquire
  <2>1. TypeOK'
    BY <1>0, <1>2, <2>0 DEF IndInv, TypeOK
  <2>2. StatesOK'
    BY <1>0, <1>2, <2>0 DEF IndInv, TypeOK, StatesOK, ForksOK, WaitLock
  <2>3. ForksOK'
    BY <1>0, <1>2, <2>0 DEF IndInv, TypeOK, StatesOK, ForksOK, WaitLock
  <2>4. OneCpu'
    BY <1>0, <1>2, <2>0 DEF IndInv, TypeOK, StatesOK, OneCpu, ForksOK
  <2>5. ProcLocks'
    BY <1>0, <1>2, <2>0 DEF IndInv, TypeOK, StatesOK, OneCpu, ForksOK, ProcLocks, WaitLock
  <2>6. WaitLock'
    BY <1>0, <1>2, <2>0 DEF IndInv, TypeOK, StatesOK, OneCpu, WaitLock, ProcLocks
  <2>7. ExitsOK'
    BY <1>0, <1>2, <2>0 DEF IndInv, TypeOK, StatesOK, WaitLock, ExitsOK, HasParent, Children, Zombies
  <2>8. NoLostExit'
    BY <1>0, <1>2, <2>0 DEF IndInv, TypeOK, StatesOK, WaitLock, ExitsOK, NoLostExit, HasParent, Children, Zombies
  <2>9. HasParent'
    BY <1>0, <1>2, <2>0 DEF IndInv, TypeOK, StatesOK, WaitLock, ExitsOK, HasParent, Children
  <2>10. PidsDistinct'
    BY <1>0, <1>2, <2>0 DEF IndInv, TypeOK, StatesOK, PidsDistinct
  <2> QED BY <2>1, <2>2, <2>3, <2>4, <2>5, <2>6, <2>7, <2>8, <2>9, <2>10 DEF IndInv
<1> QED BY <1>1, <1>2

(* reparent().                                                              *)
LEMMA ExitReparentStep ==
  ASSUME IndInv, NEW c \in CPUs, NEW p \in Procs, ExitReparent(c, p)
  PROVE  IndInv'
<1> USE DEF IndInv, TypeOK, ExitReparent
<1>1. TypeOK'
  OBVIOUS
<1>2. StatesOK'
  BY DEF StatesOK, ForksOK, WaitLock
<1>3. ForksOK'
  BY DEF StatesOK, ForksOK, WaitLock
<1>4. OneCpu'
  BY DEF StatesOK, OneCpu, ForksOK
<1>5. ProcLocks'
  BY DEF StatesOK, OneCpu, ForksOK, ProcLocks, WaitLock
<1>6. WaitLock'
  BY DEF StatesOK, OneCpu, WaitLock, ProcLocks
<1>7. ExitsOK'
  BY DEF StatesOK, WaitLock, ExitsOK, HasParent, Children, Zombies
<1>8. NoLostExit'
  BY DEF StatesOK, WaitLock, ExitsOK, NoLostExit, HasParent, Children, Zombies
<1>9. HasParent'
  BY DEF StatesOK, WaitLock, ExitsOK, HasParent, Children
<1>10. PidsDistinct'
  BY DEF StatesOK, PidsDistinct
<1> QED BY <1>1, <1>2, <1>3, <1>4, <1>5, <1>6, <1>7, <1>8, <1>9, <1>10

(* The wakeups of exit().                                                   *)
LEMMA ExitWakeStep ==
  ASSUME IndInv, NEW c \in CPUs, NEW p \in Procs, ExitWake(c, p)
  PROVE  IndInv'
<1>0. /\ cproc[c] = p /\ pstate[p] = "RUNNING"
      /\ UNCHANGED <<pid, parent, chan, killed, stats, np, locks, sched, nextpid, shpid, calls, victims>>
  BY DEF ExitWake
<1> DEFINE Woken(q) == pstate' = [pstate EXCEPT ![q] = IF @ = "SLEEPING" /\ chan[q] = q THEN "RUNNABLE" ELSE @]
<1>1. CASE kpc[p] = "exit_wakeinit" /\ Wakeup(INIT) /\ Goto(p, "exit_wakeparent")
  <2>0. /\ kpc[p] = "exit_wakeinit" /\ plock[INIT] = None /\ Woken(INIT)
        /\ kpc' = [kpc EXCEPT ![p] = "exit_wakeparent"]
    BY <1>1 DEF Wakeup
  <2>1. TypeOK'
    BY <1>0, <2>0 DEF IndInv, TypeOK
  <2>2. StatesOK'
    BY <1>0, <2>0 DEF IndInv, TypeOK, StatesOK, ForksOK, WaitLock
  <2>3. ForksOK'
    BY <1>0, <2>0 DEF IndInv, TypeOK, StatesOK, ForksOK, WaitLock
  <2>4. OneCpu'
    BY <1>0, <2>0 DEF IndInv, TypeOK, StatesOK, OneCpu, ForksOK
  <2>5. ProcLocks'
    BY <1>0, <2>0 DEF IndInv, TypeOK, StatesOK, OneCpu, ForksOK, ProcLocks, WaitLock
  <2>6. WaitLock'
    BY <1>0, <2>0 DEF IndInv, TypeOK, StatesOK, OneCpu, WaitLock, ProcLocks
  <2>7. ExitsOK'
    BY <1>0, <2>0 DEF IndInv, TypeOK, StatesOK, WaitLock, ExitsOK, HasParent, Children, Zombies
  <2>8. NoLostExit'
  <3>1. ASSUME NEW r \in Procs, pstate'[r] = "SLEEPING" \/ kpc'[r] = "wait_park"
        PROVE  /\ pstate[r] = "SLEEPING" \/ kpc[r] = "wait_park"
               /\ r # INIT /\ Zombies(r)' \subseteq Zombies(r)
    <4>1. kpc[INIT] # "wait_park"
      BY <2>0, FreeNotParked
    <4>2. pstate'[INIT] # "SLEEPING"
      BY <2>0 DEF IndInv, TypeOK, StatesOK
    <4>3. pstate[r] = "SLEEPING" \/ kpc[r] = "wait_park"
      BY <2>0, <3>1 DEF IndInv, TypeOK
    <4>4. Zombies(r)' \subseteq Zombies(r)
      BY <1>0, <2>0 DEF IndInv, TypeOK, Zombies, Children
    <4>5. r # INIT
      BY <2>0, <3>1, <4>1, <4>2 DEF IndInv, TypeOK
    <4> QED BY <4>3, <4>4, <4>5
  <3> QED BY <3>1 DEF IndInv, NoLostExit
  <2>9. HasParent'
    BY <1>0, <2>0 DEF IndInv, TypeOK, StatesOK, WaitLock, ExitsOK, HasParent, Children
  <2>10. PidsDistinct'
    BY <1>0, <2>0 DEF IndInv, TypeOK, StatesOK, PidsDistinct
  <2> QED BY <2>1, <2>2, <2>3, <2>4, <2>5, <2>6, <2>7, <2>8, <2>9, <2>10 DEF IndInv
<1>2. CASE kpc[p] = "exit_wakeparent" /\ Wakeup(parent[p]) /\ Goto(p, "exit_zombie")
  <2>a. PICK q \in Procs : q = parent[p] /\ q # p
    <3>1. p # INIT
      BY <1>2 DEF IndInv, ExitsOK
    <3>2. parent[p] \in Procs
      BY <1>0, <3>1 DEF IndInv, HasParent
    <3>3. parent[p] # p
      BY <1>2 DEF IndInv, ExitsOK, Children
    <3> QED BY <3>2, <3>3
  <2>0. /\ kpc[p] = "exit_wakeparent" /\ plock[q] = None /\ Woken(q)
        /\ kpc' = [kpc EXCEPT ![p] = "exit_zombie"]
    BY <1>2, <2>a DEF Wakeup
  <2>b. waitlock # None /\ cproc[waitlock] = p
    BY <2>0 DEF IndInv, WaitLock
  <2>1. TypeOK'
    BY <1>0, <2>0, <2>a DEF IndInv, TypeOK
  <2>2. StatesOK'
    BY <1>0, <2>0, <2>a DEF IndInv, TypeOK, StatesOK, ForksOK, WaitLock
  <2>3. ForksOK'
    BY <1>0, <2>0, <2>a DEF IndInv, TypeOK, StatesOK, ForksOK, WaitLock
  <2>4. OneCpu'
    BY <1>0, <2>0, <2>a DEF IndInv, TypeOK, StatesOK, OneCpu, ForksOK
  <2>5. ProcLocks'
    BY <1>0, <2>0, <2>a DEF IndInv, TypeOK, StatesOK, OneCpu, ForksOK, ProcLocks, WaitLock
  <2>6. WaitLock'
    BY <1>0, <2>0, <2>a DEF IndInv, TypeOK, StatesOK, OneCpu, WaitLock, ProcLocks
  <2>7. ExitsOK'
  <3>1. kpc[q] # "wait_park" /\ pstate'[q] # "SLEEPING"
    <4>1. pstate[q] = "SLEEPING" => chan[q] = q
      BY DEF IndInv, StatesOK
    <4> QED BY <2>0, <4>1, FreeNotParked DEF IndInv, TypeOK
  <3>2. \A r \in Procs : kpc[r] # "exit_zombie"
    BY <2>0, OneWaiter
  <3>3. ASSUME NEW r \in Procs
        PROVE  Children(r)' = Children(r) /\ Zombies(r)' \subseteq Zombies(r)
    BY <1>0, <2>0 DEF IndInv, TypeOK, Children, Zombies
  <3>4. ASSUME NEW r \in Procs, kpc'[r] = "exit_zombie"
        PROVE  pstate'[parent'[r]] # "SLEEPING" /\ kpc'[parent'[r]] # "wait_park"
    BY <1>0, <2>0, <2>a, <3>1, <3>2, <3>4 DEF IndInv, TypeOK
  <3>5. ASSUME NEW r \in Procs
        PROVE  /\ kpc'[r] \in ReparentedLabels => Children(r)' = {}
               /\ kpc'[r] \in {"wait_killed", "wait_sleep"} => Zombies(r)' = {}
    BY <2>0, <3>3 DEF IndInv, TypeOK, ExitsOK
  <3>6. kpc'[INIT] \notin ReparentedLabels \cup {"exit_reparent", "none"}
    BY <2>0 DEF IndInv, TypeOK, ExitsOK
  <3> QED BY <3>4, <3>5, <3>6 DEF ExitsOK
  <2>8. NoLostExit'
    BY <1>0, <2>0, <2>a DEF IndInv, TypeOK, StatesOK, WaitLock, ExitsOK, NoLostExit, HasParent, Children, Zombies
  <2>9. HasParent'
    BY <1>0, <2>0, <2>a DEF IndInv, TypeOK, StatesOK, WaitLock, ExitsOK, HasParent, Children
  <2>10. PidsDistinct'
    BY <1>0, <2>0, <2>a DEF IndInv, TypeOK, StatesOK, PidsDistinct
  <2> QED BY <2>1, <2>2, <2>3, <2>4, <2>5, <2>6, <2>7, <2>8, <2>9, <2>10 DEF IndInv
<1> QED BY <1>1, <1>2 DEF ExitWake

(* exit() becomes a ZOMBIE and gives up the CPU.                            *)
LEMMA ExitZombieStep ==
  ASSUME IndInv, NEW c \in CPUs, NEW p \in Procs, ExitZombie(c, p)
  PROVE  IndInv'
<1> USE DEF IndInv, TypeOK, ExitZombie
<1>1. TypeOK'
  OBVIOUS
<1>2. StatesOK'
  BY DEF StatesOK, ForksOK, WaitLock
<1>3. ForksOK'
  BY DEF StatesOK, ForksOK, WaitLock
<1>4. OneCpu'
  BY DEF StatesOK, OneCpu, ForksOK
<1>5. ProcLocks'
  BY DEF StatesOK, OneCpu, ForksOK, ProcLocks, WaitLock
<1>6. WaitLock'
  BY DEF StatesOK, OneCpu, WaitLock, ProcLocks
<1>7. ExitsOK'
  BY DEF StatesOK, WaitLock, ExitsOK, HasParent, Children, Zombies
<1>8. NoLostExit'
  BY DEF StatesOK, WaitLock, ExitsOK, NoLostExit, HasParent, Children, Zombies
<1>9. HasParent'
  BY DEF StatesOK, WaitLock, ExitsOK, HasParent, Children
<1>10. PidsDistinct'
  BY DEF StatesOK, PidsDistinct
<1> QED BY <1>1, <1>2, <1>3, <1>4, <1>5, <1>6, <1>7, <1>8, <1>9, <1>10

(* wait() takes wait_lock.                                                  *)
LEMMA WaitAcquireStep ==
  ASSUME IndInv, NEW c \in CPUs, NEW p \in Procs, WaitAcquire(c, p)
  PROVE  IndInv'
<1> USE DEF IndInv, TypeOK, WaitAcquire
<1>1. TypeOK'
  OBVIOUS
<1>2. StatesOK'
  BY DEF StatesOK, ForksOK, WaitLock
<1>3. ForksOK'
  BY DEF StatesOK, ForksOK, WaitLock
<1>4. OneCpu'
  BY DEF StatesOK, OneCpu, ForksOK
<1>5. ProcLocks'
  BY DEF StatesOK, OneCpu, ForksOK, ProcLocks, WaitLock
<1>6. WaitLock'
  BY DEF StatesOK, OneCpu, WaitLock, ProcLocks
<1>7. ExitsOK'
  BY DEF StatesOK, WaitLock, ExitsOK, HasParent, Children, Zombies
<1>8. NoLostExit'
  BY DEF StatesOK, WaitLock, ExitsOK, NoLostExit, HasParent, Children, Zombies
<1>9. HasParent'
  BY DEF StatesOK, WaitLock, ExitsOK, HasParent, Children
<1>10. PidsDistinct'
  BY DEF StatesOK, PidsDistinct
<1> QED BY <1>1, <1>2, <1>3, <1>4, <1>5, <1>6, <1>7, <1>8, <1>9, <1>10

(* wait() reaps an exited child.                                            *)
LEMMA WaitReapStep ==
  ASSUME IndInv, NEW c \in CPUs, NEW p \in Procs, WaitReap(c, p)
  PROVE  IndInv'
<1>0. /\ kpc[p] = "wait_scan" /\ cproc[c] = p /\ pstate[p] = "RUNNING"
      /\ waitlock' = None /\ kpc' = [kpc EXCEPT ![p] = "user"]
      /\ UNCHANGED <<stats, np, plock, sched, nextpid, calls, victims>>
  BY DEF WaitReap
<1>1. PICK q \in Procs :
        /\ parent[q] = p /\ pstate[q] = "ZOMBIE" /\ plock[q] = None
        /\ \/ FreedFields(q) /\ shpid' = IF p = INIT /\ pid[q] = shpid THEN 0 ELSE shpid
           \/ UNCHANGED <<fields, shpid>>
  BY DEF WaitReap, Zombies, Children
<1>2. kpc[q] = "none" /\ \A d \in CPUs : cproc[d] # q
  BY <1>1 DEF IndInv, StatesOK, TypeOK, ProcLocks
<1>3. CASE FreedFields(q) /\ shpid' = IF p = INIT /\ pid[q] = shpid THEN 0 ELSE shpid
  <2>0. /\ pid' = [pid EXCEPT ![q] = 0] /\ parent' = [parent EXCEPT ![q] = None]
        /\ chan' = [chan EXCEPT ![q] = None] /\ killed' = [killed EXCEPT ![q] = FALSE]
        /\ pstate' = [pstate EXCEPT ![q] = "UNUSED"] /\ shpid' \in {0, shpid}
    BY <1>3 DEF FreedFields
  <2>1. TypeOK'
    BY <1>0, <1>1, <1>2, <2>0 DEF IndInv, TypeOK
  <2>2. StatesOK'
    BY <1>0, <1>1, <1>2, <2>0 DEF IndInv, TypeOK, StatesOK, ForksOK, WaitLock
  <2>3. ForksOK'
    BY <1>0, <1>1, <1>2, <2>0 DEF IndInv, TypeOK, StatesOK, ForksOK, WaitLock
  <2>4. OneCpu'
    BY <1>0, <1>1, <1>2, <2>0 DEF IndInv, TypeOK, StatesOK, OneCpu, ForksOK
  <2>5. ProcLocks'
    BY <1>0, <1>1, <1>2, <2>0 DEF IndInv, TypeOK, StatesOK, OneCpu, ForksOK, ProcLocks, WaitLock
  <2>6. WaitLock'
    BY <1>0, <1>1, <1>2, <2>0 DEF IndInv, TypeOK, StatesOK, OneCpu, WaitLock, ProcLocks
  <2>7. ExitsOK'
    BY <1>0, <1>1, <1>2, <2>0 DEF IndInv, TypeOK, StatesOK, WaitLock, ExitsOK, HasParent, Children, Zombies
  <2>8. NoLostExit'
    BY <1>0, <1>1, <1>2, <2>0 DEF IndInv, TypeOK, StatesOK, WaitLock, ExitsOK, NoLostExit, HasParent, Children, Zombies
  <2>9. HasParent'
    BY <1>0, <1>1, <1>2, <2>0 DEF IndInv, TypeOK, StatesOK, WaitLock, ExitsOK, HasParent, Children
  <2>10. PidsDistinct'
    BY <1>0, <1>1, <1>2, <2>0 DEF IndInv, TypeOK, StatesOK, PidsDistinct
  <2> QED BY <2>1, <2>2, <2>3, <2>4, <2>5, <2>6, <2>7, <2>8, <2>9, <2>10 DEF IndInv
<1>4. CASE UNCHANGED <<fields, shpid>>
  <2>1. TypeOK'
    BY <1>0, <1>4 DEF IndInv, TypeOK
  <2>2. StatesOK'
    BY <1>0, <1>4 DEF IndInv, TypeOK, StatesOK, ForksOK, WaitLock
  <2>3. ForksOK'
    BY <1>0, <1>4 DEF IndInv, TypeOK, StatesOK, ForksOK, WaitLock
  <2>4. OneCpu'
    BY <1>0, <1>4 DEF IndInv, TypeOK, StatesOK, OneCpu, ForksOK
  <2>5. ProcLocks'
    BY <1>0, <1>4 DEF IndInv, TypeOK, StatesOK, OneCpu, ForksOK, ProcLocks, WaitLock
  <2>6. WaitLock'
    BY <1>0, <1>4 DEF IndInv, TypeOK, StatesOK, OneCpu, WaitLock, ProcLocks
  <2>7. ExitsOK'
    BY <1>0, <1>4 DEF IndInv, TypeOK, StatesOK, WaitLock, ExitsOK, HasParent, Children, Zombies
  <2>8. NoLostExit'
    BY <1>0, <1>4 DEF IndInv, TypeOK, StatesOK, WaitLock, ExitsOK, NoLostExit, HasParent, Children, Zombies
  <2>9. HasParent'
    BY <1>0, <1>4 DEF IndInv, TypeOK, StatesOK, WaitLock, ExitsOK, HasParent, Children
  <2>10. PidsDistinct'
    BY <1>0, <1>4 DEF IndInv, TypeOK, StatesOK, PidsDistinct
  <2> QED BY <2>1, <2>2, <2>3, <2>4, <2>5, <2>6, <2>7, <2>8, <2>9, <2>10 DEF IndInv
<1> QED BY <1>1, <1>3, <1>4

(* wait() finds no exited child.                                            *)
LEMMA WaitNoneStep ==
  ASSUME IndInv, NEW c \in CPUs, NEW p \in Procs, WaitNone(c, p)
  PROVE  IndInv'
<1>0. /\ kpc[p] = "wait_scan" /\ cproc[c] = p /\ pstate[p] = "RUNNING" /\ Zombies(p) = {}
      /\ UNCHANGED <<fields, stats, np, plock, sched, nextpid, shpid, calls, victims>>
  BY DEF WaitNone
<1>1. CASE Children(p) = {}
  <2>0. waitlock' = None /\ \E l \in {"user", "exit"} : kpc' = [kpc EXCEPT ![p] = l]
    BY <1>1 DEF WaitNone, ReturnError
  <2>1. TypeOK'
    BY <1>0, <2>0 DEF IndInv, TypeOK
  <2>2. StatesOK'
    BY <1>0, <2>0 DEF IndInv, TypeOK, StatesOK, ForksOK, WaitLock
  <2>3. ForksOK'
    BY <1>0, <2>0 DEF IndInv, TypeOK, StatesOK, ForksOK, WaitLock
  <2>4. OneCpu'
    BY <1>0, <2>0 DEF IndInv, TypeOK, StatesOK, OneCpu, ForksOK
  <2>5. ProcLocks'
    BY <1>0, <2>0 DEF IndInv, TypeOK, StatesOK, OneCpu, ForksOK, ProcLocks, WaitLock
  <2>6. WaitLock'
    BY <1>0, <2>0 DEF IndInv, TypeOK, StatesOK, OneCpu, WaitLock, ProcLocks
  <2>7. ExitsOK'
    BY <1>0, <2>0 DEF IndInv, TypeOK, StatesOK, WaitLock, ExitsOK, HasParent, Children, Zombies
  <2>8. NoLostExit'
    BY <1>0, <2>0 DEF IndInv, TypeOK, StatesOK, WaitLock, ExitsOK, NoLostExit, HasParent, Children, Zombies
  <2>9. HasParent'
    BY <1>0, <2>0 DEF IndInv, TypeOK, StatesOK, WaitLock, ExitsOK, HasParent, Children
  <2>10. PidsDistinct'
    BY <1>0, <2>0 DEF IndInv, TypeOK, StatesOK, PidsDistinct
  <2> QED BY <2>1, <2>2, <2>3, <2>4, <2>5, <2>6, <2>7, <2>8, <2>9, <2>10 DEF IndInv
<1>2. CASE Children(p) # {}
  <2>0. kpc' = [kpc EXCEPT ![p] = "wait_killed"] /\ UNCHANGED waitlock
    BY <1>2 DEF WaitNone
  <2>1. TypeOK'
    BY <1>0, <2>0 DEF IndInv, TypeOK
  <2>2. StatesOK'
    BY <1>0, <2>0 DEF IndInv, TypeOK, StatesOK, ForksOK, WaitLock
  <2>3. ForksOK'
    BY <1>0, <2>0 DEF IndInv, TypeOK, StatesOK, ForksOK, WaitLock
  <2>4. OneCpu'
    BY <1>0, <2>0 DEF IndInv, TypeOK, StatesOK, OneCpu, ForksOK
  <2>5. ProcLocks'
    BY <1>0, <2>0 DEF IndInv, TypeOK, StatesOK, OneCpu, ForksOK, ProcLocks, WaitLock
  <2>6. WaitLock'
    BY <1>0, <2>0 DEF IndInv, TypeOK, StatesOK, OneCpu, WaitLock, ProcLocks
  <2>7. ExitsOK'
    BY <1>0, <2>0 DEF IndInv, TypeOK, StatesOK, WaitLock, ExitsOK, HasParent, Children, Zombies
  <2>8. NoLostExit'
    BY <1>0, <2>0 DEF IndInv, TypeOK, StatesOK, WaitLock, ExitsOK, NoLostExit, HasParent, Children, Zombies
  <2>9. HasParent'
    BY <1>0, <2>0 DEF IndInv, TypeOK, StatesOK, WaitLock, ExitsOK, HasParent, Children
  <2>10. PidsDistinct'
    BY <1>0, <2>0 DEF IndInv, TypeOK, StatesOK, PidsDistinct
  <2> QED BY <2>1, <2>2, <2>3, <2>4, <2>5, <2>6, <2>7, <2>8, <2>9, <2>10 DEF IndInv
<1> QED BY <1>1, <1>2

(* wait() tests whether its caller was killed.                              *)
LEMMA WaitKilledStep ==
  ASSUME IndInv, NEW c \in CPUs, NEW p \in Procs, WaitKilled(c, p)
  PROVE  IndInv'
<1>0. /\ kpc[p] = "wait_killed" /\ cproc[c] = p /\ pstate[p] = "RUNNING" /\ plock[p] = None
      /\ UNCHANGED <<fields, stats, np, plock, sched, nextpid, shpid, calls, victims>>
  BY DEF WaitKilled
<1>1. CASE killed[p]
  <2>0. waitlock' = None /\ \E l \in {"user", "exit"} : kpc' = [kpc EXCEPT ![p] = l]
    BY <1>1 DEF WaitKilled, ReturnError
  <2>1. TypeOK'
    BY <1>0, <2>0 DEF IndInv, TypeOK
  <2>2. StatesOK'
    BY <1>0, <2>0 DEF IndInv, TypeOK, StatesOK, ForksOK, WaitLock
  <2>3. ForksOK'
    BY <1>0, <2>0 DEF IndInv, TypeOK, StatesOK, ForksOK, WaitLock
  <2>4. OneCpu'
    BY <1>0, <2>0 DEF IndInv, TypeOK, StatesOK, OneCpu, ForksOK
  <2>5. ProcLocks'
    BY <1>0, <2>0 DEF IndInv, TypeOK, StatesOK, OneCpu, ForksOK, ProcLocks, WaitLock
  <2>6. WaitLock'
    BY <1>0, <2>0 DEF IndInv, TypeOK, StatesOK, OneCpu, WaitLock, ProcLocks
  <2>7. ExitsOK'
    BY <1>0, <2>0 DEF IndInv, TypeOK, StatesOK, WaitLock, ExitsOK, HasParent, Children, Zombies
  <2>8. NoLostExit'
    BY <1>0, <2>0 DEF IndInv, TypeOK, StatesOK, WaitLock, ExitsOK, NoLostExit, HasParent, Children, Zombies
  <2>9. HasParent'
    BY <1>0, <2>0 DEF IndInv, TypeOK, StatesOK, WaitLock, ExitsOK, HasParent, Children
  <2>10. PidsDistinct'
    BY <1>0, <2>0 DEF IndInv, TypeOK, StatesOK, PidsDistinct
  <2> QED BY <2>1, <2>2, <2>3, <2>4, <2>5, <2>6, <2>7, <2>8, <2>9, <2>10 DEF IndInv
<1>2. CASE ~killed[p]
  <2>0. kpc' = [kpc EXCEPT ![p] = "wait_sleep"] /\ UNCHANGED waitlock
    BY <1>2 DEF WaitKilled
  <2>1. TypeOK'
    BY <1>0, <2>0 DEF IndInv, TypeOK
  <2>2. StatesOK'
    BY <1>0, <2>0 DEF IndInv, TypeOK, StatesOK, ForksOK, WaitLock
  <2>3. ForksOK'
    BY <1>0, <2>0 DEF IndInv, TypeOK, StatesOK, ForksOK, WaitLock
  <2>4. OneCpu'
    BY <1>0, <2>0 DEF IndInv, TypeOK, StatesOK, OneCpu, ForksOK
  <2>5. ProcLocks'
    BY <1>0, <2>0 DEF IndInv, TypeOK, StatesOK, OneCpu, ForksOK, ProcLocks, WaitLock
  <2>6. WaitLock'
    BY <1>0, <2>0 DEF IndInv, TypeOK, StatesOK, OneCpu, WaitLock, ProcLocks
  <2>7. ExitsOK'
    BY <1>0, <2>0 DEF IndInv, TypeOK, StatesOK, WaitLock, ExitsOK, HasParent, Children, Zombies
  <2>8. NoLostExit'
    BY <1>0, <2>0 DEF IndInv, TypeOK, StatesOK, WaitLock, ExitsOK, NoLostExit, HasParent, Children, Zombies
  <2>9. HasParent'
    BY <1>0, <2>0 DEF IndInv, TypeOK, StatesOK, WaitLock, ExitsOK, HasParent, Children
  <2>10. PidsDistinct'
    BY <1>0, <2>0 DEF IndInv, TypeOK, StatesOK, PidsDistinct
  <2> QED BY <2>1, <2>2, <2>3, <2>4, <2>5, <2>6, <2>7, <2>8, <2>9, <2>10 DEF IndInv
<1> QED BY <1>1, <1>2

(* sleep() exchanges wait_lock for the lock of the process.                 *)
LEMMA WaitSleepStep ==
  ASSUME IndInv, NEW c \in CPUs, NEW p \in Procs, WaitSleep(c, p)
  PROVE  IndInv'
<1> USE DEF IndInv, TypeOK, WaitSleep
<1>1. TypeOK'
  OBVIOUS
<1>2. StatesOK'
  BY DEF StatesOK, ForksOK, WaitLock
<1>3. ForksOK'
  BY DEF StatesOK, ForksOK, WaitLock
<1>4. OneCpu'
  BY DEF StatesOK, OneCpu, ForksOK
<1>5. ProcLocks'
  BY DEF StatesOK, OneCpu, ForksOK, ProcLocks, WaitLock
<1>6. WaitLock'
  BY DEF StatesOK, OneCpu, WaitLock, ProcLocks
<1>7. ExitsOK'
  BY DEF StatesOK, WaitLock, ExitsOK, HasParent, Children, Zombies
<1>8. NoLostExit'
  BY DEF StatesOK, WaitLock, ExitsOK, NoLostExit, HasParent, Children, Zombies
<1>9. HasParent'
  BY DEF StatesOK, WaitLock, ExitsOK, HasParent, Children
<1>10. PidsDistinct'
  BY DEF StatesOK, PidsDistinct
<1> QED BY <1>1, <1>2, <1>3, <1>4, <1>5, <1>6, <1>7, <1>8, <1>9, <1>10

(* sleep() parks the process.                                               *)
LEMMA WaitParkStep ==
  ASSUME IndInv, NEW c \in CPUs, NEW p \in Procs, WaitPark(c, p)
  PROVE  IndInv'
<1> USE DEF IndInv, TypeOK, WaitPark
<1>1. TypeOK'
  OBVIOUS
<1>2. StatesOK'
  BY DEF StatesOK, ForksOK, WaitLock
<1>3. ForksOK'
  BY DEF StatesOK, ForksOK, WaitLock
<1>4. OneCpu'
  BY DEF StatesOK, OneCpu, ForksOK
<1>5. ProcLocks'
  BY DEF StatesOK, OneCpu, ForksOK, ProcLocks, WaitLock
<1>6. WaitLock'
  BY DEF StatesOK, OneCpu, WaitLock, ProcLocks
<1>7. ExitsOK'
  BY DEF StatesOK, WaitLock, ExitsOK, HasParent, Children, Zombies
<1>8. NoLostExit'
  BY DEF StatesOK, WaitLock, ExitsOK, NoLostExit, HasParent, Children, Zombies
<1>9. HasParent'
  BY DEF StatesOK, WaitLock, ExitsOK, HasParent, Children
<1>10. PidsDistinct'
  BY DEF StatesOK, PidsDistinct
<1> QED BY <1>1, <1>2, <1>3, <1>4, <1>5, <1>6, <1>7, <1>8, <1>9, <1>10

-----------------------------------------------------------------------------
(* Every step keeps the inductive invariant.                                *)
LEMMA NextOK == IndInv /\ [Next]_vars => IndInv'
<1> SUFFICES ASSUME IndInv, [Next]_vars PROVE IndInv'
  OBVIOUS
<1>1. ASSUME NEW c \in CPUs, Scheduler(c) \/ Timer(c) PROVE IndInv'
  BY <1>1, SchedSkipStep, SchedPickStep, SwitchOutStep, YieldStep DEF Scheduler, Timer
<1>2. ASSUME NEW c \in CPUs, NEW p \in Procs, KernelStep(c, p) PROVE IndInv'
  BY <1>2, ExitKilledStep, ForkNoneStep, ForkAllocStep, ForkParentStep, ForkRunStep,
     ExitAcquireStep, ExitReparentStep, ExitWakeStep, ExitZombieStep, WaitAcquireStep,
     WaitReapStep, WaitNoneStep, WaitKilledStep, WaitSleepStep, WaitParkStep
  DEF KernelStep
<1>3. ASSUME NEW c \in CPUs, NEW p \in Procs, UserCall(c, p) PROVE IndInv'
  BY <1>3, EnterStep, KillStep DEF UserCall
<1>4. CASE UNCHANGED vars
  BY <1>4
  DEF vars, IndInv, TypeOK, StatesOK, ForksOK, OneCpu, ProcLocks, WaitLock, ExitsOK, NoLostExit,
      HasParent, PidsDistinct, Children, Zombies
<1> QED BY <1>1, <1>2, <1>3, <1>4, InitStepStep DEF Next, ProcStep

(* The inductive invariant holds for any number of processes and CPUs.      *)
THEOREM Invariance == Spec => []IndInv
BY InitOK, NextOK, PTL DEF Spec

(* Every variable keeps its type: no entry of the table is ever named that  *)
(* does not exist, by c->proc, by np or by p->parent.                       *)
THEOREM TypeCorrect == Spec => []TypeOK
<1>1. IndInv => TypeOK
  BY DEF IndInv
<1> QED BY <1>1, Invariance, PTL

(* scheduler(), yield(), exit() and wait() never give one process to two    *)
(* CPUs, nor free an entry whose kernel stack a CPU still uses.             *)
THEOREM NeverOnTwoCpus == Spec => []OneCpu
<1>1. IndInv => OneCpu
  BY DEF IndInv
<1> QED BY <1>1, Invariance, PTL

(* p->lock and wait_lock are held by the CPU that runs the process in their *)
(* critical section, and by no other.                                       *)
THEOREM LocksExclude == Spec => [](ProcLocks /\ WaitLock)
<1>1. IndInv => ProcLocks /\ WaitLock
  BY DEF IndInv
<1> QED BY <1>1, Invariance, PTL

(* wait() never misses the exit() of a child.                               *)
THEOREM ExitsNotLost == Spec => []NoLostExit
<1>1. IndInv => NoLostExit
  BY DEF IndInv
<1> QED BY <1>1, Invariance, PTL

(* Every process has a parent that has not exited, whoever exits when.      *)
THEOREM ParentsAlive == Spec => []HasParent
<1>1. IndInv => HasParent
  BY DEF IndInv
<1> QED BY <1>1, Invariance, PTL

(* A pid names one process.                                                 *)
THEOREM PidsNameProcesses == Spec => []PidsDistinct
<1>1. IndInv => PidsDistinct
  BY DEF IndInv
<1> QED BY <1>1, Invariance, PTL

-----------------------------------------------------------------------------
(* kill(): the steps other than kill, allocproc and freeproc leave the      *)
(* marks, the pids and the free entries alone.                              *)
MarksKept ==
  /\ UNCHANGED <<killed, pid, victims>>
  /\ \A q \in Procs : pstate'[q] = "UNUSED" => pstate[q] = "UNUSED"

LEMMA OtherStepsKeepMarks ==
  ASSUME IndInv, [Next]_vars
  PROVE  \/ MarksKept
         \/ \E c \in CPUs, p \in Procs : Kill(c, p) \/ ForkAlloc(c, p) \/ WaitReap(c, p)
<1> USE DEF IndInv, TypeOK, MarksKept
<1>1. ASSUME NEW c \in CPUs, Scheduler(c) \/ Timer(c) PROVE MarksKept
  BY <1>1 DEF Scheduler, Timer, SchedSkip, SchedPick, SwitchOut, Yield
<1>2. ASSUME NEW c \in CPUs, NEW p \in Procs, ExitKilled(c, p) \/ ForkNone(c, p) \/ InitStep(c)
      PROVE  MarksKept
  BY <1>2 DEF ExitKilled, ForkNone, InitStep
<1>3. ASSUME NEW c \in CPUs, NEW p \in Procs, ForkParent(c, p) \/ ForkRun(c, p)
      PROVE  MarksKept
  BY <1>3 DEF ForkParent, ForkRun
<1>4. ASSUME NEW c \in CPUs, NEW p \in Procs,
             ExitAcquire(c, p) \/ ExitReparent(c, p) \/ ExitWake(c, p) \/ ExitZombie(c, p)
      PROVE  MarksKept
  BY <1>4 DEF ExitAcquire, ExitReparent, ExitWake, ExitZombie, Wakeup
<1>5. ASSUME NEW c \in CPUs, NEW p \in Procs,
             \/ WaitAcquire(c, p) \/ WaitNone(c, p) \/ WaitKilled(c, p)
             \/ WaitSleep(c, p) \/ WaitPark(c, p)
      PROVE  MarksKept
  BY <1>5 DEF WaitAcquire, WaitNone, WaitKilled, WaitSleep, WaitPark
<1>6. ASSUME NEW c \in CPUs, NEW p \in Procs, NEW l \in {"fork", "exit", "wait"}, Enter(c, p, l)
      PROVE  MarksKept
  BY <1>6 DEF Enter
<1>7. CASE UNCHANGED vars
  BY <1>7 DEF vars
<1> QED
  BY <1>1, <1>2, <1>3, <1>4, <1>5, <1>6, <1>7 DEF Next, ProcStep, KernelStep, UserCall

LEMMA KilledStep ==
  ASSUME 0 \notin KillPids, IndInv, FreeUnmarked, OnlyVictims, [Next]_vars
  PROVE  FreeUnmarked' /\ OnlyVictims'
<1>1. CASE MarksKept
  BY <1>1 DEF MarksKept, FreeUnmarked, OnlyVictims
<1>2. ASSUME NEW c \in CPUs, NEW p \in Procs, Kill(c, p) PROVE FreeUnmarked' /\ OnlyVictims'
  <2>1. PICK k \in KillPids : /\ victims' = victims \cup {k}
                              /\ \E q \in Procs : /\ pid[q] = k
                                                  /\ killed' = [killed EXCEPT ![q] = TRUE]
                                                   /\ pstate' = [pstate EXCEPT ![q] = IF @ = "SLEEPING" THEN "RUNNABLE" ELSE @]
    BY <1>2 DEF Kill
  <2>2. PICK q \in Procs : /\ pid[q] = k
                           /\ killed' = [killed EXCEPT ![q] = TRUE]
                            /\ pstate' = [pstate EXCEPT ![q] = IF @ = "SLEEPING" THEN "RUNNABLE" ELSE @]
    BY <2>1
  <2>3. pstate[q] # "UNUSED" /\ UNCHANGED pid
    BY <1>2, <2>2 DEF Kill, IndInv, StatesOK
  <2> QED BY <2>1, <2>2, <2>3 DEF IndInv, TypeOK, FreeUnmarked, OnlyVictims
<1>3. ASSUME NEW c \in CPUs, NEW p \in Procs, ForkAlloc(c, p) PROVE FreeUnmarked' /\ OnlyVictims'
  <2>1. PICK q \in Procs :
          /\ pstate[q] = "UNUSED"
          /\ \/ /\ pid' = [pid EXCEPT ![q] = nextpid]
                /\ pstate' = [pstate EXCEPT ![q] = "USED"]
                /\ UNCHANGED killed
             \/ FreedFields(q)
    BY <1>3 DEF ForkAlloc
  <2>2. UNCHANGED victims /\ ~killed[q]
    BY <1>3, <2>1 DEF ForkAlloc, FreeUnmarked
  <2> QED BY <2>1, <2>2 DEF IndInv, TypeOK, FreeUnmarked, OnlyVictims, FreedFields
<1>4. ASSUME NEW c \in CPUs, NEW p \in Procs, WaitReap(c, p) PROVE FreeUnmarked' /\ OnlyVictims'
  <2>1. PICK q \in Procs : FreedFields(q) \/ UNCHANGED fields
    BY <1>4 DEF WaitReap, Zombies, Children
  <2>2. UNCHANGED victims
    BY <1>4 DEF WaitReap
  <2> QED BY <2>1, <2>2 DEF IndInv, TypeOK, FreeUnmarked, OnlyVictims, FreedFields
<1> QED BY <1>1, <1>2, <1>3, <1>4, OtherStepsKeepMarks

(* Only the processes whose pids kill() was called with are marked, as long *)
(* as nobody calls kill(0): an entry that is free has pid 0, kill() marks   *)
(* it, and allocproc() does not clear the mark, so that the next process in *)
(* that entry is killed unasked.                                            *)
THEOREM KillsOnlyVictims ==
  ASSUME 0 \notin KillPids
  PROVE  Spec => []OnlyVictims
<1>1. Init => FreeUnmarked /\ OnlyVictims
  BY DEF Init, FreeUnmarked, OnlyVictims
<1>2. IndInv /\ FreeUnmarked /\ OnlyVictims /\ [Next]_vars => FreeUnmarked' /\ OnlyVictims'
  BY KilledStep
<1> QED BY <1>1, <1>2, Invariance, PTL DEF Spec

=============================================================================
