--------------------------------- MODULE Ticks ---------------------------------
(***************************************************************************)
(* The clock of lab3: clockintr() and kerneltrap() (kernel/trap.c), the     *)
(* sys_sleep() that waits for it (kernel/sysproc.c), and the scheduler,     *)
(* which lab3 makes read the clock, under tickslock, while it holds the     *)
(* lock of the process it has picked (kernel/proc.c).                       *)
(*                                                                          *)
(* The module follows each CPU, because locks are held by CPUs and it is    *)
(* their order that matters: tickslock and the p->lock of every process.    *)
(* A CPU that holds a lock has interrupts off.                              *)
(***************************************************************************)
EXTENDS Integers

CONSTANTS NPROC, NCPU,
          Sleeps,     \* the arguments given to sleep(), as the comparison reads
                      \* them: unsigned, so that a negative one is huge
          MaxTicks,   \* bound: ticks is not counted any further
          MaxCalls    \* bound: sleep() calls

TicksAssumption ==
  /\ NPROC \in Nat \ {0} /\ NCPU \in Nat \ {0}
  /\ Sleeps \subseteq Nat /\ MaxTicks \in Nat /\ MaxCalls \in Nat

Procs == 1 .. NPROC
CPUs == 1 .. NCPU
CLOCK == 1      \* the hart with cpuid() = 0 handles the clock
None == 0

VARIABLES ticks, tlock,     \* the clock, and the CPU holding tickslock
          plock,            \* plock[p]: the CPU holding p->lock
          pstate,           \* p->state; the only channel here is &ticks
          killed,           \* p->killed
          lastexec,         \* p->lastexec
          upc,              \* upc[p]: where p is in sys_sleep()
          n, ticks0,        \* n[p], ticks0[p]: its variables
          cpc,              \* cpc[c]: what CPU c is doing
          cproc, cscan,     \* c->proc and the scheduler's loop variable
          cw,               \* cw[c]: the entry wakeup(&ticks) looks at
          calls,
          early             \* history: sleepers that returned too early

procVars == <<pstate, killed, lastexec, upc, n, ticks0>>
vars == <<ticks, tlock, plock, pstate, killed, lastexec, upc, n, ticks0,
          cpc, cproc, cscan, cw, calls, early>>

Init ==
  /\ ticks = 0 /\ tlock = None
  /\ plock = [p \in Procs |-> None]
  /\ pstate = [p \in Procs |-> "RUNNABLE"]
  /\ killed = [p \in Procs |-> FALSE]
  /\ lastexec = [p \in Procs |-> 0]
  /\ upc = [p \in Procs |-> "user"]
  /\ n = [p \in Procs |-> 0]
  /\ ticks0 = [p \in Procs |-> 0]
  /\ cpc = [c \in CPUs |-> "scan"]
  /\ cproc = [c \in CPUs |-> None]
  /\ cscan = [c \in CPUs |-> 1]
  /\ cw = [c \in CPUs |-> 1]
  /\ calls = 0 /\ early = {}

CGoto(c, l) == cpc' = [cpc EXCEPT ![c] = l]
UGoto(p, l) == upc' = [upc EXCEPT ![p] = l]
NextEntry(c) == cscan' = [cscan EXCEPT ![c] = (@ % NPROC) + 1]

-----------------------------------------------------------------------------
(* scheduler(): look at an entry; lock the RUNNABLE process; read the clock *)
(* under tickslock and switch to it.                                        *)
SchedSkip(c) ==
  /\ cpc[c] = "scan"
  /\ plock[cscan[c]] = None /\ pstate[cscan[c]] # "RUNNABLE"
  /\ NextEntry(c)
  /\ UNCHANGED <<ticks, tlock, plock, procVars, cpc, cproc, cw, calls, early>>

SchedLock(c) ==
  /\ cpc[c] = "scan"
  /\ plock[cscan[c]] = None /\ pstate[cscan[c]] = "RUNNABLE"
  /\ plock' = [plock EXCEPT ![cscan[c]] = c]
  /\ CGoto(c, "pick")
  /\ UNCHANGED <<ticks, tlock, procVars, cproc, cscan, cw, calls, early>>

SchedPick(c) ==
  LET p == cscan[c] IN
  /\ cpc[c] = "pick"
  /\ tlock = None
  /\ lastexec' = [lastexec EXCEPT ![p] = ticks]
  /\ pstate' = [pstate EXCEPT ![p] = "RUNNING"]
  /\ plock' = [plock EXCEPT ![p] = None]
  /\ cproc' = [cproc EXCEPT ![c] = p]
  /\ CGoto(c, "run")
  /\ UNCHANGED <<ticks, tlock, killed, upc, n, ticks0, cscan, cw, calls, early>>

(* The process on c goes back to the scheduler in state s, at label l of    *)
(* its call.                                                                *)
SwitchOut(c, s, l) ==
  LET p == cproc[c] IN
  /\ pstate' = [pstate EXCEPT ![p] = s]
  /\ plock' = [plock EXCEPT ![p] = None]
  /\ UGoto(p, l)
  /\ cproc' = [cproc EXCEPT ![c] = None]
  /\ CGoto(c, "scan")
  /\ NextEntry(c)

-----------------------------------------------------------------------------
Interruptible(c) ==
  \/ cpc[c] = "scan"
  \/ cpc[c] = "run" /\ upc[cproc[c]] \in {"user", "acquire", "reacquire"}

(* On the other harts the interrupt only makes the process yield.           *)
Timer(c) ==
  /\ Interruptible(c)
  /\ IF c = CLOCK
     THEN CGoto(c, "clock")
     ELSE cproc[c] # None /\ CGoto(c, "yield")
  /\ UNCHANGED <<ticks, tlock, plock, procVars, cproc, cscan, cw, calls, early>>

(* clockintr()                                                              *)
ClockAcquire(c) ==
  /\ cpc[c] = "clock"
  /\ tlock = None
  /\ tlock' = c
  /\ ticks' = IF ticks < MaxTicks THEN ticks + 1 ELSE ticks
  /\ cw' = [cw EXCEPT ![c] = 1]
  /\ CGoto(c, "clock_wakeup")
  /\ UNCHANGED <<plock, procVars, cproc, cscan, calls, early>>

ClockWakeup(c) ==
  LET q == cw[c] IN
  /\ cpc[c] = "clock_wakeup"
  /\ q <= NPROC
  /\ q # cproc[c] => plock[q] = None
  /\ pstate' = IF q # cproc[c] /\ pstate[q] = "SLEEPING"
               THEN [pstate EXCEPT ![q] = "RUNNABLE"] ELSE pstate
  /\ cw' = [cw EXCEPT ![c] = @ + 1]
  /\ UNCHANGED <<ticks, tlock, plock, killed, lastexec, upc, n, ticks0, cpc, cproc, cscan,
                 calls, early>>

ClockReleaseShort(c) ==     \* mutant: the loop of wakeup() stops before the last entry
  /\ cpc[c] = "clock_wakeup"
  /\ cw[c] >= NPROC
  /\ tlock' = None
  /\ CGoto(c, IF cproc[c] = None THEN "scan" ELSE "yield")
  /\ UNCHANGED <<ticks, plock, procVars, cproc, cscan, cw, calls, early>>

ClockRelease(c) ==
  /\ cpc[c] = "clock_wakeup"
  /\ cw[c] = NPROC + 1
  /\ tlock' = None
  /\ CGoto(c, IF cproc[c] = None THEN "scan" ELSE "yield")
  /\ UNCHANGED <<ticks, plock, procVars, cproc, cscan, cw, calls, early>>

(* yield(), after the interrupt.                                            *)
Yield(c) ==
  /\ cpc[c] = "yield"
  /\ plock[cproc[c]] = None
  /\ SwitchOut(c, "RUNNABLE", upc[cproc[c]])
  /\ UNCHANGED <<ticks, tlock, killed, lastexec, n, ticks0, cw, calls, early>>

-----------------------------------------------------------------------------
(* sys_sleep(), on the CPU c that runs the process.                         *)
At(c, l) == cpc[c] = "run" /\ upc[cproc[c]] = l

SleepCall(c) ==
  /\ At(c, "user") /\ ~killed[cproc[c]]
  /\ calls < MaxCalls /\ calls' = calls + 1
  /\ \E k \in Sleeps : n' = [n EXCEPT ![cproc[c]] = k]
  /\ UGoto(cproc[c], "acquire")
  /\ UNCHANGED <<ticks, tlock, plock, pstate, killed, lastexec, ticks0, cpc, cproc, cscan, cw, early>>

SleepAcquire(c) ==
  /\ At(c, "acquire")
  /\ tlock = None
  /\ tlock' = c
  /\ ticks0' = [ticks0 EXCEPT ![cproc[c]] = ticks]
  /\ UGoto(cproc[c], "test")
  /\ UNCHANGED <<ticks, plock, pstate, killed, lastexec, n, cpc, cproc, cscan, cw, calls, early>>

Elapsed(p) == ticks - ticks0[p]

SleepReturn(c, p) ==
  /\ tlock' = None
  /\ UGoto(p, "user")
  /\ early' = IF Elapsed(p) < n[p] /\ ~killed[p] THEN early \cup {p} ELSE early

SleepTest(c) ==
  /\ At(c, "test")
  /\ IF Elapsed(cproc[c]) < n[cproc[c]]
     THEN UGoto(cproc[c], "killed") /\ UNCHANGED <<tlock, early>>
     ELSE SleepReturn(c, cproc[c])
  /\ UNCHANGED <<ticks, plock, pstate, killed, lastexec, n, ticks0, cpc, cproc, cscan, cw, calls>>

(* killed(), with tickslock held.                                           *)
SleepKilled(c) ==
  /\ At(c, "killed")
  /\ plock[cproc[c]] = None
  /\ IF killed[cproc[c]]
     THEN SleepReturn(c, cproc[c])
     ELSE UGoto(cproc[c], "sleep") /\ UNCHANGED <<tlock, early>>
  /\ UNCHANGED <<ticks, plock, pstate, killed, lastexec, n, ticks0, cpc, cproc, cscan, cw, calls>>

(* sleep(&ticks, &tickslock): acquire(&p->lock); release(&tickslock)        *)
SleepLock(c) ==
  /\ At(c, "sleep")
  /\ plock[cproc[c]] = None
  /\ plock' = [plock EXCEPT ![cproc[c]] = c]
  /\ tlock' = None
  /\ UGoto(cproc[c], "park")
  /\ UNCHANGED <<ticks, pstate, killed, lastexec, n, ticks0, cpc, cproc, cscan, cw, calls, early>>

SleepPark(c) ==
  /\ At(c, "park")
  /\ SwitchOut(c, "SLEEPING", "reacquire")
  /\ UNCHANGED <<ticks, tlock, killed, lastexec, n, ticks0, cw, calls, early>>

SleepReacquireOnce(c) ==    \* mutant: if instead of while around sleep()
  /\ At(c, "reacquire")
  /\ tlock = None
  /\ SleepReturn(c, cproc[c])
  /\ UNCHANGED <<ticks, plock, pstate, killed, lastexec, n, ticks0, cpc, cproc, cscan, cw, calls>>

SleepReacquire(c) ==
  /\ At(c, "reacquire")
  /\ tlock = None
  /\ tlock' = c
  /\ UGoto(cproc[c], "test")
  /\ UNCHANGED <<ticks, plock, pstate, killed, lastexec, n, ticks0, cpc, cproc, cscan, cw, calls, early>>

(* kill(), called by the process on c.                                      *)
Kill(c, p) ==
  /\ At(c, "user") /\ ~killed[cproc[c]]
  /\ ~killed[p] /\ plock[p] = None
  /\ killed' = [killed EXCEPT ![p] = TRUE]
  /\ pstate' = [pstate EXCEPT ![p] = IF @ = "SLEEPING" THEN "RUNNABLE" ELSE @]
  /\ UNCHANGED <<ticks, tlock, plock, lastexec, upc, n, ticks0, cpc, cproc, cscan, cw, calls, early>>

SchedLoop(c) == SchedSkip(c) \/ SchedLock(c) \/ SchedPick(c)

Scheduler(c) ==
  \/ SchedLoop(c)
  \/ ClockAcquire(c) \/ ClockWakeup(c) \/ ClockRelease(c) \/ Yield(c)

SleepStep(c) ==
  \/ SleepAcquire(c) \/ SleepTest(c) \/ SleepKilled(c) \/ SleepLock(c) \/ SleepPark(c)
  \/ SleepReacquire(c)

Next ==
  \E c \in CPUs :
    \/ Scheduler(c) \/ SleepStep(c) \/ Timer(c) \/ SleepCall(c)
    \/ \E p \in Procs : Kill(c, p)

(* The timer keeps interrupting, but leaves a CPU the time to execute: the  *)
(* scheduler and a process that keeps being dispatched get through their    *)
(* next step before some interrupt.                                         *)
Spec ==
  /\ Init /\ [][Next]_vars
  /\ \A c \in CPUs : SF_vars(SchedLoop(c)) /\ WF_vars(Scheduler(c)) /\ WF_vars(Timer(c))
  /\ \A p \in Procs : SF_vars(\E c \in CPUs : cproc[c] = p /\ SleepStep(c))

-----------------------------------------------------------------------------
(* The lock a CPU spins on.                                                 *)
WaitsForTicks(c) ==
  \/ cpc[c] \in {"pick", "clock"}
  \/ cpc[c] = "run" /\ upc[cproc[c]] \in {"acquire", "reacquire"}

WaitsForProc(c, p) ==
  \/ cpc[c] = "clock_wakeup" /\ p = cw[c] /\ p # cproc[c]
  \/ cpc[c] = "run" /\ upc[cproc[c]] \in {"killed", "sleep"} /\ p = cproc[c]
  \/ cpc[c] = "yield" /\ p = cproc[c]
  \/ cpc[c] = "scan" /\ p = cscan[c]

(* No CPU spins for ever on a lock: on one it holds itself, because an      *)
(* interrupt came while it was held, or on one whose holder spins on a lock *)
(* of this CPU.  The scheduler's loop goes on (proc.c:442, "Scheduler never *)
(* returns.  It loops"; proc.c:455, "Avoid deadlock").                      *)
NoWedge ==
  \A c \in CPUs :
    /\ ~(tlock = c /\ WaitsForTicks(c))
    /\ \A p \in Procs : ~(plock[p] = c /\ WaitsForProc(c, p))
    /\ \A d \in CPUs, p \in Procs :
         ~(tlock = d /\ WaitsForTicks(c) /\ plock[p] = c /\ WaitsForProc(d, p))

(* sys_sleep(n) lasts at least n ticks, unless the process is killed.       *)
SleepsLongEnough == early = {}

(* A sleeper whose time has come, or that was killed, returns from the call *)
(* whatever the order of clock interrupts, kills and dispatches.            *)
SleeperReturns ==
  \A p \in Procs :
    (upc[p] # "user" /\ upc[p] # "acquire" /\ Elapsed(p) >= n[p]) ~> upc[p] = "user"
-----------------------------------------------------------------------------
(* Type correctness.                                                        *)
ULabels == {"user", "acquire", "test", "killed", "sleep", "park", "reacquire"}
CLabels == {"scan", "pick", "run", "clock", "clock_wakeup", "yield"}

TypeOK ==
  /\ ticks \in 0 .. MaxTicks
  /\ tlock \in CPUs \cup {None}
  /\ plock \in [Procs -> CPUs \cup {None}]
  /\ pstate \in [Procs -> {"RUNNABLE", "RUNNING", "SLEEPING"}]
  /\ killed \in [Procs -> BOOLEAN]
  /\ lastexec \in [Procs -> 0 .. MaxTicks]
  /\ upc \in [Procs -> ULabels]
  /\ n \in [Procs -> Sleeps \cup {0}]
  /\ ticks0 \in [Procs -> 0 .. MaxTicks]
  /\ cpc \in [CPUs -> CLabels]
  /\ cproc \in [CPUs -> Procs \cup {None}]
  /\ cscan \in [CPUs -> Procs]
  /\ cw \in [CPUs -> 1 .. NPROC + 1]
  /\ calls \in 0 .. MaxCalls
  /\ early \subseteq Procs

(* A CPU executes one process, which is RUNNING there and nowhere else, and *)
(* is interrupted only where interrupts are on.                             *)
CpusOK ==
  /\ \A c \in CPUs :
       /\ cpc[c] \in {"run", "yield"} => cproc[c] # None
       /\ cpc[c] \in {"scan", "pick"} => cproc[c] = None
       /\ cpc[c] \in {"clock", "clock_wakeup"} => c = CLOCK
       /\ cproc[c] # None => pstate[cproc[c]] = "RUNNING"
       /\ cproc[c] # None /\ cpc[c] # "run" => upc[cproc[c]] \in {"user", "acquire", "reacquire"}
       /\ \A d \in CPUs : cproc[c] = cproc[d] /\ cproc[c] # None => c = d
  /\ \A p \in Procs :
       /\ upc[p] \in {"test", "killed", "sleep", "park"} => \E c \in CPUs : cproc[c] = p
       /\ pstate[p] = "SLEEPING" => upc[p] = "reacquire"

(* p->lock: held by a CPU that is about to switch to p, or about to leave   *)
(* it in sleep().                                                           *)
ProcLocks ==
  /\ \A p \in Procs : plock[p] # None =>
       \/ cpc[plock[p]] = "pick" /\ cscan[plock[p]] = p
       \/ cpc[plock[p]] = "run" /\ cproc[plock[p]] = p /\ upc[p] = "park"
  /\ \A c \in CPUs :
       /\ cpc[c] = "pick" => plock[cscan[c]] = c /\ pstate[cscan[c]] = "RUNNABLE"
       /\ cproc[c] # None /\ upc[cproc[c]] = "park" => plock[cproc[c]] = c

(* tickslock: held by the clock interrupt and by sys_sleep() around its     *)
(* test.                                                                    *)
HoldsTicks(c) ==
  \/ cpc[c] = "clock_wakeup"
  \/ cpc[c] = "run" /\ upc[cproc[c]] \in {"test", "killed", "sleep"}

TicksLock == \A c \in CPUs : tlock = c <=> HoldsTicks(c)

(* What sys_sleep() tested under tickslock still holds when it goes to      *)
(* sleep, and whoever sleeps although its time has come is still ahead of   *)
(* the clock interrupt's wakeup: no tick is lost.                           *)
NoLostTick ==
  \A p \in Procs :
    /\ upc[p] \in {"killed", "sleep"} => Elapsed(p) < n[p]
    /\ upc[p] = "park" \/ pstate[p] = "SLEEPING" =>
         \/ Elapsed(p) < n[p]
         \/ cpc[CLOCK] = "clock_wakeup" /\ cw[CLOCK] <= p

(* The inductive invariant.                                                 *)
IndInv == TypeOK /\ CpusOK /\ ProcLocks /\ TicksLock /\ NoLostTick /\ SleepsLongEnough
=============================================================================
