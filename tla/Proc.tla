--------------------------------- MODULE Proc ---------------------------------
(***************************************************************************)
(* The life of processes in lab3 (kernel/proc.c): fork, exit, wait, kill,   *)
(* yield, sleep, wakeup and the per-CPU scheduler, with the priority and    *)
(* the statistics the lab adds to struct proc, and the program of the first *)
(* process (user/init.c).                                                   *)
(*                                                                          *)
(* A process takes a step only on a CPU whose c->proc it is.  Each step is  *)
(* what happens between two acquisitions of a lock that another CPU can     *)
(* observe:                                                                 *)
(*  - p->lock is explicit from the moment a process changes its state for   *)
(*    sched() until the scheduler, on its own stack, releases it;           *)
(*  - wait_lock is explicit throughout;                                     *)
(*  - a visit to one table entry (kill, wakeup, allocproc, the scheduler)   *)
(*    is one step guarded by that entry's lock being free.  Only process q  *)
(*    ever sleeps on channel q, so the only entry at which wakeup(q) can    *)
(*    act is q, and only a ZOMBIE child stops the scan of wait; a child     *)
(*    becomes ZOMBIE under wait_lock, so the rest of those scans is silent. *)
(* Blocking outside wait() is modelled in SleepWakeup and its clients; the  *)
(* clock, its lock and the lastexec that the scheduler copies it to are in  *)
(* module Ticks.                                                            *)
(***************************************************************************)
EXTENDS Integers, FiniteSets, FiniteSetsExt

CONSTANTS NPROC,     \* entries of proc[]
          NCPU,      \* harts
          NPRIO,     \* priority levels
          MaxPick,   \* bound: schedpick counts up to MaxPick and stays there
          MaxCalls,  \* bound: system calls of the processes other than init
          KillPids   \* the arguments processes give to kill()

ASSUME ProcAssumption ==
  /\ NPROC \in Nat \ {0} /\ NCPU \in Nat \ {0} /\ NPRIO \in Nat \ {0}
  /\ MaxPick \in Nat /\ MaxCalls \in Nat
  /\ KillPids \subseteq Nat

Procs == 1 .. NPROC
CPUs == 1 .. NCPU
INIT == 1          \* initproc is the first entry allocated
None == 0          \* no process, no CPU, no channel

VARIABLES pstate, pid, parent, chan, killed,  \* fields of struct proc
          schedpick, priority,      \* the fields lab3 adds
          kpc,       \* kpc[p]: where p is in its program or in the kernel
          np,        \* np[p]: the child a fork() of p is making
          plock,     \* plock[p]: the CPU holding p->lock, or None
          waitlock,  \* the CPU holding wait_lock, or None
          cproc,     \* cproc[c]: c->proc
          cscan,     \* cscan[c]: the entry the scheduler of c looks at
          nextpid,
          shpid,     \* init's variable pid: the shell it waits for
          calls,     \* system calls made by processes other than init
          victims    \* history: the pids kill() was called with

fields == <<pstate, pid, parent, chan, killed>>
stats == <<schedpick, priority>>
locks == <<plock, waitlock>>
sched == <<cproc, cscan>>
vars == <<pstate, pid, parent, chan, killed, schedpick, priority, kpc, np,
          plock, waitlock, cproc, cscan, nextpid, shpid, calls, victims>>

(* Labels in the kernel at which a process holds no lock, so that a timer   *)
(* interrupt makes it yield.                                                *)
OpenLabels == {"fork", "fork_parent", "fork_run", "exit", "wait"}

(* userinit() has made init RUNNABLE and every CPU enters scheduler().      *)
Init ==
  /\ pstate = [p \in Procs |-> IF p = INIT THEN "RUNNABLE" ELSE "UNUSED"]
  /\ pid = [p \in Procs |-> IF p = INIT THEN 1 ELSE 0]
  /\ parent = [p \in Procs |-> None]
  /\ chan = [p \in Procs |-> None]
  /\ killed = [p \in Procs |-> FALSE]
  /\ schedpick = [p \in Procs |-> 0]
  /\ priority = [p \in Procs |-> IF p = INIT THEN NPRIO - 1 ELSE 0]
  /\ kpc = [p \in Procs |-> IF p = INIT THEN "user" ELSE "none"]
  /\ np = [p \in Procs |-> None]
  /\ plock = [p \in Procs |-> None]
  /\ waitlock = None
  /\ cproc = [c \in CPUs |-> None]
  /\ cscan = [c \in CPUs |-> 1]
  /\ nextpid = 2 /\ shpid = 0 /\ calls = 0 /\ victims = {}

Goto(p, l) == kpc' = [kpc EXCEPT ![p] = l]

(* p is what CPU c executes.                                                *)
Runs(c, p) == cproc[c] = p /\ pstate[p] = "RUNNING"

-----------------------------------------------------------------------------
(* scheduler(): the next entry of the loop on an idle CPU.  The process     *)
(* chosen resumes after its sched() (or in forkret), clears chan if it      *)
(* slept, and releases its lock.                                            *)
(* Mutant: the loop ends one entry too early.                               *)
NextEntryShort(c) == cscan' = [cscan EXCEPT ![c] = (@ % (NPROC - 1)) + 1]

(* p++, and back to the first entry at the end of the table.                *)
NextEntry(c) == cscan' = [cscan EXCEPT ![c] = (@ % NPROC) + 1]

SchedSkip(c) ==
  /\ cproc[c] = None
  /\ plock[cscan[c]] = None
  /\ pstate[cscan[c]] # "RUNNABLE"
  /\ NextEntry(c)
  /\ UNCHANGED <<fields, stats, locks, kpc, np, cproc, nextpid, shpid, calls, victims>>

SchedPick(c) ==
  LET p == cscan[c] IN
  /\ cproc[c] = None
  /\ plock[p] = None
  /\ pstate[p] = "RUNNABLE"
  /\ schedpick' = [schedpick EXCEPT ![p] = Min({@ + 1, MaxPick})]
  /\ pstate' = [pstate EXCEPT ![p] = "RUNNING"]
  /\ cproc' = [cproc EXCEPT ![c] = p]
  /\ chan' = [chan EXCEPT ![p] = None]
  /\ UNCHANGED <<pid, parent, killed, priority, locks, kpc, np, cscan, nextpid,
                 shpid, calls, victims>>

(* The scheduler is back from swtch(): c->proc = 0; release(&p->lock).      *)
SwitchOut(c) ==
  LET p == cproc[c] IN
  /\ p # None
  /\ pstate[p] # "RUNNING"
  /\ plock' = [plock EXCEPT ![p] = None]
  /\ cproc' = [cproc EXCEPT ![c] = None]
  /\ NextEntry(c)
  /\ UNCHANGED <<fields, stats, kpc, np, waitlock, nextpid, shpid, calls, victims>>

(* A timer interrupt: yield(), up to the swtch to the scheduler.  In user   *)
(* mode usertrap first lets a killed process exit.                          *)
Yield(c, p) ==
  /\ Runs(c, p)
  /\ kpc[p] \in OpenLabels \/ (kpc[p] = "user" /\ ~killed[p])
  /\ plock[p] = None
  /\ plock' = [plock EXCEPT ![p] = c]
  /\ priority' = [priority EXCEPT ![p] = IF @ > 0 THEN @ - 1 ELSE @]
  /\ pstate' = [pstate EXCEPT ![p] = "RUNNABLE"]
  /\ UNCHANGED <<pid, parent, chan, killed, schedpick, kpc, np, waitlock, sched,
                 nextpid, shpid, calls, victims>>

-----------------------------------------------------------------------------
(* System calls of a process in user mode.  A killed process exits instead. *)
MayCall(c, p) == Runs(c, p) /\ kpc[p] = "user" /\ ~killed[p]

Enter(c, p, l) ==
  /\ MayCall(c, p)
  /\ p # INIT /\ calls < MaxCalls /\ calls' = calls + 1
  /\ Goto(p, l)
  /\ UNCHANGED <<fields, stats, np, locks, sched, nextpid, shpid, victims>>

ExitKilled(c, p) ==
  /\ Runs(c, p) /\ kpc[p] = "user" /\ killed[p]
  /\ Goto(p, "exit")
  /\ UNCHANGED <<fields, stats, np, locks, sched, nextpid, shpid, calls, victims>>

(* user/init.c: fork a shell, and wait until that shell is reaped.          *)
InitStep(c) ==
  /\ MayCall(c, INIT)
  /\ Goto(INIT, IF shpid = 0 THEN "fork" ELSE "wait")
  /\ UNCHANGED <<fields, stats, np, locks, sched, nextpid, shpid, calls, victims>>

(* The result of a call of init that fails is exit(1).                      *)
ReturnError(p) == Goto(p, IF p = INIT THEN "exit" ELSE "user")

(* kill(pid): the first entry with that pid, whatever its state.            *)
Kill(c, p) ==
  \E k \in KillPids :
    /\ MayCall(c, p)
    /\ p # INIT /\ calls < MaxCalls /\ calls' = calls + 1
    /\ victims' = victims \cup {k}
    /\ \E q \in Procs :
         /\ pid[q] = k /\ \A r \in Procs : pid[r] = k => q <= r
         /\ plock[q] = None
         /\ killed' = [killed EXCEPT ![q] = TRUE]
         /\ pstate' = [pstate EXCEPT ![q] = IF @ = "SLEEPING" THEN "RUNNABLE" ELSE @]
    /\ UNCHANGED <<pid, parent, chan, stats, kpc, np, locks, sched, nextpid, shpid>>

-----------------------------------------------------------------------------
(* fork()                                                                   *)

(* Mutant: freeproc() leaves the killed flag.                               *)
FreedKeepsKilled(q) ==
  /\ pid' = [pid EXCEPT ![q] = 0]
  /\ parent' = [parent EXCEPT ![q] = None]
  /\ chan' = [chan EXCEPT ![q] = None]
  /\ killed' = killed
  /\ pstate' = [pstate EXCEPT ![q] = "UNUSED"]

(* freeproc() of q, with the fields that the caller is not changing.        *)
FreedFields(q) ==
  /\ pid' = [pid EXCEPT ![q] = 0]
  /\ parent' = [parent EXCEPT ![q] = None]
  /\ chan' = [chan EXCEPT ![q] = None]
  /\ killed' = [killed EXCEPT ![q] = FALSE]
  /\ pstate' = [pstate EXCEPT ![q] = "UNUSED"]

(* allocproc() finds no UNUSED entry.  (A scan that misses an entry freed   *)
(* behind it ends like one that runs out of memory.)                        *)
ForkNone(c, p) ==
  /\ Runs(c, p) /\ kpc[p] = "fork"
  /\ \A q \in Procs : pstate[q] # "UNUSED"
  /\ ReturnError(p)
  /\ UNCHANGED <<fields, stats, np, locks, sched, nextpid, shpid, calls, victims>>

(* allocproc(), uvmcopy() and the copies, until release(&np->lock).  The    *)
(* entry may be any UNUSED one, as others come free behind the scan.  When  *)
(* memory runs out freeproc() undoes it, but the pid is spent.              *)
ForkAlloc(c, p) ==
  /\ Runs(c, p) /\ kpc[p] = "fork"
  /\ \E q \in Procs :
       /\ pstate[q] = "UNUSED" /\ plock[q] = None
       /\ nextpid' = nextpid + 1
       /\ schedpick' = [schedpick EXCEPT ![q] = 0]
       /\ priority' = [priority EXCEPT ![q] = NPRIO - 1]
       /\ \/ /\ pid' = [pid EXCEPT ![q] = nextpid]
             /\ pstate' = [pstate EXCEPT ![q] = "USED"]
             /\ np' = [np EXCEPT ![p] = q]
             /\ Goto(p, "fork_parent")
             /\ UNCHANGED <<parent, chan, killed>>
          \/ /\ FreedFields(q)
             /\ ReturnError(p)
             /\ UNCHANGED np
  /\ UNCHANGED <<locks, sched, shpid, calls, victims>>

(* acquire(&wait_lock); np->parent = p; release(&wait_lock)                 *)
ForkParent(c, p) ==
  /\ Runs(c, p) /\ kpc[p] = "fork_parent"
  /\ waitlock = None
  /\ parent' = [parent EXCEPT ![np[p]] = p]
  /\ Goto(p, "fork_run")
  /\ UNCHANGED <<pstate, pid, chan, killed, stats, np, locks, sched, nextpid, shpid,
                 calls, victims>>

(* acquire(&np->lock); np->state = RUNNABLE; release(&np->lock); return.    *)
(* init keeps the pid of its shell.                                         *)
ForkRun(c, p) ==
  /\ Runs(c, p) /\ kpc[p] = "fork_run"
  /\ plock[np[p]] = None
  /\ pstate' = [pstate EXCEPT ![np[p]] = "RUNNABLE"]
  /\ kpc' = [kpc EXCEPT ![p] = "user", ![np[p]] = "user"]
  /\ np' = [np EXCEPT ![p] = None]
  /\ shpid' = IF p = INIT THEN pid[np[p]] ELSE shpid
  /\ UNCHANGED <<pid, parent, chan, killed, stats, locks, sched, nextpid, calls, victims>>

-----------------------------------------------------------------------------
(* exit()                                                                   *)
ExitAcquire(c, p) ==
  /\ Runs(c, p) /\ kpc[p] = "exit"
  /\ IF p = INIT
     THEN Goto(p, "panic") /\ UNCHANGED waitlock    \* panic("init exiting")
     ELSE /\ waitlock = None
          /\ waitlock' = c
          /\ Goto(p, "exit_reparent")
  /\ UNCHANGED <<fields, stats, np, plock, sched, nextpid, shpid, calls, victims>>

Children(p) == {q \in Procs : parent[q] = p}

(* Mutant: reparent() does not wake init.                                   *)
ReparentSilently(c, p) ==
  /\ Runs(c, p) /\ kpc[p] = "exit_reparent"
  /\ parent' = [q \in Procs |-> IF parent[q] = p THEN INIT ELSE parent[q]]
  /\ Goto(p, "exit_wakeparent")
  /\ UNCHANGED <<pstate, pid, chan, killed, stats, np, locks, sched, nextpid, shpid,
                 calls, victims>>

(* reparent(p): its wakeups of init are the next step.                      *)
ExitReparent(c, p) ==
  /\ Runs(c, p) /\ kpc[p] = "exit_reparent"
  /\ parent' = [q \in Procs |-> IF parent[q] = p THEN INIT ELSE parent[q]]
  /\ Goto(p, IF Children(p) = {} THEN "exit_wakeparent" ELSE "exit_wakeinit")
  /\ UNCHANGED <<pstate, pid, chan, killed, stats, np, locks, sched, nextpid, shpid,
                 calls, victims>>

(* wakeup(q)                                                                *)
Wakeup(q) ==
  /\ plock[q] = None
  /\ pstate' = [pstate EXCEPT ![q] = IF @ = "SLEEPING" /\ chan[q] = q THEN "RUNNABLE" ELSE @]

ExitWake(c, p) ==
  /\ Runs(c, p)
  /\ \/ kpc[p] = "exit_wakeinit" /\ Wakeup(INIT) /\ Goto(p, "exit_wakeparent")
     \/ kpc[p] = "exit_wakeparent" /\ Wakeup(parent[p]) /\ Goto(p, "exit_zombie")
  /\ UNCHANGED <<pid, parent, chan, killed, stats, np, locks, sched, nextpid, shpid,
                 calls, victims>>

(* acquire(&p->lock); p->state = ZOMBIE; release(&wait_lock); sched()       *)
ExitZombie(c, p) ==
  /\ Runs(c, p) /\ kpc[p] = "exit_zombie"
  /\ plock[p] = None
  /\ plock' = [plock EXCEPT ![p] = c]
  /\ pstate' = [pstate EXCEPT ![p] = "ZOMBIE"]
  /\ waitlock' = None
  /\ Goto(p, "none")
  /\ UNCHANGED <<pid, parent, chan, killed, stats, np, sched, nextpid, shpid, calls,
                 victims>>

-----------------------------------------------------------------------------
(* wait()                                                                   *)
WaitAcquire(c, p) ==
  /\ Runs(c, p) /\ kpc[p] = "wait"
  /\ waitlock = None
  /\ waitlock' = c
  /\ Goto(p, "wait_scan")
  /\ UNCHANGED <<fields, stats, np, plock, sched, nextpid, shpid, calls, victims>>

Zombies(p) == {q \in Children(p) : pstate[q] = "ZOMBIE"}

(* Mutant: the exited child is freed without taking its lock.               *)
ReapUnlocked(c, p) ==
  /\ Runs(c, p) /\ kpc[p] = "wait_scan"
  /\ \E q \in Zombies(p) :
       /\ \A r \in Zombies(p) : q <= r
       /\ \/ /\ FreedFields(q)
             /\ shpid' = IF p = INIT /\ pid[q] = shpid THEN 0 ELSE shpid
          \/ p # INIT /\ UNCHANGED <<fields, shpid>>
  /\ waitlock' = None
  /\ Goto(p, "user")
  /\ UNCHANGED <<stats, np, plock, sched, nextpid, calls, victims>>

(* The scan finds an exited child, whose lock it takes: freeproc(), or a    *)
(* failure of copyout() (init gives no address).                            *)
WaitReap(c, p) ==
  /\ Runs(c, p) /\ kpc[p] = "wait_scan"
  /\ \E q \in Zombies(p) :
       /\ \A r \in Zombies(p) : q <= r
       /\ plock[q] = None
       /\ \/ /\ FreedFields(q)
             /\ shpid' = IF p = INIT /\ pid[q] = shpid THEN 0 ELSE shpid
          \/ p # INIT /\ UNCHANGED <<fields, shpid>>
  /\ waitlock' = None
  /\ Goto(p, "user")
  /\ UNCHANGED <<stats, np, plock, sched, nextpid, calls, victims>>

(* The scan finds no exited child.                                          *)
WaitNone(c, p) ==
  /\ Runs(c, p) /\ kpc[p] = "wait_scan"
  /\ Zombies(p) = {}
  /\ IF Children(p) = {}
     THEN ReturnError(p) /\ waitlock' = None
     ELSE Goto(p, "wait_killed") /\ UNCHANGED waitlock
  /\ UNCHANGED <<fields, stats, np, plock, sched, nextpid, shpid, calls, victims>>

(* killed(p)                                                                *)
WaitKilled(c, p) ==
  /\ Runs(c, p) /\ kpc[p] = "wait_killed"
  /\ plock[p] = None
  /\ IF killed[p]
     THEN ReturnError(p) /\ waitlock' = None
     ELSE Goto(p, "wait_sleep") /\ UNCHANGED waitlock
  /\ UNCHANGED <<fields, stats, np, plock, sched, nextpid, shpid, calls, victims>>

(* Mutant: sleep() releases wait_lock without taking p->lock.               *)
WaitSleepUnlocked(c, p) ==
  /\ Runs(c, p) /\ kpc[p] = "wait_sleep"
  /\ waitlock' = None
  /\ Goto(p, "wait_park")
  /\ UNCHANGED <<fields, stats, np, plock, sched, nextpid, shpid, calls, victims>>

(* sleep(p, &wait_lock): acquire(&p->lock); release(&wait_lock)             *)
WaitSleep(c, p) ==
  /\ Runs(c, p) /\ kpc[p] = "wait_sleep"
  /\ plock[p] = None
  /\ plock' = [plock EXCEPT ![p] = c]
  /\ waitlock' = None
  /\ Goto(p, "wait_park")
  /\ UNCHANGED <<fields, stats, np, sched, nextpid, shpid, calls, victims>>

(* chan, state and priority, and sched(); it resumes at acquire(&wait_lock).*)
WaitPark(c, p) ==
  /\ Runs(c, p) /\ kpc[p] = "wait_park"
  /\ chan' = [chan EXCEPT ![p] = p]
  /\ pstate' = [pstate EXCEPT ![p] = "SLEEPING"]
  /\ priority' = [priority EXCEPT ![p] = IF @ < NPRIO - 1 THEN @ + 1 ELSE @]
  /\ Goto(p, "wait")
  /\ UNCHANGED <<pid, parent, killed, schedpick, np, locks, sched, nextpid,
                 shpid, calls, victims>>

-----------------------------------------------------------------------------
UserCall(c, p) == Enter(c, p, "fork") \/ Enter(c, p, "exit") \/ Enter(c, p, "wait") \/ Kill(c, p)

KernelStep(c, p) ==
  \/ ExitKilled(c, p)
  \/ ForkNone(c, p) \/ ForkAlloc(c, p) \/ ForkParent(c, p) \/ ForkRun(c, p)
  \/ ExitAcquire(c, p) \/ ExitReparent(c, p) \/ ExitWake(c, p) \/ ExitZombie(c, p)
  \/ WaitAcquire(c, p) \/ WaitReap(c, p) \/ WaitNone(c, p) \/ WaitKilled(c, p)
  \/ WaitSleep(c, p) \/ WaitPark(c, p)

ProcStep(p) == \E c \in CPUs : KernelStep(c, p) \/ (p = INIT /\ InitStep(c))

Scheduler(c) == SchedSkip(c) \/ SchedPick(c) \/ SwitchOut(c)

Timer(c) == \E p \in Procs : Yield(c, p)

Next ==
  \/ \E c \in CPUs : Scheduler(c) \/ Timer(c)
  \/ \E p \in Procs : ProcStep(p) \/ \E c \in CPUs : UserCall(c, p)

Spec == Init /\ [][Next]_vars

(* Each hart keeps executing its scheduler and its timer keeps interrupting;*)
(* a process that is given the CPU again and again executes something       *)
(* before the timer takes it away.  Nothing makes a program call.           *)
FairSpec ==
  /\ Spec
  /\ \A c \in CPUs : WF_vars(Scheduler(c)) /\ WF_vars(Timer(c))
  /\ \A p \in Procs : SF_vars(ProcStep(p))

-----------------------------------------------------------------------------
(* No process runs on two CPUs, a RUNNING process is on one, and an entry   *)
(* that a CPU is still on (its stack in use) is not free for reuse.         *)
OneCpu ==
  /\ \A c, d \in CPUs : cproc[c] = cproc[d] /\ cproc[c] # None => c = d
  /\ \A p \in Procs : pstate[p] = "RUNNING" => \E c \in CPUs : cproc[c] = p
  /\ \A c \in CPUs : cproc[c] # None => pstate[cproc[c]] \notin {"UNUSED", "USED"}

(* Nobody sleeps in wait() with an exited child to reap, except while some  *)
(* exit() that holds wait_lock is about to wake it.                         *)
NoLostExit ==
  \A p \in Procs :
    (pstate[p] = "SLEEPING" \/ kpc[p] = "wait_park") /\ Zombies(p) # {} =>
      \E q \in Procs : kpc[q] = "exit_wakeinit" /\ p = INIT

(* Only a process whose pid was given to kill() is ever marked killed       *)
(* (proc.c:594, "Kill the process with the given pid").                     *)
OnlyVictims == \A p \in Procs : killed[p] /\ pid[p] # 0 => pid[p] \in victims

(* init has exited, and the kernel has stopped one of its CPUs for it       *)
(* (panic("init exiting")).                                                 *)
Panicked == kpc[INIT] = "panic"

(* The scheduler starves nobody, unless the kernel has panicked.            *)
RunnableRuns ==
  \A p \in Procs : pstate[p] = "RUNNABLE" ~> (pstate[p] # "RUNNABLE" \/ Panicked)

(* A process in wait() with an exited child returns, unless the kernel has  *)
(* panicked.                                                                *)
WaitReturns ==
  \A p \in Procs :
    (kpc[p] \in {"wait", "wait_scan", "wait_killed", "wait_sleep", "wait_park"} /\ Zombies(p) # {})
      ~> (kpc[p] \in {"user", "none", "exit"} \/ Panicked)
-----------------------------------------------------------------------------
(* Type correctness.                                                        *)
States == {"UNUSED", "USED", "RUNNABLE", "RUNNING", "SLEEPING", "ZOMBIE"}
ReparentedLabels == {"exit_wakeinit", "exit_wakeparent", "exit_zombie"}
WaitLockLabels ==     \* wait_lock is held
  ReparentedLabels \cup {"exit_reparent", "wait_scan", "wait_killed", "wait_sleep"}
ForkingLabels == {"fork_parent", "fork_run"}
Labels == OpenLabels \cup WaitLockLabels \cup {"none", "user", "wait_park", "panic"}

TypeOK ==
  /\ pstate \in [Procs -> States]
  /\ pid \in [Procs -> Nat]
  /\ parent \in [Procs -> Procs \cup {None}]
  /\ chan \in [Procs -> Procs \cup {None}]
  /\ killed \in [Procs -> BOOLEAN]
  /\ schedpick \in [Procs -> 0 .. MaxPick]
  /\ priority \in [Procs -> 0 .. NPRIO - 1]
  /\ kpc \in [Procs -> Labels]
  /\ np \in [Procs -> Procs \cup {None}]
  /\ plock \in [Procs -> CPUs \cup {None}]
  /\ waitlock \in CPUs \cup {None}
  /\ cproc \in [CPUs -> Procs \cup {None}]
  /\ cscan \in [CPUs -> Procs]
  /\ nextpid \in Nat \ {0}
  /\ shpid \in Nat
  /\ calls \in 0 .. MaxCalls
  /\ victims \subseteq KillPids

(* The state of an entry agrees with where its process is.                  *)
StatesOK ==
  \A p \in Procs :
    /\ pstate[p] \in {"UNUSED", "USED", "ZOMBIE"} <=> kpc[p] = "none"
    /\ pstate[p] = "SLEEPING" => kpc[p] = "wait" /\ chan[p] = p
    /\ pstate[p] = "RUNNABLE" => kpc[p] \in OpenLabels \cup {"user"}
    /\ pstate[p] = "UNUSED" <=> pid[p] = 0

(* A fork in progress has an entry that is its alone.                       *)
ForksOK ==
  \A p \in Procs :
    /\ kpc[p] \in ForkingLabels =>
         np[p] \in Procs /\ pstate[np[p]] = "USED" /\ (kpc[p] = "fork_run" => parent[np[p]] = p)
    /\ \A q \in Procs :
         kpc[p] \in ForkingLabels /\ kpc[q] \in ForkingLabels /\ np[p] = np[q] => p = q

(* p->lock is held exactly from before sched() to the scheduler's release,  *)
(* by the CPU that runs the process.                                        *)
ProcLocks ==
  /\ \A p \in Procs : plock[p] # None =>
       cproc[plock[p]] = p /\ (pstate[p] = "RUNNING" => kpc[p] = "wait_park")
  /\ \A c \in CPUs : cproc[c] # None /\ (pstate[cproc[c]] # "RUNNING" \/ kpc[cproc[c]] = "wait_park") =>
       plock[cproc[c]] = c

(* wait_lock is held by the CPU that runs the one process in a critical     *)
(* section of it.                                                           *)
WaitLock ==
  /\ waitlock # None => cproc[waitlock] # None /\ kpc[cproc[waitlock]] \in WaitLockLabels
  /\ \A p \in Procs :
       /\ kpc[p] \in WaitLockLabels => waitlock # None /\ cproc[waitlock] = p
       /\ kpc[p] \in WaitLockLabels \cup {"wait_park"} => pstate[p] = "RUNNING"

(* init does not exit, who exits has handed on its children, and wakes its  *)
(* parent before it becomes a ZOMBIE; nobody goes to sleep after it has     *)
(* seen that none of its children has exited unless that is still so.       *)
ExitsOK ==
  /\ kpc[INIT] \notin ReparentedLabels \cup {"exit_reparent", "none"}
  /\ \A p \in Procs :
       /\ kpc[p] \in ReparentedLabels => Children(p) = {}
       /\ kpc[p] = "exit_zombie" => pstate[parent[p]] # "SLEEPING" /\ kpc[parent[p]] # "wait_park"
       /\ kpc[p] \in {"wait_killed", "wait_sleep"} => Zombies(p) = {}

(* Every process that fork() has started has a parent, and that parent has  *)
(* not exited: somebody can always wait for it (reparent(), proc.c:334).    *)
HasParent ==
  \A p \in Procs : p # INIT /\ pstate[p] \notin {"UNUSED", "USED"} =>
    parent[p] \in Procs /\ kpc[parent[p]] # "none"

(* Two processes never share a pid (allocpid()), so that kill() and the     *)
(* parent's wait() name one process.                                        *)
PidsDistinct ==
  \A p, q \in Procs :
    /\ pid[p] < nextpid
    /\ pid[p] = pid[q] /\ pid[p] # 0 => p = q

(* The inductive invariant.                                                 *)
IndInv ==
  /\ TypeOK /\ StatesOK /\ ForksOK /\ OneCpu /\ ProcLocks /\ WaitLock /\ ExitsOK
  /\ NoLostExit /\ HasParent /\ PidsDistinct

(* A free entry does not carry a mark that its next process would inherit.  *)
FreeUnmarked == \A p \in Procs : pstate[p] = "UNUSED" => ~killed[p]
=============================================================================
