------------------------------ MODULE Semaphore ------------------------------
(***************************************************************************)
(* The kernel semaphores of lab2 (kernel/sem.c, kernel/syssem.c): processes *)
(* open, close, up, down and search the array semaphores[MAXSEM] through    *)
(* system calls, and kill each other at any moment.                         *)
(*                                                                          *)
(* A critical section on a semaphore's spinlock is one step when nothing    *)
(* inside it can block or be observed (sem_open, sem_close, a visit of      *)
(* get_closed_sem), and several steps when it tests the value, scans the    *)
(* process table or sleeps (sem_up, sem_down).  The first test of sem_open  *)
(* reads the status without the lock, and is a step of its own.             *)
(***************************************************************************)
EXTENDS SleepWakeup

CONSTANTS MAXSEM,     \* number of semaphores
          OpenValues, \* the initial values callers give to sem_open
          MaxCalls    \* bound: system calls made altogether

SemIds == 0 .. (MAXSEM - 1)
OpenIds == 0 .. MAXSEM      \* sem_open's own test lets sem = MAXSEM through

ASSUME MAXSEMAssumption == MAXSEM \in Nat \ {0}
ASSUME SemLocks == Locks = SemIds /\ Chans = SemIds
ASSUME OpenValuesAssumption == OpenValues \subseteq Int
ASSUME MaxCallsAssumption == MaxCalls \in Nat

VARIABLES value,      \* semaphores[s].value
          status,     \* semaphores[s].status
          sem,        \* sem[p]: the id argument of p's call
          val,        \* val[p]: the value argument of p's sem_open
          ret,        \* ret[p]: the result of p's last call
          calls,      \* number of system calls made so far
          orphan      \* history: processes asleep when their semaphore was
                      \* reopened with tokens in it

semVars == <<value, status, sem, val, ret, orphan>>
vars == <<pc, lock, plock, state, chan, wk, killed,
          value, status, sem, val, ret, orphan, calls>>

UpLabels == {"up_acquire", "wakeup", "up_inc"}
DownLabels == {"down_acquire", "down_test", "down_dec"} \cup SleepLabels
Labels == {"user", "dead", "open", "close", "get_closed"} \cup UpLabels \cup DownLabels

(* The labels at which a process is between acquire and release of          *)
(* semaphores[sem].lock.                                                    *)
HoldLabels == {"wakeup", "up_inc", "down_test", "down_dec", "sleep", "sleep_release"}

Init ==
  /\ BlockInit("user")
  /\ value = [s \in SemIds |-> 0]
  /\ status = [s \in SemIds |-> "CLOSE"]
  /\ sem = [p \in Procs |-> 0]
  /\ val = [p \in Procs |-> 0]
  /\ ret = [p \in Procs |-> 0]
  /\ orphan = {}
  /\ calls = 0

-----------------------------------------------------------------------------
InUser(p) == pc[p] = "user" /\ ~killed[p]

(* The way into a system call on semaphore s.                               *)
Enter(p, s, label) ==
  /\ InUser(p)
  /\ sem' = [sem EXCEPT ![p] = s]
  /\ Goto(p, label)
  /\ UNCHANGED <<lock, plock, state, chan, wk, killed, value, status, val, ret, orphan>>

(* The way out of a system call, with its result.                           *)
Return(p, r) ==
  /\ ret' = [ret EXCEPT ![p] = r]
  /\ Goto(p, "user")

-----------------------------------------------------------------------------
(* sem_open.  The word at semaphores[MAXSEM].status is outside the array    *)
(* and holds anything.                                                      *)
StatusRead(s) == IF s \in SemIds THEN {status[s]} ELSE {"OPEN", "CLOSE"}

OpenReject(p, s, v) ==
  /\ InUser(p)
  /\ "OPEN" \in StatusRead(s) \/ v < 0
  /\ Return(p, 0)
  /\ UNCHANGED <<lock, plock, state, chan, wk, killed, value, status, sem, val, orphan>>

OpenAccept(p, s, v) ==
  /\ InUser(p)
  /\ "CLOSE" \in StatusRead(s) /\ v >= 0
  /\ sem' = [sem EXCEPT ![p] = s]
  /\ val' = [val EXCEPT ![p] = v]
  /\ Goto(p, "open")
  /\ UNCHANGED <<lock, plock, state, chan, wk, killed, value, status, ret, orphan>>

(* Processes asleep, or about to be, in sem_down(s).                        *)
Waiters(s) == {q \in Procs : sem[q] = s /\ pc[q] \in {"sleep_park", "asleep"}}

(* The locked body of sem_open.  There is no wakeup: whoever is asleep when *)
(* the value becomes positive is recorded in orphan.                        *)
OpenLocked(p) ==
  /\ pc[p] = "open"
  /\ IF sem[p] \in SemIds
     THEN /\ lock[sem[p]] = Free
          /\ value' = [value EXCEPT ![sem[p]] = val[p]]
          /\ status' = [status EXCEPT ![sem[p]] = "OPEN"]
          /\ orphan' = IF val[p] > 0 THEN orphan \cup Waiters(sem[p]) ELSE orphan
     ELSE UNCHANGED <<value, status, orphan>>
  /\ Return(p, 1)
  /\ UNCHANGED <<lock, plock, state, chan, wk, killed, sem, val>>

(* Mutant: closing a semaphore throws its tokens away.                      *)
CloseResets(p) ==
  /\ pc[p] = "close"
  /\ lock[sem[p]] = Free
  /\ status' = [status EXCEPT ![sem[p]] = "CLOSE"]
  /\ value' = [value EXCEPT ![sem[p]] = 0]
  /\ Return(p, 1)
  /\ UNCHANGED <<lock, plock, state, chan, wk, killed, sem, val, orphan>>

(* sem_close                                                                *)
CloseLocked(p) ==
  /\ pc[p] = "close"
  /\ lock[sem[p]] = Free
  /\ status' = [status EXCEPT ![sem[p]] = "CLOSE"]
  /\ Return(p, 1)
  /\ UNCHANGED <<lock, plock, state, chan, wk, killed, value, sem, val, orphan>>

(* get_closed_sem: sem[p] is the loop's variable.                           *)
GetVisit(p) ==
  /\ pc[p] = "get_closed"
  /\ sem[p] + 1 < MAXSEM
  /\ lock[sem[p]] = Free
  /\ IF status[sem[p]] = "OPEN"
     THEN /\ sem' = [sem EXCEPT ![p] = @ + 1]
          /\ UNCHANGED <<pc, ret>>
     ELSE /\ Return(p, sem[p])
          /\ UNCHANGED sem
  /\ UNCHANGED <<lock, plock, state, chan, wk, killed, value, status, val, orphan>>

GetEnd(p) ==
  /\ pc[p] = "get_closed"
  /\ sem[p] + 1 >= MAXSEM
  /\ Return(p, sem[p])
  /\ UNCHANGED <<lock, plock, state, chan, wk, killed, value, status, sem, val, orphan>>

-----------------------------------------------------------------------------
(* Mutant: the wakeup test is made on the value after the increment.        *)
UpWakesLate(p) ==
  /\ pc[p] = "up_acquire"
  /\ Acquire(p, sem[p])
  /\ Goto(p, IF value[sem[p]] = 1 THEN "wakeup" ELSE "up_inc")
  /\ UNCHANGED <<plock, state, chan, wk, killed, semVars>>

(* sem_up: acquire and test; wakeup when the value is 0; increment and      *)
(* release.                                                                 *)
UpAcquire(p) ==
  /\ pc[p] = "up_acquire"
  /\ Acquire(p, sem[p])
  /\ Goto(p, IF value[sem[p]] = 0 THEN "wakeup" ELSE "up_inc")
  /\ UNCHANGED <<plock, state, chan, wk, killed, semVars>>

UpWakeup(p) ==
  /\ WakeupVisit(p, sem[p]) \/ WakeupReturn(p, "up_inc")
  /\ UNCHANGED semVars

UpInc(p) ==
  /\ pc[p] = "up_inc"
  /\ value' = [value EXCEPT ![sem[p]] = @ + 1]
  /\ Release(sem[p])
  /\ Return(p, 1)
  /\ UNCHANGED <<plock, state, chan, wk, killed, status, sem, val, orphan>>

-----------------------------------------------------------------------------
(* sem_down: acquire; while the value is 0 sleep; decrement and release.    *)
DownAcquire(p) ==
  /\ pc[p] = "down_acquire"
  /\ Acquire(p, sem[p])
  /\ Goto(p, "down_test")
  /\ UNCHANGED <<plock, state, chan, wk, killed, semVars>>

DownTest(p) ==
  /\ pc[p] = "down_test"
  /\ Goto(p, IF value[sem[p]] = 0 THEN "sleep" ELSE "down_dec")
  /\ UNCHANGED <<lock, plock, state, chan, wk, killed, semVars>>

(* sleep(), called from the loop.                                           *)
DownSleep(p) ==
  \/ /\ \/ SleepLockProc(p)
        \/ SleepReleaseLock(p, sem[p])
        \/ SleepPark(p, sem[p])
        \/ SleepReacquire(p, sem[p], "down_test")
     /\ UNCHANGED semVars
  \/ /\ SleepResume(p)
     /\ orphan' = orphan \ {p}
     /\ UNCHANGED <<value, status, sem, val, ret>>

DownDec(p) ==
  /\ pc[p] = "down_dec"
  /\ value' = [value EXCEPT ![sem[p]] = @ - 1]
  /\ Release(sem[p])
  /\ Return(p, 1)
  /\ UNCHANGED <<plock, state, chan, wk, killed, status, sem, val, orphan>>

-----------------------------------------------------------------------------
(* Another process's kill: a sleeper is woken with its condition still      *)
(* false, and sem_down does not look at p->killed.                          *)
Kill(p, q) ==
  /\ InUser(p)
  /\ KillProc(q)
  /\ UNCHANGED <<pc, lock, plock, chan, wk, semVars>>

(* The system calls a process in user mode can make.                        *)
Call(p) ==
  \/ \E s \in OpenIds, v \in OpenValues : OpenReject(p, s, v) \/ OpenAccept(p, s, v)
  \/ \E s \in SemIds : \/ Enter(p, s, "close")
                       \/ Enter(p, s, "up_acquire")
                       \/ Enter(p, s, "down_acquire")
  \/ Enter(p, 0, "get_closed")
  \/ \E q \in Procs : Kill(p, q)

(* What the kernel does for p once it is inside a call.                     *)
KernelStep(p) ==
  \/ OpenLocked(p) \/ CloseLocked(p)
  \/ GetVisit(p) \/ GetEnd(p)
  \/ UpAcquire(p) \/ UpWakeup(p) \/ UpInc(p)
  \/ DownAcquire(p) \/ DownTest(p) \/ DownSleep(p) \/ DownDec(p)
  \/ ExitKilled(p, "user") /\ UNCHANGED semVars

MakeCall(p) ==
  /\ calls < MaxCalls
  /\ calls' = calls + 1
  /\ Call(p)

Step(p) == KernelStep(p) /\ UNCHANGED calls

Next == \E p \in Procs : MakeCall(p) \/ Step(p)

Spec == Init /\ [][Next]_vars

(* A process inside the kernel is always scheduled again, and a CPU that    *)
(* spins on a lock gets it when its holder leaves for good.  Nothing makes  *)
(* a process issue a call.                                                  *)
Fairness == \A p \in Procs : WF_vars(Step(p))

FairSpec == Spec /\ Fairness

-----------------------------------------------------------------------------
TypeOK ==
  /\ pc \in [Procs -> Labels]
  /\ lock \in [SemIds -> Procs \cup {Free}]
  /\ plock \in [Procs -> Procs \cup {Free}]
  /\ state \in [Procs -> {"RUNNABLE", "SLEEPING"}]
  /\ chan \in [Procs -> SemIds \cup {NoChan}]
  /\ wk \in [Procs -> 1 .. (NPROC + 1)]
  /\ killed \in [Procs -> BOOLEAN]
  /\ value \in [SemIds -> Nat]
  /\ status \in [SemIds -> {"OPEN", "CLOSE"}]
  /\ sem \in [Procs -> OpenIds]
  /\ val \in [Procs -> Nat]
  /\ ret \in [Procs -> Nat]
  /\ orphan \subseteq Procs
  /\ calls \in 0 .. MaxCalls

(* A process asleep in sem_down, or committed to sleeping.                  *)
Dormant(q, s) ==
  /\ sem[q] = s
  /\ pc[q] = "sleep_park" \/ (pc[q] = "asleep" /\ state[q] = "SLEEPING")

-----------------------------------------------------------------------------
(* The spinlock of a semaphore is held exactly by the process that is       *)
(* between its acquire and its release (so at most one is), and p->lock     *)
(* exactly while p is inside sleep() and has not been switched out.         *)
LockOwner ==
  /\ \A p \in Procs, s \in SemIds :
        lock[s] = p <=> (sem[p] = s /\ pc[p] \in HoldLabels)
  /\ \A p \in Procs :
        plock[p] = IF pc[p] \in {"sleep_release", "sleep_park"} THEN p ELSE Free

(* p->chan and p->state agree with where the process stopped.               *)
ParkedOK ==
  \A p \in Procs :
    /\ chan[p] = IF pc[p] = "asleep" THEN sem[p] ELSE NoChan
    /\ state[p] = "SLEEPING" => pc[p] = "asleep"

(* What a process tested under the lock is still true when it acts on it:   *)
(* sem_down decrements a positive value and goes to sleep on a value of 0,  *)
(* sem_up calls wakeup with the value still 0.                              *)
TestStillTrue ==
  \A p \in Procs :
    /\ pc[p] = "down_dec" => value[sem[p]] > 0
    /\ pc[p] \in {"sleep", "sleep_release", "wakeup"} => value[sem[p]] = 0

(* The wakeup() of a sem_up leaves no sleeper behind it: the entries it has *)
(* passed, and all of them once it is over, hold nobody dormant on this     *)
(* semaphore, and it starts from the first.                               *)
ScanComplete ==
  \A p \in Procs :
    /\ pc[p] # "wakeup" => wk[p] = 1
    /\ pc[p] = "wakeup" =>
         \A q \in Procs : q < wk[p] => ~Dormant(q, sem[p])
    /\ pc[p] = "up_inc" /\ value[sem[p]] = 0 =>
         \A q \in Procs : ~Dormant(q, sem[p])

(* No lost wakeup: nobody sleeps in sem_down on a semaphore with a positive *)
(* value.  The one exception the code makes is a sem_open that sets a       *)
(* positive value while processes sleep on the closed semaphore.            *)
NoLostWakeup ==
  \A p \in Procs, s \in SemIds :
    Dormant(p, s) => value[s] = 0 \/ p \in orphan

(* Ids: only sem_open can carry sem = MAXSEM.                               *)
IdsOK == \A p \in Procs : pc[p] \notin {"user", "dead", "open"} => sem[p] \in SemIds

IndInv ==
  /\ TypeOK /\ IdsOK /\ LockOwner /\ ParkedOK /\ TestStillTrue
  /\ ScanComplete /\ NoLostWakeup

(* A sleeper whose semaphore has a token either gets to test it again or    *)
(* somebody else takes the token.                                           *)
WaiterServed ==
  \A p \in Procs, s \in SemIds :
    (pc[p] \in SleepLabels /\ sem[p] = s /\ value[s] > 0 /\ p \notin orphan)
       ~> (pc[p] = "user" \/ value[s] = 0 \/ p \in orphan)

-----------------------------------------------------------------------------
(* The refinement mapping: the call a process is in, by its pc.             *)
OpOf(p) ==
  CASE pc[p] = "open" -> "open"
    [] pc[p] = "close" -> "close"
    [] pc[p] = "get_closed" -> "search"
    [] pc[p] \in UpLabels -> "up"
    [] pc[p] \in DownLabels -> "down"
    [] OTHER -> "none"

ArgOf(p) == IF OpOf(p) \in {"none", "search"} THEN 0 ELSE sem[p]
InitOf(p) == IF OpOf(p) = "open" THEN val[p] ELSE 0

Abs == INSTANCE AbstractSemaphore
         WITH Ids <- SemIds, Args <- OpenIds, Inits <- OpenValues \cup {0},
              op <- [p \in Procs |-> OpOf(p)],
              arg <- [p \in Procs |-> ArgOf(p)],
              init <- [p \in Procs |-> InitOf(p)]

(* The kernel's semaphores, with their spinlocks, their sleep and wakeup    *)
(* and their kills, implement semaphores whose calls are atomic.            *)
RefinesAtomicCalls == Abs!ASpec

=============================================================================
