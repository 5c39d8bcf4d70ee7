----------------------------- MODULE SleepWakeup -----------------------------
(***************************************************************************)
(* The blocking primitives of the kernel: spinlocks (kernel/spinlock.c),    *)
(* sleep, wakeup and kill (kernel/proc.c) and the killed() tests of         *)
(* usertrap (kernel/trap.c).  A component that blocks EXTENDS this module,  *)
(* names its spinlocks and wait channels, and supplies the condition loop   *)
(* around sleep.                                                            *)
(*                                                                          *)
(* Every process is a thread of control with its own pc.  RUNNABLE stands   *)
(* for RUNNABLE and RUNNING both: which of the two a process is in, and on  *)
(* which CPU, is the business of module Proc.  p->lock is explicit where a  *)
(* process keeps it between two visible steps (inside sleep, from           *)
(* acquire(&p->lock) until the scheduler releases it); a critical section   *)
(* on p->lock that touches nothing else is one step, guarded by the lock    *)
(* being free.                                                              *)
(***************************************************************************)
EXTENDS Integers

CONSTANTS NPROC,    \* entries of the process table proc[]
          Locks,    \* the component's spinlocks
          Chans,    \* the addresses its processes sleep on
          NoChan    \* p->chan of a process that is not sleeping

ASSUME NPROCAssumption == NPROC \in Nat \ {0}
ASSUME NoChanAssumption == NoChan \notin Chans

Procs == 1 .. NPROC
Free == 0           \* the holder of a lock nobody holds

VARIABLES pc,       \* pc[p]: where process p is
          lock,     \* lock[l]: the process holding spinlock l, or Free
          plock,    \* plock[p]: the process holding p->lock, or Free
          state,    \* state[p]: p->state
          chan,     \* chan[p]: p->chan
          wk,       \* wk[p]: the next table entry of the wakeup() p is in
          killed    \* killed[p]: p->killed

blockVars == <<pc, lock, plock, state, chan, wk, killed>>

SleepLabels == {"sleep", "sleep_release", "sleep_park", "asleep", "sleep_reacquire"}

Goto(p, l) == pc' = [pc EXCEPT ![p] = l]

(***************************************************************************)
(* The holder of a spinlock may only be replaced through these two.         *)
(***************************************************************************)
Acquire(p, l) ==
  /\ lock[l] = Free
  /\ lock' = [lock EXCEPT ![l] = p]

Release(l) == lock' = [lock EXCEPT ![l] = Free]

BlockInit(start) ==
  /\ pc = [p \in Procs |-> start]
  /\ lock = [l \in Locks |-> Free]
  /\ plock = [p \in Procs |-> Free]
  /\ state = [p \in Procs |-> "RUNNABLE"]
  /\ chan = [p \in Procs |-> NoChan]
  /\ wk = [p \in Procs |-> 1]
  /\ killed = [p \in Procs |-> FALSE]

-----------------------------------------------------------------------------
(* sleep(chan, lk), entered with lk held at label "sleep".                  *)

(* Mutant: p->lock is not taken before lk is released.                      *)
SleepWithoutProcLock(p) ==
  /\ pc[p] = "sleep"
  /\ Goto(p, "sleep_release")
  /\ UNCHANGED <<lock, plock, state, chan, wk, killed>>

(* acquire(&p->lock)                                                        *)
SleepLockProc(p) ==
  /\ pc[p] = "sleep"
  /\ plock[p] = Free
  /\ plock' = [plock EXCEPT ![p] = p]
  /\ Goto(p, "sleep_release")
  /\ UNCHANGED <<lock, state, chan, wk, killed>>

(* release(lk)                                                              *)
SleepReleaseLock(p, lk) ==
  /\ pc[p] = "sleep_release"
  /\ Release(lk)
  /\ Goto(p, "sleep_park")
  /\ UNCHANGED <<plock, state, chan, wk, killed>>

(* p->chan = chan; p->state = SLEEPING; sched(): the scheduler's thread     *)
(* then releases p->lock.                                                   *)
SleepPark(p, ch) ==
  /\ pc[p] = "sleep_park"
  /\ chan' = [chan EXCEPT ![p] = ch]
  /\ state' = [state EXCEPT ![p] = "SLEEPING"]
  /\ plock' = [plock EXCEPT ![p] = Free]
  /\ Goto(p, "asleep")
  /\ UNCHANGED <<lock, wk, killed>>

(* The scheduler locks the RUNNABLE process and switches to it, and it      *)
(* resumes in sleep(): p->chan = 0; release(&p->lock).                      *)
SleepResume(p) ==
  /\ pc[p] = "asleep"
  /\ state[p] = "RUNNABLE"
  /\ plock[p] = Free
  /\ chan' = [chan EXCEPT ![p] = NoChan]
  /\ Goto(p, "sleep_reacquire")
  /\ UNCHANGED <<lock, plock, state, wk, killed>>

(* acquire(lk), and back to the loop that called sleep().                   *)
SleepReacquire(p, lk, loop) ==
  /\ pc[p] = "sleep_reacquire"
  /\ Acquire(p, lk)
  /\ Goto(p, loop)
  /\ UNCHANGED <<plock, state, chan, wk, killed>>

-----------------------------------------------------------------------------
(* wakeup(chan): one table entry per step, the caller itself skipped.       *)
WakeupVisit(p, ch) ==
  /\ pc[p] = "wakeup"
  /\ wk[p] \in Procs
  /\ wk[p] # p => plock[wk[p]] = Free
  /\ state' = IF wk[p] # p /\ state[wk[p]] = "SLEEPING" /\ chan[wk[p]] = ch
              THEN [state EXCEPT ![wk[p]] = "RUNNABLE"]
              ELSE state
  /\ wk' = [wk EXCEPT ![p] = @ + 1]
  /\ UNCHANGED <<pc, lock, plock, chan, killed>>

(* The end of the loop; next is the caller's next statement.                *)
WakeupReturn(p, next) ==
  /\ pc[p] = "wakeup"
  /\ wk[p] = NPROC + 1
  /\ wk' = [wk EXCEPT ![p] = 1]
  /\ Goto(p, next)
  /\ UNCHANGED <<lock, plock, state, chan, killed>>

(* kill(pid) of process q.  The entries it passes on the way are only       *)
(* locked, read and unlocked.                                               *)
KillProc(q) ==
  /\ pc[q] # "dead"
  /\ plock[q] = Free
  /\ killed' = [killed EXCEPT ![q] = TRUE]
  /\ state' = [state EXCEPT ![q] = "RUNNABLE"]

(* usertrap: a killed process exits at its next entry to the kernel or when *)
(* its system call is over; user is the label of user mode.                 *)
ExitKilled(p, user) ==
  /\ pc[p] = user
  /\ killed[p]
  /\ Goto(p, "dead")
  /\ UNCHANGED <<lock, plock, state, chan, wk, killed>>

=============================================================================
