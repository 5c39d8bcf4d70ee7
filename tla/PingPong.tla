------------------------------- MODULE PingPong -------------------------------
(***************************************************************************)
(* user/pingpong.c of lab2 on top of the kernel's semaphores: Instances     *)
(* copies of the program run at the same time, each a parent that opens two *)
(* semaphores and forks a child.  The child prints the pings, the parent    *)
(* the pongs, and both close both semaphores before they exit.              *)
(*                                                                          *)
(* Process 2i-1 is the parent of instance i and 2i its child.  Every system *)
(* call is a call of module Semaphore; a step of the program waits for the  *)
(* previous call to be back in user mode.                                   *)
(***************************************************************************)
EXTENDS Semaphore

CONSTANTS Instances,  \* copies of pingpong running together
          Rounds,     \* the argument of the program
          ForkMayFail \* whether fork() can run out of processes or memory

InstancesAssumption == Instances \in Nat \ {0} /\ NPROC = 2 * Instances
RoundsAssumption == Rounds \in Nat /\ ForkMayFail \in BOOLEAN

Copies == 1 .. Instances
Parent(i) == 2 * i - 1
Child(i) == 2 * i
CopyOf(p) == (p + 1) \div 2
IsParent(p) == p % 2 = 1

VARIABLES upc,    \* upc[p]: where the program is
          f, s,   \* f[p], s[p]: sem_name_f and sem_name_s
          turn,   \* turn[p]: the loop's variable i
          pings,  \* pings[i]: pings copy i has printed
          pongs   \* pongs[i]: pongs copy i has printed

userVars == <<upc, f, s, turn, pings, pongs>>
ppVars == <<vars, userVars>>

PPInit ==
  /\ Init
  /\ upc = [p \in Procs |-> IF IsParent(p) THEN "open_f" ELSE "unborn"]
  /\ f = [p \in Procs |-> 0]
  /\ s = [p \in Procs |-> 0]
  /\ turn = [p \in Procs |-> 0]
  /\ pings = [i \in Copies |-> 0]
  /\ pongs = [i \in Copies |-> 0]

UGoto(p, l) == upc' = [upc EXCEPT ![p] = l]

(* while (sem_open(sem_name_f, 1) == 0) sem_name_f++;                       *)
OpenF(p) ==
  /\ upc[p] = "open_f"
  /\ \/ /\ OpenReject(p, f[p], 1)
        /\ f' = [f EXCEPT ![p] = @ + 1]
        /\ UNCHANGED <<upc, s>>
     \/ /\ OpenAccept(p, f[p], 1)
        /\ s' = [s EXCEPT ![p] = f[p] + 1]
        /\ UGoto(p, "open_s")
        /\ UNCHANGED f
  /\ UNCHANGED <<turn, pings, pongs>>

(* while (sem_open(sem_name_s, 0) == 0) sem_name_s++;                       *)
OpenS(p) ==
  /\ upc[p] = "open_s"
  /\ \/ /\ OpenReject(p, s[p], 0)
        /\ s' = [s EXCEPT ![p] = @ + 1]
        /\ UNCHANGED upc
     \/ /\ OpenAccept(p, s[p], 0)
        /\ UGoto(p, "fork")
        /\ UNCHANGED s
  /\ UNCHANGED <<f, turn, pings, pongs>>

(* fork(): the child inherits the names, or the program returns at once.    *)
Fork(p) ==
  /\ upc[p] = "fork"
  /\ InUser(p)
  /\ \/ /\ upc' = [upc EXCEPT ![p] = "loop", ![p + 1] = "loop"]
        /\ f' = [f EXCEPT ![p + 1] = f[p]]
        /\ s' = [s EXCEPT ![p + 1] = s[p]]
     \/ /\ ForkMayFail
        /\ UGoto(p, "done")
        /\ UNCHANGED <<f, s>>
  /\ UNCHANGED <<turn, pings, pongs, blockVars, semVars>>

(* The first call of print_ping and print_pong, or the end of the loop.     *)
Loop(p) ==
  /\ upc[p] = "loop"
  /\ IF turn[p] < Rounds
     THEN /\ Enter(p, IF IsParent(p) THEN s[p] ELSE f[p], "down_acquire")
          /\ UGoto(p, "print")
     ELSE /\ InUser(p)
          /\ UGoto(p, "close_f")
          /\ UNCHANGED <<blockVars, semVars>>
  /\ UNCHANGED <<f, s, turn, pings, pongs>>

(* printf                                                                   *)
PrintWord(p) ==
  /\ upc[p] = "print"
  /\ InUser(p)
  /\ IF IsParent(p)
     THEN pongs' = [pongs EXCEPT ![CopyOf(p)] = @ + 1] /\ UNCHANGED pings
     ELSE pings' = [pings EXCEPT ![CopyOf(p)] = @ + 1] /\ UNCHANGED pongs
  /\ UGoto(p, "up")
  /\ UNCHANGED <<f, s, turn, blockVars, semVars>>

(* The last call of print_ping and print_pong, and i++.                     *)
RaiseOther(p) ==
  /\ upc[p] = "up"
  /\ Enter(p, IF IsParent(p) THEN f[p] ELSE s[p], "up_acquire")
  /\ turn' = [turn EXCEPT ![p] = @ + 1]
  /\ UGoto(p, "loop")
  /\ UNCHANGED <<f, s, pings, pongs>>

CloseNames(p) ==
  /\ \/ upc[p] = "close_f" /\ Enter(p, f[p], "close") /\ UGoto(p, "close_s")
     \/ upc[p] = "close_s" /\ Enter(p, s[p], "close") /\ UGoto(p, "done")
  /\ UNCHANGED <<f, s, turn, pings, pongs>>

UserStep(p) ==
  \/ OpenF(p) \/ OpenS(p) \/ Fork(p) \/ Loop(p) \/ PrintWord(p)
  \/ RaiseOther(p) \/ CloseNames(p)

(* The kernel's half of a process that has been created.                    *)
SysStep(p) == KernelStep(p) /\ UNCHANGED userVars

Finished == \A p \in Procs : upc[p] \in {"unborn", "done"} /\ pc[p] = "user"

PPNext == \E p \in Procs : (UserStep(p) \/ SysStep(p)) /\ UNCHANGED calls

(* Every process keeps running, in user mode and in the kernel.             *)
PPSpec ==
  /\ PPInit
  /\ [][PPNext]_ppVars
  /\ \A p \in Procs : WF_ppVars((UserStep(p) \/ SysStep(p)) /\ UNCHANGED calls)

-----------------------------------------------------------------------------
(* Both processes of every copy finish, all rounds printed unless the fork  *)
(* failed (grade-lab2:39).                                                  *)
Terminates ==
  <>[](Finished /\ \A i \in Copies : pings[i] = pongs[i] /\ pings[i] \in {0, Rounds})

=============================================================================
