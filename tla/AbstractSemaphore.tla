-------------------------- MODULE AbstractSemaphore --------------------------
(***************************************************************************)
(* What the semaphore system calls promise: each call takes effect in one   *)
(* instant between its invocation and its return, and a down takes effect   *)
(* only when there is a token to take.  There are no locks, no sleeping and *)
(* no wakeups here.                                                         *)
(***************************************************************************)
EXTENDS Integers

CONSTANTS Procs, \* callers
          Ids,   \* the semaphores
          Args,  \* the ids callers name, inside the array or not
          Inits  \* the initial values of an open

VARIABLES value,   \* tokens of each semaphore
          status,  \* "OPEN" or "CLOSE"
          op,      \* op[p]: the call p is in, or "none"
          arg,     \* arg[p]: the semaphore p's call is about
          init     \* init[p]: the initial value of p's open

avars == <<value, status, op, arg, init>>

AInit ==
  /\ value = [s \in Ids |-> 0]
  /\ status = [s \in Ids |-> "CLOSE"]
  /\ op = [p \in Procs |-> "none"]
  /\ arg = [p \in Procs |-> 0]
  /\ init = [p \in Procs |-> 0]

Invoke(p, o, s, v) ==
  /\ op[p] = "none"
  /\ op' = [op EXCEPT ![p] = o]
  /\ arg' = [arg EXCEPT ![p] = s]
  /\ init' = [init EXCEPT ![p] = v]
  /\ UNCHANGED <<value, status>>

Done(p) ==
  /\ op' = [op EXCEPT ![p] = "none"]
  /\ arg' = [arg EXCEPT ![p] = 0]
  /\ init' = [init EXCEPT ![p] = 0]

Up(p) ==
  /\ op[p] = "up"
  /\ value' = [value EXCEPT ![arg[p]] = @ + 1]
  /\ Done(p)
  /\ UNCHANGED status

Down(p) ==
  /\ op[p] = "down"
  /\ value[arg[p]] > 0
  /\ value' = [value EXCEPT ![arg[p]] = @ - 1]
  /\ Done(p)
  /\ UNCHANGED status

Open(p) ==
  /\ op[p] = "open"
  /\ arg[p] \in Ids
  /\ value' = [value EXCEPT ![arg[p]] = init[p]]
  /\ status' = [status EXCEPT ![arg[p]] = "OPEN"]
  /\ Done(p)

Close(p) ==
  /\ op[p] = "close"
  /\ status' = [status EXCEPT ![arg[p]] = "CLOSE"]
  /\ Done(p)
  /\ UNCHANGED value

(* A call that leaves the semaphores alone: a search, or an open of an id   *)
(* outside the array.                                                       *)
Nop(p) ==
  /\ op[p] = "search" \/ (op[p] = "open" /\ arg[p] \notin Ids)
  /\ Done(p)
  /\ UNCHANGED <<value, status>>

ANext ==
  \E p \in Procs :
    \/ \E o \in {"open", "close", "up", "down", "search"}, s \in Args, v \in Inits : Invoke(p, o, s, v)
    \/ Up(p) \/ Down(p) \/ Open(p) \/ Close(p) \/ Nop(p)

ASpec == AInit /\ [][ANext]_avars
=============================================================================
