----------------------------- MODULE AbstractDisk -----------------------------
(***************************************************************************)
(* What the log promises to file system calls: the disk they see is one     *)
(* array of blocks.  Whatever the calls in progress have written becomes    *)
(* durable all at once, and only at a moment when no call is in progress; a *)
(* crash takes the array back to what was last made durable.                *)
(***************************************************************************)
CONSTANTS Procs, Blocks, Vals

VARIABLES durable, \* durable[b]: what a crash leaves of block b
          memory,  \* memory[b]: what a read of block b returns
          active   \* the processes between begin_op and end_op

dvars == <<durable, memory, active>>

DInit ==
  /\ durable \in [Blocks -> Vals]
  /\ memory = durable
  /\ active = {}

Begin(p) ==
  /\ p \notin active
  /\ active' = active \cup {p}
  /\ UNCHANGED <<durable, memory>>

Write(p, b, v) ==
  /\ p \in active
  /\ memory' = [memory EXCEPT ![b] = v]
  /\ UNCHANGED <<durable, active>>

End(p) ==
  /\ p \in active
  /\ active' = active \ {p}
  /\ UNCHANGED <<durable, memory>>

Commit ==
  /\ active = {}
  /\ durable' = memory
  /\ UNCHANGED <<memory, active>>

Crash ==
  /\ memory' = durable
  /\ active' = {}
  /\ UNCHANGED durable

DNext ==
  \/ \E p \in Procs : Begin(p) \/ End(p) \/ \E b \in Blocks, v \in Vals : Write(p, b, v)
  \/ Commit \/ Crash

DSpec == DInit /\ [][DNext]_dvars
=============================================================================
