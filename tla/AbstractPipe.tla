------------------------------ MODULE AbstractPipe ------------------------------
(***************************************************************************)
(* What a pipe promises: a bounded queue of bytes for each pipe.  A writer  *)
(* puts the next bytes of its buffer at the end, a reader takes bytes from  *)
(* the front, and a pipe starts empty.  There are no counters, no ring, no  *)
(* sleeping and no reference counts here.                                   *)
(***************************************************************************)
EXTENDS Integers, Sequences

CONSTANTS Procs, PipeIds, Cap

VARIABLES queue,  \* queue[i]: the bytes in pipe i
          out,    \* out[p]: what p has still to write
          in      \* in[p]: what p's last read gave it

avars == <<queue, out, in>>

AInit ==
  /\ queue = [i \in PipeIds |-> <<>>]
  /\ out = [p \in Procs |-> <<>>]
  /\ in = [p \in Procs |-> <<>>]

(* A call starts: a buffer to write, or nothing read so far.                *)
Start(p) ==
  /\ \/ out' = [out EXCEPT ![p] = out'[p]] /\ UNCHANGED in
     \/ in' = [in EXCEPT ![p] = <<>>] /\ UNCHANGED out
  /\ UNCHANGED queue

Put(p, i) ==
  \E k \in 0 .. Len(out[p]) :
    /\ Len(queue[i]) + k <= Cap
    /\ queue' = [queue EXCEPT ![i] = @ \o SubSeq(out[p], 1, k)]
    /\ out' = [out EXCEPT ![p] = SubSeq(@, k + 1, Len(@))]
    /\ UNCHANGED in

Get(p, i) ==
  \E k \in 0 .. Len(queue[i]) :
    /\ in' = [in EXCEPT ![p] = SubSeq(queue[i], 1, k)]
    /\ queue' = [queue EXCEPT ![i] = SubSeq(@, k + 1, Len(@))]
    /\ UNCHANGED out

(* A read whose buffer ends outside the process's memory loses one byte.    *)
Lose(p, i) ==
  \E k \in 0 .. (Len(queue[i]) - 1) :
    /\ in' = [in EXCEPT ![p] = SubSeq(queue[i], 1, k)]
    /\ queue' = [queue EXCEPT ![i] = SubSeq(@, k + 2, Len(@))]
    /\ UNCHANGED out

(* A pipe nobody has open any more is thrown away.                          *)
Discard(i) ==
  /\ queue' = [queue EXCEPT ![i] = <<>>]
  /\ UNCHANGED <<out, in>>

ANext ==
  \/ \E p \in Procs : Start(p) \/ \E i \in PipeIds : Put(p, i) \/ Get(p, i) \/ Lose(p, i)
  \/ \E i \in PipeIds : Discard(i)

ASpec == AInit /\ [][ANext]_avars
=============================================================================
