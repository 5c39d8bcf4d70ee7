----------------------------- MODULE AbstractMemory -----------------------------
(***************************************************************************)
(* What the kernel promises a process about its memory: an array of pages   *)
(* of its own, which grows by zeroes and shrinks at its end, which fork()   *)
(* copies and exec() replaces by a program, and which nobody else changes.  *)
(***************************************************************************)
EXTENDS Integers, FiniteSets, TLC

CONSTANTS Procs, Contents, Images   \* Images: what exec() may make of a process

VARIABLE image   \* image[p][a]: page a of p; no page when there is no p

AInit == image = [p \in Procs |-> IF p = 1 THEN 0 :> "text" ELSE <<>>]

Becomes(p, f) == image' = [image EXCEPT ![p] = f]

Grow(p) ==
  \E n \in 1 .. 64 :
    Becomes(p, [a \in 0 .. (Cardinality(DOMAIN image[p]) + n - 1) |->
                  IF a \in DOMAIN image[p] THEN image[p][a] ELSE "zero"])

Shrink(p) == \E n \in 0 .. 64 : Becomes(p, [a \in (0 .. (n - 1)) \cap DOMAIN image[p] |-> image[p][a]])

Write(p) ==
  \E lo, hi \in DOMAIN image[p] : \E x \in Contents :
    Becomes(p, [a \in DOMAIN image[p] |-> IF a \in lo .. hi THEN x ELSE image[p][a]])

Fork(p) == \E q \in Procs : image[q] = <<>> /\ Becomes(q, image[p])

Exec(p) == \E f \in Images : Becomes(p, f)

(* exit(), and the end of a process that touched what it does not have.     *)
Gone(p) == Becomes(p, <<>>)

ANext == \E p \in Procs : Grow(p) \/ Shrink(p) \/ Write(p) \/ Fork(p) \/ Exec(p) \/ Gone(p)

ASpec == AInit /\ [][ANext]_image
=============================================================================
