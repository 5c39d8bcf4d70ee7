----------------------------- MODULE MCSemaphore -----------------------------
(* Values for model-checking Semaphore.                                     *)
EXTENDS Semaphore
MCOpenValues == {-1, 0, 1}
=============================================================================
