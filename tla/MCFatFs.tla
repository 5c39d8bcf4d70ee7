------------------------------- MODULE MCFatFs -------------------------------
(* An image with the file a in two clusters, not full, and b in one; a file *)
(* may also be made in the directory d.                                     *)
EXTENDS FatFs
MCParent == [f \in Names |-> IF f = "d/x" THEN "d" ELSE "/"]
MCLinks == [c \in 2 .. 5 |-> IF c = 3 THEN 4 ELSE EOC]
MCImage == <<[name |-> "a", start |-> 3, size |-> 3, hidden |-> FALSE],
             [name |-> "b", start |-> 5, size |-> 1, hidden |-> FALSE]>>
==============================================================================
