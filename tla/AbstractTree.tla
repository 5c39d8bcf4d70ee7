---------------------------- MODULE AbstractTree ----------------------------
(***************************************************************************)
(* What hierarchy_tree.h promises of a tree of files: a set of keys, each   *)
(* of which can be found until it is deleted, and the list of the children  *)
(* of each, the newest first.                                               *)
(***************************************************************************)
EXTENDS Naturals, Sequences

CONSTANTS Keys, Top   \* Top: the root directory, which is never deleted

VARIABLE children     \* children[k]: the children of k; its keys are the set

AInit == children = [k \in {Top} |-> <<>>]

Others(s, k) == SelectSeq(s, LAMBDA j : j # k)

AInsert(k, p) ==
  /\ k \notin DOMAIN children /\ p \in DOMAIN children
  /\ children' = [j \in (DOMAIN children) \cup {k} |->
                    IF j = k THEN <<>>
                    ELSE IF j = p THEN <<k>> \o children[p] ELSE children[j]]

ADelete(k) ==
  /\ k \in (DOMAIN children) \ {Top} /\ children[k] = <<>>
  /\ children' = [j \in (DOMAIN children) \ {k} |-> Others(children[j], k)]

ANext == \E k \in Keys : ADelete(k) \/ \E p \in Keys \cup {Top} : AInsert(k, p)

ASpec == AInit /\ [][ANext]_children
=============================================================================
