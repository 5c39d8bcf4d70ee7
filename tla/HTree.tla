-------------------------------- MODULE HTree --------------------------------
(***************************************************************************)
(* lab4: hierarchy_tree.c, under fat_fs_tree.c: the files a mounted volume  *)
(* knows, in a binary search tree by path whose nodes also form the tree of *)
(* directories.  A path is a number here, in the order of strcmp(); a       *)
(* pointer to a node is the path the node holds, and NULL is a constant.    *)
(*                                                                          *)
(* Dereferencing NULL or a freed node does not happen on the instances;     *)
(* freeing a file twice is taken to leave everything as it was.             *)
(***************************************************************************)
EXTENDS Integers, Sequences, FiniteSets, SequencesExt

CONSTANTS Keys,   \* paths of files: numbers from 1
          MaxKeys \* files in the tree at most, besides the root directory

Top == 0          \* the path "/"
NULL == -1

VARIABLES root,   \* fat_tree_s.file_tree
          node,   \* the nodes allocated
          inserted   \* the keys inserted less the keys deleted

tvars == <<root, node, inserted>>

Size(n, k) == IF k = NULL THEN 0 ELSE n[k].size

(* update_size                                                              *)
Resized(n, k) == [n EXCEPT ![k].size = 1 + Size(n, n[k].left) + Size(n, n[k].right)]

(* The nodes h_tree_search visits from t on, as far as the tree has nodes:  *)
(* no further than it has keys, where a tree with a loop has no end.        *)
SearchPath(n, t, key) ==
  LET Step(k) == IF k < key THEN n[k].right ELSE n[k].left
      at[j \in 0 .. Cardinality(DOMAIN n)] ==
        IF j = 0 THEN t
        ELSE IF at[j - 1] \in {NULL, key} THEN NULL ELSE Step(at[j - 1])
  IN  SelectSeq([j \in 1 .. Cardinality(DOMAIN n) |-> at[j - 1]], LAMBDA k : k # NULL)

Search(n, t, key) == key \in ToSet(SearchPath(n, t, key))

(* The pointer of node p by which the key was reached, or the root, to k.   *)
Linked(t, n, p, key, k) ==
  IF p = NULL THEN <<k, n>>
  ELSE <<t, IF p < key THEN [n EXCEPT ![p].right = k] ELSE [n EXCEPT ![p].left = k]>>

(* The way back from the recursion: the sizes of the nodes passed, upwards. *)
Climb(n, path) == FoldLeft(Resized, n, Reverse(path))

-----------------------------------------------------------------------------
(* Mutant: the new node is put in the list without the children before it.  *)
NodeInitAlone(n, k, p) ==
  [j \in (DOMAIN n) \cup {k} |->
     IF j = k THEN [left |-> NULL, right |-> NULL, size |-> 1, parent |-> p,
                    children |-> NULL, next |-> NULL]
     ELSE IF j = p THEN [n[p] EXCEPT !.children = k] ELSE n[j]]

(* h_node_init: the new node is the head of its parent's children.          *)
NodeInit(n, k, p) ==
  LET new == [left |-> NULL, right |-> NULL, size |-> 1, parent |-> p,
              children |-> NULL, next |-> IF p = NULL THEN NULL ELSE n[p].children]
  IN  [j \in (DOMAIN n) \cup {k} |->
         IF j = k THEN new ELSE IF j = p THEN [n[p] EXCEPT !.children = k] ELSE n[j]]

(* h_tree_insert of a path that is not in the tree.                         *)
Insert(k, p) ==
  LET path == SearchPath(node, root, k)
      last == IF path = <<>> THEN NULL ELSE Last(path)
      t == Linked(root, NodeInit(node, k, p), last, k, k)
  IN  /\ k \notin inserted /\ p \in inserted
      /\ Cardinality(inserted) <= MaxKeys
      /\ root' = t[1] /\ node' = Climb(t[2], path)
      /\ inserted' = inserted \cup {k}

(* remove_child_from_h                                                      *)
RemoveFromH(n, k) ==
  LET p == n[k].parent
      before == {j \in DOMAIN n : n[j].parent = p /\ n[j].next = k}
  IN  IF n[p].children = k THEN [n EXCEPT ![p].children = n[k].next]
      ELSE [j \in DOMAIN n |-> IF j \in before THEN [n[j] EXCEPT !.next = n[k].next] ELSE n[j]]

Freed(n, k) == [j \in (DOMAIN n) \ {k} |-> n[j]]

(* delete_root of a node with a child at most: what takes its place.        *)
OneChild(n, k) == IF n[k].left = NULL THEN n[k].right ELSE n[k].left

(* The nodes the loop of delete_root steps through: the left spine of the   *)
(* right subtree.                                                           *)
Spine(n, k) ==
  LET at[j \in 0 .. Cardinality(DOMAIN n)] ==
        IF j = 0 THEN n[n[k].right].left ELSE IF at[j - 1] = NULL THEN NULL ELSE n[at[j - 1]].left
  IN  SelectSeq([j \in 1 .. Cardinality(DOMAIN n) |-> at[j - 1]], LAMBDA m : m # NULL)

Shrunk(n, s) == [j \in DOMAIN n |-> IF j \in s THEN [n[j] EXCEPT !.size = @ - 1] ELSE n[j]]

(* Mutant: swap_nodes does not take the right subtree along.                *)
SwapNodesLeft(n, old, new) ==
  LET m == [n EXCEPT ![old].left = n[new].left, ![old].right = n[new].right,
                     ![new].left = n[old].left]
  IN  Resized(Resized(m, new), old)

(* swap_nodes: the subtrees of the two nodes, and their sizes.              *)
SwapNodes(n, old, new) ==
  LET m == [n EXCEPT ![old].left = n[new].left, ![old].right = n[new].right,
                     ![new].left = n[old].left, ![new].right = n[old].right]
  IN  Resized(Resized(m, new), old)

(* The minimum's parent after the loop: the right child if the loop does    *)
(* not run, and otherwise the minimum itself.                               *)
MinimumParent(n, k) == IF Len(Spine(n, k)) = 1 THEN n[k].right ELSE Last(Spine(n, k))

(* delete_root: the nodes that remain, and the one in the place of k.  The  *)
(* loop takes one off the size of the right child and of every minimum but  *)
(* the first.                                                               *)
DeleteRoot(n, k) ==
  LET r == n[k].right
      spine == Spine(n, k)
      swapped == SwapNodes(Shrunk(n, {r} \cup (ToSet(spine) \ {Head(spine)})), k, Last(spine))
  IN  IF n[k].left = NULL \/ r = NULL THEN <<OneChild(n, k), Freed(n, k)>>
      ELSE IF n[r].left = NULL
      THEN <<r, Freed(Resized([n EXCEPT ![r].left = n[k].left], r), k)>>
      ELSE <<Last(spine),
             Freed([swapped EXCEPT ![MinimumParent(n, k)].left = OneChild(swapped, k)], k)>>

(* h_tree_delete of a path that is found and is no directory with children. *)
Delete(k) ==
  LET path == Front(SearchPath(node, root, k))
      last == IF path = <<>> THEN NULL ELSE Last(path)
      d == DeleteRoot(RemoveFromH(node, k), k)
      t == Linked(root, d[2], last, k, d[1])
  IN  /\ k # Top /\ Search(node, root, k) /\ node[k].children = NULL
      /\ root' = t[1] /\ node' = Climb(t[2], path)
      /\ inserted' = inserted \ {k}

(* init_file_tree: the root directory, whose parent is NULL.                *)
Init == root = Top /\ node = NodeInit(<<>>, Top, NULL) /\ inserted = {Top}

Next == \E k \in Keys : Delete(k) \/ \E p \in inserted : Insert(k, p)

Spec == Init /\ [][Next]_tvars

-----------------------------------------------------------------------------
(* h_tree_flatten_h_children                                                *)
HChildren(n, k) ==
  LET at[j \in 0 .. Cardinality(DOMAIN n)] ==
        IF j = 0 THEN n[k].children ELSE IF at[j - 1] = NULL THEN NULL ELSE n[at[j - 1]].next
  IN  SelectSeq([j \in 1 .. Cardinality(DOMAIN n) |-> at[j - 1]], LAMBDA m : m # NULL)

(* The paths that h_tree_search finds.                                      *)
Found == {k \in DOMAIN node : Search(node, root, k)}

Abstract == INSTANCE AbstractTree WITH children <- [k \in Found |-> HChildren(node, k)]

(* Insertion and deletion in the search tree, with its rotations of nodes   *)
(* and its lists, do what a set of files with an ordered list of children   *)
(* for each directory does: no other file is lost or moved.                 *)
ImplementsTree == Abstract!ASpec

(* h_tree_flatten_preorder: the array it fills from place i on, and the     *)
(* places it leaves out; the right subtree goes where the size of the left  *)
(* one says.  seen has the nodes above, for a tree with a loop.             *)
RECURSIVE Preorder(_, _, _, _)
Preorder(n, k, i, seen) ==
  IF k \in {NULL} \cup seen THEN <<>>
  ELSE (i :> k) @@ Preorder(n, n[k].right, i + 1 + Size(n, n[k].left), seen \cup {k})
                @@ Preorder(n, n[k].left, i + 1, seen \cup {k})

(* fat_tree_flatten_preorder: an array of the size of the root.             *)
Flattened == IF root = NULL THEN <<>> ELSE Preorder(node, root, 1, {})

(* The size of every node is that of its subtree, although insertion,       *)
(* deletion and the exchange of nodes each count for themselves: the array  *)
(* of fat_tree_flatten_preorder has a place for every node, and each in its *)
(* own.                                                                     *)
SizesCount ==
  /\ DOMAIN Flattened = 1 .. Size(node, root)
  /\ \A k \in DOMAIN node : \E i \in DOMAIN Flattened : Flattened[i] = k

(* hierarchy_tree.h:77, "Deletes @key from @tree": a file that was put in   *)
(* the tree and not deleted is found.                                       *)
NothingLost == inserted \subseteq Found
==============================================================================
