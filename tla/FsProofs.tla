------------------------------- MODULE FsProofs -------------------------------
(***************************************************************************)
(* Theorems of module Fs, for any number of processes, inodes, blocks and   *)
(* open files and any scripts, proved from FsAssumption and                 *)
(* ScriptsAssumption: the references to the slots of the inode table and    *)
(* the locks of the inodes, whatever way the calls come in between each     *)
(* other.                                                                   *)
(*                                                                          *)
(* The invariant, RefInv, gives every reference to somebody: to a process   *)
(* for its current directory, to a call for its variables, as the label     *)
(* where it is tells (Refs, Occ), or to an open file.  The count of a slot  *)
(* is how many have one: processes have tokens (Tokens), so that a step of  *)
(* one of them changes the sum by what it changes of its own                *)
(* (TokensChange).  In the same way every lock has an owner (Locks, Held),  *)
(* and who has a lock has a reference (HeldCounted), which is why the lock  *)
(* that iput() takes of an inode with one reference is free                 *)
(* (LastPutUnlocked).                                                       *)
(*                                                                          *)
(* Every function of fs.c is described by its effect on the references and  *)
(* the locks (Wrote, Effect); a step is a balance of its effect and of the  *)
(* change of its label (Act, Leave, Drops, Turns), one lemma for each       *)
(* action.  The loops of filewrite() and of mkfs are recursive functions;   *)
(* what they do is proved by induction over a set of numbers (Induction).   *)
(***************************************************************************)
EXTENDS Fs, FiniteSetTheorems, FunctionTheorems, SequenceTheorems, WellFoundedInduction, TLAPS

(* The least element of a set of natural numbers.                           *)
LEMMA Least ==
  ASSUME NEW S \in SUBSET Nat, S # {}
  PROVE  Min(S) \in S /\ \A y \in S : Min(S) <= y
<1>1. PICK x \in S : \A y \in S : ~(<<y, x>> \in OpToRel(<, Nat))
  BY NatLessThanWellFounded, WFMin
<1>2. ASSUME NEW y \in S PROVE x <= y
  <2>1. <<y, x>> \in Nat \X Nat /\ ~(<<y, x>> \in OpToRel(<, Nat))
    BY <1>1
  <2>2. ~(y < x)
    BY <2>1 DEF OpToRel
  <2> QED BY <2>2
<1> QED BY <1>2 DEF Min

-----------------------------------------------------------------------------
(* The shape of the file system's state, whatever its values are.           *)
SlotShape(n) ==
  n = [type |-> n.type, nlink |-> n.nlink, size |-> n.size, addrs |-> n.addrs,
       inum |-> n.inum, ref |-> n.ref, valid |-> n.valid, lock |-> n.lock]
Shape(v) ==
  /\ v = [dinode |-> v.dinode, used |-> v.used, blk |-> v.blk, ind |-> v.ind,
          itab |-> v.itab, panic |-> v.panic]
  /\ v.panic \in BOOLEAN /\ v.itab = [s \in Slots |-> v.itab[s]]
  /\ \A s \in Slots : SlotShape(v.itab[s])

(* Slot s of w is that of v, but for the copy of the inode in it.           *)
SameSlot(m, n) == n.inum = m.inum /\ n.ref = m.ref /\ n.valid = m.valid /\ n.lock = m.lock

(* From v to w no inode but that of slot s has changed in memory.           *)
Wrote(v, w, s) ==
  /\ Shape(w) /\ (v.panic => w.panic)
  /\ \A t \in Slots : SameSlot(v.itab[t], w.itab[t]) /\ (t # s => w.itab[t] = v.itab[t])

(* A step that writes nothing.                                              *)
LEMMA WroteSelf == ASSUME NEW v, NEW s, Shape(v) PROVE Wrote(v, v, s)
BY DEF Wrote, SameSlot

(* Two writes to the inode of slot s are one.                               *)
LEMMA WroteTwice ==
  ASSUME NEW u, NEW v, NEW w, NEW s, Wrote(u, v, s), Wrote(v, w, s)
  PROVE  Wrote(u, w, s)
BY DEF Wrote, SameSlot

(* balloc() leaves the inode table alone.                                   *)
LEMMA BallocWrote ==
  ASSUME NEW v, NEW s, Shape(v)
  PROVE  Wrote(v, Balloc(v).fs, s) /\ Balloc(v).fs.itab = v.itab
BY DEF Balloc, Wrote, SameSlot, Shape

(* So does bfree(); it may panic.                                           *)
LEMMA BfreeWrote ==
  ASSUME NEW v, NEW s, NEW S, Shape(v)
  PROVE  Wrote(v, Bfree(v, S), s) /\ Bfree(v, S).itab = v.itab
<1> DEFINE w == Bfree(v, S)
<1>1. w = [v EXCEPT !.used = w.used, !.panic = w.panic]
  BY DEF Bfree, Shape
<1>2. w.panic \in BOOLEAN /\ (v.panic => w.panic)
  BY DEF Bfree, Shape
<1> QED BY <1>1, <1>2 DEF Wrote, SameSlot, Shape

(* iupdate() copies the inode to the disk: the table stays as it is.        *)
LEMMA IupdateWrote ==
  ASSUME NEW v, NEW s, NEW t, Shape(v)
  PROVE  Wrote(v, Iupdate(v, t), s) /\ Iupdate(v, t).itab = v.itab
BY DEF Iupdate, Wrote, SameSlot, Shape

(* A slot is put into the table.                                            *)
LEMMA SlotPut ==
  ASSUME NEW v, NEW s, Shape(v), NEW n, s \in Slots => SlotShape(n)
  PROVE  LET w == [v EXCEPT !.itab[s] = n] IN
         /\ Shape(w) /\ w.panic = v.panic /\ w.dinode = v.dinode
         /\ w.used = v.used /\ w.blk = v.blk /\ w.ind = v.ind
         /\ \A t \in Slots : w.itab[t] = IF t = s THEN n ELSE v.itab[t]
<1> DEFINE w == [v EXCEPT !.itab[s] = n]
<1>1. /\ w.itab = [v.itab EXCEPT ![s] = n] /\ w.panic = v.panic
      /\ w.dinode = v.dinode /\ w.used = v.used /\ w.blk = v.blk /\ w.ind = v.ind
  BY DEF Shape
<1>2. w = [dinode |-> w.dinode, used |-> w.used, blk |-> w.blk, ind |-> w.ind,
           itab |-> w.itab, panic |-> w.panic]
  BY DEF Shape
<1> HIDE DEF w
<1>3. \A t \in Slots : w.itab[t] = IF t = s THEN n ELSE v.itab[t]
  BY <1>1 DEF Shape
<1>4. w.itab = [t \in Slots |-> w.itab[t]]
  BY <1>1 DEF Shape
<1>5. Shape(w)
  BY <1>1, <1>2, <1>3, <1>4 DEF Shape
<1> QED BY <1>1, <1>3, <1>5 DEF w

(* A slot is changed, but not what it stands for.                           *)
LEMMA SlotWrote ==
  ASSUME NEW v, NEW s, Shape(v), NEW n, s \in Slots => SlotShape(n) /\ SameSlot(v.itab[s], n)
  PROVE  Wrote(v, [v EXCEPT !.itab[s] = n], s)
BY SlotPut DEF Wrote, SameSlot

(* One field of the copy of the inode changes.                              *)
LEMMA FieldWrote ==
  ASSUME NEW v, NEW s, Shape(v), NEW x
  PROVE  /\ Wrote(v, [v EXCEPT !.itab[s].size = x], s)
         /\ Wrote(v, [v EXCEPT !.itab[s].nlink = x], s)
         /\ Wrote(v, [v EXCEPT !.itab[s].type = x], s)
         /\ Wrote(v, [v EXCEPT !.itab[s].addrs = x], s)
<1> DEFINE n == v.itab[s]
<1>s. s \in Slots => SlotShape(n)
  BY DEF Shape
<1> HIDE DEF n
<1>1. Wrote(v, [v EXCEPT !.itab[s] = [n EXCEPT !.size = x]], s)
  <2>1. s \in Slots => SlotShape([n EXCEPT !.size = x]) /\ SameSlot(n, [n EXCEPT !.size = x])
    BY <1>s DEF SlotShape, SameSlot
  <2> QED BY <2>1, SlotWrote DEF n
<1>2. Wrote(v, [v EXCEPT !.itab[s] = [n EXCEPT !.nlink = x]], s)
  <2>1. s \in Slots => SlotShape([n EXCEPT !.nlink = x]) /\ SameSlot(n, [n EXCEPT !.nlink = x])
    BY <1>s DEF SlotShape, SameSlot
  <2> QED BY <2>1, SlotWrote DEF n
<1>3. Wrote(v, [v EXCEPT !.itab[s] = [n EXCEPT !.type = x]], s)
  <2>1. s \in Slots => SlotShape([n EXCEPT !.type = x]) /\ SameSlot(n, [n EXCEPT !.type = x])
    BY <1>s DEF SlotShape, SameSlot
  <2> QED BY <2>1, SlotWrote DEF n
<1>4. Wrote(v, [v EXCEPT !.itab[s] = [n EXCEPT !.addrs = x]], s)
  <2>1. s \in Slots => SlotShape([n EXCEPT !.addrs = x]) /\ SameSlot(n, [n EXCEPT !.addrs = x])
    BY <1>s DEF SlotShape, SameSlot
  <2> QED BY <2>1, SlotWrote DEF n
<1> QED BY <1>1, <1>2, <1>3, <1>4 DEF n

(* bmap() changes the addresses in slot s and the disk.                     *)
LEMMA BmapWrote ==
  ASSUME NEW v, NEW s, NEW off, Shape(v)
  PROVE  Wrote(v, Bmap(v, s, off).fs, s)
<1> DEFINE bn == off \div UPB
           a == v.itab[s].addrs
           q == Balloc(v)
<1> HIDE DEF bn, a, q
<1>0. q = [fs |-> q.fs, b |-> q.b] /\ Wrote(v, q.fs, s) /\ Shape(q.fs)
  BY BallocWrote DEF Balloc, q, Wrote
<1>1. CASE bn < NDIRECT
  <2> DEFINE n == bn
  <2> HIDE DEF n
  <2>1. Bmap(v, s, off) = IF a[bn] # 0 THEN [fs |-> v, b |-> a[bn]] ELSE [q EXCEPT !.fs.itab[s].addrs[bn] = q.b]
    BY <1>1 DEF Bmap, bn, a, q
  <2>2. [q EXCEPT !.fs.itab[s].addrs[bn] = q.b].fs
        = [q.fs EXCEPT !.itab[s].addrs = [q.fs.itab[s].addrs EXCEPT ![bn] = q.b]]
    BY <1>0
  <2>3. Wrote(q.fs, [q.fs EXCEPT !.itab[s].addrs = [q.fs.itab[s].addrs EXCEPT ![bn] = q.b]], s)
    BY <1>0, FieldWrote
  <2>4. Wrote(v, [q EXCEPT !.fs.itab[s].addrs[bn] = q.b].fs, s)
    BY <1>0, <2>2, <2>3, WroteTwice
  <2>5. Wrote(v, v, s)
    BY WroteSelf
  <2> QED BY <2>1, <2>4, <2>5
<1>2. CASE ~(bn < NDIRECT)
  <2> DEFINE r == IF a[NDIRECT] # 0 THEN [fs |-> v, b |-> a[NDIRECT]]
                  ELSE [q EXCEPT !.fs.itab[s].addrs[NDIRECT] = q.b]
             old == r.fs.ind[r.b][bn - NDIRECT]
             z == Balloc(r.fs)
  <2>1. Bmap(v, s, off) = IF r.b = 0 \/ old # 0 THEN [r EXCEPT !.b = IF r.b = 0 THEN 0 ELSE old]
                          ELSE [z EXCEPT !.fs.ind[r.b][bn - NDIRECT] = z.b]
    BY <1>2 DEF Bmap, bn, a, q
  <2>2. r = [fs |-> r.fs, b |-> r.b]
    BY <1>0
  <2>3. Wrote(v, r.fs, s)
    <3>1. [q EXCEPT !.fs.itab[s].addrs[NDIRECT] = q.b].fs
          = [q.fs EXCEPT !.itab[s].addrs = [q.fs.itab[s].addrs EXCEPT ![NDIRECT] = q.b]]
      BY <1>0
    <3>2. Wrote(q.fs, [q.fs EXCEPT !.itab[s].addrs = [q.fs.itab[s].addrs EXCEPT ![NDIRECT] = q.b]], s)
      BY <1>0, FieldWrote
    <3>3. Wrote(v, [q EXCEPT !.fs.itab[s].addrs[NDIRECT] = q.b].fs, s)
      BY <1>0, <3>1, <3>2, WroteTwice
    <3>4. Wrote(v, v, s)
      BY WroteSelf
    <3> QED BY <3>3, <3>4
  <2> HIDE DEF r
  <2>4. z = [fs |-> z.fs, b |-> z.b] /\ Wrote(r.fs, z.fs, s)
    BY <2>3, BallocWrote DEF Balloc, Wrote
  <2> HIDE DEF z, old
  <2>5. Wrote(z.fs, [z EXCEPT !.fs.ind[r.b][bn - NDIRECT] = z.b].fs, s)
    <3>1. [z EXCEPT !.fs.ind[r.b][bn - NDIRECT] = z.b].fs = [z.fs EXCEPT !.ind = [z.fs.ind EXCEPT ![r.b][bn - NDIRECT] = z.b]]
      BY <2>4
    <3> QED BY <2>4, <3>1 DEF Wrote, Shape, SameSlot
  <2>6. Wrote(v, z.fs, s)
    BY <2>3, <2>4, WroteTwice
  <2>7. Wrote(v, [z EXCEPT !.fs.ind[r.b][bn - NDIRECT] = z.b].fs, s)
    BY <2>5, <2>6, WroteTwice
  <2>8. [r EXCEPT !.b = IF r.b = 0 THEN 0 ELSE old].fs = r.fs
    BY <2>2
  <2> QED BY <2>1, <2>3, <2>7, <2>8
<1> QED BY <1>1, <1>2

(* writei() changes the addresses and the size in slot s and the disk.      *)
LEMMA WriteiWrote ==
  ASSUME NEW v, NEW s, NEW off, NEW u, Shape(v)
  PROVE  /\ Wrote(v, Writei(v, s, off, u).fs, s)
         /\ Writei(v, s, off, u) = [fs |-> Writei(v, s, off, u).fs, n |-> Writei(v, s, off, u).n]
<1> DEFINE r == Bmap(v, s, off)
           w == [r.fs EXCEPT !.blk[r.b][off % UPB] = u]
           x == [w EXCEPT !.itab[s].size = Max({r.fs.itab[s].size, off + 1})]
           e == [r.fs EXCEPT !.blk[r.b][off % UPB] = u, !.itab[s].size = Max({@, off + 1})]
<1>1. Wrote(v, r.fs, s)
  BY BmapWrote
<1>2. Wrote(v, w, s)
  <2>1. w = [r.fs EXCEPT !.blk = [r.fs.blk EXCEPT ![r.b][off % UPB] = u]]
    OBVIOUS
  <2> HIDE DEF r
  <2>2. Wrote(r.fs, w, s)
    BY <1>1, <2>1 DEF Wrote, Shape, SameSlot
  <2> QED BY <1>1, <2>2, WroteTwice
<1>3. e = x
  <2> HIDE DEF r
  <2> QED BY <1>1 DEF Wrote, Shape
<1>4. Wrote(v, x, s)
  <2> HIDE DEF w, r
  <2>1. Shape(w)
    BY <1>2 DEF Wrote
  <2>2. Wrote(w, x, s)
    BY <2>1, FieldWrote
  <2> QED BY <1>2, <2>2, WroteTwice
<1>5. Writei(v, s, off, u) =
        IF off > v.itab[s].size \/ off + 1 > MaxUnits THEN [fs |-> v, n |-> -1]
        ELSE IF r.b = 0 THEN [fs |-> Iupdate(r.fs, s), n |-> 0] ELSE [fs |-> Iupdate(e, s), n |-> 1]
  BY DEF Writei
<1> HIDE DEF r, e, x
<1>6. Wrote(v, Iupdate(r.fs, s), s) /\ Wrote(v, Iupdate(x, s), s) /\ Wrote(v, v, s)
  <2>1. Shape(r.fs) /\ Shape(x)
    BY <1>1, <1>4 DEF Wrote
  <2> QED BY <2>1, <1>1, <1>4, IupdateWrote, WroteTwice, WroteSelf
<1> QED BY <1>3, <1>5, <1>6

(* dirlink() is a writei() to the directory.                                *)
LEMMA DirlinkWrote ==
  ASSUME NEW v, NEW s, NEW name, NEW i, Shape(v)
  PROVE  /\ Wrote(v, Dirlink(v, s, name, i).fs, s)
         /\ Dirlink(v, s, name, i) = [fs |-> Dirlink(v, s, name, i).fs, n |-> Dirlink(v, s, name, i).n]
BY WriteiWrote DEF Dirlink

(* A link count goes up or down, in memory and on the disk.                 *)
LEMMA SetNlinkWrote ==
  ASSUME NEW v, NEW s, NEW d, Shape(v)
  PROVE  Wrote(v, SetNlink(v, s, d), s)
<1> DEFINE w == [v EXCEPT !.itab[s].nlink = v.itab[s].nlink + d]
<1>1. Wrote(v, w, s) /\ SetNlink(v, s, d) = Iupdate(w, s)
  BY FieldWrote DEF SetNlink
<1> HIDE DEF w
<1>2. Wrote(w, Iupdate(w, s), s)
  BY <1>1, IupdateWrote DEF Wrote
<1> QED BY <1>1, <1>2, WroteTwice

(* itrunc() takes the blocks from the inode of slot s.                      *)
LEMMA ItruncWrote ==
  ASSUME NEW v, NEW s, Shape(v)
  PROVE  Wrote(v, Itrunc(v, s), s)
<1> DEFINE w == Bfree(v, BlocksOf(v, v.itab[s]))
           x == [w EXCEPT !.itab[s].addrs = NoAddrs]
           y == [x EXCEPT !.itab[s].size = 0]
<1>1. Wrote(v, w, s)
  BY BfreeWrote
<1>2. Itrunc(v, s) = Iupdate([w EXCEPT !.itab[s].addrs = NoAddrs, !.itab[s].size = 0], s)
  BY DEF Itrunc
<1> HIDE DEF w
<1>3. [w EXCEPT !.itab[s].addrs = NoAddrs, !.itab[s].size = 0] = y
  OBVIOUS
<1>a. Shape(w)
  BY <1>1 DEF Wrote
<1>4. Wrote(w, x, s)
  BY <1>a, FieldWrote
<1> HIDE DEF x
<1>b. Shape(x)
  BY <1>4 DEF Wrote
<1>5. Wrote(x, y, s)
  BY <1>b, FieldWrote
<1> HIDE DEF y
<1>6. Wrote(y, Iupdate(y, s), s)
  BY <1>5, IupdateWrote DEF Wrote
<1> QED BY <1>1, <1>2, <1>3, <1>4, <1>5, <1>6, WroteTwice

(* Slot s is as it was but for its lock and its copy of the inode.          *)
Took(v, w, s, l) ==
  /\ Shape(w) /\ (v.panic => w.panic)
  /\ \A t \in Slots :
       /\ w.itab[t].inum = v.itab[t].inum /\ w.itab[t].ref = v.itab[t].ref
       /\ w.itab[t].lock = IF t = s THEN l ELSE v.itab[t].lock
       /\ t # s => w.itab[t] = v.itab[t]

(* A panic changes nothing else.                                            *)
LEMMA PanicShape ==
  ASSUME NEW v, NEW x \in BOOLEAN, Shape(v)
  PROVE  LET w == [v EXCEPT !.panic = x] IN
         /\ Shape(w) /\ w.panic = x /\ w.itab = v.itab /\ w.dinode = v.dinode
         /\ w.used = v.used /\ w.blk = v.blk /\ w.ind = v.ind
BY DEF Shape

(* ilock(), of a lock that is free, takes it and reads the inode.           *)
LEMMA IlockTook ==
  ASSUME NEW v, NEW s, NEW p, Shape(v)
  PROVE  /\ Took(v, Ilock(v, s, p), s, p)
         /\ s \in Slots => Ilock(v, s, p).itab[s].valid
<1> DEFINE n == v.itab[s]
           d == v.dinode[n.inum]
           m == IF n.valid THEN [n EXCEPT !.lock = p]
                ELSE [n EXCEPT !.lock = p, !.valid = TRUE, !.type = d.type, !.nlink = d.nlink,
                               !.size = d.size, !.addrs = d.addrs]
           bad == n.ref < 1 \/ (~n.valid /\ d.type = "FREE")
           w == [v EXCEPT !.itab[s] = m]
           x == v.panic \/ bad
<1>1. Ilock(v, s, p) = [w EXCEPT !.panic = x]
  <2>1. Ilock(v, s, p) = [v EXCEPT !.itab[s] = m, !.panic = v.panic \/ bad]
    BY DEF Ilock
  <2> HIDE DEF m, bad
  <2>2. w.panic = v.panic
    BY DEF Shape
  <2> QED BY <2>1, <2>2
<1>2. s \in Slots => SlotShape(m) /\ m.inum = n.inum /\ m.ref = n.ref /\ m.lock = p /\ m.valid
  <2>1. s \in Slots => SlotShape(n)
    BY DEF Shape
  <2> HIDE DEF n, d
  <2> QED BY <2>1 DEF SlotShape
<1> HIDE DEF m, bad
<1>3. /\ Shape(w) /\ w.panic = v.panic
      /\ \A t \in Slots : w.itab[t] = IF t = s THEN m ELSE v.itab[t]
  BY <1>2, SlotPut
<1> HIDE DEF w
<1>4. x \in BOOLEAN /\ (v.panic => x)
  OBVIOUS
<1> HIDE DEF x
<1>5. LET y == [w EXCEPT !.panic = x] IN Shape(y) /\ y.panic = x /\ y.itab = w.itab
  BY <1>3, <1>4, PanicShape
<1>6. Took(v, [w EXCEPT !.panic = x], s, p)
  BY <1>2, <1>3, <1>4, <1>5 DEF Took
<1>7. s \in Slots => [w EXCEPT !.panic = x].itab[s].valid
  BY <1>2, <1>3, <1>5
<1> QED BY <1>1, <1>6, <1>7

(* iunlock() lets the lock go.                                              *)
LEMMA IunlockTook ==
  ASSUME NEW v, NEW s, Shape(v)
  PROVE  Took(v, Iunlock(v, s), s, None) /\ Iunlock(v, s).panic = v.panic
<1> DEFINE n == v.itab[s]
           m == [n EXCEPT !.lock = None]
<1>1. Iunlock(v, s) = [v EXCEPT !.itab[s] = m]
  BY DEF Iunlock
<1>2. s \in Slots => SlotShape(m) /\ m.inum = n.inum /\ m.ref = n.ref /\ m.lock = None
  <2>1. s \in Slots => SlotShape(n)
    BY DEF Shape
  <2> HIDE DEF n
  <2> QED BY <2>1 DEF SlotShape
<1> HIDE DEF m
<1> QED BY <1>1, <1>2, SlotPut DEF Took

(* A counted reference more to slot s.                                      *)
Counted(v, w, s) ==
  /\ Shape(w) /\ s \in Slots
  /\ \A t \in Slots :
       /\ w.itab[t].lock = v.itab[t].lock
       /\ w.itab[t].ref = v.itab[t].ref + (IF t = s THEN 1 ELSE 0)

(* idup() counts one reference more.                                        *)
LEMMA IdupCounted ==
  ASSUME NEW v, NEW s \in Slots, Shape(v), \A t \in Slots : v.itab[t].ref \in Nat
  PROVE  Counted(v, Idup(v, s), s) /\ Idup(v, s).panic = v.panic
<1> DEFINE n == v.itab[s]
           m == [n EXCEPT !.ref = n.ref + 1]
<1>1. Idup(v, s) = [v EXCEPT !.itab[s] = m]
  BY DEF Idup
<1>2. SlotShape(m) /\ m.ref = n.ref + 1 /\ m.lock = n.lock
  <2>1. SlotShape(n)
    BY DEF Shape
  <2> HIDE DEF n
  <2> QED BY <2>1 DEF SlotShape
<1> HIDE DEF m
<1> QED BY <1>1, <1>2, SlotPut DEF Counted

(* A slot as iget() takes it for another inode: its lock is as it was.      *)
LEMMA NewSlot ==
  ASSUME NEW n, NEW i, SlotShape(n)
  PROVE  LET m == [n EXCEPT !.inum = i, !.ref = 1, !.valid = FALSE] IN
         /\ SlotShape(m) /\ m.lock = n.lock /\ m.ref = 1 /\ m.inum = i /\ ~m.valid
<1> DEFINE k == [n EXCEPT !.inum = i]
           l == [k EXCEPT !.ref = 1]
           m == [l EXCEPT !.valid = FALSE]
<1>1. SlotShape(k) /\ k.lock = n.lock /\ k.inum = i
  BY DEF SlotShape
<1> HIDE DEF k
<1>2. SlotShape(l) /\ l.lock = n.lock /\ l.inum = i /\ l.ref = 1
  BY <1>1 DEF SlotShape
<1> HIDE DEF l
<1>3. SlotShape(m) /\ m.lock = n.lock /\ m.inum = i /\ m.ref = 1 /\ ~m.valid
  <2>1. m.lock = l.lock /\ m.inum = l.inum /\ m.ref = l.ref /\ ~m.valid
    BY <1>2 DEF SlotShape
  <2>2. SlotShape(m)
    <3>1. \A x : SlotShape([l EXCEPT !.valid = x])
      BY <1>2 DEF SlotShape
    <3> QED BY <3>1
  <2> QED BY <1>2, <2>1, <2>2
<1> HIDE DEF m
<1>4. m = [n EXCEPT !.inum = i, !.ref = 1, !.valid = FALSE]
  BY DEF m, l, k
<1> QED BY <1>3, <1>4

(* iget() counts one reference more, to the slot it returns, unless the     *)
(* table is full.                                                           *)
LEMMA IgetCounted ==
  ASSUME NEW v, NEW i, Shape(v), \A s \in Slots : v.itab[s].ref \in Nat, ~Iget(v, i).fs.panic
  PROVE  Counted(v, Iget(v, i).fs, Iget(v, i).s) /\ ~v.panic
<1> DEFINE have == {s \in Slots : v.itab[s].ref > 0 /\ v.itab[s].inum = i}
           empty == {s \in Slots : v.itab[s].ref = 0}
<1>0. Slots \in SUBSET Nat /\ have \in SUBSET Nat /\ empty \in SUBSET Nat
  BY FsAssumption DEF Slots
<1>1. CASE have # {}
  <2> DEFINE s == Min(have)
  <2>1. s \in have
    BY <1>0, <1>1, Least
  <2>2. Iget(v, i) = [fs |-> Idup(v, s), s |-> s]
    BY <1>1 DEF Iget, Idup
  <2> HIDE DEF s
  <2> QED BY <2>1, <2>2, IdupCounted
<1>2. CASE have = {} /\ empty # {}
  <2> DEFINE s == Min(empty)
             n == v.itab[s]
             m == [n EXCEPT !.inum = i, !.ref = 1, !.valid = FALSE]
  <2>1. s \in empty
    BY <1>0, <1>2, Least
  <2>2. Iget(v, i) = [fs |-> [v EXCEPT !.itab[s] = m], s |-> s]
    BY <1>2 DEF Iget
  <2> HIDE DEF s
  <2>3. SlotShape(n) /\ n.ref = 0
    BY <2>1 DEF Shape
  <2>4. SlotShape(m) /\ m.lock = n.lock /\ m.ref = 1
    BY <2>3, NewSlot
  <2> HIDE DEF m
  <2>5. LET w == [v EXCEPT !.itab[s] = m] IN
        /\ Shape(w) /\ w.panic = v.panic
        /\ \A t \in Slots : w.itab[t] = IF t = s THEN m ELSE v.itab[t]
    BY <2>4, SlotPut
  <2> HIDE DEF n
  <2>6. ~v.panic /\ s \in Slots /\ v.itab[s] = n
    <3>1. Iget(v, i).fs = [v EXCEPT !.itab[s] = m]
      BY <2>2
    <3>2. [v EXCEPT !.itab[s] = m].panic = v.panic
      BY <2>5
    <3> HIDE DEF empty
    <3>3. ~v.panic
      BY <3>1, <3>2
    <3> QED BY <2>1, <3>3 DEF n, empty
  <2>7. Counted(v, [v EXCEPT !.itab[s] = m], s)
    BY <2>3, <2>4, <2>5, <2>6 DEF Counted
  <2> QED BY <2>2, <2>6, <2>7
<1>3. CASE have = {} /\ empty = {}
  <2>1. Iget(v, i).fs = [v EXCEPT !.panic = TRUE]
    BY <1>3 DEF Iget
  <2> QED BY <2>1 DEF Shape
<1> QED BY <1>1, <1>2, <1>3

-----------------------------------------------------------------------------
(* A number of tokens for each process.                                     *)
Tokens(cnt) == {x \in Procs \X Nat : x[2] < cnt[x[1]]}

(* The tokens of one process that has k of them.                            *)
LEMMA TokensOf ==
  ASSUME NEW p, NEW k \in Nat
  PROVE  /\ IsFiniteSet({<<p, j>> : j \in 0 .. (k - 1)})
         /\ Cardinality({<<p, j>> : j \in 0 .. (k - 1)}) = k
<1> DEFINE S == 0 .. (k - 1)
           T == {<<p, j>> : j \in S}
           f == [j \in S |-> <<p, j>>]
<1>1. IsFiniteSet(S) /\ Cardinality(S) = k
  <2>1. IsFiniteSet(0 .. (k - 1)) /\ Cardinality(0 .. (k - 1)) = IF 0 > k - 1 THEN 0 ELSE k - 1 - 0 + 1
    BY FS_Interval
  <2> QED BY <2>1
<1>2. f \in Bijection(S, T)
  <2>1. f \in [S -> T]
    OBVIOUS
  <2>2. \A i, j \in S : f[i] = f[j] => i = j
    OBVIOUS
  <2>3. \A t \in T : \E j \in S : f[j] = t
    OBVIOUS
  <2> HIDE DEF f, T, S
  <2> QED BY <2>1, <2>2, <2>3 DEF Bijection, Injection, Surjection, IsInjective
<1>3. ExistsBijection(S, T)
  BY <1>2 DEF ExistsBijection
<1> HIDE DEF S, T
<1>4. IsFiniteSet(T) /\ Cardinality(T) = Cardinality(S)
  BY <1>1, <1>3, FS_Bijection
<1> QED BY <1>1, <1>4 DEF S, T

(* One process's tokens change.                                             *)
LEMMA TokensChange ==
  ASSUME NEW cnt \in [Procs -> Nat], NEW new \in [Procs -> Nat], NEW p \in Procs,
         \A q \in Procs : q # p => new[q] = cnt[q],
         IsFiniteSet(Tokens(cnt))
  PROVE  /\ IsFiniteSet(Tokens(new)) /\ Cardinality(Tokens(cnt)) >= cnt[p]
         /\ Cardinality(Tokens(new)) = Cardinality(Tokens(cnt)) - cnt[p] + new[p]
<1> DEFINE rest == {x \in Procs \X Nat : x[1] # p /\ x[2] < cnt[x[1]]}
           mine(k) == {<<p, j>> : j \in 0 .. (k - 1)}
<1>1. \A k \in Nat : rest \cap mine(k) = {}
  OBVIOUS
<1>2. Tokens(cnt) = rest \cup mine(cnt[p])
  <2>1. ASSUME NEW x \in Tokens(cnt) PROVE x \in rest \cup mine(cnt[p])
    <3>1. x \in Procs \X Nat /\ x = <<x[1], x[2]>> /\ x[2] < cnt[x[1]] /\ x[2] \in Nat
      BY DEF Tokens
    <3>2. CASE x[1] = p
      <4>1. x[2] \in 0 .. (cnt[p] - 1)
        BY <3>1, <3>2
      <4> QED BY <3>1, <3>2, <4>1
    <3> QED BY <3>1, <3>2
  <2>2. \A x \in rest : x \in Tokens(cnt)
    BY DEF Tokens
  <2>3. \A x \in mine(cnt[p]) : x \in Tokens(cnt)
    BY DEF Tokens
  <2> HIDE DEF rest, mine
  <2> QED BY <2>1, <2>2, <2>3
<1>3. Tokens(new) = rest \cup mine(new[p])
  <2>1. ASSUME NEW x \in Tokens(new) PROVE x \in rest \cup mine(new[p])
    <3>1. x \in Procs \X Nat /\ x = <<x[1], x[2]>> /\ x[2] < new[x[1]] /\ x[2] \in Nat
      BY DEF Tokens
    <3>2. CASE x[1] = p
      <4>1. x[2] \in 0 .. (new[p] - 1)
        BY <3>1, <3>2
      <4> QED BY <3>1, <3>2, <4>1
    <3> QED BY <3>1, <3>2
  <2>2. \A x \in rest : x \in Tokens(new)
    BY DEF Tokens
  <2>3. \A x \in mine(new[p]) : x \in Tokens(new)
    BY DEF Tokens
  <2> HIDE DEF rest, mine
  <2> QED BY <2>1, <2>2, <2>3
<1>4. \A k \in Nat : IsFiniteSet(mine(k)) /\ Cardinality(mine(k)) = k
  BY TokensOf
<1> HIDE DEF rest, mine
<1>5. IsFiniteSet(rest)
  BY <1>2, FS_Subset
<1>6. \A k \in Nat : /\ IsFiniteSet(rest \cup mine(k))
                    /\ Cardinality(rest \cup mine(k)) = Cardinality(rest) + k
  <2> SUFFICES ASSUME NEW k \in Nat
               PROVE  /\ IsFiniteSet(rest \cup mine(k))
                      /\ Cardinality(rest \cup mine(k)) = Cardinality(rest) + k
    OBVIOUS
  <2>1. IsFiniteSet(mine(k)) /\ Cardinality(mine(k)) = k /\ rest \cap mine(k) = {}
    BY <1>1, <1>4
  <2>2. /\ IsFiniteSet(rest \cup mine(k))
        /\ Cardinality(rest \cup mine(k)) = Cardinality(rest) + Cardinality(mine(k)) - Cardinality(rest \cap mine(k))
    BY <1>5, <2>1, FS_Union
  <2>3. Cardinality(rest \cap mine(k)) = 0
    BY <2>1, FS_EmptySet
  <2> QED BY <1>5, <2>1, <2>2, <2>3, FS_CardinalityType
<1>7. Cardinality(rest) \in Nat
  BY <1>5, FS_CardinalityType
<1> QED BY <1>2, <1>3, <1>6, <1>7

(* Two processes have no more tokens than there are.                        *)
LEMMA TokensOfTwo ==
  ASSUME NEW cnt \in [Procs -> Nat], NEW p \in Procs, NEW q \in Procs, p # q,
         IsFiniteSet(Tokens(cnt))
  PROVE  cnt[p] + cnt[q] <= Cardinality(Tokens(cnt))
<1> DEFINE new == [cnt EXCEPT ![p] = 0]
<1>1. new \in [Procs -> Nat] /\ new[p] = 0 /\ \A r \in Procs : r # p => new[r] = cnt[r]
  OBVIOUS
<1> HIDE DEF new
<1>2. IsFiniteSet(Tokens(new)) /\ Cardinality(Tokens(new)) = Cardinality(Tokens(cnt)) - cnt[p] + new[p]
  BY <1>1, TokensChange
<1>3. Cardinality(Tokens(new)) >= new[q]
  BY <1>1, <1>2, TokensChange
<1>4. Cardinality(Tokens(cnt)) \in Nat /\ cnt[p] \in Nat /\ cnt[q] \in Nat
  BY FS_CardinalityType
<1> QED BY <1>1, <1>2, <1>3, <1>4

-----------------------------------------------------------------------------
(* The references of a call at label l, with variables x, by a process in   *)
(* the directory of slot d: to the directory, in the variables of the call; *)
(* and the slots whose locks the call has.                                  *)
HasOld(l, x, op) == \/ l \in {"link_new", "link_dp", "link_bad"}
                    \/ l = "namex" /\ x.next = "link_dp"
                    \/ l = "undo" /\ op = "link"
Num(e) == IF e THEN 1 ELSE 0
Refs(l, x, op, d, s) ==
  Num(l \notin {"unborn", "zombie", "chdir_end"} /\ d = s)
  + Num(l \in {"namex", "open", "link", "chdir", "exists", "fill", "made", "unlink_ip",
               "unlink_end", "chdir_end"} /\ x.ip = s)
  + Num(l \in {"create", "unlink", "link_dp", "ialloc", "fill", "undo", "unlink_ip"} /\ x.dp = s)
  + Num(HasOld(l, x, op) /\ x.old = s)
Locks(l, x) == {s \in Slots : \/ l \in {"ialloc", "fill", "undo", "unlink_ip"} /\ x.dp = s
                              \/ l \in {"made", "unlink_end"} /\ x.ip = s}

(* The variables are what the label needs.                                  *)
PutLabels == {"put", "put_free", "put_unlock", "put_drop"}
Ahead(l, x) == IF l = "namex" THEN x.next ELSE l
Locals(x) ==
  x = [ip |-> x.ip, dp |-> x.dp, old |-> x.old, inum |-> x.inum, off |-> x.off, name |-> x.name,
       rest |-> x.rest, par |-> x.par, next |-> x.next, done |-> x.done]
Ready(l, x, op) ==
  /\ Locals(x)
  /\ l \notin PutLabels
  /\ l \in {"open", "link", "chdir"} => x.ip \in Slots \cup {None}
  /\ l \in {"namex", "exists", "fill", "made", "unlink_ip", "unlink_end", "chdir_end"} => x.ip \in Slots
  /\ l \in {"create", "unlink", "link_dp"} => x.dp \in Slots \cup {None}
  /\ l \in {"ialloc", "fill", "undo", "unlink_ip"} => x.dp \in Slots
  /\ HasOld(l, x, op) => x.old \in Slots
  /\ l = "namex" =>
       /\ x.dp = None
       /\ \/ x.par /\ x.next \in {"create", "unlink", "link_dp"}
          \/ ~x.par /\ x.next \in {"open", "link", "chdir"}
  /\ Ahead(l, x) \in {"create", "ialloc", "fill", "exists", "made", "unlink", "unlink_ip"} => op # "link"
  /\ Ahead(l, x) \in {"link", "link_new", "link_dp"} => op = "link"

(* Where a process is in its call, or will be when its slots are put.       *)
Label(p) == IF pc[p] \in PutLabels THEN cont[p] ELSE pc[p]

(* The references of a process, those it has still to put among them.       *)
Occ(t, s) == Num(Len(t) >= 1 /\ t[1] = s) + Num(Len(t) >= 2 /\ t[2] = s)
Cnt(p, s) == Refs(Label(p), c[p], Call(p).op, cwd[p], s) + Occ(todo[p], s)
Cnts(s) == [p \in Procs |-> Cnt(p, s)]
Opens(s) == {f \in 1 .. NFILE : ofile[f].ref > 0 /\ ofile[f].ip = s}

RefsOK ==
  \A s \in Slots :
    /\ IsFiniteSet(Tokens(Cnts(s)))
    /\ fs.itab[s].ref = Cardinality(Tokens(Cnts(s))) + Cardinality(Opens(s))

(* The locks of a process.                                                  *)
Held(p) ==
  Locks(Label(p), c[p]) \cup {s \in Slots : pc[p] \in {"put_free", "put_unlock"} /\ Head(todo[p]) = s}
LocksOK ==
  \A s \in Slots : /\ fs.itab[s].lock \in Procs \cup {None}
                   /\ \A p \in Procs : fs.itab[s].lock = p <=> s \in Held(p)

LocalsOK(p) ==
  /\ Ready(Label(p), c[p], Call(p).op)
  /\ pc[p] \in PutLabels <=> todo[p] # <<>>
  /\ Len(todo[p]) <= 2
  /\ Label(p) \in {"user", "unborn", "zombie"} \/ script[p] # <<>>
  /\ pc[p] \in {"put_free", "put_unlock"} => Head(todo[p]) \notin Locks(Label(p), c[p])

(* The open files: a variable of a process holds one that is open.          *)
FileShape(x) == x = [ref |-> x.ref, ip |-> x.ip, off |-> x.off, w |-> x.w]
Fds(f) == {x \in Procs \X Regs : file[x[1]][x[2]] = f}
FilesOK ==
  /\ file \in [Procs -> [Regs -> 0 .. NFILE]]
  /\ ofile = [f \in 1 .. NFILE |-> ofile[f]]
  /\ \A f \in 1 .. NFILE :
       /\ FileShape(ofile[f]) /\ ofile[f].ref \in Nat /\ (ofile[f].ref > 0 => ofile[f].ip \in Slots)
       /\ IsFiniteSet(Fds(f)) /\ Cardinality(Fds(f)) <= ofile[f].ref
  /\ \A p \in Procs : Label(p) \in {"unborn", "zombie"} => file[p] = [k \in Regs |-> None]

VarsOK ==
  /\ pc = [p \in Procs |-> pc[p]] /\ cont = [p \in Procs |-> cont[p]] /\ c = [p \in Procs |-> c[p]]
  /\ todo \in [Procs -> Seq(Slots)] /\ cwd \in [Procs -> Slots] /\ script \in [Procs -> Seq(SysCalls)]

RefInv ==
  /\ VarsOK /\ Shape(fs) /\ RefsOK /\ LocksOK /\ FilesOK
  /\ \A p \in Procs : LocalsOK(p)

(* The counts are natural numbers.                                          *)
LEMMA CntNat ==
  /\ \A l, x, op, d, s : Refs(l, x, op, d, s) \in Nat
  /\ \A t, s : Occ(t, s) \in Nat
  /\ \A p, s : Cnt(p, s) \in Nat
<1>1. \A l, x, op, d, s : Refs(l, x, op, d, s) \in Nat
  BY DEF Refs, Num
<1>2. \A t, s : Occ(t, s) \in Nat
  BY DEF Occ, Num
<1> QED BY <1>1, <1>2 DEF Cnt

(* The open files of a slot are counted by a natural number.                *)
LEMMA OpensFinite ==
  ASSUME NEW s
  PROVE  IsFiniteSet(Opens(s)) /\ Cardinality(Opens(s)) \in Nat
<1>1. IsFiniteSet(1 .. NFILE)
  BY FsAssumption, FS_Interval
<1>2. IsFiniteSet(Opens(s))
  BY <1>1, FS_Subset DEF Opens
<1> QED BY <1>2, FS_CardinalityType

(* So are the references to a slot.                                         *)
LEMMA RefNat == RefsOK => \A s \in Slots : fs.itab[s].ref \in Nat
BY OpensFinite, FS_CardinalityType DEF RefsOK

(* A step leaves process q alone.                                           *)
Steady(q) ==
  /\ pc'[q] = pc[q] /\ cont'[q] = cont[q] /\ c'[q] = c[q] /\ todo'[q] = todo[q]
  /\ cwd'[q] = cwd[q] /\ script'[q] = script[q]

(* A process that a step leaves alone has the references, the locks and the *)
(* place it had.                                                            *)
LEMMA SteadyKeeps ==
  ASSUME NEW q, Steady(q)
  PROVE  /\ \A s : Cnt(q, s)' = Cnt(q, s)
         /\ Held(q)' = Held(q) /\ Label(q)' = Label(q)
         /\ LocalsOK(q) => LocalsOK(q)'
<1>1. Label(q)' = Label(q)
  BY DEF Label, Steady
<1>2. Call(q)' = Call(q)
  BY DEF Steady, Call
<1>3. ASSUME NEW s PROVE Cnt(q, s)' = Cnt(q, s)
  BY <1>1, <1>2 DEF Cnt, Steady
<1>4. Held(q)' = Held(q)
  BY <1>1 DEF Held, Steady
<1>5. LocalsOK(q) => LocalsOK(q)'
  BY <1>1, <1>2 DEF LocalsOK, Steady
<1> QED BY <1>1, <1>3, <1>4, <1>5

(* The references are counted after a step of p that changes as many of     *)
(* them as it changes counts.                                               *)
LEMMA RefsStep ==
  ASSUME NEW p \in Procs, RefsOK,
         \A q \in Procs : q # p => \A s : Cnt(q, s)' = Cnt(q, s),
         \A s \in Slots :
           fs'.itab[s].ref = fs.itab[s].ref + (Cnt(p, s)' - Cnt(p, s))
                             + (Cardinality(Opens(s)') - Cardinality(Opens(s)))
  PROVE  RefsOK'
<1> SUFFICES ASSUME NEW s \in Slots
             PROVE  /\ IsFiniteSet(Tokens(Cnts(s)'))
                    /\ fs'.itab[s].ref = Cardinality(Tokens(Cnts(s)')) + Cardinality(Opens(s)')
  BY DEF RefsOK, Tokens, Cnts
<1> DEFINE old == Cnts(s)
           new == Cnts(s)'
<1>1. old \in [Procs -> Nat] /\ new \in [Procs -> Nat]
  <2>1. \A q : Cnt(q, s) \in Nat
    BY CntNat
  <2>2. \A q : Cnt(q, s)' \in Nat
    BY CntNat DEF Cnt
  <2> QED BY <2>1, <2>2 DEF Cnts
<1>2. \A q \in Procs : q # p => new[q] = old[q]
  BY DEF Cnts
<1>3. new[p] = Cnt(p, s)' /\ old[p] = Cnt(p, s)
  BY DEF Cnts
<1>4. IsFiniteSet(Tokens(old)) /\ fs.itab[s].ref = Cardinality(Tokens(old)) + Cardinality(Opens(s))
  BY DEF RefsOK
<1> HIDE DEF old, new
<1>5. IsFiniteSet(Tokens(new)) /\ Cardinality(Tokens(new)) = Cardinality(Tokens(old)) - old[p] + new[p]
  BY <1>1, <1>2, <1>4, TokensChange
<1>6. Cardinality(Tokens(old)) \in Nat /\ old[p] \in Nat /\ new[p] \in Nat
  BY <1>1, <1>4, FS_CardinalityType
<1>7. Cardinality(Opens(s)) \in Nat /\ Cardinality(Opens(s)') \in Nat
  <2>1. IsFiniteSet(1 .. NFILE)
    BY FsAssumption, FS_Interval
  <2>2. IsFiniteSet(Opens(s)) /\ IsFiniteSet(Opens(s)')
    BY <2>1, FS_Subset DEF Opens
  <2> QED BY <2>2, FS_CardinalityType
<1>8. fs'.itab[s].ref = fs.itab[s].ref + (new[p] - old[p]) + (Cardinality(Opens(s)') - Cardinality(Opens(s)))
  BY <1>3
<1>9. fs'.itab[s].ref = Cardinality(Tokens(new)) + Cardinality(Opens(s)')
  BY <1>4, <1>5, <1>6, <1>7, <1>8
<1> QED BY <1>5, <1>9 DEF new

(* The locks of p are those it has after the step.                          *)
LockMove(p) ==
  \A s \in Slots :
    IF s \in Held(p)' THEN fs'.itab[s].lock = p /\ fs.itab[s].lock \in {p, None}
    ELSE fs'.itab[s].lock = IF fs.itab[s].lock = p THEN None ELSE fs.itab[s].lock

(* The locks are those of the calls after a step that changes only what p   *)
(* has.                                                                     *)
LEMMA LocksStep ==
  ASSUME NEW p \in Procs, LocksOK, LockMove(p), \A q \in Procs : q # p => Held(q)' = Held(q)
  PROVE  LocksOK'
<1> SUFFICES ASSUME NEW s \in Slots
             PROVE  /\ fs'.itab[s].lock \in Procs \cup {None}
                    /\ \A q \in Procs : fs'.itab[s].lock = q <=> s \in Held(q)'
  BY DEF LocksOK
<1>1. /\ fs.itab[s].lock \in Procs \cup {None} /\ None \notin Procs
      /\ \A q \in Procs : fs.itab[s].lock = q <=> s \in Held(q)
  BY FsAssumption DEF LocksOK
<1>2. \A q \in Procs : q # p => Held(q)' = Held(q)
  OBVIOUS
<1>3. IF s \in Held(p)' THEN fs'.itab[s].lock = p /\ fs.itab[s].lock \in {p, None}
      ELSE fs'.itab[s].lock = IF fs.itab[s].lock = p THEN None ELSE fs.itab[s].lock
  BY DEF LockMove
<1> QED BY <1>1, <1>2, <1>3

(* A step of p.                                                             *)
LEMMA Carry ==
  ASSUME NEW p \in Procs, RefInv, VarsOK', Shape(fs'), LocalsOK(p)', LockMove(p), FilesOK',
         \A q \in Procs : q # p => Steady(q),
         \A s \in Slots :
           fs'.itab[s].ref = fs.itab[s].ref + (Cnt(p, s)' - Cnt(p, s))
                             + (Cardinality(Opens(s)') - Cardinality(Opens(s)))
  PROVE  RefInv'
<1>1. RefsOK' /\ LocksOK'
  BY SteadyKeeps, RefsStep, LocksStep DEF RefInv
<1>2. \A q \in Procs : LocalsOK(q)'
  BY SteadyKeeps DEF RefInv
<1>3. Shape(fs)'
  OBVIOUS
<1> QED BY <1>1, <1>2, <1>3 DEF RefInv

(* A step of p that opens and closes nothing.                               *)
LEMMA FilesSame ==
  ASSUME NEW p \in Procs, RefInv, file' = file, ofile' = ofile,
         \A q \in Procs : q # p => Label(q)' = Label(q),
         Label(p)' \in {"unborn", "zombie"} => file[p] = [k \in Regs |-> None]
  PROVE  FilesOK' /\ \A s : Opens(s)' = Opens(s)
<1>1. \A f : Fds(f)' = Fds(f)
  BY DEF Fds
<1> QED BY <1>1 DEF FilesOK, RefInv, Opens

(* Where p is when it does not put slots.                                   *)
LEMMA Here ==
  ASSUME NEW p \in Procs, RefInv, pc[p] \notin PutLabels
  PROVE  /\ Label(p) = pc[p] /\ todo[p] = <<>> /\ \A s : Occ(todo[p], s) = 0
         /\ Ready(pc[p], c[p], Call(p).op) /\ cwd[p] \in Slots /\ script[p] \in Seq(SysCalls)
         /\ Shape(fs) /\ \A s \in Slots : fs.itab[s].ref \in Nat
         /\ \A s \in Slots : fs.itab[s].lock = p <=> s \in Locks(pc[p], c[p])
         /\ pc[p] \in {"user", "unborn", "zombie"} \/ script[p] # <<>>
<1>1. Label(p) = pc[p] /\ pc[p] \notin {"put_free", "put_unlock"}
  BY DEF Label, PutLabels
<1>2. Held(p) = Locks(pc[p], c[p])
  BY <1>1 DEF Held
<1>3. todo[p] = <<>> /\ \A s : Occ(todo[p], s) = 0
  BY DEF RefInv, LocalsOK, Occ, Num
<1> QED BY <1>1, <1>2, <1>3, RefNat DEF RefInv, LocalsOK, VarsOK, LocksOK

(* A step of p ends at label l, the slots of t to be put before that.       *)
Goes(p, l, t) ==
  \/ t = <<>> /\ Go(p, l)
  \/ t \in Seq(Slots) /\ t # <<>> /\ Len(t) <= 2 /\ Puts(p, t, l)

(* Where the processes are after such a step.                               *)
LEMMA GoesTo ==
  ASSUME NEW p \in Procs, VarsOK, NEW l, l \notin PutLabels, NEW t, Goes(p, l, t),
         pc[p] \notin PutLabels, todo[p] = <<>>
  PROVE  /\ pc' = [q \in Procs |-> pc'[q]] /\ cont' = [q \in Procs |-> cont'[q]] /\ todo' \in [Procs -> Seq(Slots)]
         /\ script' = script /\ todo'[p] = t
         /\ pc'[p] \in PutLabels <=> t # <<>>
         /\ Len(t) <= 2 /\ pc'[p] \notin {"put_free", "put_unlock"} /\ Label(p)' = l
         /\ \A q \in Procs : q # p => pc'[q] = pc[q] /\ cont'[q] = cont[q] /\ todo'[q] = todo[q]
<1>1. CASE t = <<>> /\ Go(p, l)
  <2>1. pc' = [pc EXCEPT ![p] = l] /\ cont' = cont /\ todo' = todo /\ script' = script
    BY <1>1 DEF Go
  <2>2. pc'[p] = l
    BY <2>1 DEF VarsOK
  <2>3. Label(p)' = l /\ pc'[p] \notin {"put_free", "put_unlock"}
    BY <2>2 DEF Label, PutLabels
  <2>4. Len(t) <= 2 /\ pc'[p] \notin PutLabels
    BY <1>1, <2>2
  <2>5. /\ pc' = [q \in Procs |-> pc'[q]] /\ cont' = [q \in Procs |-> cont'[q]] /\ todo' \in [Procs -> Seq(Slots)]
        /\ \A q \in Procs : q # p => pc'[q] = pc[q] /\ cont'[q] = cont[q] /\ todo'[q] = todo[q]
    BY <2>1 DEF VarsOK
  <2> QED BY <1>1, <2>1, <2>2, <2>3, <2>4, <2>5
<1>2. CASE t \in Seq(Slots) /\ t # <<>> /\ Len(t) <= 2 /\ Puts(p, t, l)
  <2>1. /\ pc' = [pc EXCEPT ![p] = "put"] /\ cont' = [cont EXCEPT ![p] = l]
        /\ todo' = [todo EXCEPT ![p] = t] /\ script' = script
    BY <1>2 DEF Puts
  <2>2. pc'[p] = "put" /\ cont'[p] = l /\ todo'[p] = t /\ t # <<>>
    <3>1. t # <<>>
      BY <1>2
    <3> QED BY <2>1, <3>1 DEF VarsOK
  <2>3. Label(p)' = l /\ pc'[p] \notin {"put_free", "put_unlock"} /\ pc'[p] \in PutLabels
    BY <2>2 DEF Label, PutLabels
  <2>4. todo' \in [Procs -> Seq(Slots)]
    BY <1>2, <2>1 DEF VarsOK
  <2>5. /\ pc' = [q \in Procs |-> pc'[q]] /\ cont' = [q \in Procs |-> cont'[q]]
        /\ \A q \in Procs : q # p => pc'[q] = pc[q] /\ cont'[q] = cont[q] /\ todo'[q] = todo[q]
    BY <2>1 DEF VarsOK
  <2>6. Len(t) <= 2
    BY <1>2
  <2> QED BY <2>1, <2>2, <2>3, <2>4, <2>5, <2>6
<1> QED BY <1>1, <1>2 DEF Goes

(* The open files of a slot, before and after a step, are counted by        *)
(* natural numbers.                                                         *)
LEMMA OpensNat == \A s : Cardinality(Opens(s)) \in Nat /\ Cardinality(Opens(s)') \in Nat
<1>1. IsFiniteSet(1 .. NFILE)
  BY FsAssumption, FS_Interval
<1>2. \A s : IsFiniteSet(Opens(s)) /\ IsFiniteSet(Opens(s)')
  BY <1>1, FS_Subset DEF Opens
<1> QED BY <1>2, FS_CardinalityType

(* A step of p to label l, the slots of t to be put before that: where the  *)
(* processes are after it; and, when it gives the call the variables x and  *)
(* the process the directory of slot d, the counts and the locks.           *)
Arrived(p, l, t) ==
  /\ pc' = [q \in Procs |-> pc'[q]] /\ cont' = [q \in Procs |-> cont'[q]] /\ todo' \in [Procs -> Seq(Slots)]
  /\ script' \in [Procs -> Seq(SysCalls)]
  /\ todo'[p] = t /\ (pc'[p] \in PutLabels <=> t # <<>>) /\ Len(t) <= 2
  /\ pc'[p] \notin {"put_free", "put_unlock"} /\ Label(p)' = l
  /\ \A q \in Procs : q # p =>
       pc'[q] = pc[q] /\ cont'[q] = cont[q] /\ todo'[q] = todo[q] /\ script'[q] = script[q]
RefsBy(p, l, t, x, d, op) ==
  \A s \in Slots :
    fs'.itab[s].ref = fs.itab[s].ref + Refs(l, x, op, d, s) + Occ(t, s)
                      - Refs(pc[p], c[p], Call(p).op, cwd[p], s)
                      + (Cardinality(Opens(s)') - Cardinality(Opens(s)))
LocksBy(p, l, x) ==
  \A s \in Slots :
    IF s \in Locks(l, x) THEN fs'.itab[s].lock = p /\ fs.itab[s].lock \in {p, None}
    ELSE fs'.itab[s].lock = IF s \in Locks(pc[p], c[p]) THEN None ELSE fs.itab[s].lock

RefsTo(p, l, t, x) ==
  \A s \in Slots :
    fs'.itab[s].ref = fs.itab[s].ref + Refs(l, x, Call(p).op, cwd[p], s) + Occ(t, s)
                      - Refs(pc[p], c[p], Call(p).op, cwd[p], s)

(* A step of p inside or at the end of a call, by the references, the locks *)
(* and the place that p has after it.                                       *)
LEMMA Moves ==
  ASSUME NEW p \in Procs, RefInv, pc[p] \notin PutLabels,
         NEW l, NEW t, NEW x, NEW d \in Slots, Arrived(p, l, t),
         c' = [c EXCEPT ![p] = x], Ready(l, x, Head(script'[p]).op), cwd' = [cwd EXCEPT ![p] = d],
         l \in {"user", "unborn", "zombie"} \/ script'[p] # <<>>,
         FilesOK', Shape(fs'), RefsBy(p, l, t, x, d, Head(script'[p]).op), LocksBy(p, l, x)
  PROVE  RefInv'
<1>1. VarsOK /\ Label(p) = pc[p] /\ todo[p] = <<>> /\ \A s : Occ(todo[p], s) = 0
  BY Here DEF RefInv
<1>2. /\ c'[p] = x /\ cwd'[p] = d /\ cwd' \in [Procs -> Slots]
      /\ c' = [q \in Procs |-> c'[q]]
      /\ \A q \in Procs : q # p => c'[q] = c[q] /\ cwd'[q] = cwd[q]
  BY <1>1 DEF VarsOK
<1>3. VarsOK'
  BY <1>1, <1>2 DEF VarsOK, Arrived
<1>4. \A q \in Procs : q # p => Steady(q)
  BY <1>2 DEF Steady, Arrived
<1>5. LocalsOK(p)'
  BY <1>2 DEF LocalsOK, Arrived, Call
<1>6. Held(p)' = Locks(l, x)
  BY <1>2 DEF Held, Arrived
<1>7. LockMove(p)
  BY <1>6, Here DEF LockMove, LocksBy
<1>8. ASSUME NEW s \in Slots
      PROVE  fs'.itab[s].ref = fs.itab[s].ref + (Cnt(p, s)' - Cnt(p, s))
                               + (Cardinality(Opens(s)') - Cardinality(Opens(s)))
  <2>1. Cnt(p, s)' = Refs(l, x, Head(script'[p]).op, d, s) + Occ(t, s)
    BY <1>2 DEF Cnt, Arrived, Call
  <2>2. Cnt(p, s) = Refs(pc[p], c[p], Call(p).op, cwd[p], s) + Occ(todo[p], s) /\ Occ(todo[p], s) = 0
    BY <1>1 DEF Cnt
  <2>3. /\ Refs(l, x, Head(script'[p]).op, d, s) \in Nat /\ Refs(pc[p], c[p], Call(p).op, cwd[p], s) \in Nat
        /\ Occ(t, s) \in Nat /\ fs.itab[s].ref \in Nat
    BY CntNat, Here
  <2>4. fs'.itab[s].ref = fs.itab[s].ref + Refs(l, x, Head(script'[p]).op, d, s) + Occ(t, s)
                          - Refs(pc[p], c[p], Call(p).op, cwd[p], s)
                          + (Cardinality(Opens(s)') - Cardinality(Opens(s)))
    BY DEF RefsBy
  <2> QED BY <2>1, <2>2, <2>3, <2>4, OpensNat
<1> QED BY <1>3, <1>4, <1>5, <1>7, <1>8, Carry

(* A step inside a call that opens and closes nothing.                      *)
LEMMA Turn ==
  ASSUME NEW p \in Procs, RefInv, pc[p] \notin PutLabels,
         NEW l, NEW t, Goes(p, l, t), l \notin {"unborn", "zombie"},
         NEW x, c' = [c EXCEPT ![p] = x], Ready(l, x, Call(p).op),
         UNCHANGED userVars, Shape(fs'), script[p] # <<>>,
         RefsTo(p, l, t, x), LocksBy(p, l, x)
  PROVE  RefInv'
<1>1. VarsOK /\ todo[p] = <<>> /\ l \notin PutLabels
  BY Here DEF RefInv, Ready
<1>2. Arrived(p, l, t) /\ script' = script
  BY <1>1, GoesTo DEF Arrived, VarsOK
<1>3. /\ file' = file /\ ofile' = ofile /\ cwd' = [cwd EXCEPT ![p] = cwd[p]] /\ cwd[p] \in Slots
      /\ Head(script'[p]) = Call(p)
  BY <1>1, <1>2 DEF VarsOK, userVars, Call
<1>4. \A q \in Procs : q # p => Label(q)' = Label(q)
  BY <1>2 DEF Label, Arrived
<1>5. FilesOK' /\ \A s : Opens(s)' = Opens(s)
  BY <1>2, <1>3, <1>4, FilesSame DEF Arrived
<1>6. ASSUME NEW s \in Slots
      PROVE  fs'.itab[s].ref = fs.itab[s].ref + Refs(l, x, Call(p).op, cwd[p], s) + Occ(t, s)
                               - Refs(pc[p], c[p], Call(p).op, cwd[p], s)
                               + (Cardinality(Opens(s)') - Cardinality(Opens(s)))
  <2>1. Cardinality(Opens(s)') - Cardinality(Opens(s)) = 0
    BY <1>5, OpensNat
  <2>2. fs'.itab[s].ref = fs.itab[s].ref + Refs(l, x, Call(p).op, cwd[p], s) + Occ(t, s)
                             - Refs(pc[p], c[p], Call(p).op, cwd[p], s)
    BY DEF RefsTo
  <2>3. /\ Refs(l, x, Call(p).op, cwd[p], s) \in Nat /\ Refs(pc[p], c[p], Call(p).op, cwd[p], s) \in Nat
        /\ Occ(t, s) \in Nat /\ fs.itab[s].ref \in Nat
    BY CntNat, Here
  <2> QED BY <2>1, <2>2, <2>3
<1>7. RefsBy(p, l, t, x, cwd[p], Call(p).op)
  BY <1>6 DEF RefsBy
<1> QED BY <1>2, <1>3, <1>5, <1>7, Moves

(* A step of p back to the program, which then goes on with script z.       *)
LEMMA Back ==
  ASSUME NEW p \in Procs, RefInv, pc[p] \notin PutLabels,
         NEW z \in Seq(SysCalls), NEW x, NEW d \in Slots,
         pc' = [pc EXCEPT ![p] = "user"], script' = [script EXCEPT ![p] = z], UNCHANGED <<todo, cont>>,
         c' = [c EXCEPT ![p] = x], Ready("user", x, "user"), cwd' = [cwd EXCEPT ![p] = d],
         FilesOK', Shape(fs'),
         \A s \in Slots :
           fs'.itab[s].ref = fs.itab[s].ref + Num(d = s) - Refs(pc[p], c[p], Call(p).op, cwd[p], s)
                             + (Cardinality(Opens(s)') - Cardinality(Opens(s))),
         \A s \in Slots : fs'.itab[s].lock = IF s \in Locks(pc[p], c[p]) THEN None ELSE fs.itab[s].lock
  PROVE  RefInv'
<1>1. VarsOK /\ todo[p] = <<>>
  BY Here DEF RefInv
<1>2. /\ pc' = [q \in Procs |-> pc'[q]] /\ cont' = [q \in Procs |-> cont'[q]] /\ todo' \in [Procs -> Seq(Slots)]
      /\ script' \in [Procs -> Seq(SysCalls)] /\ pc'[p] = "user" /\ todo'[p] = <<>>
      /\ \A q \in Procs : q # p =>
           pc'[q] = pc[q] /\ cont'[q] = cont[q] /\ todo'[q] = todo[q] /\ script'[q] = script[q]
  BY <1>1 DEF VarsOK
<1>3. Label(p)' = "user" /\ pc'[p] \notin PutLabels
  BY <1>2 DEF Label, PutLabels
<1>a. Arrived(p, "user", <<>>)
  <2>1. Len(<<>>) <= 2 /\ pc'[p] \notin {"put_free", "put_unlock"}
    BY <1>2
  <2> QED BY <1>2, <1>3, <2>1 DEF Arrived
<1>4. Ready("user", x, Head(script'[p]).op) /\ Locks("user", x) = {}
  BY DEF Ready, HasOld, Ahead, Locks
<1>b. LocksBy(p, "user", x)
  BY <1>4 DEF LocksBy
<1>5. \A s \in Slots : Refs("user", x, Head(script'[p]).op, d, s) = Num(d = s) /\ Occ(<<>>, s) = 0
  BY DEF Refs, HasOld, Num, Occ
<1>6. RefsBy(p, "user", <<>>, x, d, Head(script'[p]).op)
  <2> SUFFICES ASSUME NEW s \in Slots
      PROVE  fs'.itab[s].ref = fs.itab[s].ref + Refs("user", x, Head(script'[p]).op, d, s) + Occ(<<>>, s)
                               - Refs(pc[p], c[p], Call(p).op, cwd[p], s)
                               + (Cardinality(Opens(s)') - Cardinality(Opens(s)))
    BY DEF RefsBy
  <2>1. fs'.itab[s].ref = fs.itab[s].ref + Num(d = s) - Refs(pc[p], c[p], Call(p).op, cwd[p], s)
                          + (Cardinality(Opens(s)') - Cardinality(Opens(s)))
    OBVIOUS
  <2>2. Num(d = s) \in Nat /\ fs.itab[s].ref \in Nat
    BY Here DEF Num
  <2>3. Refs("user", x, Head(script'[p]).op, d, s) = Num(d = s) /\ Occ(<<>>, s) = 0
    BY <1>5
  <2>4. /\ Refs("user", x, Head(script'[p]).op, d, s) \in Nat /\ Refs(pc[p], c[p], Call(p).op, cwd[p], s) \in Nat
        /\ Cardinality(Opens(s)') \in Nat /\ Cardinality(Opens(s)) \in Nat
    BY CntNat, OpensNat
  <2> QED BY <2>1, <2>2, <2>3, <2>4
<1> QED BY <1>a, <1>b, <1>4, <1>6, Moves

(* The counts of the sequences that are put.                                *)
LEMMA OccOf ==
  /\ \A s : Occ(<<>>, s) = 0
  /\ \A a, s : Occ(<<a>>, s) = Num(a = s)
  /\ \A a, b, s : Occ(<<a, b>>, s) = Num(a = s) + Num(b = s)
BY DEF Occ, Num

(* The references of a call, label by label.                                *)
LEMMA RefsAt ==
  \A x, op, d, s :
    /\ \A l \in {"user", "ok", "fail"} : Refs(l, x, op, d, s) = Num(d = s)
    /\ Refs("namex", x, op, d, s) = Num(d = s) + Num(x.ip = s) + Num(x.next = "link_dp" /\ x.old = s)
    /\ \A l \in {"open", "link", "chdir", "exists", "made", "unlink_end"} :
         Refs(l, x, op, d, s) = Num(d = s) + Num(x.ip = s)
    /\ \A l \in {"create", "unlink", "ialloc"} : Refs(l, x, op, d, s) = Num(d = s) + Num(x.dp = s)
    /\ \A l \in {"fill", "unlink_ip"} : Refs(l, x, op, d, s) = Num(d = s) + Num(x.dp = s) + Num(x.ip = s)
    /\ Refs("undo", x, op, d, s) = Num(d = s) + Num(x.dp = s) + Num(op = "link" /\ x.old = s)
    /\ \A l \in {"link_new", "link_bad"} : Refs(l, x, op, d, s) = Num(d = s) + Num(x.old = s)
    /\ Refs("link_dp", x, op, d, s) = Num(d = s) + Num(x.dp = s) + Num(x.old = s)
    /\ Refs("chdir_end", x, op, d, s) = Num(x.ip = s)
    /\ Refs("zombie", x, op, d, s) = 0
BY DEF Refs, HasOld, Num

(* The locks of a call, label by label.                                     *)
LEMMA LocksAt ==
  \A x :
    /\ \A l \in {"user", "ok", "fail", "namex", "open", "link", "chdir", "exists", "create", "unlink",
                  "link_new", "link_dp", "link_bad", "chdir_end", "zombie"} : Locks(l, x) = {}
    /\ \A l \in {"ialloc", "fill", "undo", "unlink_ip"} : Locks(l, x) = {s \in Slots : x.dp = s}
    /\ \A l \in {"made", "unlink_end"} : Locks(l, x) = {s \in Slots : x.ip = s}
BY DEF Locks

(* A call that has none of the variables of the labels where it is.         *)
LEMMA ReadyAt ==
  ASSUME NEW l, NEW x, NEW op, Ready(l, x, op)
  PROVE  \A o : Ready("user", x, o) /\ Ready("ok", x, o) /\ Ready("fail", x, o) /\ Ready("zombie", x, o)
BY DEF Ready, HasOld, Ahead, PutLabels

(* Nothing is said of a slot None.                                          *)
LEMMA NoneSlot == \A s \in Slots : s # None
BY DEF Slots, None

(* What a step of p does to the references and the locks: one reference     *)
(* more to slot g, the lock of slot s taken, that of slot d let go; None    *)
(* where there is none.                                                     *)
Effect(p, v, w, g, s, d) ==
  /\ Shape(w)
  /\ \A t \in Slots :
       /\ w.itab[t].ref = v.itab[t].ref + Num(t = g)
       /\ w.itab[t].lock = IF t = d THEN None ELSE IF t = s THEN p ELSE v.itab[t].lock

(* What is written to an inode besides has no effect on references or       *)
(* locks.                                                                   *)
LEMMA WroteEffect ==
  ASSUME NEW p, NEW v, NEW w, NEW x, NEW g, NEW s, NEW d, NEW a,
         Effect(p, v, w, g, s, d), Wrote(w, x, a)
  PROVE  Effect(p, v, x, g, s, d)
BY DEF Effect, Wrote, SameSlot

(* iunlock() after that.                                                    *)
LEMMA IunlockEffect ==
  ASSUME NEW p, NEW v, NEW w, NEW g, NEW s, NEW a, Effect(p, v, w, g, s, None)
  PROVE  Effect(p, v, Iunlock(w, a), g, s, a)
<1>1. Took(w, Iunlock(w, a), a, None)
  BY IunlockTook DEF Effect
<1> QED BY <1>1, NoneSlot DEF Effect, Took

(* ilock(), and a lock that is taken and let go.                            *)
LEMMA IlockEffect ==
  ASSUME NEW p, NEW v, NEW s, Shape(v), \A t \in Slots : v.itab[t].ref \in Nat
  PROVE  Effect(p, v, Ilock(v, s, p), None, s, None)
<1>1. Took(v, Ilock(v, s, p), s, p)
  BY IlockTook
<1> QED BY <1>1, NoneSlot DEF Effect, Took, Num

(* A lock that is free and is taken and let go in one step is as it was.    *)
LEMMA VisitEffect ==
  ASSUME NEW p, NEW v, NEW w, NEW g, NEW s, v.itab[s].lock = None, Effect(p, v, w, g, s, s)
  PROVE  Effect(p, v, w, g, None, None)
BY NoneSlot DEF Effect

(* iget() after that.                                                       *)
LEMMA IgetEffect ==
  ASSUME NEW p, NEW v, NEW w, NEW s, NEW i, Effect(p, v, w, None, s, None),
         \A t \in Slots : v.itab[t].ref \in Nat, ~Iget(w, i).fs.panic
  PROVE  Effect(p, v, Iget(w, i).fs, Iget(w, i).s, s, None) /\ Iget(w, i).s \in Slots
<1>1. \A t \in Slots : w.itab[t].ref \in Nat /\ w.itab[t].ref = v.itab[t].ref
  BY NoneSlot DEF Effect, Num
<1>2. Counted(w, Iget(w, i).fs, Iget(w, i).s)
  BY <1>1, IgetCounted DEF Effect
<1> QED BY <1>1, <1>2, NoneSlot DEF Effect, Counted, Num

(* iget() keeps the shape of the state, when it panics too.                 *)
LEMMA IgetShape ==
  ASSUME NEW v, NEW i, Shape(v)
  PROVE  Shape(Iget(v, i).fs)
<1> DEFINE have == {s \in Slots : v.itab[s].ref > 0 /\ v.itab[s].inum = i}
           empty == {s \in Slots : v.itab[s].ref = 0}
<1>0. Slots \in SUBSET Nat /\ have \in SUBSET Nat /\ empty \in SUBSET Nat
  BY FsAssumption DEF Slots
<1>1. CASE have # {}
  <2> DEFINE s == Min(have)
             n == v.itab[s]
             m == [n EXCEPT !.ref = n.ref + 1]
  <2>1. Iget(v, i).fs = [v EXCEPT !.itab[s] = m]
    BY <1>1 DEF Iget
  <2>2. SlotShape(n)
    BY <1>0, <1>1, Least DEF Shape
  <2> HIDE DEF s, n
  <2>3. SlotShape(m)
    BY <2>2 DEF SlotShape
  <2> HIDE DEF m
  <2> QED BY <2>1, <2>3, SlotPut
<1>2. CASE have = {} /\ empty # {}
  <2> DEFINE s == Min(empty)
             n == v.itab[s]
             m == [n EXCEPT !.inum = i, !.ref = 1, !.valid = FALSE]
  <2>1. Iget(v, i).fs = [v EXCEPT !.itab[s] = m]
    BY <1>2 DEF Iget
  <2>2. SlotShape(n)
    BY <1>0, <1>2, Least DEF Shape
  <2> HIDE DEF s, n
  <2>3. SlotShape(m)
    BY <2>2, NewSlot
  <2> HIDE DEF m
  <2> QED BY <2>1, <2>3, SlotPut
<1>3. CASE have = {} /\ empty = {}
  <2>1. Iget(v, i).fs = [v EXCEPT !.panic = TRUE]
    BY <1>3 DEF Iget
  <2> QED BY <2>1, PanicShape
<1> QED BY <1>1, <1>2, <1>3

(* The references and the locks that p has after the step are those it had, *)
(* with what the step gives it and without what it takes.                   *)
Balance(p, l, x, t, g, s, d) ==
  /\ s = None \/ Unlocked(s)
  /\ d \in Locks(pc[p], c[p]) \cup {None}
  /\ \A u \in Slots : /\ Refs(l, x, Call(p).op, cwd[p], u) + Occ(t, u)
                         = Refs(pc[p], c[p], Call(p).op, cwd[p], u) + Num(u = g)
                      /\ u \in Locks(l, x) <=> (u = s \/ u \in Locks(pc[p], c[p])) /\ u # d

(* A step inside a call, by its effect on the references and the locks.     *)
LEMMA Act ==
  ASSUME NEW p \in Procs, RefInv, pc[p] \notin PutLabels, script[p] # <<>>,
         NEW l, NEW t, Goes(p, l, t), l \notin {"unborn", "zombie"},
         NEW x, c' = [c EXCEPT ![p] = x], Ready(l, x, Call(p).op), UNCHANGED userVars,
         NEW g, NEW s, NEW d, Effect(p, fs, fs', g, s, d), Balance(p, l, x, t, g, s, d)
  PROVE  RefInv'
<1>1. RefsTo(p, l, t, x)
  <2> SUFFICES ASSUME NEW u \in Slots
               PROVE  fs'.itab[u].ref = fs.itab[u].ref + Refs(l, x, Call(p).op, cwd[p], u) + Occ(t, u)
                                        - Refs(pc[p], c[p], Call(p).op, cwd[p], u)
    BY DEF RefsTo
  <2>1. fs'.itab[u].ref = fs.itab[u].ref + Num(u = g)
    BY DEF Effect
  <2>2. /\ Refs(l, x, Call(p).op, cwd[p], u) \in Nat /\ Refs(pc[p], c[p], Call(p).op, cwd[p], u) \in Nat
        /\ Occ(t, u) \in Nat /\ fs.itab[u].ref \in Nat /\ Num(u = g) \in Nat
    BY CntNat, Here DEF Num
  <2>3. Refs(l, x, Call(p).op, cwd[p], u) + Occ(t, u) = Refs(pc[p], c[p], Call(p).op, cwd[p], u) + Num(u = g)
    BY DEF Balance
  <2> QED BY <2>1, <2>2, <2>3
<1>2. LocksBy(p, l, x)
  <2> SUFFICES ASSUME NEW u \in Slots
               PROVE  IF u \in Locks(l, x) THEN fs'.itab[u].lock = p /\ fs.itab[u].lock \in {p, None}
                      ELSE fs'.itab[u].lock = IF u \in Locks(pc[p], c[p]) THEN None ELSE fs.itab[u].lock
    BY DEF LocksBy
  <2>1. fs'.itab[u].lock = IF u = d THEN None ELSE IF u = s THEN p ELSE fs.itab[u].lock
    BY DEF Effect
  <2>2. (u \in Locks(l, x) <=> (u = s \/ u \in Locks(pc[p], c[p])) /\ u # d) /\ u # None
    BY NoneSlot DEF Balance
  <2>3. fs.itab[u].lock = p <=> u \in Locks(pc[p], c[p])
    BY Here
  <2>4. (s = None \/ Unlocked(s)) /\ d \in Locks(pc[p], c[p]) \cup {None}
    BY DEF Balance
  <2> QED BY <2>1, <2>2, <2>3, <2>4 DEF Unlocked
<1>3. Shape(fs')
  BY DEF Effect
<1> QED BY <1>1, <1>2, <1>3, Turn

(* A step that leaves the inode table alone.                                *)
LEMMA NoEffect ==
  ASSUME NEW p, NEW v, Shape(v), \A t \in Slots : v.itab[t].ref \in Nat
  PROVE  Effect(p, v, v, None, None, None)
BY NoneSlot DEF Effect, Num

(* After a panic nothing happens, and it was inside a call.                 *)
Stopped == fs.panic /\ ~Quiet

(* A panic in a step that does not end the call leaves the kernel stopped   *)
(* in the middle of one.                                                    *)
LEMMA StoppedAt ==
  ASSUME NEW p \in Procs, VarsOK, NEW l, NEW t, Goes(p, l, t),
         t # <<>> \/ l \notin {"user", "unborn", "zombie"}, fs'.panic
  PROVE  Stopped'
<1>1. pc'[p] \notin {"user", "unborn", "zombie"}
  BY DEF Goes, Go, Puts, VarsOK
<1> QED BY <1>1 DEF Stopped, Quiet

(* ilock() of a free lock and iunlock().                                    *)
LEMMA IlockVisit ==
  ASSUME NEW p, NEW s, Shape(fs), \A t \in Slots : fs.itab[t].ref \in Nat, Unlocked(s)
  PROVE  Effect(p, fs, Iunlock(Ilock(fs, s, p), s), None, None, None)
BY IlockEffect, IunlockEffect, VisitEffect DEF Unlocked

(* idup().                                                                  *)
LEMMA IdupEffect ==
  ASSUME NEW p, NEW v, NEW s \in Slots, Shape(v), \A t \in Slots : v.itab[t].ref \in Nat
  PROVE  Effect(p, v, Idup(v, s), s, None, None)
BY IdupCounted, NoneSlot DEF Effect, Counted, Num

Walk(y, i, par, l, r) == [y EXCEPT !.ip = i, !.dp = None, !.par = par, !.next = l, !.rest = r]

(* The variables of a walk that begins.                                     *)
LEMMA WalkLocals ==
  ASSUME NEW y, Locals(y), NEW i, NEW par, NEW l, NEW r, NEW x, x = Walk(y, i, par, l, r)
  PROVE  Locals(x) /\ x.ip = i /\ x.dp = None /\ x.par = par /\ x.next = l /\ x.old = y.old
<1> DEFINE a == [y EXCEPT !.ip = i]
           b == [a EXCEPT !.dp = None]
           d == [b EXCEPT !.par = par]
           e == [d EXCEPT !.next = l]
           f == [e EXCEPT !.rest = r]
<1>1. Locals(a) /\ a.ip = i /\ a.old = y.old
  BY DEF Locals
<1> HIDE DEF a
<1>2. Locals(b) /\ b.ip = i /\ b.old = y.old /\ b.dp = None
  BY <1>1 DEF Locals
<1> HIDE DEF b
<1>3. Locals(d) /\ d.ip = i /\ d.old = y.old /\ d.dp = None /\ d.par = par
  <2>1. \A z : Locals([b EXCEPT !.par = z])
    BY <1>2 DEF Locals
  <2>2. d.par = par /\ d.ip = b.ip /\ d.old = b.old /\ d.dp = b.dp
    BY <1>2 DEF Locals
  <2> QED BY <1>2, <2>1, <2>2
<1> HIDE DEF d
<1>4. Locals(e) /\ e.ip = i /\ e.old = y.old /\ e.dp = None /\ e.par = par /\ e.next = l
  BY <1>3 DEF Locals
<1> HIDE DEF e
<1>5. Locals(f) /\ f.ip = i /\ f.old = y.old /\ f.dp = None /\ f.par = par /\ f.next = l
  BY <1>4 DEF Locals
<1> HIDE DEF f
<1>6. x = f
  BY DEF f, e, d, b, a, Walk
<1> QED BY <1>5, <1>6

(* A walk begins.                                                           *)
LEMMA StartNamexKeeps ==
  ASSUME NEW p \in Procs, RefInv, pc[p] \in {"user", "link_new"}, script[p] # <<>>,
         NEW path, NEW par \in BOOLEAN, NEW l, StartNamex(p, path, par, l),
         \/ par /\ l \in {"create", "unlink", "link_dp"}
         \/ ~par /\ l \in {"open", "link", "chdir"},
         l \in {"create", "unlink"} => Call(p).op # "link",
         l \in {"link", "link_dp"} => Call(p).op = "link",
         l = "link_dp" <=> pc[p] = "link_new"
  PROVE  RefInv' \/ Stopped'
<1> DEFINE abs == path # <<>> /\ Head(path) = "/"
           g == IF abs THEN Iget(fs, Root) ELSE [fs |-> Idup(fs, cwd[p]), s |-> cwd[p]]
           i == g.s
           r == IF abs THEN Tail(path) ELSE path
           x == [c[p] EXCEPT !.ip = i, !.dp = None, !.par = par, !.next = l, !.rest = r]
<1>1. pc[p] \notin PutLabels /\ VarsOK
  BY DEF PutLabels, RefInv
<1>2. /\ Ready(pc[p], c[p], Call(p).op) /\ cwd[p] \in Slots
      /\ Shape(fs) /\ \A t \in Slots : fs.itab[t].ref \in Nat
  BY <1>1, Here
<1>3. fs' = g.fs /\ c' = [c EXCEPT ![p] = x] /\ Goes(p, "namex", <<>>) /\ UNCHANGED userVars
  BY DEF StartNamex, Goes
<1>4. CASE fs'.panic
  BY <1>1, <1>3, <1>4, StoppedAt
<1>5. CASE ~fs'.panic
  <2>1. Effect(p, fs, fs', i, None, None) /\ i \in Slots
    <3>1. CASE abs
      <4>1. g = Iget(fs, Root) /\ ~Iget(fs, Root).fs.panic
        BY <1>3, <1>5, <3>1
      <4> QED BY <1>2, <1>3, <4>1, NoEffect, IgetEffect
    <3>2. CASE ~abs
      BY <1>2, <1>3, <3>2, IdupEffect
    <3> QED BY <3>1, <3>2
  <2> HIDE DEF i, r
  <2>a. x = Walk(c[p], i, par, l, r) /\ Locals(c[p])
    BY <1>2 DEF Ready, Walk
  <2> HIDE DEF x
  <2>2. x.ip = i /\ x.dp = None /\ x.par = par /\ x.next = l /\ x.old = c[p].old /\ Locals(x)
    BY <2>a, WalkLocals
  <2>3. Ready("namex", x, Call(p).op)
    BY <1>2, <2>1, <2>2 DEF Ready, HasOld, Ahead, PutLabels
  <2>4. Balance(p, "namex", x, <<>>, i, None, None)
    BY <2>1, <2>2, RefsAt, LocksAt, OccOf, NoneSlot DEF Balance, Num
  <2> QED BY <1>1, <1>3, <2>1, <2>3, <2>4, Act
<1> QED BY <1>4, <1>5

(* sys_open(), sys_unlink(), sys_link(), sys_chdir(), sys_mkdir(),          *)
(* sys_mknod(): the walk along the path begins.                             *)
LEMMA SysPathKeeps ==
  ASSUME NEW p \in Procs, RefInv, SysPath(p)
  PROVE  RefInv' \/ Stopped'
<1> DEFINE k == Call(p)
           l == IF k.op = "open" /\ "CREATE" \notin k.mode THEN "open"
                ELSE IF k.op \in {"open", "mkdir", "mknod"} THEN "create" ELSE k.op
<1>1. /\ pc[p] = "user" /\ script[p] # <<>> /\ k.op \in {"open", "mkdir", "mknod", "unlink", "link", "chdir"}
      /\ StartNamex(p, k.path, Parental(k), l)
  BY DEF SysPath, Calls, At, Call
<1>2. /\ \/ Parental(k) /\ l \in {"create", "unlink", "link_dp"}
         \/ ~Parental(k) /\ l \in {"open", "link", "chdir"}
      /\ l \in {"create", "unlink"} => k.op # "link"
      /\ l \in {"link", "link_dp"} => k.op = "link"
      /\ l # "link_dp" /\ Parental(k) \in BOOLEAN
  BY <1>1 DEF Parental
<1>3. l = "link_dp" <=> pc[p] = "link_new"
  BY <1>1, <1>2
<1> HIDE DEF l, k
<1> QED BY <1>1, <1>2, <1>3, StartNamexKeeps DEF k

(* sys_link(): the walk along the new path begins.                          *)
LEMMA LinkNewKeeps ==
  ASSUME NEW p \in Procs, RefInv, LinkNew(p)
  PROVE  RefInv' \/ Stopped'
<1>1. pc[p] = "link_new" /\ pc[p] \notin PutLabels /\ StartNamex(p, Call(p).new, TRUE, "link_dp")
  BY DEF LinkNew, At, PutLabels
<1>2. Call(p).op = "link" /\ script[p] # <<>>
  BY <1>1, Here DEF Ready, Ahead
<1> QED BY <1>1, <1>2, StartNamexKeeps

(* An inode is locked and iget() finds the inode of one of its entries; the *)
(* lock is kept, or let go.                                                 *)
LEMMA VisitGet ==
  ASSUME NEW p, NEW s, NEW i, Shape(fs), \A t \in Slots : fs.itab[t].ref \in Nat, Unlocked(s),
         NEW g, g = Iget(Ilock(fs, s, p), i)
  PROVE  /\ ~g.fs.panic => Effect(p, fs, g.fs, g.s, s, None) /\ g.s \in Slots
         /\ ~Iunlock(g.fs, s).panic => Effect(p, fs, Iunlock(g.fs, s), g.s, None, None) /\ g.s \in Slots
<1>1. Effect(p, fs, Ilock(fs, s, p), None, s, None)
  BY IlockEffect
<1>2. ~g.fs.panic => Effect(p, fs, g.fs, g.s, s, None) /\ g.s \in Slots
  BY <1>1, IgetEffect
<1>3. Iunlock(g.fs, s).panic = g.fs.panic
  BY <1>1, IgetShape, IunlockTook DEF Effect
<1> QED BY <1>2, <1>3, IunlockEffect, VisitEffect DEF Unlocked

Parent(y, s, name) == [y EXCEPT !.dp = s, !.ip = None, !.name = name]
Onward(y, i, r) == [y EXCEPT !.ip = i, !.rest = r]

(* The variables when nameiparent() ends.                                   *)
LEMMA ParentLocals ==
  ASSUME NEW y, Locals(y), NEW s, NEW name, NEW x, x = Parent(y, s, name)
  PROVE  Locals(x) /\ x.ip = None /\ x.dp = s /\ x.par = y.par /\ x.next = y.next /\ x.old = y.old
BY DEF Locals, Parent

(* The variables when the walk goes on.                                     *)
LEMMA OnwardLocals ==
  ASSUME NEW y, Locals(y), NEW i, NEW r, NEW x, x = Onward(y, i, r)
  PROVE  Locals(x) /\ x.ip = i /\ x.dp = y.dp /\ x.par = y.par /\ x.next = y.next /\ x.old = y.old
BY DEF Locals, Onward

(* The variables when ip is set.                                            *)
LEMMA IpLocals ==
  ASSUME NEW y, Locals(y), NEW i, NEW x, x = [y EXCEPT !.ip = i]
  PROVE  Locals(x) /\ x.ip = i /\ x.dp = y.dp /\ x.par = y.par /\ x.next = y.next /\ x.old = y.old
BY DEF Locals

(* namex(), one element of the path: the new reference comes before the old *)
(* one goes.                                                                *)
LEMMA NamexKeeps ==
  ASSUME NEW p \in Procs, RefInv, Namex(p)
  PROVE  RefInv' \/ Stopped'
<1> DEFINE y == c[p]
           s == c[p].ip
           l == c[p].next
           v == Ilock(fs, s, p)
           name == Head(c[p].rest)
           ents == Lookup(v, s, name)
           last == c[p].par /\ Len(c[p].rest) = 1
           g == Iget(v, UnitAt(v, v.itab[s], Min(ents)).inum)
<1>1. pc[p] = "namex" /\ pc[p] \notin PutLabels /\ UNCHANGED userVars /\ Unlocked(s) /\ VarsOK
  BY DEF Namex, At, PutLabels, RefInv
<1>2. /\ Ready("namex", c[p], Call(p).op) /\ script[p] # <<>> /\ Shape(fs)
      /\ \A t \in Slots : fs.itab[t].ref \in Nat
  BY <1>1, Here
<1>3. /\ Locals(y) /\ s \in Slots /\ y.dp = None
      /\ \/ y.par /\ l \in {"create", "unlink", "link_dp"}
         \/ ~y.par /\ l \in {"open", "link", "chdir"}
  <2>1. Locals(c[p]) /\ c[p].ip \in Slots /\ c[p].dp = None
    BY <1>2 DEF Ready
  <2>2. \/ c[p].par /\ c[p].next \in {"create", "unlink", "link_dp"}
        \/ ~c[p].par /\ c[p].next \in {"open", "link", "chdir"}
    BY <1>2 DEF Ready
  <2> QED BY <2>1, <2>2
<1>4. CASE /\ last /\ fs' = Iunlock(v, s)
           /\ c' = [c EXCEPT ![p] = [@ EXCEPT !.dp = s, !.ip = None, !.name = name]] /\ Go(p, l)
  <2> DEFINE x == Parent(y, s, name)
  <2>1. Goes(p, l, <<>>) /\ c' = [c EXCEPT ![p] = x] /\ Effect(p, fs, fs', None, None, None)
    BY <1>1, <1>2, <1>4, IlockVisit DEF Goes, Parent
  <2> HIDE DEF x
  <2>2. Locals(x) /\ x.ip = None /\ x.dp = s /\ x.par = y.par /\ x.next = y.next /\ x.old = y.old
    BY <1>3, ParentLocals DEF x
  <2>3. Ready(l, x, Call(p).op)
    BY <1>2, <1>3, <1>4, <2>2 DEF Ready, HasOld, Ahead, PutLabels
  <2>4. Balance(p, l, x, <<>>, None, None, None)
    BY <1>1, <1>3, <1>4, <2>2, RefsAt, LocksAt, OccOf, NoneSlot DEF Balance, Num
  <2> HIDE DEF l
  <2> QED BY <1>1, <1>2, <1>3, <2>1, <2>3, <2>4, Act
<1>5. CASE fs' = Iunlock(v, s) /\ c' = [c EXCEPT ![p].ip = None] /\ Puts(p, <<s>>, l)
  <2> DEFINE x == [y EXCEPT !.ip = None]
  <2>1. Goes(p, l, <<s>>) /\ c' = [c EXCEPT ![p] = x] /\ Effect(p, fs, fs', None, None, None)
    BY <1>1, <1>2, <1>3, <1>5, IlockVisit DEF Goes
  <2> HIDE DEF x
  <2>2. Locals(x) /\ x.ip = None /\ x.dp = None /\ x.par = y.par /\ x.next = y.next /\ x.old = y.old
    BY <1>3, IpLocals DEF x
  <2>3. Ready(l, x, Call(p).op)
    BY <1>2, <1>3, <2>2 DEF Ready, HasOld, Ahead, PutLabels
  <2>4. Balance(p, l, x, <<s>>, None, None, None)
    BY <1>1, <1>3, <2>2, RefsAt, LocksAt, OccOf, NoneSlot DEF Balance, Num
  <2> HIDE DEF l
  <2> QED BY <1>1, <1>2, <1>3, <2>1, <2>3, <2>4, Act
<1>6. CASE /\ fs' = LetGo(g.fs, s) /\ Puts(p, <<s>>, "namex")
           /\ c' = [c EXCEPT ![p] = [@ EXCEPT !.ip = g.s, !.rest = Tail(c[p].rest)]]
  <2> DEFINE x == Onward(y, g.s, Tail(y.rest))
  <2>1. Goes(p, "namex", <<s>>) /\ c' = [c EXCEPT ![p] = x] /\ fs' = Iunlock(g.fs, s)
    <3> HIDE DEF g, v, name, ents
    <3>1. Goes(p, "namex", <<s>>) /\ fs' = Iunlock(g.fs, s)
      BY <1>3, <1>6 DEF Goes, LetGo
    <3>2. c' = [c EXCEPT ![p] = x]
      BY <1>6 DEF Onward
    <3> QED BY <3>1, <3>2
  <2>2. CASE fs'.panic
    BY <1>1, <2>1, <2>2, StoppedAt
  <2>3. CASE ~fs'.panic
    <3> DEFINE i == g.s
    <3>1. Effect(p, fs, fs', i, None, None) /\ i \in Slots
      BY <1>1, <1>2, <2>1, <2>3, VisitGet
    <3> HIDE DEF x, i
    <3>2. Locals(x) /\ x.ip = i /\ x.dp = None /\ x.par = y.par /\ x.next = y.next /\ x.old = y.old
      <4> DEFINE r == Tail(y.rest)
      <4> HIDE DEF r, y
      <4>1. x = Onward(y, i, r)
        BY DEF x, i, r
      <4> QED BY <1>3, <4>1, OnwardLocals
    <3>3. Ready("namex", x, Call(p).op)
      BY <1>2, <1>3, <3>1, <3>2 DEF Ready, HasOld, Ahead, PutLabels
    <3>4. Balance(p, "namex", x, <<s>>, i, None, None)
      BY <1>1, <1>3, <3>1, <3>2, RefsAt, LocksAt, OccOf, NoneSlot DEF Balance, Num
    <3> QED BY <1>1, <1>2, <2>1, <3>1, <3>3, <3>4, Act
  <2> QED BY <2>2, <2>3
<1>7. \/ /\ last /\ fs' = Iunlock(v, s)
         /\ c' = [c EXCEPT ![p] = [@ EXCEPT !.dp = s, !.ip = None, !.name = name]] /\ Go(p, l)
      \/ fs' = Iunlock(v, s) /\ c' = [c EXCEPT ![p].ip = None] /\ Puts(p, <<s>>, l)
      \/ /\ fs' = LetGo(g.fs, s) /\ Puts(p, <<s>>, "namex")
         /\ c' = [c EXCEPT ![p] = [@ EXCEPT !.ip = g.s, !.rest = Tail(c[p].rest)]]
  BY DEF Namex
<1> HIDE DEF v, g, last, name
<1> QED BY <1>4, <1>5, <1>6, <1>7

(* namex() at the end of the path.                                          *)
LEMMA NamexEndKeeps ==
  ASSUME NEW p \in Procs, RefInv, NamexEnd(p)
  PROVE  RefInv'
<1> DEFINE s == c[p].ip
           x == [c[p] EXCEPT !.ip = None]
           l == c[p].next
<1>1. pc[p] = "namex" /\ pc[p] \notin PutLabels /\ fs' = fs /\ UNCHANGED userVars
  BY DEF NamexEnd, At, PutLabels
<1>2. Ready("namex", c[p], Call(p).op) /\ script[p] # <<>> /\ Effect(p, fs, fs', None, None, None)
  BY <1>1, Here, NoEffect
<1>3. CASE c[p].par
  <2>1. s \in Slots /\ l \in {"create", "unlink", "link_dp"} /\ c[p].dp = None
    BY <1>2, <1>3 DEF Ready
  <2>2. Goes(p, l, <<s>>) /\ c' = [c EXCEPT ![p] = x]
    BY <1>3, <2>1 DEF NamexEnd, Goes
  <2>3. x.ip = None /\ x.dp = None /\ x.old = c[p].old /\ Ready(l, x, Call(p).op)
    BY <1>2, <2>1 DEF Ready, Locals, HasOld, Ahead, PutLabels
  <2> HIDE DEF x
  <2>4. Balance(p, l, x, <<s>>, None, None, None)
    BY <1>1, <2>1, <2>3, RefsAt, LocksAt, OccOf, NoneSlot DEF Balance, Num
  <2> HIDE DEF l
  <2> QED BY <1>1, <1>2, <2>1, <2>2, <2>3, <2>4, Act
<1>4. CASE ~c[p].par
  <2>1. s \in Slots /\ l \in {"open", "link", "chdir"}
    BY <1>2, <1>4 DEF Ready
  <2>2. Goes(p, l, <<>>) /\ c' = [c EXCEPT ![p] = c[p]]
    BY <1>4, <2>1 DEF NamexEnd, Goes, RefInv, VarsOK
  <2>3. Ready(l, c[p], Call(p).op)
    BY <1>2, <2>1 DEF Ready, HasOld, Ahead, PutLabels
  <2>4. Balance(p, l, c[p], <<>>, None, None, None)
    BY <1>1, <2>1, RefsAt, LocksAt, OccOf, NoneSlot DEF Balance, Num
  <2> HIDE DEF l
  <2> QED BY <1>1, <1>2, <2>1, <2>2, <2>3, <2>4, Act
<1> QED BY <1>3, <1>4

(* A path that leads nowhere: the call fails, without a reference.          *)
LEMMA NotFoundKeeps ==
  ASSUME NEW p \in Procs, RefInv, NotFound(p)
  PROVE  RefInv'
<1> DEFINE l == pc[p]
<1>1. /\ \/ l \in {"open", "link", "chdir"} /\ c[p].ip = None
         \/ l \in {"create", "unlink"} /\ c[p].dp = None
      /\ l \notin PutLabels /\ UNCHANGED userVars /\ fs' = fs /\ Goes(p, "fail", <<>>)
      /\ c' = [c EXCEPT ![p] = c[p]]
  BY DEF NotFound, At, PutLabels, Goes, RefInv, VarsOK
<1>2. Ready(l, c[p], Call(p).op) /\ script[p] # <<>> /\ Effect(p, fs, fs', None, None, None)
  BY <1>1, Here, NoEffect
<1>3. Ready("fail", c[p], Call(p).op)
  BY <1>2, ReadyAt
<1>4. Balance(p, "fail", c[p], <<>>, None, None, None)
  BY <1>1, RefsAt, LocksAt, OccOf, NoneSlot DEF Balance, Num
<1> HIDE DEF l
<1> QED BY <1>1, <1>2, <1>3, <1>4, Act DEF l

(* A step back to the program, by its effect.                               *)
Leaves(p, z, x, d, a) ==
  /\ pc[p] \notin PutLabels /\ z \in Seq(SysCalls) /\ Locals(x) /\ d \in Slots
  /\ pc' = [pc EXCEPT ![p] = "user"] /\ script' = [script EXCEPT ![p] = z] /\ UNCHANGED <<todo, cont>>
  /\ c' = [c EXCEPT ![p] = x] /\ cwd' = [cwd EXCEPT ![p] = d]
  /\ Effect(p, fs, fs', None, None, a) /\ a \in Locks(pc[p], c[p]) \cup {None} /\ Locks(pc[p], c[p]) \subseteq {a}
  /\ \A u \in Slots : Num(d = u) + (Cardinality(Opens(u)') - Cardinality(Opens(u)))
                      = Refs(pc[p], c[p], Call(p).op, cwd[p], u)

(* Such a step keeps the invariant.                                         *)
LEMMA Leave ==
  ASSUME NEW p \in Procs, RefInv, FilesOK', NEW z, NEW x, NEW d, NEW a, Leaves(p, z, x, d, a)
  PROVE  RefInv'
<1> USE DEF Leaves
<1>1. Ready("user", x, "user") /\ Shape(fs')
  BY DEF Ready, HasOld, Ahead, PutLabels, Effect
<1>2. ASSUME NEW u \in Slots
      PROVE  fs'.itab[u].ref = fs.itab[u].ref + Num(d = u) - Refs(pc[p], c[p], Call(p).op, cwd[p], u)
                               + (Cardinality(Opens(u)') - Cardinality(Opens(u)))
  <2>1. fs'.itab[u].ref = fs.itab[u].ref /\ fs.itab[u].ref \in Nat
    BY Here, NoneSlot DEF Effect, Num
  <2>2. /\ Num(d = u) \in Nat /\ Refs(pc[p], c[p], Call(p).op, cwd[p], u) \in Nat
        /\ Cardinality(Opens(u)') \in Nat /\ Cardinality(Opens(u)) \in Nat
    BY CntNat, OpensNat DEF Num
  <2>3. Num(d = u) + (Cardinality(Opens(u)') - Cardinality(Opens(u))) = Refs(pc[p], c[p], Call(p).op, cwd[p], u)
    OBVIOUS
  <2> QED BY <2>1, <2>2, <2>3
<1>3. \A u \in Slots : fs'.itab[u].lock = IF u \in Locks(pc[p], c[p]) THEN None ELSE fs.itab[u].lock
  BY NoneSlot DEF Effect
<1> QED BY <1>1, <1>2, <1>3, Back

(* Where p is after a call has returned.                                    *)
LEMMA ReturnTo ==
  ASSUME NEW p \in Procs, RefInv, pc[p] \notin PutLabels, script[p] # <<>>, NEW r, Return(p, r)
  PROVE  /\ pc' = [pc EXCEPT ![p] = "user"] /\ UNCHANGED <<todo, cont>>
         /\ script' = [script EXCEPT ![p] = Tail(script[p])] /\ Tail(script[p]) \in Seq(SysCalls)
         /\ VarsOK /\ \A q \in Procs : q # p => Label(q)' = Label(q)
         /\ Label(p)' \notin {"unborn", "zombie"}
<1>1. VarsOK /\ script[p] \in Seq(SysCalls)
  BY Here DEF RefInv
<1>2. pc' = [pc EXCEPT ![p] = "user"] /\ script' = [script EXCEPT ![p] = Tail(script[p])] /\ UNCHANGED <<todo, cont>>
  BY DEF Return
<1>3. \A q \in Procs : q # p => Label(q)' = Label(q)
  BY <1>1, <1>2 DEF VarsOK, Label
<1>4. Label(p)' = "user"
  BY <1>1, <1>2 DEF VarsOK, Label, PutLabels
<1> QED BY <1>1, <1>2, <1>3, <1>4

(* Nothing is opened or closed.                                             *)
LEMMA SameOpens ==
  ASSUME \A s : Opens(s)' = Opens(s)
  PROVE  \A s : Cardinality(Opens(s)') - Cardinality(Opens(s)) = 0
BY OpensNat

(* A call returns.                                                          *)
LEMMA Quits ==
  ASSUME NEW p \in Procs, RefInv, pc[p] \notin PutLabels, script[p] # <<>>, NEW r, Return(p, r),
         UNCHANGED <<c, cwd>>, FilesOK',
         NEW a, Effect(p, fs, fs', None, None, a), a \in Locks(pc[p], c[p]) \cup {None},
         Locks(pc[p], c[p]) \subseteq {a},
         \A u \in Slots : Num(cwd[p] = u) + (Cardinality(Opens(u)') - Cardinality(Opens(u)))
                           = Refs(pc[p], c[p], Call(p).op, cwd[p], u)
  PROVE  RefInv'
<1> DEFINE z == Tail(script[p])
           x == c[p]
           d == cwd[p]
<1>1. Ready(pc[p], c[p], Call(p).op) /\ cwd[p] \in Slots
  BY Here
<1>2. /\ pc' = [pc EXCEPT ![p] = "user"] /\ UNCHANGED <<todo, cont>>
      /\ script' = [script EXCEPT ![p] = z] /\ z \in Seq(SysCalls) /\ VarsOK
  BY ReturnTo
<1>3. Locals(x) /\ c' = [c EXCEPT ![p] = x] /\ cwd' = [cwd EXCEPT ![p] = d] /\ d \in Slots
  BY <1>1, <1>2 DEF Ready, VarsOK
<1>4. \A u \in Slots : Num(d = u) + (Cardinality(Opens(u)') - Cardinality(Opens(u)))
                        = Refs(pc[p], c[p], Call(p).op, cwd[p], u)
  OBVIOUS
<1> HIDE DEF z, x, d
<1>5. Leaves(p, z, x, d, a)
  BY <1>2, <1>3, <1>4 DEF Leaves
<1> QED BY <1>5, Leave

(* end_op() of a call whose slots have been put, and its return.            *)
LEMMA EndOpKeeps ==
  ASSUME NEW p \in Procs, RefInv, EndOp(p)
  PROVE  RefInv'
<1>1. pc[p] \in {"ok", "fail"} /\ pc[p] \notin PutLabels /\ UNCHANGED <<fs, file, ofile, cwd, c>>
  BY DEF EndOp, At, PutLabels, userVars
<1>2. script[p] # <<>> /\ Effect(p, fs, fs', None, None, None)
  BY <1>1, Here, NoEffect
<1>3. PICK r : Return(p, r)
  BY DEF EndOp, At
<1>4. FilesOK' /\ \A s : Opens(s)' = Opens(s)
  BY <1>1, <1>2, <1>3, ReturnTo, FilesSame
<1>5. Locks(pc[p], c[p]) \subseteq {None} /\ None \in Locks(pc[p], c[p]) \cup {None}
  BY <1>1, LocksAt
<1>6. \A u \in Slots : Num(cwd[p] = u) + (Cardinality(Opens(u)') - Cardinality(Opens(u)))
                        = Refs(pc[p], c[p], Call(p).op, cwd[p], u)
  BY <1>1, <1>4, SameOpens, RefsAt DEF Num
<1> QED BY <1>1, <1>2, <1>3, <1>4, <1>5, <1>6, Quits

(* sys_chdir(): the reference of the call becomes that of the current       *)
(* directory.                                                               *)
LEMMA ChdirEndKeeps ==
  ASSUME NEW p \in Procs, RefInv, ChdirEnd(p)
  PROVE  RefInv'
<1> DEFINE z == Tail(script[p])
           x == c[p]
           d == c[p].ip
<1>1. /\ pc[p] = "chdir_end" /\ pc[p] \notin PutLabels /\ UNCHANGED <<fs, file, ofile, c>>
      /\ cwd' = [cwd EXCEPT ![p] = d] /\ Return(p, 0)
  BY DEF ChdirEnd, At, PutLabels
<1>2. Ready(pc[p], c[p], Call(p).op) /\ script[p] # <<>> /\ Effect(p, fs, fs', None, None, None)
  BY <1>1, Here, NoEffect
<1>3. /\ pc' = [pc EXCEPT ![p] = "user"] /\ UNCHANGED <<todo, cont>>
      /\ script' = [script EXCEPT ![p] = z] /\ z \in Seq(SysCalls) /\ VarsOK
  BY <1>1, <1>2, ReturnTo
<1>4. FilesOK' /\ \A s : Opens(s)' = Opens(s)
  BY <1>1, <1>2, ReturnTo, FilesSame
<1>5. Locks(pc[p], c[p]) \subseteq {None} /\ None \in Locks(pc[p], c[p]) \cup {None}
  BY <1>1, LocksAt
<1>6. Locals(x) /\ d \in Slots /\ c' = [c EXCEPT ![p] = x]
  BY <1>1, <1>2, <1>3 DEF Ready, VarsOK
<1>7. \A u \in Slots : Num(d = u) + (Cardinality(Opens(u)') - Cardinality(Opens(u)))
                        = Refs(pc[p], c[p], Call(p).op, cwd[p], u)
  BY <1>1, <1>4, SameOpens, RefsAt DEF Num
<1> HIDE DEF z, x, d
<1>8. Leaves(p, z, x, d, None)
  BY <1>1, <1>2, <1>3, <1>5, <1>6, <1>7 DEF Leaves
<1> QED BY <1>4, <1>8, Leave

(* A program chooses what it does next: no call is under way.               *)
LEMMA AnyCallKeeps ==
  ASSUME NEW p \in Procs, RefInv, AnyCall(p)
  PROVE  RefInv'
<1> DEFINE x == c[p]
           d == cwd[p]
<1>1. pc[p] = "user" /\ pc[p] \notin PutLabels /\ script[p] # <<>> /\ UNCHANGED <<fs, file, ofile, cwd, pc, c, todo, cont>>
  BY DEF AnyCall, Calls, At, PutLabels, userVars
<1>2. /\ Ready(pc[p], c[p], Call(p).op) /\ Effect(p, fs, fs', None, None, None) /\ cwd[p] \in Slots
      /\ script[p] \in Seq(SysCalls) /\ VarsOK
  BY <1>1, Here, NoEffect DEF RefInv
<1>3. PICK z \in Seq(SysCalls) : script' = [script EXCEPT ![p] = z]
  <2> DEFINE m == IF Call(p).n > 1 THEN <<[Call(p) EXCEPT !.n = @ - 1]>> ELSE <<>>
             r == Tail(script[p])
  <2>1. PICK k \in Call(p).calls : script' = [script EXCEPT ![p] = k \o m \o r]
    BY DEF AnyCall
  <2>2. Call(p) \in SysCalls /\ Call(p).op = "any" /\ Tail(script[p]) \in Seq(SysCalls)
    BY <1>1, <1>2 DEF Call, AnyCall, Calls, At
  <2>3. k \in Seq(SysCalls) /\ (Call(p).n > 1 => [Call(p) EXCEPT !.n = @ - 1] \in SysCalls)
    BY <2>2, ScriptsAssumption
  <2>4. m \in Seq(SysCalls) /\ r \in Seq(SysCalls)
    BY <2>2, <2>3
  <2> HIDE DEF m, r
  <2>5. k \o m \o r \in Seq(SysCalls)
    BY <2>3, <2>4
  <2> QED BY <2>1, <2>5
<1>4. \A q \in Procs : Label(q)' = Label(q)
  BY <1>1 DEF Label
<1>5. FilesOK' /\ \A s : Opens(s)' = Opens(s)
  <2>1. Label(p) = "user"
    BY <1>1 DEF Label, PutLabels
  <2> QED BY <1>1, <1>4, <2>1, FilesSame
<1>6. Locks(pc[p], c[p]) \subseteq {None} /\ None \in Locks(pc[p], c[p]) \cup {None}
  BY <1>1, LocksAt
<1>7. /\ Locals(x) /\ d \in Slots /\ c' = [c EXCEPT ![p] = x] /\ cwd' = [cwd EXCEPT ![p] = d]
      /\ pc' = [pc EXCEPT ![p] = "user"]
  BY <1>1, <1>2 DEF Ready, VarsOK
<1>8. \A u \in Slots : Num(d = u) + (Cardinality(Opens(u)') - Cardinality(Opens(u)))
                        = Refs(pc[p], c[p], Call(p).op, cwd[p], u)
  BY <1>1, <1>5, SameOpens, RefsAt DEF Num
<1> HIDE DEF x, d
<1>9. Leaves(p, z, x, d, None)
  BY <1>1, <1>2, <1>3, <1>6, <1>7, <1>8 DEF Leaves
<1> QED BY <1>5, <1>9, Leave

(* The offset of an open file changes.                                      *)
LEMMA FilesOff ==
  ASSUME NEW p \in Procs, RefInv, file' = file, NEW f, NEW o, ofile' = [ofile EXCEPT ![f].off = o],
         \A q \in Procs : q # p => Label(q)' = Label(q), Label(p)' \notin {"unborn", "zombie"}
  PROVE  FilesOK' /\ \A s : Opens(s)' = Opens(s)
<1>1. FilesOK /\ \A g : Fds(g)' = Fds(g)
  BY DEF Fds, RefInv
<1>2. ofile' = [g \in 1 .. NFILE |-> ofile'[g]]
  BY <1>1 DEF FilesOK
<1>3. ASSUME NEW g \in 1 .. NFILE
      PROVE  ofile'[g].ref = ofile[g].ref /\ ofile'[g].ip = ofile[g].ip /\ FileShape(ofile'[g])
  <2>1. FileShape(ofile[g])
    BY <1>1 DEF FilesOK
  <2>2. FileShape([ofile[g] EXCEPT !.off = o])
    BY <2>1 DEF FileShape
  <2>3. ofile'[g] = IF g = f THEN [ofile[g] EXCEPT !.off = o] ELSE ofile[g]
    BY <1>1 DEF FilesOK
  <2> QED BY <2>1, <2>2, <2>3 DEF FileShape
<1>4. FilesOK'
  BY <1>1, <1>2, <1>3 DEF FilesOK
<1> QED BY <1>3, <1>4 DEF Opens

(* fileread(): the reference is that of the open file.                      *)
LEMMA SysReadKeeps ==
  ASSUME NEW p \in Procs, RefInv, SysRead(p)
  PROVE  RefInv'
<1> DEFINE f == Reg(p)
           s == ofile[f].ip
           v == Ilock(fs, s, p)
<1>1. /\ pc[p] = "user" /\ pc[p] \notin PutLabels /\ script[p] # <<>> /\ UNCHANGED <<file, cwd, c>>
      /\ \E r : Return(p, r)
  BY DEF SysRead, Calls, At, PutLabels, userVars
<1>2. PICK r : Return(p, r)
  BY <1>1
<1>3. Shape(fs) /\ (\A t \in Slots : fs.itab[t].ref \in Nat) /\ Effect(p, fs, fs, None, None, None)
  BY <1>1, Here, NoEffect
<1>4. /\ \A q \in Procs : q # p => Label(q)' = Label(q)
      /\ Label(p)' \notin {"unborn", "zombie"}
  BY <1>1, <1>2, ReturnTo
<1>5. Effect(p, fs, fs', None, None, None) /\ FilesOK' /\ \A t : Opens(t)' = Opens(t)
  <2>1. CASE UNCHANGED <<fs, ofile>>
    BY <1>1, <1>3, <1>4, <2>1, FilesSame
  <2>2. CASE Unlocked(s) /\ fs' = Iunlock(v, s) /\ \E k : ofile' = [ofile EXCEPT ![f].off = @ + k]
    <3>1. Effect(p, fs, fs', None, None, None)
      BY <1>3, <2>2, IlockVisit
    <3>2. PICK o : ofile' = [ofile EXCEPT ![f].off = o]
      BY <2>2
    <3> HIDE DEF f
    <3> QED BY <1>1, <1>4, <3>1, <3>2, FilesOff
  <2> QED BY <2>1, <2>2 DEF SysRead, userVars
<1>6. Locks(pc[p], c[p]) \subseteq {None} /\ None \in Locks(pc[p], c[p]) \cup {None}
  BY <1>1, LocksAt
<1>7. \A u \in Slots : Num(cwd[p] = u) + (Cardinality(Opens(u)') - Cardinality(Opens(u)))
                        = Refs(pc[p], c[p], Call(p).op, cwd[p], u)
  BY <1>1, <1>5, SameOpens, RefsAt DEF Num
<1> QED BY <1>1, <1>2, <1>5, <1>6, <1>7, Quits

(* filewrite() from a bad address.                                          *)
LEMMA BadWriteKeeps ==
  ASSUME NEW p \in Procs, RefInv, BadWrite(p)
  PROVE  RefInv'
<1> DEFINE f == Reg(p)
           s == ofile[f].ip
           v == Ilock(fs, s, p)
           o == ofile[f].off
<1>1. /\ pc[p] = "user" /\ pc[p] \notin PutLabels /\ script[p] # <<>> /\ UNCHANGED <<file, ofile, cwd, c>>
      /\ Return(p, -1)
  BY DEF BadWrite, Calls, At, PutLabels, userVars
<1>2. Shape(fs) /\ (\A t \in Slots : fs.itab[t].ref \in Nat) /\ Effect(p, fs, fs, None, None, None)
  BY <1>1, Here, NoEffect
<1>3. Effect(p, fs, fs', None, None, None)
  <2>1. CASE UNCHANGED fs
    BY <1>2, <2>1
  <2>2. CASE Unlocked(s) /\ (fs' = Iunlock(v, s) \/ fs' = Iunlock(Iupdate(Bmap(v, s, o).fs, s), s))
    <3>1. Effect(p, fs, v, None, s, None)
      BY <1>2, IlockEffect
    <3> HIDE DEF f, s, v, o
    <3>2. Wrote(v, Bmap(v, s, o).fs, s) /\ Wrote(v, v, s)
      BY <3>1, BmapWrote, WroteSelf DEF Effect
    <3>3. Wrote(v, Iupdate(Bmap(v, s, o).fs, s), s)
      BY <3>2, IupdateWrote, WroteTwice DEF Wrote
    <3>4. Effect(p, fs, Iupdate(Bmap(v, s, o).fs, s), None, s, None)
      BY <3>1, <3>3, WroteEffect
    <3> QED BY <2>2, <3>1, <3>4, IunlockEffect, VisitEffect DEF Unlocked
  <2> QED BY <2>1, <2>2 DEF BadWrite
<1>4. FilesOK' /\ \A t : Opens(t)' = Opens(t)
  BY <1>1, ReturnTo, FilesSame
<1>5. Locks(pc[p], c[p]) \subseteq {None} /\ None \in Locks(pc[p], c[p]) \cup {None}
  BY <1>1, LocksAt
<1>6. \A u \in Slots : Num(cwd[p] = u) + (Cardinality(Opens(u)') - Cardinality(Opens(u)))
                        = Refs(pc[p], c[p], Call(p).op, cwd[p], u)
  BY <1>1, <1>4, SameOpens, RefsAt DEF Num
<1> QED BY <1>1, <1>3, <1>4, <1>5, <1>6, Quits

(* A record that filealloc() and sys_open() fill has the shape of a file.   *)
LEMMA FileShapes ==
  ASSUME NEW a, NEW b, NEW d, NEW e
  PROVE  FileShape([ref |-> a, ip |-> b, off |-> d, w |-> e])
BY DEF FileShape

(* A file is opened: one that was free, in variable k of p.                 *)
LEMMA OpenFiles ==
  ASSUME NEW p \in Procs, RefInv, NEW f \in 1 .. NFILE, ofile[f].ref = 0, NEW s \in Slots, NEW m, NEW k,
         ofile' = [ofile EXCEPT ![f] = [ref |-> 1, ip |-> s, off |-> 0, w |-> m]],
         file' = [file EXCEPT ![p][k] = f],
         \A q \in Procs : q # p => Label(q)' = Label(q), Label(p)' \notin {"unborn", "zombie"}
  PROVE  FilesOK' /\ \A u \in Slots : Cardinality(Opens(u)') - Cardinality(Opens(u)) = Num(u = s)
<1> DEFINE e == [ref |-> 1, ip |-> s, off |-> 0, w |-> m]
<1>1. FilesOK /\ FileShape(e) /\ e.ref = 1 /\ e.ip = s /\ f \in 0 .. NFILE /\ f # None
  BY FileShapes DEF RefInv, None
<1> HIDE DEF e
<1>2. \A g \in 1 .. NFILE : ofile'[g] = IF g = f THEN e ELSE ofile[g]
  BY <1>1 DEF FilesOK, e
<1>3. ofile' = [g \in 1 .. NFILE |-> ofile'[g]]
  BY <1>1 DEF FilesOK, e
<1>4. /\ file' \in [Procs -> [Regs -> 0 .. NFILE]]
      /\ \A x \in Procs \X Regs : file'[x[1]][x[2]] = IF x[1] = p /\ x[2] = k THEN f ELSE file[x[1]][x[2]]
      /\ \A q \in Procs : q # p => file'[q] = file[q]
  BY <1>1 DEF FilesOK
<1>5. ASSUME NEW g \in 1 .. NFILE PROVE IsFiniteSet(Fds(g)') /\ Cardinality(Fds(g)') <= ofile'[g].ref
  <2>1. IsFiniteSet(Fds(g)) /\ Cardinality(Fds(g)) <= ofile[g].ref /\ ofile[g].ref \in Nat
    BY <1>1 DEF FilesOK
  <2>2. CASE g = f
    <3>1. Fds(f) = {}
      BY <2>1, <2>2, FS_EmptySet, FS_CardinalityType
    <3>2. Fds(f)' \subseteq {<<p, k>>}
      BY <1>4, <3>1 DEF Fds
    <3>3. IsFiniteSet({<<p, k>>}) /\ Cardinality({<<p, k>>}) = 1
      BY FS_Singleton
    <3> QED BY <1>1, <1>2, <2>2, <3>2, <3>3, FS_Subset
  <2>3. CASE g # f
    <3>1. Fds(g)' \subseteq Fds(g)
      BY <1>4, <2>3 DEF Fds
    <3>2. IsFiniteSet(Fds(g)') /\ Cardinality(Fds(g)') <= Cardinality(Fds(g))
      BY <2>1, <3>1, FS_Subset
    <3>3. Cardinality(Fds(g)') \in Nat /\ Cardinality(Fds(g)) \in Nat
      BY <2>1, <3>2, FS_CardinalityType
    <3> QED BY <1>2, <2>1, <2>3, <3>2, <3>3
  <2> QED BY <2>2, <2>3
<1>6. FilesOK'
  <2>1. \A g \in 1 .. NFILE :
          FileShape(ofile'[g]) /\ ofile'[g].ref \in Nat /\ (ofile'[g].ref > 0 => ofile'[g].ip \in Slots)
    BY <1>1, <1>2 DEF FilesOK
  <2>2. \A q \in Procs : Label(q)' \in {"unborn", "zombie"} => file'[q] = [r \in Regs |-> None]
    BY <1>1, <1>4 DEF FilesOK
  <2>3. file' \in [Procs -> [Regs -> 0 .. NFILE]]
    BY <1>4
  <2>4. \A g \in 1 .. NFILE :
          /\ FileShape(ofile'[g]) /\ ofile'[g].ref \in Nat /\ (ofile'[g].ref > 0 => ofile'[g].ip \in Slots)
          /\ IsFiniteSet(Fds(g)') /\ Cardinality(Fds(g)') <= ofile'[g].ref
    BY <1>5, <2>1
  <2> QED BY <1>3, <2>2, <2>3, <2>4 DEF FilesOK
<1>7. ASSUME NEW u \in Slots PROVE Cardinality(Opens(u)') - Cardinality(Opens(u)) = Num(u = s)
  <2>1. IsFiniteSet(Opens(u)) /\ Cardinality(Opens(u)) \in Nat
    BY OpensFinite
  <2>0. f \notin Opens(u)
    BY DEF Opens
  <2>2. CASE u = s
    <3>1. Opens(u)' = Opens(u) \cup {f}
      BY <1>1, <1>2, <2>2 DEF Opens
    <3>2. Cardinality(Opens(u) \cup {f}) = Cardinality(Opens(u)) + 1
      BY <2>0, <2>1, FS_AddElement
    <3> QED BY <2>1, <2>2, <3>1, <3>2 DEF Num
  <2>3. CASE u # s
    <3>1. Opens(u)' = Opens(u)
      BY <1>1, <1>2, <2>3 DEF Opens
    <3> QED BY <2>1, <2>3, <3>1 DEF Num
  <2> QED BY <2>2, <2>3
<1> QED BY <1>6, <1>7

(* Variable k of p is closed.                                               *)
LEMMA CloseFiles ==
  ASSUME NEW p \in Procs, RefInv, NEW k \in Regs, NEW f, f = file[p][k], f # None, Fileclose(p, k),
         \A q \in Procs : q # p => Label(q)' = Label(q), Label(p)' \notin {"unborn", "zombie"}
  PROVE  /\ FilesOK' /\ ofile[f].ip \in Slots
         /\ \A u \in Slots : Cardinality(Opens(u)') - Cardinality(Opens(u)) = 0 - Num(LastClose(f) /\ ofile[f].ip = u)
<1>1. FilesOK /\ f \in 1 .. NFILE
  BY DEF RefInv, FilesOK, None
<1>2. IsFiniteSet(Fds(f)) /\ Cardinality(Fds(f)) <= ofile[f].ref /\ ofile[f].ref \in Nat /\ FileShape(ofile[f])
  BY <1>1 DEF FilesOK
<1>3. <<p, k>> \in Fds(f)
  BY DEF Fds
<1>4. ofile[f].ref >= 1 /\ ofile[f].ip \in Slots
  <2>1. Cardinality(Fds(f)) # 0 /\ Cardinality(Fds(f)) \in Nat
    BY <1>2, <1>3, FS_EmptySet, FS_CardinalityType
  <2>2. ofile[f].ref >= 1
    BY <1>2, <2>1
  <2> QED BY <1>1, <2>2 DEF FilesOK
<1>5. /\ \A g \in 1 .. NFILE : /\ FileShape(ofile'[g]) /\ ofile'[g].ip = ofile[g].ip
                               /\ ofile'[g].ref = IF g = f THEN ofile[f].ref - 1 ELSE ofile[g].ref
      /\ ofile' = [g \in 1 .. NFILE |-> ofile'[g]]
  <2> DEFINE e == [ofile[f] EXCEPT !.ref = ofile[f].ref - 1]
  <2>1. FileShape(e) /\ e.ip = ofile[f].ip /\ e.ref = ofile[f].ref - 1
    BY <1>2 DEF FileShape
  <2>2. ofile' = [ofile EXCEPT ![f] = e]
    BY DEF Fileclose
  <2> HIDE DEF e
  <2> QED BY <1>1, <2>1, <2>2 DEF FilesOK
<1>6. /\ file' \in [Procs -> [Regs -> 0 .. NFILE]]
      /\ \A x \in Procs \X Regs : file'[x[1]][x[2]] = IF x[1] = p /\ x[2] = k THEN None ELSE file[x[1]][x[2]]
      /\ \A q \in Procs : q # p => file'[q] = file[q]
  <2>1. None \in 0 .. NFILE
    BY FsAssumption DEF None
  <2> QED BY <1>1, <2>1 DEF FilesOK, Fileclose
<1>7. ASSUME NEW g \in 1 .. NFILE PROVE IsFiniteSet(Fds(g)') /\ Cardinality(Fds(g)') <= ofile'[g].ref
  <2>1. IsFiniteSet(Fds(g)) /\ Cardinality(Fds(g)) <= ofile[g].ref /\ ofile[g].ref \in Nat /\ g # None
    BY <1>1 DEF FilesOK, None
  <2>2. CASE g = f
    <3>1. Fds(f)' = Fds(f) \ {<<p, k>>}
      <4>1. \A x \in Procs \X Regs : x = <<p, k>> <=> x[1] = p /\ x[2] = k
        OBVIOUS
      <4> QED BY <1>6, <2>1, <2>2, <4>1 DEF Fds
    <3>2. IsFiniteSet(Fds(f)') /\ Cardinality(Fds(f)') = Cardinality(Fds(f)) - 1
      BY <1>2, <1>3, <3>1, FS_RemoveElement
    <3>3. Cardinality(Fds(f)) \in Nat
      BY <1>2, FS_CardinalityType
    <3> QED BY <1>2, <1>5, <2>2, <3>2, <3>3
  <2>3. CASE g # f
    <3>1. Fds(g)' \subseteq Fds(g)
      BY <1>6, <2>1 DEF Fds
    <3>2. IsFiniteSet(Fds(g)') /\ Cardinality(Fds(g)') <= Cardinality(Fds(g))
      BY <2>1, <3>1, FS_Subset
    <3>3. Cardinality(Fds(g)') \in Nat /\ Cardinality(Fds(g)) \in Nat
      BY <2>1, <3>2, FS_CardinalityType
    <3> QED BY <1>5, <2>1, <2>3, <3>2, <3>3
  <2> QED BY <2>2, <2>3
<1>8. FilesOK'
  <2>1. \A g \in 1 .. NFILE :
          FileShape(ofile'[g]) /\ ofile'[g].ref \in Nat /\ (ofile'[g].ref > 0 => ofile'[g].ip \in Slots)
    BY <1>1, <1>2, <1>4, <1>5 DEF FilesOK
  <2>2. \A q \in Procs : Label(q)' \in {"unborn", "zombie"} => file'[q] = [r \in Regs |-> None]
    BY <1>1, <1>6 DEF FilesOK
  <2>3. file' \in [Procs -> [Regs -> 0 .. NFILE]] /\ ofile' = [g \in 1 .. NFILE |-> ofile'[g]]
    BY <1>5, <1>6
  <2>4. \A g \in 1 .. NFILE :
          /\ FileShape(ofile'[g]) /\ ofile'[g].ref \in Nat /\ (ofile'[g].ref > 0 => ofile'[g].ip \in Slots)
          /\ IsFiniteSet(Fds(g)') /\ Cardinality(Fds(g)') <= ofile'[g].ref
    BY <1>7, <2>1
  <2> QED BY <2>2, <2>3, <2>4 DEF FilesOK
<1>9. ASSUME NEW u \in Slots
      PROVE  Cardinality(Opens(u)') - Cardinality(Opens(u)) = 0 - Num(LastClose(f) /\ ofile[f].ip = u)
  <2>1. IsFiniteSet(Opens(u)) /\ Cardinality(Opens(u)) \in Nat
    BY OpensFinite
  <2>2. CASE LastClose(f) /\ ofile[f].ip = u
    <3>1. Opens(u)' = Opens(u) \ {f} /\ f \in Opens(u)
      BY <1>1, <1>2, <1>4, <1>5, <2>2 DEF Opens, LastClose
    <3>2. Cardinality(Opens(u) \ {f}) = Cardinality(Opens(u)) - 1
      BY <2>1, <3>1, FS_RemoveElement
    <3> QED BY <2>1, <2>2, <3>1, <3>2 DEF Num
  <2>3. CASE ~(LastClose(f) /\ ofile[f].ip = u)
    <3>1. Opens(u)' = Opens(u)
      BY <1>1, <1>2, <1>4, <1>5, <2>3 DEF Opens, LastClose
    <3> QED BY <2>1, <2>3, <3>1 DEF Num
  <2> QED BY <2>2, <2>3
<1> QED BY <1>4, <1>8, <1>9

(* The slots that are put after a step.                                     *)
LEMMA PutsTo ==
  ASSUME NEW p, NEW s \in Slots, NEW l, Puts(p, <<s>>, l)
  PROVE  Goes(p, l, <<s>>)
BY DEF Goes

(* The end of sys_open(): the inode's lock is let go.                       *)
LEMMA OpenEndKeeps ==
  ASSUME NEW p \in Procs, RefInv, pc[p] \in {"open", "exists", "made"}, c[p].ip \in Slots,
         NEW v, OpenEnd(p, v, c[p].ip), UNCHANGED c, Shape(v),
         NEW a, a \in Locks(pc[p], c[p]) \cup {None}, Locks(pc[p], c[p]) \subseteq {a},
         \A w : Wrote(v, w, c[p].ip) => Effect(p, fs, Iunlock(w, c[p].ip), None, None, a)
  PROVE  RefInv'
<1> DEFINE s == c[p].ip
           free == {f \in DOMAIN ofile : ofile[f].ref = 0}
           t == "TRUNC" \in Call(p).mode /\ v.itab[s].type = "FILE"
<1>1. pc[p] \notin PutLabels /\ VarsOK /\ FilesOK
  BY DEF PutLabels, RefInv
<1>2. Ready(pc[p], c[p], Call(p).op) /\ script[p] # <<>>
  BY <1>1, Here
<1>3. Effect(p, fs, Iunlock(v, s), None, None, a) /\ Effect(p, fs, Iunlock(Itrunc(v, s), s), None, None, a)
  BY WroteSelf, ItruncWrote
<1>4. CASE free = {}
  <2>1. fs' = Iunlock(v, s) /\ Goes(p, "fail", <<s>>) /\ UNCHANGED userVars
    BY <1>4, PutsTo DEF OpenEnd
  <2>2. c' = [c EXCEPT ![p] = c[p]] /\ Ready("fail", c[p], Call(p).op)
    BY <1>1, <1>2, ReadyAt DEF VarsOK
  <2>3. Balance(p, "fail", c[p], <<s>>, None, None, a)
    <3>1. \A u \in Slots : Refs("fail", c[p], Call(p).op, cwd[p], u) + Occ(<<s>>, u)
                            = Refs(pc[p], c[p], Call(p).op, cwd[p], u) + Num(u = None)
      BY RefsAt, OccOf, NoneSlot DEF Num
    <3>2. \A u : u \notin Locks("fail", c[p])
      BY LocksAt
    <3> QED BY <3>1, <3>2, NoneSlot DEF Balance
  <2>4. Effect(p, fs, fs', None, None, a)
    BY <1>3, <2>1
  <2> QED BY <1>1, <1>2, <2>1, <2>2, <2>3, <2>4, Act
<1>5. CASE free # {}
  <2> DEFINE f == Min(free)
             m == "W" \in Call(p).mode
             k == Call(p).reg
  <2>1. /\ ofile' = [ofile EXCEPT ![f] = [ref |-> 1, ip |-> s, off |-> 0, w |-> m]]
        /\ file' = [file EXCEPT ![p][k] = f] /\ cwd' = cwd /\ Return(p, 0)
        /\ fs' = Iunlock(v, s) \/ fs' = Iunlock(Itrunc(v, s), s)
    BY <1>5 DEF OpenEnd
  <2>2. f \in free
    <3>1. free \in SUBSET Nat
      BY <1>1, FsAssumption DEF FilesOK
    <3> QED BY <1>5, <3>1, Least
  <2>3. f \in 1 .. NFILE /\ ofile[f].ref = 0
    BY <1>1, <2>2 DEF FilesOK
  <2> HIDE DEF f, m, k
  <2>4. /\ \A q \in Procs : q # p => Label(q)' = Label(q)
        /\ Label(p)' \notin {"unborn", "zombie"}
    BY <1>1, <1>2, <2>1, ReturnTo
  <2>5. FilesOK' /\ \A u \in Slots : Cardinality(Opens(u)') - Cardinality(Opens(u)) = Num(u = s)
    BY <2>1, <2>3, <2>4, OpenFiles
  <2>6. Effect(p, fs, fs', None, None, a)
    BY <1>3, <2>1
  <2>7. \A u \in Slots : Num(cwd[p] = u) + (Cardinality(Opens(u)') - Cardinality(Opens(u)))
                        = Refs(pc[p], c[p], Call(p).op, cwd[p], u)
    BY <2>5, RefsAt DEF Num
  <2> QED BY <1>1, <1>2, <2>1, <2>5, <2>6, <2>7, Quits
<1> QED BY <1>4, <1>5

(* What ilock() and iunlock() leave, whatever was written between them.     *)
LEMMA VisitWrote ==
  ASSUME NEW p, NEW s, Shape(fs), \A t \in Slots : fs.itab[t].ref \in Nat, Unlocked(s),
         NEW w, NEW b, Wrote(Ilock(fs, s, p), w, b)
  PROVE  Effect(p, fs, Iunlock(w, s), None, None, None)
BY IlockEffect, WroteEffect, IunlockEffect, VisitEffect DEF Unlocked

(* ilock() keeps the shape of the state.                                    *)
LEMMA IlockShape == ASSUME NEW p, NEW s, Shape(fs) PROVE Shape(Ilock(fs, s, p))
BY IlockTook DEF Took

(* A call whose inode is of no use puts it.                                 *)
LEMMA PutAndFail ==
  ASSUME NEW p \in Procs, RefInv, pc[p] \in {"open", "exists", "link", "chdir"}, c[p].ip \in Slots,
         Unlocked(c[p].ip), fs' = Iunlock(Ilock(fs, c[p].ip, p), c[p].ip), Puts(p, <<c[p].ip>>, "fail"),
         UNCHANGED userVars, UNCHANGED c
  PROVE  RefInv'
<1> DEFINE s == c[p].ip
<1>1. pc[p] \notin PutLabels /\ VarsOK /\ Goes(p, "fail", <<s>>)
  BY PutsTo DEF PutLabels, RefInv
<1>2. Ready(pc[p], c[p], Call(p).op) /\ script[p] # <<>> /\ Effect(p, fs, fs', None, None, None)
  BY <1>1, Here, IlockVisit
<1>3. c' = [c EXCEPT ![p] = c[p]] /\ Ready("fail", c[p], Call(p).op)
  BY <1>1, <1>2, ReadyAt DEF VarsOK
<1>4. Balance(p, "fail", c[p], <<s>>, None, None, None)
  BY RefsAt, LocksAt, OccOf, NoneSlot DEF Balance, Num
<1> QED BY <1>1, <1>2, <1>3, <1>4, Act

(* sys_open() of a file that is there: the reference becomes that of the    *)
(* open file, or is put.                                                    *)
LEMMA SysOpenKeeps ==
  ASSUME NEW p \in Procs, RefInv, SysOpen(p)
  PROVE  RefInv'
<1> DEFINE s == c[p].ip
           v == Ilock(fs, s, p)
<1>1. pc[p] = "open" /\ pc[p] \notin PutLabels /\ s # None /\ Unlocked(s) /\ c' = c
  BY DEF SysOpen, At, PutLabels
<1>2. /\ Ready("open", c[p], Call(p).op) /\ Shape(fs)
      /\ \A t \in Slots : fs.itab[t].ref \in Nat
  BY <1>1, Here
<1>3. s \in Slots /\ None \in Locks(pc[p], c[p]) \cup {None} /\ Locks(pc[p], c[p]) \subseteq {None}
  BY <1>1, <1>2, LocksAt DEF Ready
<1>4. CASE fs' = Iunlock(v, s) /\ Puts(p, <<s>>, "fail") /\ UNCHANGED userVars
  BY <1>1, <1>3, <1>4, PutAndFail
<1>5. CASE OpenEnd(p, v, s)
  <2>1. Shape(v) /\ \A w : Wrote(v, w, s) => Effect(p, fs, Iunlock(w, s), None, None, None)
    BY <1>1, <1>2, IlockShape, VisitWrote
  <2> HIDE DEF v
  <2> QED BY <1>1, <1>3, <1>5, <2>1, OpenEndKeeps
<1> QED BY <1>4, <1>5 DEF SysOpen

(* create() of a name that is there already.                                *)
LEMMA ExistsKeeps ==
  ASSUME NEW p \in Procs, RefInv, Exists(p)
  PROVE  RefInv'
<1> DEFINE s == c[p].ip
           v == Ilock(fs, s, p)
<1>1. pc[p] = "exists" /\ pc[p] \notin PutLabels /\ Unlocked(s) /\ c' = c
  BY DEF Exists, At, PutLabels
<1>2. /\ Ready("exists", c[p], Call(p).op) /\ Shape(fs)
      /\ \A t \in Slots : fs.itab[t].ref \in Nat
  BY <1>1, Here
<1>3. s \in Slots /\ None \in Locks(pc[p], c[p]) \cup {None} /\ Locks(pc[p], c[p]) \subseteq {None}
  BY <1>1, <1>2, LocksAt DEF Ready
<1>4. CASE fs' = Iunlock(v, s) /\ Puts(p, <<s>>, "fail") /\ UNCHANGED userVars
  BY <1>1, <1>3, <1>4, PutAndFail
<1>5. CASE OpenEnd(p, v, s)
  <2>1. Shape(v) /\ \A w : Wrote(v, w, s) => Effect(p, fs, Iunlock(w, s), None, None, None)
    BY <1>1, <1>2, IlockShape, VisitWrote
  <2> HIDE DEF v
  <2> QED BY <1>1, <1>3, <1>5, <2>1, OpenEndKeeps
<1> QED BY <1>4, <1>5 DEF Exists

(* create() has made the inode.                                             *)
LEMMA MadeKeeps ==
  ASSUME NEW p \in Procs, RefInv, Made(p)
  PROVE  RefInv'
<1> DEFINE s == c[p].ip
<1>1. pc[p] = "made" /\ pc[p] \notin PutLabels /\ c' = c
  BY DEF Made, At, PutLabels
<1>2. /\ Ready("made", c[p], Call(p).op) /\ Shape(fs) /\ script[p] # <<>> /\ VarsOK
      /\ \A t \in Slots : fs.itab[t].ref \in Nat
  BY <1>1, Here DEF RefInv
<1>3. s \in Slots /\ s \in Locks(pc[p], c[p]) \cup {None} /\ Locks(pc[p], c[p]) \subseteq {s}
  BY <1>1, <1>2, LocksAt DEF Ready
<1>4. \A w : Wrote(fs, w, s) => Effect(p, fs, Iunlock(w, s), None, None, s)
  BY <1>2, NoEffect, WroteEffect, IunlockEffect
<1>5. CASE OpenEnd(p, fs, s)
  BY <1>1, <1>2, <1>3, <1>4, <1>5, OpenEndKeeps
<1>6. CASE fs' = Iunlock(fs, s) /\ Puts(p, <<s>>, "ok") /\ UNCHANGED userVars
  <2>1. Goes(p, "ok", <<s>>) /\ Effect(p, fs, fs', None, None, s)
    BY <1>2, <1>3, <1>4, <1>6, PutsTo, WroteSelf
  <2>2. c' = [c EXCEPT ![p] = c[p]] /\ Ready("ok", c[p], Call(p).op)
    BY <1>1, <1>2, ReadyAt DEF VarsOK
  <2>3. Balance(p, "ok", c[p], <<s>>, None, None, s)
    BY <1>1, <1>3, RefsAt, LocksAt, OccOf, NoneSlot DEF Balance, Num
  <2> QED BY <1>1, <1>2, <1>6, <2>1, <2>2, <2>3, Act
<1> QED BY <1>5, <1>6 DEF Made

(* A step of close() or exit() that leaves slots to be put.                 *)
LEMMA Closes ==
  ASSUME NEW p \in Procs, RefInv, pc[p] = "user", script[p] # <<>>,
         NEW l \in {"ok", "user", "zombie"}, NEW t, Goes(p, l, t), UNCHANGED <<fs, cwd, c>>, FilesOK',
         \A u \in Slots : Num(l # "zombie" /\ cwd[p] = u) + Occ(t, u)
                           + (Cardinality(Opens(u)') - Cardinality(Opens(u))) = Num(cwd[p] = u)
  PROVE  RefInv'
<1> DEFINE x == c[p]
           d == cwd[p]
           op == Call(p).op
<1>1. pc[p] \notin PutLabels /\ l \notin PutLabels /\ VarsOK /\ todo[p] = <<>>
  BY Here DEF PutLabels, RefInv
<1>2. /\ Ready("user", c[p], Call(p).op) /\ cwd[p] \in Slots /\ Shape(fs)
      /\ \A s \in Slots : fs.itab[s].ref \in Nat /\ fs.itab[s].lock # p
  <2>1. Locks("user", c[p]) = {}
    BY LocksAt
  <2> QED BY <1>1, <2>1, Here
<1>3. Arrived(p, l, t) /\ script' = script
  <2>1. script \in [Procs -> Seq(SysCalls)]
    BY <1>1 DEF VarsOK
  <2> HIDE DEF x, d, op
  <2>2. /\ pc' = [q \in Procs |-> pc'[q]] /\ cont' = [q \in Procs |-> cont'[q]] /\ todo' \in [Procs -> Seq(Slots)]
        /\ script' = script /\ todo'[p] = t /\ (pc'[p] \in PutLabels <=> t # <<>>)
        /\ Len(t) <= 2 /\ pc'[p] \notin {"put_free", "put_unlock"} /\ Label(p)' = l
        /\ \A q \in Procs : q # p => pc'[q] = pc[q] /\ cont'[q] = cont[q] /\ todo'[q] = todo[q]
    BY <1>1, GoesTo
  <2> QED BY <2>1, <2>2 DEF Arrived
<1>4. Head(script'[p]).op = op
  BY <1>3 DEF Call
<1>5. Ready(l, x, op)
  <2>1. l = "user" \/ Ready(l, c[p], op)
    BY <1>2, ReadyAt
  <2> QED BY <1>2, <2>1
<1>6. c' = [c EXCEPT ![p] = x] /\ cwd' = [cwd EXCEPT ![p] = d] /\ Shape(fs')
  BY <1>1, <1>2 DEF VarsOK
<1>7. LocksBy(p, l, x)
  <2>1. Locks(l, x) = {} /\ Locks(pc[p], c[p]) = {}
    BY LocksAt
  <2> QED BY <2>1 DEF LocksBy
<1>8. ASSUME NEW s \in Slots
      PROVE  fs'.itab[s].ref = fs.itab[s].ref + Refs(l, x, op, d, s) + Occ(t, s)
                               - Refs(pc[p], c[p], op, cwd[p], s)
                               + (Cardinality(Opens(s)') - Cardinality(Opens(s)))
  <2> DEFINE new == Refs(l, x, op, d, s)
             old == Refs(pc[p], c[p], op, cwd[p], s)
             files == Cardinality(Opens(s)') - Cardinality(Opens(s))
             r == fs.itab[s].ref
             o == Occ(t, s)
  <2>1. new = Num(l # "zombie" /\ cwd[p] = s) /\ old = Num(cwd[p] = s)
    BY RefsAt DEF Num
  <2>2. new + o + files = old
    BY <2>1
  <2>3. new \in Nat /\ old \in Nat /\ o \in Nat /\ r \in Nat
    BY <1>2, CntNat
  <2>4. files \in Int
    BY OpensNat
  <2>5. fs'.itab[s].ref = r
    OBVIOUS
  <2> HIDE DEF new, old, files, r, o
  <2>6. r = r + new + o - old + files
    BY <2>2, <2>3, <2>4
  <2> QED BY <2>5, <2>6 DEF new, old, files, r, o
<1>9. RefsBy(p, l, t, x, d, op)
  BY <1>8 DEF RefsBy
<1> HIDE DEF x, d, op
<1> QED BY <1>1, <1>2, <1>3, <1>4, <1>5, <1>6, <1>7, <1>9, Moves DEF d

(* sys_close(): the last descriptor takes the reference of the open file,   *)
(* to put it.                                                               *)
LEMMA SysCloseKeeps ==
  ASSUME NEW p \in Procs, RefInv, SysClose(p)
  PROVE  RefInv'
<1> DEFINE f == Reg(p)
           k == Call(p).reg
<1>1. pc[p] = "user" /\ pc[p] \notin PutLabels /\ script[p] # <<>> /\ UNCHANGED <<fs, cwd, c>> /\ VarsOK
  BY DEF SysClose, Calls, At, PutLabels, RefInv
<1>2. Effect(p, fs, fs', None, None, None) /\ todo[p] = <<>>
  BY <1>1, Here, NoEffect
<1>3. None \in Locks(pc[p], c[p]) \cup {None} /\ Locks(pc[p], c[p]) \subseteq {None}
  BY <1>1, LocksAt
<1>4. CASE Return(p, -1) /\ UNCHANGED <<file, ofile>>
  <2>1. FilesOK' /\ \A u : Opens(u)' = Opens(u)
    BY <1>1, <1>4, ReturnTo, FilesSame
  <2>2. \A u \in Slots : Num(cwd[p] = u) + (Cardinality(Opens(u)') - Cardinality(Opens(u)))
                        = Refs(pc[p], c[p], Call(p).op, cwd[p], u)
    BY <1>1, <2>1, SameOpens, RefsAt DEF Num
  <2> QED BY <1>1, <1>2, <1>3, <1>4, <2>1, <2>2, Quits
<1>5. CASE f # None /\ Fileclose(p, k) /\ LastClose(f) /\ Puts(p, <<ofile[f].ip>>, "ok")
  <2>1. k \in Regs /\ f = file[p][k]
    BY <1>5 DEF Reg
  <2> HIDE DEF f, k
  <2>2. /\ \A q \in Procs : q # p => Label(q)' = Label(q)
        /\ Label(p)' \notin {"unborn", "zombie"}
    BY <1>1, <1>5 DEF Puts, VarsOK, Label, PutLabels
  <2>3. /\ FilesOK' /\ ofile[f].ip \in Slots
        /\ \A u \in Slots : Cardinality(Opens(u)') - Cardinality(Opens(u)) = 0 - Num(LastClose(f) /\ ofile[f].ip = u)
    BY <1>5, <2>1, <2>2, CloseFiles
  <2>4. Goes(p, "ok", <<ofile[f].ip>>)
    BY <1>5, <2>3, PutsTo
  <2>5. \A u \in Slots : Num("ok" # "zombie" /\ cwd[p] = u) + Occ(<<ofile[f].ip>>, u)
                          + (Cardinality(Opens(u)') - Cardinality(Opens(u))) = Num(cwd[p] = u)
    BY <1>5, <2>3, OccOf DEF Num
  <2> QED BY <1>1, <2>3, <2>4, <2>5, Closes
<1>6. CASE f # None /\ Fileclose(p, k) /\ ~LastClose(f) /\ Return(p, 0)
  <2>1. k \in Regs /\ f = file[p][k]
    BY <1>6 DEF Reg
  <2> HIDE DEF f, k
  <2>2. /\ \A q \in Procs : q # p => Label(q)' = Label(q)
        /\ Label(p)' \notin {"unborn", "zombie"}
    BY <1>1, <1>6, ReturnTo
  <2>3. /\ FilesOK'
        /\ \A u \in Slots : Cardinality(Opens(u)') - Cardinality(Opens(u)) = 0 - Num(LastClose(f) /\ ofile[f].ip = u)
    BY <1>6, <2>1, <2>2, CloseFiles
  <2>4. \A u \in Slots : Num(cwd[p] = u) + (Cardinality(Opens(u)') - Cardinality(Opens(u)))
                        = Refs(pc[p], c[p], Call(p).op, cwd[p], u)
    BY <1>1, <1>6, <2>3, RefsAt DEF Num
  <2> QED BY <1>1, <1>2, <1>3, <1>6, <2>3, <2>4, Quits
<1> QED BY <1>4, <1>5, <1>6 DEF SysClose

(* exit(): the files, one after the other, and then the current directory.  *)
LEMMA SysExitKeeps ==
  ASSUME NEW p \in Procs, RefInv, SysExit(p)
  PROVE  RefInv'
<1> DEFINE open == {k \in Regs : file[p][k] # None}
           k == Min(open)
           f == file[p][k]
<1>1. pc[p] = "user" /\ script[p] # <<>> /\ UNCHANGED <<fs, cwd, c>> /\ VarsOK /\ FilesOK
  BY DEF SysExit, Calls, At, RefInv
<1>2. cwd[p] \in Slots
  BY <1>1 DEF VarsOK
<1>3. CASE open = {} /\ Puts(p, <<cwd[p]>>, "zombie") /\ UNCHANGED <<file, ofile>>
  <2>1. \A q \in Procs : q # p => Label(q)' = Label(q)
    BY <1>1, <1>3 DEF Puts, VarsOK, Label
  <2>2. file[p] = [r \in Regs |-> None]
    BY <1>1, <1>3 DEF FilesOK
  <2>3. FilesOK' /\ \A u : Opens(u)' = Opens(u)
    BY <1>3, <2>1, <2>2, FilesSame
  <2>4. Goes(p, "zombie", <<cwd[p]>>)
    BY <1>2, <1>3, PutsTo
  <2>5. \A u \in Slots : Num("zombie" # "zombie" /\ cwd[p] = u) + Occ(<<cwd[p]>>, u)
                          + (Cardinality(Opens(u)') - Cardinality(Opens(u))) = Num(cwd[p] = u)
    BY <2>3, SameOpens, OccOf DEF Num
  <2> QED BY <1>1, <2>3, <2>4, <2>5, Closes
<1>4. CASE open # {} /\ Fileclose(p, k) /\ IF LastClose(f) THEN Puts(p, <<ofile[f].ip>>, "user") ELSE Go(p, "user")
  <2>1. k \in Regs /\ f # None
    <3>1. open \in SUBSET Nat
      BY FsAssumption
    <3>2. k \in open
      BY <1>4, <3>1, Least
    <3> QED BY <3>2
  <2> HIDE DEF k, open
  <2>2. /\ \A q \in Procs : q # p => Label(q)' = Label(q)
        /\ Label(p)' \notin {"unborn", "zombie"}
    BY <1>1, <1>4 DEF Puts, Go, VarsOK, Label, PutLabels
  <2>3. /\ FilesOK' /\ ofile[f].ip \in Slots
        /\ \A u \in Slots : Cardinality(Opens(u)') - Cardinality(Opens(u)) = 0 - Num(LastClose(f) /\ ofile[f].ip = u)
    BY <1>4, <2>1, <2>2, CloseFiles
  <2> HIDE DEF f
  <2>4. CASE LastClose(f) /\ Puts(p, <<ofile[f].ip>>, "user")
    <3>1. Goes(p, "user", <<ofile[f].ip>>)
      BY <2>3, <2>4, PutsTo
    <3>2. \A u \in Slots : Num("user" # "zombie" /\ cwd[p] = u) + Occ(<<ofile[f].ip>>, u)
                            + (Cardinality(Opens(u)') - Cardinality(Opens(u))) = Num(cwd[p] = u)
      BY <2>3, <2>4, OccOf DEF Num
    <3> QED BY <1>1, <2>3, <3>1, <3>2, Closes
  <2>5. CASE ~LastClose(f) /\ Go(p, "user")
    <3>1. Goes(p, "user", <<>>)
      BY <2>5 DEF Goes
    <3>2. \A u \in Slots : Num("user" # "zombie" /\ cwd[p] = u) + Occ(<<>>, u)
                            + (Cardinality(Opens(u)') - Cardinality(Opens(u))) = Num(cwd[p] = u)
      BY <2>3, <2>5, OccOf DEF Num
    <3> QED BY <1>1, <2>3, <3>1, <3>2, Closes
  <2> QED BY <1>4, <2>4, <2>5
<1> QED BY <1>3, <1>4 DEF SysExit

(* The descriptors that a child gets.                                       *)
LEMMA PairsOf ==
  ASSUME NEW q, NEW K, IsFiniteSet(K)
  PROVE  /\ IsFiniteSet({<<q, k>> : k \in K}) /\ Cardinality({<<q, k>> : k \in K}) <= Cardinality(K)
<1> DEFINE T == {<<q, k>> : k \in K}
           g == [k \in K |-> <<q, k>>]
<1>1. g \in [K -> T] /\ \A t \in T : \E k \in K : g[k] = t
  OBVIOUS
<1> HIDE DEF T, g
<1>2. g \in Surjection(K, T)
  BY <1>1 DEF Surjection
<1>3. IsFiniteSet(T) /\ Cardinality(T) <= Cardinality(K)
  BY <1>2, FS_Surjection
<1> QED BY <1>3 DEF T

(* fork(): filedup() of every file of the parent.                           *)
LEMMA ForkFiles ==
  ASSUME NEW p \in Procs, NEW q \in Procs, RefInv, Label(q) = "unborn",
         file' = [file EXCEPT ![q] = file[p]],
         ofile' = [f \in DOMAIN ofile |->
                     [ofile[f] EXCEPT !.ref = @ + Cardinality({k \in Regs : file[p][k] = f})]],
         \A r \in Procs : r # q => Label(r)' = Label(r), Label(q)' = "user"
  PROVE  FilesOK' /\ \A u \in Slots : Opens(u)' = Opens(u)
<1> DEFINE K(f) == {k \in Regs : file[p][k] = f}
           n(f) == Cardinality(K(f))
<1>1. FilesOK /\ file[q] = [k \in Regs |-> None]
  BY DEF RefInv, FilesOK
<1>2. \A f : IsFiniteSet(K(f)) /\ n(f) \in Nat
  BY FsAssumption, FS_Subset, FS_CardinalityType
<1>3. \A f \in 1 .. NFILE : ofile'[f] = [ofile[f] EXCEPT !.ref = ofile[f].ref + n(f)]
  BY <1>1 DEF FilesOK
<1>4. ofile' = [f \in 1 .. NFILE |-> ofile'[f]]
  BY <1>1 DEF FilesOK
<1> HIDE DEF n
<1>5. ASSUME NEW f \in 1 .. NFILE
      PROVE  FileShape(ofile'[f]) /\ ofile'[f].ref = ofile[f].ref + n(f) /\ ofile'[f].ip = ofile[f].ip
  <2> DEFINE e == ofile[f]
             r == e.ref + n(f)
  <2>1. FileShape(e) /\ ofile'[f] = [e EXCEPT !.ref = r]
    BY <1>1, <1>3 DEF FilesOK
  <2> HIDE DEF e, r
  <2>2. FileShape([e EXCEPT !.ref = r]) /\ [e EXCEPT !.ref = r].ref = r /\ [e EXCEPT !.ref = r].ip = e.ip
    BY <2>1 DEF FileShape
  <2> QED BY <2>1, <2>2 DEF e, r
<1>6. /\ file' \in [Procs -> [Regs -> 0 .. NFILE]]
      /\ \A x \in Procs \X Regs : file'[x[1]][x[2]] = IF x[1] = q THEN file[p][x[2]] ELSE file[x[1]][x[2]]
      /\ \A r \in Procs : r # q => file'[r] = file[r]
  BY <1>1 DEF FilesOK
<1>7. ASSUME NEW f \in 1 .. NFILE
      PROVE  /\ IsFiniteSet(Fds(f)') /\ Cardinality(Fds(f)') <= ofile'[f].ref
             /\ ofile[f].ref \in Nat /\ n(f) \in Nat /\ (ofile[f].ref = 0 => n(f) = 0)
  <2> DEFINE P == {<<q, k>> : k \in K(f)}
  <2>1. IsFiniteSet(Fds(f)) /\ Cardinality(Fds(f)) <= ofile[f].ref /\ ofile[f].ref \in Nat /\ f # None
    BY <1>1 DEF FilesOK, None
  <2>2. Fds(f)' \subseteq Fds(f) \cup P
    <3> SUFFICES ASSUME NEW x \in Fds(f)' PROVE x \in Fds(f) \cup P
      OBVIOUS
    <3>1. x \in Procs \X Regs /\ file'[x[1]][x[2]] = f
      BY DEF Fds
    <3>2. CASE x[1] = q
      <4>1. x = <<q, x[2]>> /\ x[2] \in K(f)
        BY <1>6, <3>1, <3>2
      <4> QED BY <4>1
    <3>3. CASE x[1] # q
      BY <1>6, <3>1, <3>3 DEF Fds
    <3> QED BY <3>2, <3>3
  <2>3. IsFiniteSet(P) /\ Cardinality(P) <= n(f)
    BY <1>2, PairsOf DEF n
  <2>4. ofile[f].ref = 0 => n(f) = 0
    <3> SUFFICES ASSUME ofile[f].ref = 0 PROVE n(f) = 0
      OBVIOUS
    <3>1. Fds(f) = {}
      BY <2>1, FS_EmptySet, FS_CardinalityType
    <3>2. \A k \in K(f) : <<p, k>> \in Fds(f)
      BY DEF Fds
    <3>3. K(f) = {}
      BY <3>1, <3>2
    <3> QED BY <3>3, FS_EmptySet DEF n
  <2> HIDE DEF P, K
  <2>5. Cardinality(Fds(f)) \in Nat /\ Cardinality(P) \in Nat /\ n(f) \in Nat
    BY <1>2, <2>1, <2>3, FS_CardinalityType
  <2>6. IsFiniteSet(Fds(f) \cup P) /\ Cardinality(Fds(f) \cup P) <= Cardinality(Fds(f)) + Cardinality(P)
    <3>1. /\ IsFiniteSet(Fds(f) \cup P)
          /\ Cardinality(Fds(f) \cup P) = Cardinality(Fds(f)) + Cardinality(P) - Cardinality(Fds(f) \cap P)
      BY <2>1, <2>3, FS_Union
    <3>2. Cardinality(Fds(f) \cap P) \in Nat
      BY <2>1, FS_Intersection, FS_CardinalityType
    <3> QED BY <2>5, <3>1, <3>2
  <2>7. IsFiniteSet(Fds(f)') /\ Cardinality(Fds(f)') <= Cardinality(Fds(f) \cup P)
    BY <2>2, <2>6, FS_Subset
  <2>8. Cardinality(Fds(f)') \in Nat /\ Cardinality(Fds(f) \cup P) \in Nat
    BY <2>6, <2>7, FS_CardinalityType
  <2>9. ofile'[f].ref = ofile[f].ref + n(f)
    BY <1>5
  <2>10. Cardinality(Fds(f)') <= ofile'[f].ref
    BY <2>1, <2>3, <2>5, <2>6, <2>7, <2>8, <2>9
  <2> QED BY <2>1, <2>4, <2>5, <2>7, <2>10
<1>8. FilesOK'
  <2>1. \A f \in 1 .. NFILE :
          FileShape(ofile'[f]) /\ ofile'[f].ref \in Nat /\ (ofile'[f].ref > 0 => ofile'[f].ip \in Slots)
    <3> SUFFICES ASSUME NEW f \in 1 .. NFILE
                 PROVE  FileShape(ofile'[f]) /\ ofile'[f].ref \in Nat /\ (ofile'[f].ref > 0 => ofile'[f].ip \in Slots)
      OBVIOUS
    <3>1. FileShape(ofile'[f]) /\ ofile'[f].ref = ofile[f].ref + n(f) /\ ofile'[f].ip = ofile[f].ip
      BY <1>5
    <3>2. ofile[f].ref \in Nat /\ n(f) \in Nat /\ (ofile[f].ref = 0 => n(f) = 0)
      BY <1>7
    <3>3. ofile[f].ref > 0 => ofile[f].ip \in Slots
      BY <1>1 DEF FilesOK
    <3> QED BY <3>1, <3>2, <3>3
  <2>2. \A r \in Procs : Label(r)' \in {"unborn", "zombie"} => file'[r] = [k \in Regs |-> None]
    BY <1>1, <1>6 DEF FilesOK
  <2>3. file' \in [Procs -> [Regs -> 0 .. NFILE]]
    BY <1>6
  <2>4. \A f \in 1 .. NFILE :
          /\ FileShape(ofile'[f]) /\ ofile'[f].ref \in Nat /\ (ofile'[f].ref > 0 => ofile'[f].ip \in Slots)
          /\ IsFiniteSet(Fds(f)') /\ Cardinality(Fds(f)') <= ofile'[f].ref
    BY <1>7, <2>1
  <2> QED BY <1>4, <2>2, <2>3, <2>4 DEF FilesOK
<1>9. ASSUME NEW u \in Slots PROVE Opens(u)' = Opens(u)
  <2>1. \A f \in 1 .. NFILE : ofile'[f].ip = ofile[f].ip /\ (ofile'[f].ref > 0 <=> ofile[f].ref > 0)
    <3> SUFFICES ASSUME NEW f \in 1 .. NFILE
                 PROVE  ofile'[f].ip = ofile[f].ip /\ (ofile'[f].ref > 0 <=> ofile[f].ref > 0)
      OBVIOUS
    <3>1. ofile'[f].ref = ofile[f].ref + n(f) /\ ofile'[f].ip = ofile[f].ip
      BY <1>5
    <3>2. ofile[f].ref \in Nat /\ n(f) \in Nat /\ (ofile[f].ref = 0 => n(f) = 0)
      BY <1>7
    <3> QED BY <3>1, <3>2
  <2> QED BY <2>1 DEF Opens
<1> QED BY <1>8, <1>9

(* fork(): idup() of the current directory is the reference of the child.   *)
LEMMA SysForkKeeps ==
  ASSUME NEW p \in Procs, RefInv, SysFork(p)
  PROVE  RefInv'
<1>1. PICK q \in Procs :
        /\ pc[p] = "user" /\ script[p] # <<>> /\ pc[q] = "unborn"
        /\ pc' = [pc EXCEPT ![q] = "user"]
        /\ script' = [script EXCEPT ![p] = Tail(@), ![q] = Call(p).child]
        /\ file' = [file EXCEPT ![q] = file[p]]
        /\ ofile' = [f \in DOMAIN ofile |->
                       [ofile[f] EXCEPT !.ref = @ + Cardinality({k \in Regs : file[p][k] = f})]]
        /\ cwd' = [cwd EXCEPT ![q] = cwd[p]]
        /\ fs' = Idup(fs, cwd[p])
        /\ UNCHANGED <<c, todo, cont, failed, lost>>
  BY DEF SysFork, Calls, At
<1>2. /\ VarsOK /\ Shape(fs) /\ RefsOK /\ LocksOK /\ \A r \in Procs : LocalsOK(r)
      /\ p # q /\ pc[p] \notin PutLabels /\ pc[q] \notin PutLabels
  BY <1>1 DEF RefInv, PutLabels
<1>3. /\ Label(p) = "user" /\ Label(q) = "unborn" /\ todo[q] = <<>>
      /\ Ready("user", c[p], Call(p).op) /\ Ready("unborn", c[q], Call(q).op)
      /\ cwd[p] \in Slots /\ \A s \in Slots : fs.itab[s].ref \in Nat
  BY <1>1, <1>2, Here
<1>4. /\ \A r \in Procs : r # q => pc'[r] = pc[r] /\ cwd'[r] = cwd[r]
      /\ pc'[q] = "user" /\ cwd'[q] = cwd[p]
  BY <1>1, <1>2 DEF VarsOK
<1>5. \A r \in Procs : r # q => Label(r)' = Label(r)
  BY <1>1, <1>4 DEF Label
<1>6. Label(q)' = "user"
  BY <1>4 DEF Label, PutLabels
<1>7. FilesOK' /\ \A u \in Slots : Opens(u)' = Opens(u)
  BY <1>1, <1>3, <1>5, <1>6, ForkFiles
<1>8. Effect(q, fs, fs', cwd[p], None, None)
  BY <1>1, <1>2, <1>3, IdupEffect
<1>9. VarsOK'
  <2>1. Call(p) \in SysCalls /\ Tail(script[p]) \in Seq(SysCalls)
    BY <1>1, <1>2 DEF VarsOK, Call
  <2>2. Call(p).child \in Seq(SysCalls)
    BY <2>1, ScriptsAssumption
  <2>3. script' \in [Procs -> Seq(SysCalls)]
    BY <1>1, <1>2, <2>1, <2>2 DEF VarsOK
  <2>4. cwd' \in [Procs -> Slots] /\ pc' = [r \in Procs |-> pc'[r]]
    BY <1>1, <1>2, <1>3 DEF VarsOK
  <2> QED BY <1>1, <1>2, <2>3, <2>4 DEF VarsOK
<1>10. \A r \in Procs : r # p /\ r # q => Steady(r)
  BY <1>1, <1>2, <1>4 DEF Steady, VarsOK
<1>11. ASSUME NEW r \in Procs, r # q, NEW s PROVE Cnt(r, s)' = Cnt(r, s)
  <2>1. CASE r # p
    BY <1>10, <1>11, <2>1, SteadyKeeps
  <2>2. CASE r = p
    <3>1. Cnt(p, s) = Num(cwd[p] = s) + Occ(todo[p], s)
      BY <1>3, RefsAt DEF Cnt
    <3>2. Cnt(p, s)' = Num(cwd[p] = s) + Occ(todo[p], s)
      BY <1>1, <1>2, <1>3, <1>4, <1>5, RefsAt DEF Cnt
    <3> QED BY <2>2, <3>1, <3>2
  <2> QED BY <2>1, <2>2
<1>12. ASSUME NEW s \in Slots PROVE Cnt(q, s) = 0 /\ Cnt(q, s)' = Num(cwd[p] = s)
  <2>1. Refs("unborn", c[q], Call(q).op, cwd[q], s) = 0
    BY DEF Refs, HasOld, Num
  <2>2. Cnt(q, s) = 0
    BY <1>3, <2>1, OccOf DEF Cnt
  <2>3. Cnt(q, s)' = Num(cwd[p] = s)
    BY <1>1, <1>3, <1>4, <1>6, RefsAt, OccOf DEF Cnt, Num
  <2> QED BY <2>2, <2>3
<1>13. RefsOK'
  <2>1. ASSUME NEW s \in Slots
        PROVE  fs'.itab[s].ref = fs.itab[s].ref + (Cnt(q, s)' - Cnt(q, s))
                                 + (Cardinality(Opens(s)') - Cardinality(Opens(s)))
    <3>1. fs'.itab[s].ref = fs.itab[s].ref + Num(s = cwd[p]) /\ Num(s = cwd[p]) = Num(cwd[p] = s)
      BY <1>8 DEF Effect, Num
    <3>2. Cardinality(Opens(s)') - Cardinality(Opens(s)) = 0
      BY <1>7, OpensNat
    <3>3. Num(cwd[p] = s) \in Nat
      BY DEF Num
    <3> QED BY <1>3, <1>12, <3>1, <3>2, <3>3
  <2> QED BY <1>2, <1>11, <2>1, RefsStep
<1>14. \A r \in Procs : Held(r)' = Held(r)
  <2>1. \A r \in Procs : r # q => Held(r)' = Held(r)
    BY <1>1, <1>4, <1>5 DEF Held
  <2>2. Held(q) = {} /\ Held(q)' = {}
    BY <1>1, <1>3, <1>4, <1>6 DEF Held, Locks
  <2> QED BY <2>1, <2>2
<1>15. LocksOK'
  BY <1>2, <1>8, <1>14, NoneSlot DEF LocksOK, Effect
<1>16. \A r \in Procs : LocalsOK(r)'
  <2>1. LocalsOK(p)'
    <3>1. Ready("user", c[p], Head(script'[p]).op)
      BY <1>3, ReadyAt
    <3> QED BY <1>1, <1>2, <1>3, <1>4, <1>5, <3>1 DEF LocalsOK, Call, PutLabels
  <2>2. LocalsOK(q)'
    <3>1. Ready("user", c[q], Head(script'[q]).op)
      BY <1>3, ReadyAt
    <3> QED BY <1>1, <1>2, <1>3, <1>4, <1>6, <3>1 DEF LocalsOK, Call, PutLabels
  <2> QED BY <1>2, <1>10, <2>1, <2>2, SteadyKeeps
<1>17. Shape(fs)'
  BY <1>8 DEF Effect
<1> QED BY <1>7, <1>9, <1>13, <1>15, <1>16, <1>17 DEF RefInv

(* wait(): a process that has put everything is gone.                       *)
LEMMA SysWaitKeeps ==
  ASSUME NEW p \in Procs, RefInv, SysWait(p)
  PROVE  RefInv'
<1>1. PICK q \in Procs \ {p} :
        /\ pc[p] = "user" /\ script[p] # <<>> /\ pc[q] = "zombie"
        /\ pc' = [pc EXCEPT ![q] = "unborn"]
        /\ script' = [script EXCEPT ![p] = Tail(script[p]), ![q] = <<>>]
        /\ UNCHANGED <<fs, file, ofile, cwd, c, todo, cont>>
  BY DEF SysWait, Calls, At, userVars
<1>2. /\ VarsOK /\ Shape(fs) /\ RefsOK /\ LocksOK /\ FilesOK /\ \A r \in Procs : LocalsOK(r)
      /\ pc[p] \notin PutLabels /\ pc[q] \notin PutLabels /\ q \in Procs /\ p # q
  BY <1>1 DEF RefInv, PutLabels
<1>3. /\ Label(p) = "user" /\ Label(q) = "zombie" /\ todo[q] = <<>>
      /\ Ready("user", c[p], Call(p).op) /\ Ready("zombie", c[q], Call(q).op)
  BY <1>1, <1>2, Here
<1>4. (\A r \in Procs : r # q => pc'[r] = pc[r]) /\ pc'[q] = "unborn"
  BY <1>1, <1>2 DEF VarsOK
<1>5. /\ \A r \in Procs : r # q => Label(r)' = Label(r)
      /\ Label(q)' = "unborn"
  BY <1>1, <1>4 DEF Label, PutLabels
<1>6. FilesOK' /\ \A u : Opens(u)' = Opens(u)
  <2>1. file[q] = [k \in Regs |-> None]
    BY <1>2, <1>3 DEF FilesOK
  <2> QED BY <1>1, <1>2, <1>5, <2>1, FilesSame
<1>7. VarsOK'
  <2>1. Tail(script[p]) \in Seq(SysCalls) /\ <<>> \in Seq(SysCalls)
    BY <1>1, <1>2 DEF VarsOK
  <2>2. script' \in [Procs -> Seq(SysCalls)] /\ pc' = [r \in Procs |-> pc'[r]]
    BY <1>1, <1>2, <2>1 DEF VarsOK
  <2> QED BY <1>1, <1>2, <2>2 DEF VarsOK
<1>8. \A r \in Procs : r # p /\ r # q => Steady(r)
  BY <1>1, <1>2, <1>4 DEF Steady, VarsOK
<1>9. ASSUME NEW r \in Procs, NEW s PROVE Cnt(r, s)' = Cnt(r, s)
  <2>1. CASE r # p /\ r # q
    BY <1>8, <2>1, SteadyKeeps
  <2>2. CASE r = p
    <3>1. Cnt(p, s) = Num(cwd[p] = s) + Occ(todo[p], s)
      BY <1>3, RefsAt DEF Cnt
    <3>2. Cnt(p, s)' = Num(cwd[p] = s) + Occ(todo[p], s)
      BY <1>1, <1>2, <1>3, <1>5, RefsAt DEF Cnt
    <3> QED BY <2>2, <3>1, <3>2
  <2>3. CASE r = q
    <3>1. Refs("zombie", c[q], Call(q).op, cwd[q], s) = 0
      BY RefsAt
    <3>2. Refs("unborn", c[q], Head(script'[q]).op, cwd[q], s) = 0
      BY DEF Refs, HasOld, Num
    <3>3. Cnt(q, s) = Refs("zombie", c[q], Call(q).op, cwd[q], s) + Occ(todo[q], s)
      BY <1>3 DEF Cnt
    <3>4. Cnt(q, s)' = Refs("unborn", c[q], Head(script'[q]).op, cwd[q], s) + Occ(todo[q], s)
      BY <1>1, <1>5 DEF Cnt, Call
    <3> QED BY <2>3, <3>1, <3>2, <3>3, <3>4
  <2> QED BY <2>1, <2>2, <2>3
<1>10. RefsOK'
  <2>1. ASSUME NEW s \in Slots
        PROVE  fs'.itab[s].ref = fs.itab[s].ref + (Cnt(p, s)' - Cnt(p, s))
                                 + (Cardinality(Opens(s)') - Cardinality(Opens(s)))
    <3>1. fs'.itab[s].ref = fs.itab[s].ref /\ fs.itab[s].ref \in Nat /\ Cnt(p, s)' = Cnt(p, s) /\ Cnt(p, s) \in Nat
      BY <1>1, <1>2, <1>9, RefNat, CntNat
    <3>2. Cardinality(Opens(s)') - Cardinality(Opens(s)) = 0
      BY <1>6, OpensNat
    <3> QED BY <3>1, <3>2
  <2> QED BY <1>2, <1>9, <2>1, RefsStep
<1>11. \A r \in Procs : Held(r)' = Held(r)
  <2>1. \A r \in Procs : r # q => Held(r)' = Held(r)
    BY <1>1, <1>4, <1>5 DEF Held
  <2>2. Held(q) = {} /\ Held(q)' = {}
    BY <1>1, <1>3, <1>4, <1>5 DEF Held, Locks
  <2> QED BY <2>1, <2>2
<1>12. LocksOK'
  BY <1>1, <1>2, <1>11 DEF LocksOK
<1>13. \A r \in Procs : LocalsOK(r)'
  <2>1. LocalsOK(p)'
    <3>1. Ready("user", c[p], Head(script'[p]).op)
      BY <1>3, ReadyAt
    <3> QED BY <1>1, <1>2, <1>3, <1>4, <1>5, <3>1 DEF LocalsOK, Call, PutLabels
  <2>2. LocalsOK(q)'
    <3>1. Ready("unborn", c[q], Head(script'[q]).op)
      BY <1>3 DEF Ready, HasOld, Ahead, PutLabels
    <3> QED BY <1>1, <1>2, <1>3, <1>4, <1>5, <3>1 DEF LocalsOK, Call, PutLabels
  <2> QED BY <1>2, <1>8, <2>1, <2>2, SteadyKeeps
<1>14. Shape(fs)'
  BY <1>1, <1>2
<1> QED BY <1>6, <1>7, <1>10, <1>12, <1>13, <1>14 DEF RefInv

(* iput() of the slot that is put next, as it is when its lock was taken by *)
(* p, and that slot: a reference that p gives up.                           *)
LEMMA PutsOne ==
  ASSUME NEW t \in Seq(Slots), Len(t) <= 2, t # <<>>
  PROVE  /\ Head(t) \in Slots /\ Tail(t) \in Seq(Slots) /\ Len(Tail(t)) = Len(t) - 1
         /\ (Len(t) = 1 <=> Tail(t) = <<>>)
         /\ \A s : Occ(t, s) = Num(Head(t) = s) + Occ(Tail(t), s)
<1>0. Len(t) \in Nat \ {0}
  BY EmptySeq
<1>1. /\ Head(t) = t[1] /\ Head(t) \in Slots /\ Tail(t) \in Seq(Slots) /\ Len(Tail(t)) = Len(t) - 1
      /\ Len(t) \in {1, 2}
  <2>1. Head(t) = t[1]
    BY <1>0
  <2>2. Head(t) \in Slots /\ Tail(t) \in Seq(Slots) /\ Len(Tail(t)) = Len(t) - 1
    BY HeadTailProperties
  <2> QED BY <1>0, <2>1, <2>2
<1>2. Len(t) = 1 <=> Tail(t) = <<>>
  <2>1. Tail(t) # <<>> => Len(Tail(t)) # 0
    BY <1>1, EmptySeq
  <2> QED BY <1>1, <2>1, EmptySeq
<1>3. Len(t) = 2 => Tail(t)[1] = t[2]
  BY <1>1, HeadTailProperties
<1>4. ASSUME NEW s PROVE Occ(t, s) = Num(Head(t) = s) + Occ(Tail(t), s)
  <2> DEFINE u == Tail(t)
             h == Head(t)
  <2>0. Len(u) = Len(t) - 1 /\ h = t[1] /\ (Len(t) = 2 => u[1] = t[2])
    BY <1>1, <1>3
  <2> HIDE DEF u, h
  <2>1. Len(t) = 1 => Occ(t, s) = Num(h = s) + Occ(u, s)
    BY <2>0 DEF Occ, Num
  <2>2. Len(t) = 2 => Occ(t, s) = Num(h = s) + Occ(u, s)
    BY <2>0 DEF Occ, Num
  <2> QED BY <1>1, <2>1, <2>2 DEF u, h
<1> QED BY <1>1, <1>2, <1>4

(* Whoever has the lock of a slot has a reference to it.                    *)
LEMMA HeldCounted ==
  ASSUME NEW q \in Procs, LocalsOK(q), todo[q] \in Seq(Slots), NEW s \in Held(q)
  PROVE  Cnt(q, s) >= 1
<1>0. Refs(Label(q), c[q], Call(q).op, cwd[q], s) \in Nat /\ Occ(todo[q], s) \in Nat
  BY CntNat
<1>1. CASE s \in Locks(Label(q), c[q])
  <2>1. Refs(Label(q), c[q], Call(q).op, cwd[q], s) >= 1
    BY <1>1, RefsAt DEF Locks, Num
  <2> QED BY <1>0, <2>1 DEF Cnt
<1>2. CASE pc[q] \in {"put_free", "put_unlock"} /\ Head(todo[q]) = s
  <2>1. todo[q] # <<>> /\ Len(todo[q]) <= 2
    BY <1>2 DEF LocalsOK, PutLabels
  <2>2. Occ(todo[q], s) = Num(Head(todo[q]) = s) + Occ(Tail(todo[q]), s) /\ Occ(Tail(todo[q]), s) \in Nat
    BY <2>1, PutsOne, CntNat
  <2> QED BY <1>0, <1>2, <2>2 DEF Cnt, Num
<1> QED BY <1>1, <1>2 DEF Held

(* ilock() in iput() does not wait: "ip->ref == 1 means no other process    *)
(* can have ip locked, so this acquiresleep() won't block (or deadlock)".   *)
LEMMA LastPutUnlocked ==
  ASSUME NEW p \in Procs, RefInv, pc[p] = "put", LastPut(fs.itab[Head(todo[p])])
  PROVE  Unlocked(Head(todo[p]))
<1> DEFINE s == Head(todo[p])
<1>1. /\ \A q \in Procs : LocalsOK(q) /\ todo[q] \in Seq(Slots)
      /\ todo[p] # <<>> /\ Len(todo[p]) <= 2
  BY DEF RefInv, VarsOK, LocalsOK, PutLabels
<1>2. s \in Slots /\ Occ(todo[p], s) = Num(s = s) + Occ(Tail(todo[p]), s) /\ Occ(Tail(todo[p]), s) \in Nat
  BY <1>1, PutsOne, CntNat
<1> HIDE DEF s
<1>3. Occ(todo[p], s) >= 1
  BY <1>2 DEF Num
<1>4. /\ IsFiniteSet(Tokens(Cnts(s))) /\ Cardinality(Tokens(Cnts(s))) \in Nat
      /\ Cardinality(Tokens(Cnts(s))) <= 1
  <2>1. fs.itab[s].ref = 1
    BY DEF LastPut, s
  <2>2. IsFiniteSet(Tokens(Cnts(s))) /\ fs.itab[s].ref = Cardinality(Tokens(Cnts(s))) + Cardinality(Opens(s))
    BY <1>2 DEF RefInv, RefsOK
  <2> QED BY <2>1, <2>2, OpensFinite, FS_CardinalityType
<1>5. Cnts(s) \in [Procs -> Nat] /\ \A q \in Procs : Cnts(s)[q] = Cnt(q, s)
  BY CntNat DEF Cnts
<1>6. Refs(Label(p), c[p], Call(p).op, cwd[p], s) \in Nat
  BY CntNat
<1>7. Cnt(p, s) >= 1
  BY <1>3, <1>6, CntNat DEF Cnt
<1>8. SUFFICES ASSUME ~Unlocked(s) PROVE FALSE
  BY DEF s
<1>9. PICK q \in Procs : s \in Held(q)
  BY <1>2, <1>8 DEF RefInv, LocksOK, Unlocked
<1>10. Cnt(q, s) >= 1
  BY <1>1, <1>9, HeldCounted
<1>11. CASE q # p
  <2>1. Cnt(p, s) + Cnt(q, s) <= Cardinality(Tokens(Cnts(s)))
    BY <1>4, <1>5, <1>11, TokensOfTwo
  <2> QED BY <1>4, <1>7, <1>10, <2>1, CntNat
<1>12. CASE q = p
  <2>1. s \in Locks(Label(p), c[p])
    BY <1>9, <1>12 DEF Held
  <2>2. Refs(Label(p), c[p], Call(p).op, cwd[p], s) >= 1
    BY <2>1, RefsAt DEF Locks, Num
  <2>3. Cnt(p, s) >= 2
    BY <1>3, <1>6, <2>2, CntNat DEF Cnt
  <2>4. Cnt(p, s) <= Cardinality(Tokens(Cnts(s)))
    BY <1>4, <1>5, TokensChange
  <2> QED BY <1>4, <2>3, <2>4, CntNat
<1> QED BY <1>11, <1>12

(* A step of iput() that puts the reference back.                           *)
LEMMA Drops ==
  ASSUME NEW p \in Procs, RefInv, pc[p] \in {"put", "put_drop"}, NextPut(p), UNCHANGED userVars, UNCHANGED c,
         Shape(fs'),
         \A t \in Slots : /\ fs'.itab[t].lock = fs.itab[t].lock
                          /\ fs'.itab[t].ref = fs.itab[t].ref - Num(Head(todo[p]) = t)
  PROVE  RefInv'
<1>1. /\ VarsOK /\ todo[p] # <<>> /\ Len(todo[p]) <= 2 /\ todo[p] \in Seq(Slots)
      /\ Ready(cont[p], c[p], Call(p).op) /\ Label(p) = cont[p] /\ cont[p] \notin PutLabels
      /\ cont[p] \in {"user", "unborn", "zombie"} \/ script[p] # <<>>
  BY DEF RefInv, VarsOK, LocalsOK, PutLabels, Label, Ready
<1>2. /\ Tail(todo[p]) \in Seq(Slots) /\ Len(Tail(todo[p])) <= 2
      /\ (Len(todo[p]) = 1 <=> Tail(todo[p]) = <<>>)
      /\ \A s : Occ(todo[p], s) = Num(Head(todo[p]) = s) + Occ(Tail(todo[p]), s)
  <2>1. Len(Tail(todo[p])) = Len(todo[p]) - 1 /\ Len(todo[p]) \in Nat
    BY <1>1, PutsOne, LenProperties
  <2> QED BY <1>1, <2>1, PutsOne
<1>3. /\ todo' = [todo EXCEPT ![p] = Tail(todo[p])]
      /\ pc' = [pc EXCEPT ![p] = IF Tail(todo[p]) = <<>> THEN cont[p] ELSE "put"]
      /\ cont' = cont /\ script' = script /\ file' = file /\ ofile' = ofile /\ cwd' = cwd /\ c' = c
  BY <1>2 DEF NextPut, userVars
<1>4. /\ todo'[p] = Tail(todo[p]) /\ pc'[p] = IF Tail(todo[p]) = <<>> THEN cont[p] ELSE "put"
      /\ VarsOK'
      /\ \A q \in Procs : q # p => Steady(q)
  BY <1>1, <1>2, <1>3 DEF VarsOK, Steady
<1>5. Label(p)' = cont[p] /\ pc'[p] \notin {"put_free", "put_unlock"} /\ (pc'[p] \in PutLabels <=> todo'[p] # <<>>)
  <2>1. CASE Tail(todo[p]) = <<>>
    BY <1>1, <1>4, <2>1 DEF Label, PutLabels
  <2>2. CASE Tail(todo[p]) # <<>>
    <3>1. pc'[p] = "put" /\ todo'[p] # <<>> /\ cont'[p] = cont[p]
      BY <1>3, <1>4, <2>2
    <3> QED BY <3>1 DEF Label, PutLabels
  <2> QED BY <2>1, <2>2
<1>6. LocalsOK(p)'
  BY <1>1, <1>2, <1>3, <1>4, <1>5 DEF LocalsOK, Call
<1>7. Held(p)' = Held(p)
  BY <1>1, <1>3, <1>5 DEF Held
<1>8. LockMove(p)
  BY <1>7 DEF LockMove, RefInv, LocksOK
<1>9. FilesOK' /\ \A u : Opens(u)' = Opens(u)
  <2>1. \A q \in Procs : Label(q)' = Label(q)
    BY <1>1, <1>4, <1>5, SteadyKeeps
  <2>2. Label(p)' \in {"unborn", "zombie"} => file[p] = [k \in Regs |-> None]
    BY <2>1 DEF RefInv, FilesOK
  <2> QED BY <1>3, <2>1, <2>2, FilesSame
<1>10. ASSUME NEW s \in Slots
       PROVE  fs'.itab[s].ref = fs.itab[s].ref + (Cnt(p, s)' - Cnt(p, s))
                                + (Cardinality(Opens(s)') - Cardinality(Opens(s)))
  <2> DEFINE r == Refs(cont[p], c[p], Call(p).op, cwd[p], s)
  <2>1. Cnt(p, s) = r + Occ(todo[p], s) /\ Cnt(p, s)' = r + Occ(Tail(todo[p]), s)
    BY <1>1, <1>3, <1>4, <1>5 DEF Cnt, Call
  <2>2. r \in Nat /\ Occ(Tail(todo[p]), s) \in Nat /\ Num(Head(todo[p]) = s) \in Nat /\ fs.itab[s].ref \in Nat
    BY CntNat, RefNat DEF Num, RefInv
  <2> HIDE DEF r
  <2>3. Cardinality(Opens(s)') - Cardinality(Opens(s)) = 0
    BY <1>9, OpensNat
  <2>4. /\ fs'.itab[s].ref = fs.itab[s].ref - Num(Head(todo[p]) = s)
        /\ Occ(todo[p], s) = Num(Head(todo[p]) = s) + Occ(Tail(todo[p]), s)
    BY <1>2
  <2> QED BY <2>1, <2>2, <2>3, <2>4
<1> QED BY <1>4, <1>6, <1>8, <1>9, <1>10, Carry

(* A step of iput() that takes the lock, keeps it or lets it go.            *)
LEMMA Turns ==
  ASSUME NEW p \in Procs, RefInv, pc[p] \in PutLabels, NEW l \in PutLabels \ {"put"}, Go(p, l),
         UNCHANGED userVars, UNCHANGED c, Shape(fs'),
         NEW s, s = Head(todo[p]), pc[p] = "put" => Unlocked(s),
         l = "put_drop" => pc[p] = "put_unlock",
         \A t \in Slots : /\ fs'.itab[t].ref = fs.itab[t].ref
                          /\ fs'.itab[t].lock = IF t # s THEN fs.itab[t].lock
                                                ELSE IF l = "put_drop" THEN None ELSE p,
         l = "put_unlock" => pc[p] = "put_free", l = "put_free" => pc[p] = "put"
  PROVE  RefInv'
<1>1. /\ VarsOK /\ todo[p] # <<>> /\ Len(todo[p]) <= 2 /\ todo[p] \in Seq(Slots)
      /\ Ready(cont[p], c[p], Call(p).op) /\ Label(p) = cont[p]
      /\ cont[p] \in {"user", "unborn", "zombie"} \/ script[p] # <<>>
      /\ (pc[p] \in {"put_free", "put_unlock"} => s \notin Locks(cont[p], c[p]))
  BY DEF RefInv, VarsOK, LocalsOK, PutLabels, Label
<1>2. /\ pc' = [pc EXCEPT ![p] = l] /\ todo' = todo
      /\ cont' = cont /\ script' = script /\ file' = file /\ ofile' = ofile /\ cwd' = cwd /\ c' = c
  BY DEF Go, userVars
<1>3. pc'[p] = l /\ VarsOK' /\ \A q \in Procs : q # p => Steady(q)
  BY <1>1, <1>2 DEF VarsOK, Steady
<1>4. Label(p)' = cont[p]
  BY <1>2, <1>3 DEF Label
<1>5. s \in Slots /\ s \notin Locks(cont[p], c[p])
  <2>1. s \in Slots
    BY <1>1, PutsOne
  <2>2. CASE pc[p] = "put"
    <3>1. fs.itab[s].lock # p /\ (fs.itab[s].lock = p <=> s \in Held(p))
      BY <2>1, <2>2, FsAssumption DEF Unlocked, RefInv, LocksOK
    <3> QED BY <1>1, <2>1, <3>1 DEF Held
  <2>3. CASE pc[p] # "put"
    BY <1>1, <2>1, <2>3 DEF PutLabels
  <2> QED BY <2>1, <2>2, <2>3
<1>6. LocalsOK(p)'
  <2>1. Call(p)' = Call(p)
    BY <1>2 DEF Call
  <2> QED BY <1>1, <1>2, <1>3, <1>4, <1>5, <2>1 DEF LocalsOK
<1>7. LockMove(p)
  <2> SUFFICES ASSUME NEW t \in Slots
               PROVE  IF t \in Held(p)' THEN fs'.itab[t].lock = p /\ fs.itab[t].lock \in {p, None}
                      ELSE fs'.itab[t].lock = IF fs.itab[t].lock = p THEN None ELSE fs.itab[t].lock
    BY DEF LockMove
  <2>1. t \in Held(p)' <=> t \in Locks(cont[p], c[p]) \/ (l # "put_drop" /\ t = s)
    BY <1>2, <1>3, <1>4 DEF Held, PutLabels
  <2>2. t \in Held(p) <=> t \in Locks(cont[p], c[p]) \/ (pc[p] \in {"put_free", "put_unlock"} /\ t = s)
    BY <1>1 DEF Held
  <2>3. fs.itab[t].lock = p <=> t \in Held(p)
    BY DEF RefInv, LocksOK
  <2>4. fs'.itab[t].lock = IF t # s THEN fs.itab[t].lock ELSE IF l = "put_drop" THEN None ELSE p
    OBVIOUS
  <2>5. pc[p] = "put" /\ t = s => fs.itab[t].lock = None
    BY DEF Unlocked
  <2> QED BY <1>5, <2>1, <2>2, <2>3, <2>4, <2>5 DEF PutLabels
<1>8. FilesOK' /\ \A u : Opens(u)' = Opens(u)
  <2>1. \A q \in Procs : Label(q)' = Label(q)
    BY <1>1, <1>3, <1>4, SteadyKeeps
  <2>2. Label(p)' \in {"unborn", "zombie"} => file[p] = [k \in Regs |-> None]
    BY <2>1 DEF RefInv, FilesOK
  <2> QED BY <1>2, <2>1, <2>2, FilesSame
<1>9. ASSUME NEW u \in Slots
      PROVE  fs'.itab[u].ref = fs.itab[u].ref + (Cnt(p, u)' - Cnt(p, u))
                               + (Cardinality(Opens(u)') - Cardinality(Opens(u)))
  <2>1. Cnt(p, u)' = Cnt(p, u) /\ Cnt(p, u) \in Nat
    BY <1>1, <1>2, <1>4, CntNat DEF Cnt, Call
  <2>2. Cardinality(Opens(u)') - Cardinality(Opens(u)) = 0
    BY <1>8, OpensNat
  <2>3. fs'.itab[u].ref = fs.itab[u].ref /\ fs.itab[u].ref \in Nat
    BY RefNat DEF RefInv
  <2> QED BY <2>1, <2>2, <2>3
<1> QED BY <1>3, <1>6, <1>7, <1>8, <1>9, Carry

(* One field of a slot changes.                                             *)
RefPut(v, w, s, x) ==
  /\ Shape(w) /\ w.panic = v.panic
  /\ \A t \in Slots : /\ w.itab[t].lock = v.itab[t].lock
                      /\ w.itab[t].ref = IF t = s THEN x ELSE v.itab[t].ref
LockPut(v, w, s, x) ==
  /\ Shape(w) /\ w.panic = v.panic
  /\ \A t \in Slots : /\ w.itab[t].ref = v.itab[t].ref
                      /\ w.itab[t].lock = IF t = s THEN x ELSE v.itab[t].lock
SamePut(v, w) ==
  /\ Shape(w) /\ w.panic = v.panic
  /\ \A t \in Slots : w.itab[t].ref = v.itab[t].ref /\ w.itab[t].lock = v.itab[t].lock

(* The assignments of iput().                                               *)
LEMMA FieldPut ==
  ASSUME NEW v, NEW s, Shape(v), NEW x
  PROVE  /\ RefPut(v, [v EXCEPT !.itab[s].ref = x], s, x)
         /\ LockPut(v, [v EXCEPT !.itab[s].lock = x], s, x)
         /\ SamePut(v, [v EXCEPT !.itab[s].valid = x])
<1> DEFINE n == v.itab[s]
<1>s. s \in Slots => SlotShape(n)
  BY DEF Shape
<1> HIDE DEF n
<1>1. LET w == [v EXCEPT !.itab[s] = [n EXCEPT !.ref = x]] IN
      /\ Shape(w) /\ w.panic = v.panic
      /\ \A t \in Slots : /\ w.itab[t].lock = v.itab[t].lock
                          /\ w.itab[t].ref = IF t = s THEN x ELSE v.itab[t].ref
  <2> DEFINE m == [n EXCEPT !.ref = x]
  <2>1. s \in Slots => SlotShape(m) /\ m.lock = n.lock /\ m.ref = x
    BY <1>s DEF SlotShape
  <2> HIDE DEF m
  <2>2. LET w == [v EXCEPT !.itab[s] = m] IN
        /\ Shape(w) /\ w.panic = v.panic /\ \A t \in Slots : w.itab[t] = IF t = s THEN m ELSE v.itab[t]
    BY <2>1, SlotPut
  <2>3. LET w == [v EXCEPT !.itab[s] = m] IN
        /\ Shape(w) /\ w.panic = v.panic
        /\ \A t \in Slots : /\ w.itab[t].lock = v.itab[t].lock
                            /\ w.itab[t].ref = IF t = s THEN x ELSE v.itab[t].ref
    BY <2>1, <2>2 DEF n
  <2> QED BY <2>3 DEF m
<1>2. LET w == [v EXCEPT !.itab[s] = [n EXCEPT !.lock = x]] IN
      /\ Shape(w) /\ w.panic = v.panic
      /\ \A t \in Slots : /\ w.itab[t].ref = v.itab[t].ref
                          /\ w.itab[t].lock = IF t = s THEN x ELSE v.itab[t].lock
  <2> DEFINE m == [n EXCEPT !.lock = x]
  <2>1. s \in Slots => SlotShape(m) /\ m.lock = x /\ m.ref = n.ref
    BY <1>s DEF SlotShape
  <2> HIDE DEF m
  <2>2. LET w == [v EXCEPT !.itab[s] = m] IN
        /\ Shape(w) /\ w.panic = v.panic /\ \A t \in Slots : w.itab[t] = IF t = s THEN m ELSE v.itab[t]
    BY <2>1, SlotPut
  <2>3. LET w == [v EXCEPT !.itab[s] = m] IN
        /\ Shape(w) /\ w.panic = v.panic
        /\ \A t \in Slots : /\ w.itab[t].ref = v.itab[t].ref
                            /\ w.itab[t].lock = IF t = s THEN x ELSE v.itab[t].lock
    BY <2>1, <2>2 DEF n
  <2> QED BY <2>3 DEF m
<1>3. LET w == [v EXCEPT !.itab[s] = [n EXCEPT !.valid = x]] IN
      /\ Shape(w) /\ w.panic = v.panic
      /\ \A t \in Slots : w.itab[t].ref = v.itab[t].ref /\ w.itab[t].lock = v.itab[t].lock
  <2> DEFINE m == [n EXCEPT !.valid = x]
  <2>1. s \in Slots => SlotShape(m) /\ m.lock = n.lock /\ m.ref = n.ref
    <3>1. \A y : SlotShape(n) => SlotShape([n EXCEPT !.valid = y])
      BY DEF SlotShape
    <3>2. s \in Slots => SlotShape(m)
      BY <1>s, <3>1
    <3>3. s \in Slots => m.lock = n.lock /\ m.ref = n.ref
      BY <1>s DEF SlotShape
    <3> QED BY <3>2, <3>3
  <2> HIDE DEF m
  <2>2. LET w == [v EXCEPT !.itab[s] = m] IN
        /\ Shape(w) /\ w.panic = v.panic /\ \A t \in Slots : w.itab[t] = IF t = s THEN m ELSE v.itab[t]
    BY <2>1, SlotPut
  <2>3. LET w == [v EXCEPT !.itab[s] = m] IN
        /\ Shape(w) /\ w.panic = v.panic
        /\ \A t \in Slots : w.itab[t].ref = v.itab[t].ref /\ w.itab[t].lock = v.itab[t].lock
    BY <2>1, <2>2 DEF n
  <2> QED BY <2>3 DEF m
<1> QED BY <1>1, <1>2, <1>3 DEF n, RefPut, LockPut, SamePut

(* iput(), when it keeps the inode; or takes its lock, which is free.       *)
LEMMA IputKeeps ==
  ASSUME NEW p \in Procs, RefInv, Iput(p)
  PROVE  RefInv'
<1> DEFINE s == Head(todo[p])
           n == fs.itab[s]
<1>1. pc[p] = "put" /\ pc[p] \in PutLabels /\ UNCHANGED userVars /\ UNCHANGED c /\ Shape(fs)
      /\ todo[p] # <<>> /\ todo[p] \in Seq(Slots) /\ Len(todo[p]) <= 2
  BY DEF Iput, At, PutLabels, RefInv, LocalsOK, VarsOK
<1>2. s \in Slots
  BY <1>1, PutsOne
<1>3. CASE LastPut(n)
  <2>1. fs' = [fs EXCEPT !.itab[s].lock = p, !.panic = fs.panic \/ ~Unlocked(s)] /\ Go(p, "put_free")
    BY <1>3 DEF Iput
  <2>2. Unlocked(s)
    BY <1>1, <1>3, LastPutUnlocked
  <2> DEFINE w == [fs EXCEPT !.itab[s].lock = p]
             x == fs.panic \/ ~Unlocked(s)
  <2> HIDE DEF s
  <2>3. /\ Shape(w) /\ w.panic = fs.panic
        /\ \A t \in Slots : /\ w.itab[t].ref = fs.itab[t].ref
                            /\ w.itab[t].lock = IF t = s THEN p ELSE fs.itab[t].lock
    <3>1. LockPut(fs, w, s, p)
      BY <1>1, FieldPut
    <3> QED BY <3>1 DEF LockPut
  <2>4. fs' = [w EXCEPT !.panic = x]
    BY <1>1, <2>1 DEF Shape
  <2> HIDE DEF w
  <2>5. x \in BOOLEAN
    OBVIOUS
  <2> HIDE DEF x
  <2>6. Shape(fs') /\ fs'.itab = w.itab
    BY <2>3, <2>4, <2>5, PanicShape
  <2>7. \A t \in Slots : /\ fs'.itab[t].ref = fs.itab[t].ref
                         /\ fs'.itab[t].lock = IF t # s THEN fs.itab[t].lock ELSE p
    BY <2>3, <2>6
  <2>8. "put_free" \in PutLabels \ {"put"}
    BY DEF PutLabels
  <2> QED BY <1>1, <2>1, <2>2, <2>6, <2>7, <2>8, Turns DEF s
<1>4. CASE ~LastPut(n)
  <2>1. fs' = [fs EXCEPT !.itab[s].ref = n.ref - 1] /\ NextPut(p)
    BY <1>4 DEF Iput
  <2> HIDE DEF s
  <2>2. /\ Shape(fs')
        /\ \A t \in Slots : /\ fs'.itab[t].lock = fs.itab[t].lock
                            /\ fs'.itab[t].ref = IF t = s THEN n.ref - 1 ELSE fs.itab[t].ref
    <3> DEFINE r == n.ref - 1
    <3> HIDE DEF r
    <3>1. RefPut(fs, [fs EXCEPT !.itab[s].ref = r], s, r)
      BY <1>1, FieldPut
    <3>2. RefPut(fs, fs', s, n.ref - 1)
      BY <2>1, <3>1 DEF r
    <3> QED BY <3>2 DEF RefPut
  <2>3. \A t \in Slots : fs'.itab[t].ref = fs.itab[t].ref - Num(s = t)
    BY <2>2, RefNat DEF RefInv, Num
  <2> QED BY <1>1, <2>1, <2>2, <2>3, Drops DEF s
<1> QED BY <1>3, <1>4

(* iput() frees the inode, which it has locked.                             *)
LEMMA IputFreeKeeps ==
  ASSUME NEW p \in Procs, RefInv, IputFree(p)
  PROVE  RefInv'
<1> DEFINE s == Head(todo[p])
           v == Itrunc(fs, s)
           w == [v EXCEPT !.itab[s].type = "FREE"]
<1>1. /\ pc[p] = "put_free" /\ pc[p] \in PutLabels /\ UNCHANGED userVars /\ UNCHANGED c /\ Shape(fs)
      /\ Go(p, "put_unlock") /\ fs' = Iupdate(w, s)
      /\ todo[p] # <<>> /\ todo[p] \in Seq(Slots) /\ Len(todo[p]) <= 2
  BY DEF IputFree, At, PutLabels, RefInv, LocalsOK, VarsOK
<1>2. s \in Slots
  BY <1>1, PutsOne
<1> HIDE DEF s, v, w
<1>3. Wrote(fs, v, s)
  BY <1>1, ItruncWrote DEF v
<1>4. Wrote(v, w, s)
  <2>1. Shape(v)
    BY <1>3 DEF Wrote
  <2> QED BY <2>1, FieldWrote DEF w
<1>5. Wrote(fs, fs', s)
  <2>1. Shape(w)
    BY <1>4 DEF Wrote
  <2>2. Wrote(w, fs', s)
    BY <1>1, <2>1, IupdateWrote
  <2> QED BY <1>3, <1>4, <2>2, WroteTwice
<1>6. fs.itab[s].lock = p
  BY <1>1, <1>2 DEF RefInv, LocksOK, Held, s
<1>7. /\ Shape(fs')
      /\ \A t \in Slots : /\ fs'.itab[t].ref = fs.itab[t].ref
                          /\ fs'.itab[t].lock = IF t # s THEN fs.itab[t].lock ELSE p
  BY <1>5, <1>6 DEF Wrote, SameSlot
<1>8. "put_unlock" \in PutLabels \ {"put"}
  BY DEF PutLabels
<1> QED BY <1>1, <1>7, <1>8, Turns DEF s

(* iput() lets the lock go.                                                 *)
LEMMA IputUnlockKeeps ==
  ASSUME NEW p \in Procs, RefInv, IputUnlock(p)
  PROVE  RefInv'
<1> DEFINE s == Head(todo[p])
           v == Invalid(fs, s)
<1>1. /\ pc[p] = "put_unlock" /\ pc[p] \in PutLabels /\ UNCHANGED userVars /\ UNCHANGED c /\ Shape(fs)
      /\ Go(p, "put_drop") /\ fs' = Iunlock(v, s)
      /\ todo[p] # <<>> /\ todo[p] \in Seq(Slots) /\ Len(todo[p]) <= 2
  BY DEF IputUnlock, At, PutLabels, RefInv, LocalsOK, VarsOK
<1> HIDE DEF s
<1>2. Shape(v) /\ \A t \in Slots : v.itab[t].ref = fs.itab[t].ref /\ v.itab[t].lock = fs.itab[t].lock
  <2>1. SamePut(fs, [fs EXCEPT !.itab[s].valid = FALSE])
    BY <1>1, FieldPut
  <2> QED BY <2>1 DEF Invalid, SamePut
<1> HIDE DEF v
<1>3. Took(v, fs', s, None)
  BY <1>1, <1>2, IunlockTook
<1>4. /\ Shape(fs')
      /\ \A t \in Slots : /\ fs'.itab[t].ref = fs.itab[t].ref
                          /\ fs'.itab[t].lock = IF t # s THEN fs.itab[t].lock ELSE None
  BY <1>2, <1>3 DEF Took
<1>5. "put_drop" \in PutLabels \ {"put"}
  BY DEF PutLabels
<1> QED BY <1>1, <1>4, <1>5, Turns DEF s

(* iput() takes the reference back, whatever came between.                  *)
LEMMA IputDropKeeps ==
  ASSUME NEW p \in Procs, RefInv, IputDrop(p)
  PROVE  RefInv'
<1> DEFINE s == Head(todo[p])
           r == fs.itab[s].ref
<1>1. /\ pc[p] = "put_drop" /\ UNCHANGED userVars /\ UNCHANGED c /\ Shape(fs) /\ NextPut(p)
      /\ fs' = [fs EXCEPT !.itab[s].ref = r - 1]
  BY DEF IputDrop, At, RefInv
<1> HIDE DEF s
<1>2. /\ Shape(fs')
      /\ \A t \in Slots : /\ fs'.itab[t].lock = fs.itab[t].lock
                          /\ fs'.itab[t].ref = IF t = s THEN r - 1 ELSE fs.itab[t].ref
  <2> DEFINE x == r - 1
  <2> HIDE DEF x
  <2>1. RefPut(fs, [fs EXCEPT !.itab[s].ref = x], s, x)
    BY <1>1, FieldPut
  <2>2. RefPut(fs, fs', s, r - 1)
    BY <1>1, <2>1 DEF x
  <2> QED BY <2>2 DEF RefPut
<1>3. \A t \in Slots : fs'.itab[t].ref = fs.itab[t].ref - Num(s = t)
  BY <1>2, RefNat DEF RefInv, Num
<1> QED BY <1>1, <1>2, <1>3, Drops DEF s

(* An inode is written on the disk: the table stays as it is.               *)
LEMMA DinodeWrote ==
  ASSUME NEW v, NEW s, NEW i, NEW d, Shape(v)
  PROVE  Wrote(v, [v EXCEPT !.dinode[i] = d], s)
BY DEF Wrote, SameSlot, Shape

(* A panic has no effect on references or locks.                            *)
LEMMA PanicEffect ==
  ASSUME NEW p, NEW v, NEW w, NEW g, NEW s, NEW d, Effect(p, v, w, g, s, d), NEW x \in BOOLEAN
  PROVE  Effect(p, v, [w EXCEPT !.panic = x], g, s, d)
BY PanicShape DEF Effect

(* The variables when inum is set.                                          *)
LEMMA InumLocals ==
  ASSUME NEW y, Locals(y), NEW i, NEW x, x = [y EXCEPT !.inum = i]
  PROVE  Locals(x) /\ x.ip = y.ip /\ x.dp = y.dp /\ x.par = y.par /\ x.next = y.next /\ x.old = y.old
BY DEF Locals

(* The variables when old is set.                                           *)
LEMMA OldLocals ==
  ASSUME NEW y, Locals(y), NEW i, NEW x, x = [y EXCEPT !.old = i]
  PROVE  Locals(x) /\ x.ip = y.ip /\ x.dp = y.dp /\ x.par = y.par /\ x.next = y.next /\ x.old = i
BY DEF Locals

Found(y, i, o) == [y EXCEPT !.ip = i, !.off = o]

(* The variables when unlink() has found the entry.                         *)
LEMMA FoundLocals ==
  ASSUME NEW y, Locals(y), NEW i, NEW o, NEW x, x = Found(y, i, o)
  PROVE  Locals(x) /\ x.ip = i /\ x.dp = y.dp /\ x.par = y.par /\ x.next = y.next /\ x.old = y.old
BY DEF Locals, Found

(* What a call begins its step with.                                        *)
LEMMA Begins ==
  ASSUME NEW p \in Procs, RefInv, pc[p] \notin PutLabels, pc[p] \notin {"user", "unborn", "zombie"}
  PROVE  /\ VarsOK /\ script[p] # <<>> /\ Shape(fs) /\ \A t \in Slots : fs.itab[t].ref \in Nat
         /\ Ready(pc[p], c[p], Call(p).op) /\ Locals(c[p]) /\ cwd[p] \in Slots
         /\ Effect(p, fs, fs, None, None, None)
         /\ UNCHANGED c => c' = [c EXCEPT ![p] = c[p]]
         /\ \A s \in Slots : Unlocked(s) => s \notin Locks(pc[p], c[p])
<1>1. /\ Ready(pc[p], c[p], Call(p).op) /\ script[p] # <<>> /\ Shape(fs) /\ cwd[p] \in Slots
      /\ \A t \in Slots : fs.itab[t].ref \in Nat
      /\ \A s \in Slots : fs.itab[s].lock = p <=> s \in Locks(pc[p], c[p])
  BY Here
<1>2. Effect(p, fs, fs, None, None, None)
  BY <1>1, NoEffect
<1>3. \A s \in Slots : Unlocked(s) => s \notin Locks(pc[p], c[p])
  BY <1>1, FsAssumption DEF Unlocked
<1>4. VarsOK /\ (UNCHANGED c => c' = [c EXCEPT ![p] = c[p]])
  BY DEF RefInv, VarsOK
<1> QED BY <1>1, <1>2, <1>3, <1>4 DEF Ready

(* create(): the directory is locked, and the name found, or an inode       *)
(* allocated.                                                               *)
LEMMA CreateKeeps ==
  ASSUME NEW p \in Procs, RefInv, Create(p)
  PROVE  RefInv' \/ Stopped'
<1> DEFINE y == c[p]
           s == c[p].dp
           v == Ilock(fs, s, p)
           ents == Lookup(v, s, c[p].name)
           g == Iget(v, UnitAt(v, v.itab[s], Min(ents)).inum)
           free == {i \in Inums : v.dinode[i].type = "FREE"}
           e == [FreeInode EXCEPT !.type = NewType(p)]
<1>1. pc[p] = "create" /\ pc[p] \notin PutLabels /\ UNCHANGED userVars /\ Unlocked(s) /\ s # None
  BY DEF Create, At, PutLabels
<1>2. /\ VarsOK /\ script[p] # <<>> /\ Shape(fs) /\ \A t \in Slots : fs.itab[t].ref \in Nat
      /\ Ready("create", c[p], Call(p).op) /\ Locals(c[p])
      /\ UNCHANGED c => c' = [c EXCEPT ![p] = c[p]]
  BY <1>1, Begins
<1>3. s \in Slots /\ Call(p).op # "link"
  BY <1>1, <1>2 DEF Ready, Ahead
<1>4. CASE fs' = Iunlock(g.fs, s) /\ c' = [c EXCEPT ![p].ip = g.s] /\ Puts(p, <<s>>, "exists")
  <2> DEFINE i == g.s
             x == [y EXCEPT !.ip = i]
  <2>1. Goes(p, "exists", <<s>>) /\ c' = [c EXCEPT ![p] = x]
    BY <1>3, <1>4, PutsTo
  <2>2. CASE fs'.panic
    BY <1>2, <2>1, <2>2, StoppedAt
  <2>3. CASE ~fs'.panic
    <3>1. Effect(p, fs, fs', i, None, None) /\ i \in Slots
      BY <1>1, <1>2, <1>4, <2>3, VisitGet
    <3> HIDE DEF i, x
    <3>2. Locals(x) /\ x.ip = i /\ x.dp = y.dp /\ x.old = y.old
      BY <1>2, IpLocals DEF x
    <3>3. Ready("exists", x, Call(p).op)
      BY <1>3, <3>1, <3>2 DEF Ready, HasOld, Ahead, PutLabels
    <3>4. Balance(p, "exists", x, <<s>>, i, None, None)
      BY <1>1, <1>3, <3>1, <3>2, RefsAt, LocksAt, OccOf, NoneSlot DEF Balance, Num
    <3> QED BY <1>1, <1>2, <2>1, <3>1, <3>3, <3>4, Act
  <2> QED BY <2>2, <2>3
<1>5. CASE fs' = Iunlock(v, s) /\ Puts(p, <<s>>, "fail") /\ UNCHANGED c
  <2>1. Goes(p, "fail", <<s>>) /\ Effect(p, fs, fs', None, None, None)
    BY <1>1, <1>2, <1>3, <1>5, PutsTo, IlockVisit
  <2>2. Ready("fail", c[p], Call(p).op) /\ c' = [c EXCEPT ![p] = c[p]]
    BY <1>2, <1>5, ReadyAt
  <2>3. Balance(p, "fail", c[p], <<s>>, None, None, None)
    BY <1>1, <1>3, RefsAt, LocksAt, OccOf, NoneSlot DEF Balance, Num
  <2> QED BY <1>1, <1>2, <2>1, <2>2, <2>3, Act
<1>6. CASE /\ fs' = [v EXCEPT !.dinode[Min(free)] = e]
           /\ c' = [c EXCEPT ![p].inum = Min(free)] /\ Go(p, "ialloc")
  <2> DEFINE i == Min(free)
             x == [y EXCEPT !.inum = i]
  <2>1. Goes(p, "ialloc", <<>>) /\ c' = [c EXCEPT ![p] = x] /\ fs' = [v EXCEPT !.dinode[i] = e]
    BY <1>6 DEF Goes
  <2> HIDE DEF i, x, e
  <2>2. Locals(x) /\ x.ip = y.ip /\ x.dp = y.dp /\ x.old = y.old
    BY <1>2, InumLocals DEF x
  <2>3. Effect(p, fs, fs', None, s, None)
    <3>1. Effect(p, fs, v, None, s, None)
      BY <1>2, IlockEffect
    <3>2. Wrote(v, fs', s)
      BY <2>1, <3>1, DinodeWrote DEF Effect
    <3> QED BY <3>1, <3>2, WroteEffect
  <2>4. Ready("ialloc", x, Call(p).op)
    BY <1>3, <2>2 DEF Ready, HasOld, Ahead, PutLabels
  <2>5. Balance(p, "ialloc", x, <<>>, None, s, None)
    BY <1>1, <1>3, <2>2, RefsAt, LocksAt, OccOf, NoneSlot DEF Balance, Num
  <2> QED BY <1>1, <1>2, <2>1, <2>3, <2>4, <2>5, Act
<1>7. \/ fs' = Iunlock(g.fs, s) /\ c' = [c EXCEPT ![p].ip = g.s] /\ Puts(p, <<s>>, "exists")
      \/ fs' = Iunlock(v, s) /\ Puts(p, <<s>>, "fail") /\ UNCHANGED c
      \/ /\ fs' = [v EXCEPT !.dinode[Min(free)] = e]
         /\ c' = [c EXCEPT ![p].inum = Min(free)] /\ Go(p, "ialloc")
  BY DEF Create
<1> HIDE DEF v, g, free, e
<1> QED BY <1>4, <1>5, <1>6, <1>7

(* ialloc()'s iget().                                                       *)
LEMMA IallocGetKeeps ==
  ASSUME NEW p \in Procs, RefInv, IallocGet(p)
  PROVE  RefInv' \/ Stopped'
<1> DEFINE y == c[p]
           g == Iget(fs, c[p].inum)
           i == g.s
           x == [y EXCEPT !.ip = i]
<1>1. /\ pc[p] = "ialloc" /\ pc[p] \notin PutLabels /\ UNCHANGED userVars
      /\ fs' = g.fs /\ c' = [c EXCEPT ![p] = x] /\ Goes(p, "fill", <<>>)
  BY DEF IallocGet, At, PutLabels, Goes
<1>2. /\ VarsOK /\ script[p] # <<>> /\ Shape(fs) /\ \A t \in Slots : fs.itab[t].ref \in Nat
      /\ Ready("ialloc", c[p], Call(p).op) /\ Locals(c[p]) /\ Effect(p, fs, fs, None, None, None)
  BY <1>1, Begins
<1>3. CASE fs'.panic
  BY <1>1, <1>2, <1>3, StoppedAt
<1>4. CASE ~fs'.panic
  <2>1. Effect(p, fs, fs', i, None, None) /\ i \in Slots
    BY <1>1, <1>2, <1>4, IgetEffect
  <2> HIDE DEF i, x
  <2>2. Locals(x) /\ x.ip = i /\ x.dp = y.dp /\ x.old = y.old
    BY <1>2, IpLocals DEF x
  <2>3. Ready("fill", x, Call(p).op)
    BY <1>2, <2>1, <2>2 DEF Ready, HasOld, Ahead, PutLabels
  <2>4. Balance(p, "fill", x, <<>>, i, None, None)
    BY <1>1, <2>1, <2>2, RefsAt, LocksAt, OccOf, NoneSlot DEF Balance, Num
  <2> QED BY <1>1, <1>2, <2>1, <2>3, <2>4, Act
<1> QED BY <1>3, <1>4

(* create(): the new inode and its entries, or their undoing.               *)
LEMMA FillKeeps ==
  ASSUME NEW p \in Procs, RefInv, Fill(p)
  PROVE  RefInv'
<1> DEFINE s == c[p].ip
           d == c[p].dp
           dir == NewType(p) = "DIR"
           u == Ilock(fs, s, p)
           v == SetNlink(u, s, 1)
           dot == IF dir THEN Dirlink(v, s, ".", c[p].inum) ELSE [fs |-> v, n |-> 1]
           dots == IF dir /\ dot.n = 1 THEN Dirlink(dot.fs, s, "..", fs.itab[d].inum) ELSE dot
           new == IF dots.n = 1 THEN Dirlink(dots.fs, d, c[p].name, c[p].inum) ELSE dots
           w == IF dir THEN SetNlink(new.fs, d, 1) ELSE new.fs
<1>1. pc[p] = "fill" /\ pc[p] \notin PutLabels /\ UNCHANGED userVars /\ Unlocked(s) /\ UNCHANGED c
  BY DEF Fill, At, PutLabels
<1>2. /\ VarsOK /\ script[p] # <<>> /\ Shape(fs) /\ \A t \in Slots : fs.itab[t].ref \in Nat
      /\ Ready("fill", c[p], Call(p).op) /\ c' = [c EXCEPT ![p] = c[p]]
      /\ (s \in Slots => s \notin Locks("fill", c[p]))
  BY <1>1, Begins
<1>3. s \in Slots /\ d \in Slots /\ s # d /\ Call(p).op # "link"
  <2>1. s \in Slots /\ d \in Slots /\ Call(p).op # "link"
    BY <1>2 DEF Ready, Ahead
  <2> QED BY <1>2, <2>1, LocksAt
<1>4. \/ fs' = Iunlock(w, d) /\ Puts(p, <<d>>, "made")
      \/ fs' = Iunlock(Unlinked(new.fs, s), s) /\ Puts(p, <<s>>, "undo")
  BY DEF Fill
<1> HIDE DEF s, d
<1>5. Effect(p, fs, u, None, s, None)
  BY <1>2, IlockEffect
<1> HIDE DEF u
<1>6. Effect(p, fs, v, None, s, None)
  <2>1. Wrote(u, SetNlink(u, s, 1), s)
    BY <1>5, SetNlinkWrote DEF Effect
  <2> QED BY <1>5, <2>1, WroteEffect
<1> HIDE DEF v
<1>7. Effect(p, fs, dot.fs, None, s, None)
  <2>1. Wrote(v, Dirlink(v, s, ".", c[p].inum).fs, s)
    BY <1>6, DirlinkWrote DEF Effect
  <2> QED BY <1>6, <2>1, WroteEffect
<1> HIDE DEF dot
<1>8. Effect(p, fs, dots.fs, None, s, None)
  <2>1. Wrote(dot.fs, Dirlink(dot.fs, s, "..", fs.itab[d].inum).fs, s)
    BY <1>7, DirlinkWrote DEF Effect
  <2> QED BY <1>7, <2>1, WroteEffect
<1> HIDE DEF dots
<1>9. Effect(p, fs, new.fs, None, s, None)
  <2>1. Wrote(dots.fs, Dirlink(dots.fs, d, c[p].name, c[p].inum).fs, d)
    BY <1>8, DirlinkWrote DEF Effect
  <2> QED BY <1>8, <2>1, WroteEffect
<1> HIDE DEF new
<1>10. Effect(p, fs, w, None, s, None) /\ Effect(p, fs, Unlinked(new.fs, s), None, s, None)
  <2>1. Wrote(new.fs, SetNlink(new.fs, d, 1), d) /\ Wrote(new.fs, SetNlink(new.fs, s, -1), s)
    BY <1>9, SetNlinkWrote DEF Effect
  <2>2. Effect(p, fs, SetNlink(new.fs, d, 1), None, s, None) /\ Effect(p, fs, SetNlink(new.fs, s, -1), None, s, None)
    BY <1>9, <2>1, WroteEffect
  <2> QED BY <1>9, <2>2 DEF Unlinked
<1> HIDE DEF w
<1>11. CASE fs' = Iunlock(w, d) /\ Puts(p, <<d>>, "made")
  <2>1. Goes(p, "made", <<d>>) /\ Effect(p, fs, fs', None, s, d)
    BY <1>3, <1>10, <1>11, PutsTo, IunlockEffect
  <2>2. Ready("made", c[p], Call(p).op)
    BY <1>2, <1>3 DEF Ready, HasOld, Ahead, PutLabels, s
  <2>3. Balance(p, "made", c[p], <<d>>, None, s, d)
    BY <1>1, <1>3, RefsAt, LocksAt, OccOf, NoneSlot DEF Balance, Num, s, d
  <2> QED BY <1>1, <1>2, <2>1, <2>2, <2>3, Act
<1>12. CASE fs' = Iunlock(Unlinked(new.fs, s), s) /\ Puts(p, <<s>>, "undo")
  <2>1. Goes(p, "undo", <<s>>) /\ Effect(p, fs, fs', None, None, None)
    BY <1>1, <1>3, <1>10, <1>12, PutsTo, IunlockEffect, VisitEffect DEF Unlocked
  <2>2. Ready("undo", c[p], Call(p).op)
    BY <1>2, <1>3 DEF Ready, HasOld, Ahead, PutLabels, d
  <2>3. Balance(p, "undo", c[p], <<s>>, None, None, None)
    BY <1>1, <1>3, RefsAt, LocksAt, OccOf, NoneSlot DEF Balance, Num, s, d
  <2> QED BY <1>1, <1>2, <2>1, <2>2, <2>3, Act
<1> QED BY <1>4, <1>11, <1>12

(* iunlockput(dp) after a failure.                                          *)
LEMMA UndoKeeps ==
  ASSUME NEW p \in Procs, RefInv, Undo(p)
  PROVE  RefInv'
<1> DEFINE d == c[p].dp
           l == IF Call(p).op = "link" THEN "link_bad" ELSE "fail"
<1>1. /\ pc[p] = "undo" /\ pc[p] \notin PutLabels /\ UNCHANGED userVars /\ UNCHANGED c
      /\ fs' = Iunlock(fs, d) /\ Puts(p, <<d>>, l)
  BY DEF Undo, At, PutLabels
<1>2. /\ VarsOK /\ script[p] # <<>> /\ Ready("undo", c[p], Call(p).op) /\ c' = [c EXCEPT ![p] = c[p]]
      /\ Effect(p, fs, fs, None, None, None)
  BY <1>1, Begins
<1>3. d \in Slots
  BY <1>2 DEF Ready
<1>4. Goes(p, l, <<d>>) /\ Effect(p, fs, fs', None, None, d)
  BY <1>1, <1>2, <1>3, PutsTo, IunlockEffect
<1>5. Ready(l, c[p], Call(p).op) /\ l \notin {"unborn", "zombie"}
  BY <1>2 DEF Ready, HasOld, Ahead, PutLabels
<1>6. Balance(p, l, c[p], <<d>>, None, None, d)
  <2>1. CASE Call(p).op = "link"
    <3>1. Balance(p, "link_bad", c[p], <<d>>, None, None, d)
      BY <1>1, <1>3, <2>1, RefsAt, LocksAt, OccOf, NoneSlot DEF Balance, Num
    <3> QED BY <2>1, <3>1
  <2>2. CASE Call(p).op # "link"
    <3>1. Balance(p, "fail", c[p], <<d>>, None, None, d)
      BY <1>1, <1>3, <2>2, RefsAt, LocksAt, OccOf, NoneSlot DEF Balance, Num
    <3> QED BY <2>2, <3>1
  <2> QED BY <2>1, <2>2
<1> HIDE DEF l
<1> QED BY <1>1, <1>2, <1>4, <1>5, <1>6, Act

(* sys_unlink(): the directory is locked and the entry found.               *)
LEMMA UnlinkKeeps ==
  ASSUME NEW p \in Procs, RefInv, Unlink(p)
  PROVE  RefInv' \/ Stopped'
<1> DEFINE y == c[p]
           s == c[p].dp
           v == Ilock(fs, s, p)
           ents == IF c[p].name \in {".", ".."} THEN {} ELSE Lookup(v, s, c[p].name)
           o == Min(ents)
           g == Iget(v, UnitAt(v, v.itab[s], o).inum)
<1>1. pc[p] = "unlink" /\ pc[p] \notin PutLabels /\ UNCHANGED userVars /\ Unlocked(s) /\ s # None
  BY DEF Unlink, At, PutLabels
<1>2. /\ VarsOK /\ script[p] # <<>> /\ Shape(fs) /\ \A t \in Slots : fs.itab[t].ref \in Nat
      /\ Ready("unlink", c[p], Call(p).op) /\ Locals(c[p])
      /\ UNCHANGED c => c' = [c EXCEPT ![p] = c[p]]
  BY <1>1, Begins
<1>3. s \in Slots /\ Call(p).op # "link"
  BY <1>1, <1>2 DEF Ready, Ahead
<1>4. CASE fs' = Iunlock(v, s) /\ Puts(p, <<s>>, "fail") /\ UNCHANGED c
  <2>1. Goes(p, "fail", <<s>>) /\ Effect(p, fs, fs', None, None, None)
    BY <1>1, <1>2, <1>3, <1>4, PutsTo, IlockVisit
  <2>2. Ready("fail", c[p], Call(p).op) /\ c' = [c EXCEPT ![p] = c[p]]
    BY <1>2, <1>4, ReadyAt
  <2>3. Balance(p, "fail", c[p], <<s>>, None, None, None)
    BY <1>1, <1>3, RefsAt, LocksAt, OccOf, NoneSlot DEF Balance, Num
  <2> QED BY <1>1, <1>2, <2>1, <2>2, <2>3, Act
<1>5. CASE fs' = g.fs /\ c' = [c EXCEPT ![p] = [@ EXCEPT !.ip = g.s, !.off = o]] /\ Go(p, "unlink_ip")
  <2> DEFINE i == g.s
             x == Found(y, i, o)
  <2>1. Goes(p, "unlink_ip", <<>>) /\ c' = [c EXCEPT ![p] = x] /\ fs' = g.fs
    <3> HIDE DEF g, o
    <3> QED BY <1>5 DEF Goes, Found
  <2>2. CASE fs'.panic
    BY <1>2, <2>1, <2>2, StoppedAt
  <2>3. CASE ~fs'.panic
    <3>1. Effect(p, fs, fs', i, s, None) /\ i \in Slots
      BY <1>1, <1>2, <1>5, <2>3, VisitGet
    <3> HIDE DEF i, x, o
    <3>2. Locals(x) /\ x.ip = i /\ x.dp = y.dp /\ x.old = y.old
      BY <1>2, FoundLocals DEF x
    <3>3. Ready("unlink_ip", x, Call(p).op)
      BY <1>3, <3>1, <3>2 DEF Ready, HasOld, Ahead, PutLabels
    <3>4. Balance(p, "unlink_ip", x, <<>>, i, s, None)
      BY <1>1, <1>3, <3>1, <3>2, RefsAt, LocksAt, OccOf, NoneSlot DEF Balance, Num
    <3> QED BY <1>1, <1>2, <2>1, <3>1, <3>3, <3>4, Act
  <2> QED BY <2>2, <2>3
<1>6. \/ fs' = Iunlock(v, s) /\ Puts(p, <<s>>, "fail") /\ UNCHANGED c
      \/ fs' = g.fs /\ c' = [c EXCEPT ![p] = [@ EXCEPT !.ip = g.s, !.off = o]] /\ Go(p, "unlink_ip")
  BY DEF Unlink
<1> HIDE DEF v, g, o
<1> QED BY <1>4, <1>5, <1>6

(* sys_unlink(): the inode is locked too, and the entry taken out.          *)
LEMMA UnlinkIpKeeps ==
  ASSUME NEW p \in Procs, RefInv, UnlinkIp(p)
  PROVE  RefInv'
<1> DEFINE s == c[p].ip
           d == c[p].dp
           v == Ilock(fs, s, p)
           dir == v.itab[s].type = "DIR"
           w == Writei(v, d, c[p].off, Zero).fs
           x == IF dir THEN SetNlink(w, d, -1) ELSE w
           e == v.itab[s].nlink < 1
<1>1. pc[p] = "unlink_ip" /\ pc[p] \notin PutLabels /\ UNCHANGED userVars /\ Unlocked(s) /\ UNCHANGED c
  BY DEF UnlinkIp, At, PutLabels
<1>2. /\ VarsOK /\ script[p] # <<>> /\ Shape(fs) /\ \A t \in Slots : fs.itab[t].ref \in Nat
      /\ Ready("unlink_ip", c[p], Call(p).op) /\ c' = [c EXCEPT ![p] = c[p]]
      /\ (s \in Slots => s \notin Locks("unlink_ip", c[p]))
  BY <1>1, Begins
<1>3. s \in Slots /\ d \in Slots /\ s # d /\ Call(p).op # "link"
  <2>1. s \in Slots /\ d \in Slots /\ Call(p).op # "link"
    BY <1>2 DEF Ready, Ahead
  <2> QED BY <1>2, <2>1, LocksAt
<1>4. \/ fs' = Iunlock(v, s) /\ Puts(p, <<s>>, "undo")
      \/ fs' = [Iunlock(x, d) EXCEPT !.panic = @ \/ e] /\ Puts(p, <<d>>, "unlink_end")
  BY DEF UnlinkIp
<1> HIDE DEF s, d
<1>5. Effect(p, fs, v, None, s, None)
  BY <1>2, IlockEffect
<1> HIDE DEF v
<1>6. Effect(p, fs, w, None, s, None)
  <2>1. Wrote(v, Writei(v, d, c[p].off, Zero).fs, d)
    BY <1>5, WriteiWrote DEF Effect
  <2> QED BY <1>5, <2>1, WroteEffect
<1> HIDE DEF w
<1>7. Effect(p, fs, x, None, s, None)
  <2>1. Wrote(w, SetNlink(w, d, -1), d)
    BY <1>6, SetNlinkWrote DEF Effect
  <2> QED BY <1>6, <2>1, WroteEffect
<1> HIDE DEF x, dir, e
<1>8. CASE fs' = Iunlock(v, s) /\ Puts(p, <<s>>, "undo")
  <2>1. Goes(p, "undo", <<s>>) /\ Effect(p, fs, fs', None, None, None)
    BY <1>1, <1>3, <1>5, <1>8, PutsTo, IunlockEffect, VisitEffect DEF Unlocked
  <2>2. Ready("undo", c[p], Call(p).op)
    BY <1>2, <1>3 DEF Ready, HasOld, Ahead, PutLabels, d
  <2>3. Balance(p, "undo", c[p], <<s>>, None, None, None)
    BY <1>1, <1>3, RefsAt, LocksAt, OccOf, NoneSlot DEF Balance, Num, s, d
  <2> QED BY <1>1, <1>2, <2>1, <2>2, <2>3, Act
<1>9. CASE fs' = [Iunlock(x, d) EXCEPT !.panic = @ \/ e] /\ Puts(p, <<d>>, "unlink_end")
  <2> DEFINE b == Iunlock(x, d).panic \/ e
  <2>1. Effect(p, fs, Iunlock(x, d), None, s, d)
    BY <1>7, IunlockEffect
  <2>2. b \in BOOLEAN
    OBVIOUS
  <2>3. fs' = [Iunlock(x, d) EXCEPT !.panic = b]
    BY <1>9
  <2> HIDE DEF b
  <2>4. Goes(p, "unlink_end", <<d>>) /\ Effect(p, fs, fs', None, s, d)
    BY <1>3, <1>9, <2>1, <2>2, <2>3, PutsTo, PanicEffect
  <2>5. Ready("unlink_end", c[p], Call(p).op)
    BY <1>2, <1>3 DEF Ready, HasOld, Ahead, PutLabels, s
  <2>6. Balance(p, "unlink_end", c[p], <<d>>, None, s, d)
    BY <1>1, <1>3, RefsAt, LocksAt, OccOf, NoneSlot DEF Balance, Num, s, d
  <2> QED BY <1>1, <1>2, <2>4, <2>5, <2>6, Act
<1> QED BY <1>4, <1>8, <1>9

(* sys_unlink(): the link count goes down.                                  *)
LEMMA UnlinkEndKeeps ==
  ASSUME NEW p \in Procs, RefInv, UnlinkEnd(p)
  PROVE  RefInv'
<1> DEFINE s == c[p].ip
<1>1. /\ pc[p] = "unlink_end" /\ pc[p] \notin PutLabels /\ UNCHANGED userVars /\ UNCHANGED c
      /\ fs' = Iunlock(SetNlink(fs, s, -1), s) /\ Puts(p, <<s>>, "ok")
  BY DEF UnlinkEnd, At, PutLabels
<1>2. /\ VarsOK /\ script[p] # <<>> /\ Shape(fs) /\ Ready("unlink_end", c[p], Call(p).op)
      /\ c' = [c EXCEPT ![p] = c[p]] /\ Effect(p, fs, fs, None, None, None)
  BY <1>1, Begins
<1>3. s \in Slots
  BY <1>2 DEF Ready
<1>4. Goes(p, "ok", <<s>>) /\ Effect(p, fs, fs', None, None, s)
  <2>1. Effect(p, fs, SetNlink(fs, s, -1), None, None, None)
    BY <1>2, SetNlinkWrote, WroteEffect
  <2> QED BY <1>1, <1>3, <2>1, PutsTo, IunlockEffect
<1>5. Ready("ok", c[p], Call(p).op)
  BY <1>2, ReadyAt
<1>6. Balance(p, "ok", c[p], <<s>>, None, None, s)
  BY <1>1, <1>3, RefsAt, LocksAt, OccOf, NoneSlot DEF Balance, Num
<1> QED BY <1>1, <1>2, <1>4, <1>5, <1>6, Act

(* sys_link(): the link count goes up; the reference stays in ip.           *)
LEMMA LinkKeeps ==
  ASSUME NEW p \in Procs, RefInv, Link(p)
  PROVE  RefInv'
<1> DEFINE y == c[p]
           s == c[p].ip
           v == Ilock(fs, s, p)
           w == SetNlink(v, s, 1)
           x == [y EXCEPT !.old = s]
<1>1. pc[p] = "link" /\ pc[p] \notin PutLabels /\ UNCHANGED userVars /\ Unlocked(s) /\ s # None
  BY DEF Link, At, PutLabels
<1>2. /\ VarsOK /\ script[p] # <<>> /\ Shape(fs) /\ \A t \in Slots : fs.itab[t].ref \in Nat
      /\ Ready("link", c[p], Call(p).op) /\ Locals(c[p])
  BY <1>1, Begins
<1>3. s \in Slots /\ Call(p).op = "link"
  BY <1>1, <1>2 DEF Ready, Ahead
<1>4. CASE fs' = Iunlock(v, s) /\ Puts(p, <<s>>, "fail") /\ UNCHANGED c
  BY <1>1, <1>3, <1>4, PutAndFail
<1>5. CASE fs' = Iunlock(w, s) /\ c' = [c EXCEPT ![p] = x] /\ Go(p, "link_new")
  <2>1. Goes(p, "link_new", <<>>)
    BY <1>5 DEF Goes
  <2>2. Effect(p, fs, fs', None, None, None)
    <3>1. Wrote(v, w, s)
      BY <1>2, IlockShape, SetNlinkWrote
    <3> QED BY <1>1, <1>2, <1>5, <3>1, VisitWrote
  <2> HIDE DEF x
  <2>3. Locals(x) /\ x.ip = y.ip /\ x.dp = y.dp /\ x.old = s
    BY <1>2, OldLocals DEF x
  <2>4. Ready("link_new", x, Call(p).op)
    BY <1>3, <2>3 DEF Ready, HasOld, Ahead, PutLabels
  <2>5. Balance(p, "link_new", x, <<>>, None, None, None)
    BY <1>1, <1>3, <2>3, RefsAt, LocksAt, OccOf, NoneSlot DEF Balance, Num
  <2> QED BY <1>1, <1>2, <1>5, <2>1, <2>2, <2>4, <2>5, Act
<1>6. \/ fs' = Iunlock(v, s) /\ Puts(p, <<s>>, "fail") /\ UNCHANGED c
      \/ fs' = Iunlock(w, s) /\ c' = [c EXCEPT ![p] = x] /\ Go(p, "link_new")
  BY DEF Link
<1> QED BY <1>4, <1>5, <1>6

(* sys_link(): the entry is made, or not.                                   *)
LEMMA LinkDpKeeps ==
  ASSUME NEW p \in Procs, RefInv, LinkDp(p)
  PROVE  RefInv' \/ Stopped'
<1> DEFINE d == c[p].dp
           old == c[p].old
           v == Ilock(fs, d, p)
           ents == Lookup(v, d, c[p].name)
           g == Iget(v, UnitAt(v, v.itab[d], Min(ents)).inum)
           new == Dirlink(v, d, c[p].name, v.itab[old].inum)
<1>1. pc[p] = "link_dp" /\ pc[p] \notin PutLabels /\ UNCHANGED userVars /\ UNCHANGED c
  BY DEF LinkDp, At, PutLabels
<1>2. /\ VarsOK /\ script[p] # <<>> /\ Shape(fs) /\ \A t \in Slots : fs.itab[t].ref \in Nat
      /\ Ready("link_dp", c[p], Call(p).op) /\ c' = [c EXCEPT ![p] = c[p]]
      /\ Effect(p, fs, fs, None, None, None)
  BY <1>1, Begins
<1>3. d \in Slots \cup {None} /\ old \in Slots /\ Call(p).op = "link"
  BY <1>2 DEF Ready, Ahead, HasOld
<1>4. \/ d = None /\ Go(p, "link_bad") /\ fs' = fs
      \/ d # None /\ Unlocked(d) /\ fs' = g.fs /\ Puts(p, <<g.s>>, "undo")
      \/ d # None /\ Unlocked(d) /\ fs' = Iunlock(new.fs, d) /\ Puts(p, <<d, old>>, "ok")
      \/ d # None /\ Unlocked(d) /\ fs' = Iunlock(new.fs, d) /\ Puts(p, <<d>>, "link_bad")
  BY DEF LinkDp
<1>5. CASE d = None /\ Go(p, "link_bad") /\ fs' = fs
  <2>1. Goes(p, "link_bad", <<>>) /\ Effect(p, fs, fs', None, None, None)
    BY <1>2, <1>5 DEF Goes
  <2>2. Ready("link_bad", c[p], Call(p).op)
    BY <1>2, <1>3 DEF Ready, HasOld, Ahead, PutLabels
  <2>3. Balance(p, "link_bad", c[p], <<>>, None, None, None)
    BY <1>1, <1>5, RefsAt, LocksAt, OccOf, NoneSlot DEF Balance, Num
  <2> QED BY <1>1, <1>2, <2>1, <2>2, <2>3, Act
<1>6. CASE d # None /\ Unlocked(d) /\ fs' = g.fs /\ Puts(p, <<g.s>>, "undo")
  <2> DEFINE i == g.s
  <2>1. CASE fs'.panic
    <3>1. pc' = [pc EXCEPT ![p] = "put"]
      BY <1>6 DEF Puts
    <3>2. pc'[p] \notin {"user", "unborn", "zombie"}
      BY <1>2, <3>1 DEF VarsOK
    <3> QED BY <2>1, <3>2 DEF Stopped, Quiet
  <2>2. CASE ~fs'.panic
    <3>1. Effect(p, fs, fs', i, d, None) /\ i \in Slots
      BY <1>2, <1>6, <2>2, VisitGet
    <3> HIDE DEF g
    <3>2. Goes(p, "undo", <<i>>)
      BY <1>6, <3>1, PutsTo
    <3> HIDE DEF i
    <3>3. Ready("undo", c[p], Call(p).op)
      BY <1>2, <1>3, <1>6 DEF Ready, HasOld, Ahead, PutLabels
    <3>4. Balance(p, "undo", c[p], <<i>>, i, d, None)
      BY <1>1, <1>3, <1>6, <3>1, RefsAt, LocksAt, OccOf, NoneSlot DEF Balance, Num
    <3> QED BY <1>1, <1>2, <3>1, <3>2, <3>3, <3>4, Act
  <2> QED BY <2>1, <2>2
<1>7. ASSUME d # None, Unlocked(d), fs' = Iunlock(new.fs, d)
      PROVE  Effect(p, fs, fs', None, None, None) /\ d \in Slots
  <2>1. Wrote(v, new.fs, d)
    BY <1>2, IlockShape, DirlinkWrote
  <2> QED BY <1>2, <1>3, <1>7, <2>1, VisitWrote
<1>8. CASE d # None /\ Unlocked(d) /\ fs' = Iunlock(new.fs, d) /\ Puts(p, <<d, old>>, "ok")
  <2>1. Effect(p, fs, fs', None, None, None) /\ d \in Slots
    BY <1>7, <1>8
  <2> HIDE DEF d, old
  <2>2. Goes(p, "ok", <<d, old>>)
    BY <1>3, <1>8, <2>1 DEF Goes
  <2>3. Ready("ok", c[p], Call(p).op)
    BY <1>2, ReadyAt
  <2>4. Balance(p, "ok", c[p], <<d, old>>, None, None, None)
    BY <1>1, <2>1, RefsAt, LocksAt, OccOf, NoneSlot DEF Balance, Num, d, old
  <2> QED BY <1>1, <1>2, <2>1, <2>2, <2>3, <2>4, Act
<1>9. CASE d # None /\ Unlocked(d) /\ fs' = Iunlock(new.fs, d) /\ Puts(p, <<d>>, "link_bad")
  <2>1. Effect(p, fs, fs', None, None, None) /\ d \in Slots
    BY <1>7, <1>9
  <2>2. Goes(p, "link_bad", <<d>>)
    BY <1>9, <2>1, PutsTo
  <2>3. Ready("link_bad", c[p], Call(p).op)
    BY <1>2, <1>3 DEF Ready, HasOld, Ahead, PutLabels
  <2>4. Balance(p, "link_bad", c[p], <<d>>, None, None, None)
    BY <1>1, <2>1, RefsAt, LocksAt, OccOf, NoneSlot DEF Balance, Num
  <2> QED BY <1>1, <1>2, <2>1, <2>2, <2>3, <2>4, Act
<1> HIDE DEF v, g, new
<1> QED BY <1>4, <1>5, <1>6, <1>8, <1>9

(* sys_link(): the link count goes down again.                              *)
LEMMA LinkBadKeeps ==
  ASSUME NEW p \in Procs, RefInv, LinkBad(p)
  PROVE  RefInv'
<1> DEFINE s == c[p].old
           v == Ilock(fs, s, p)
<1>1. /\ pc[p] = "link_bad" /\ pc[p] \notin PutLabels /\ UNCHANGED userVars /\ UNCHANGED c /\ Unlocked(s)
      /\ fs' = Iunlock(SetNlink(v, s, -1), s) /\ Puts(p, <<s>>, "fail")
  BY DEF LinkBad, At, PutLabels, Unlinked
<1>2. /\ VarsOK /\ script[p] # <<>> /\ Shape(fs) /\ \A t \in Slots : fs.itab[t].ref \in Nat
      /\ Ready("link_bad", c[p], Call(p).op) /\ c' = [c EXCEPT ![p] = c[p]]
  BY <1>1, Begins
<1>3. s \in Slots
  BY <1>2 DEF Ready, HasOld
<1>4. Goes(p, "fail", <<s>>) /\ Effect(p, fs, fs', None, None, None)
  <2>1. Wrote(v, SetNlink(v, s, -1), s)
    BY <1>2, IlockShape, SetNlinkWrote
  <2> QED BY <1>1, <1>2, <1>3, <2>1, PutsTo, VisitWrote
<1>5. Ready("fail", c[p], Call(p).op)
  BY <1>2, ReadyAt
<1>6. Balance(p, "fail", c[p], <<s>>, None, None, None)
  BY <1>1, <1>3, RefsAt, LocksAt, OccOf, NoneSlot DEF Balance, Num
<1> QED BY <1>1, <1>2, <1>4, <1>5, <1>6, Act

(* sys_chdir(): the old directory is put, if the new one is a directory.    *)
LEMMA ChdirKeeps ==
  ASSUME NEW p \in Procs, RefInv, Chdir(p)
  PROVE  RefInv'
<1> DEFINE s == c[p].ip
           v == Ilock(fs, s, p)
<1>1. /\ pc[p] = "chdir" /\ pc[p] \notin PutLabels /\ UNCHANGED userVars /\ UNCHANGED c /\ Unlocked(s) /\ s # None
      /\ fs' = Iunlock(v, s) /\ (Puts(p, <<cwd[p]>>, "chdir_end") \/ Puts(p, <<s>>, "fail"))
  BY DEF Chdir, At, PutLabels
<1>2. /\ VarsOK /\ script[p] # <<>> /\ Shape(fs) /\ \A t \in Slots : fs.itab[t].ref \in Nat
      /\ Ready("chdir", c[p], Call(p).op) /\ c' = [c EXCEPT ![p] = c[p]] /\ cwd[p] \in Slots
  BY <1>1, Begins
<1>3. s \in Slots
  BY <1>1, <1>2 DEF Ready
<1>4. CASE Puts(p, <<s>>, "fail")
  BY <1>1, <1>3, <1>4, PutAndFail
<1>5. CASE Puts(p, <<cwd[p]>>, "chdir_end")
  <2>1. Goes(p, "chdir_end", <<cwd[p]>>) /\ Effect(p, fs, fs', None, None, None)
    BY <1>1, <1>2, <1>5, PutsTo, IlockVisit
  <2>2. Ready("chdir_end", c[p], Call(p).op)
    BY <1>2, <1>3 DEF Ready, HasOld, Ahead, PutLabels
  <2>3. Balance(p, "chdir_end", c[p], <<cwd[p]>>, None, None, None)
    BY <1>1, <1>3, RefsAt, LocksAt, OccOf, NoneSlot DEF Balance, Num
  <2> QED BY <1>1, <1>2, <2>1, <2>2, <2>3, Act
<1> QED BY <1>1, <1>4, <1>5

-----------------------------------------------------------------------------
(* Induction over the natural numbers, for a set of them.                   *)
LEMMA Induction ==
  ASSUME NEW S, 0 \in S, \A n \in Nat : n \in S => n + 1 \in S
  PROVE  \A n \in Nat : n \in S
<1> SUFFICES ASSUME Nat \ S # {} PROVE FALSE
  OBVIOUS
<1> DEFINE T == Nat \ S
           m == Min(T)
<1> HIDE DEF T
<1>1. m \in T /\ \A y \in T : m <= y
  <2>1. T \in SUBSET Nat /\ T # {}
    BY DEF T
  <2> QED BY <2>1, Least
<1> HIDE DEF m
<1>2. m \in Nat /\ m \notin S
  BY <1>1 DEF T
<1>3. m # 0 /\ m - 1 \in Nat
  BY <1>2
<1>4. m - 1 \in S
  BY <1>1, <1>3 DEF T
<1> QED BY <1>2, <1>3, <1>4

(* filewrite()'s loop over writei(), a unit at a time: there is a sequence  *)
(* of its states, and none of them has more than slot s changed.            *)
One(x, s, off, j) ==
  IF x.n < j - 1 THEN x
  ELSE LET r == Writei(x.fs, s, off + j - 1, [name |-> "data", inum |-> 1])
       IN  [fs |-> r.fs, n |-> IF r.n = 1 THEN j ELSE j - 1]
Loop(g, v, s, off, k) ==
  g = [j \in 0 .. k |-> IF j = 0 THEN [fs |-> v, n |-> 0] ELSE One(g[j - 1], s, off, j)]

(* The sequence exists, by induction.                                       *)
LEMMA LoopExists ==
  ASSUME NEW v, NEW s, NEW off, NEW k \in Nat
  PROVE  \E g : Loop(g, v, s, off, k)
<1> DEFINE S == {n \in Nat : \E g : Loop(g, v, s, off, n)}
           start == [fs |-> v, n |-> 0]
<1>1. 0 \in S
  <2> DEFINE g == [j \in 0 .. 0 |-> start]
  <2>1. Loop(g, v, s, off, 0)
    BY DEF Loop
  <2> HIDE DEF g
  <2> QED BY <2>1
<1> HIDE DEF start
<1>2. ASSUME NEW n \in Nat, n \in S PROVE n + 1 \in S
  <2>1. PICK g : Loop(g, v, s, off, n)
    BY <1>2
  <2>0. g = [j \in 0 .. n |-> IF j = 0 THEN start ELSE One(g[j - 1], s, off, j)]
    BY <2>1 DEF Loop, start
  <2> DEFINE h == [j \in 0 .. (n + 1) |-> IF j = n + 1 THEN One(g[n], s, off, n + 1) ELSE g[j]]
             e == [j \in 0 .. (n + 1) |-> IF j = 0 THEN start ELSE One(h[j - 1], s, off, j)]
  <2>2. ASSUME NEW j \in 0 .. (n + 1) PROVE h[j] = e[j]
    <3>1. CASE j = 0
      BY <2>0, <3>1
    <3>2. CASE j = n + 1
      <4>1. j # 0 /\ j - 1 = n /\ n \in 0 .. (n + 1) /\ n # n + 1
        BY <3>2
      <4> QED BY <3>2, <4>1
    <3>3. CASE j # 0 /\ j # n + 1
      <4>1. j \in 0 .. n /\ j - 1 \in 0 .. (n + 1) /\ j - 1 # n + 1
        BY <3>3
      <4>2. g[j] = One(g[j - 1], s, off, j)
        BY <2>0, <3>3, <4>1
      <4> QED BY <3>3, <4>1, <4>2
    <3> QED BY <3>1, <3>2, <3>3
  <2>3. h = e
    <3> HIDE DEF h
    <3>1. DOMAIN h = 0 .. (n + 1) /\ h = [j \in DOMAIN h |-> h[j]]
      BY DEF h
    <3> QED BY <2>2, <3>1
  <2> HIDE DEF h
  <2>4. Loop(h, v, s, off, n + 1)
    BY <2>3 DEF Loop, start
  <2> QED BY <2>4
<1> HIDE DEF S
<1>3. k \in S
  BY <1>1, <1>2, Induction
<1> QED BY <1>3 DEF S

(* None of its states has more than slot s changed, by induction.           *)
LEMMA LoopWrote ==
  ASSUME NEW v, NEW s, NEW off, NEW k \in Nat, NEW g, Loop(g, v, s, off, k), Shape(v)
  PROVE  Wrote(v, g[k].fs, s)
<1> DEFINE S == {j \in Nat : j <= k => Wrote(v, g[j].fs, s)}
<1>1. 0 \in S
  BY WroteSelf DEF Loop
<1>2. ASSUME NEW j \in Nat, j \in S PROVE j + 1 \in S
  <2> SUFFICES ASSUME j + 1 <= k PROVE Wrote(v, g[j + 1].fs, s)
    OBVIOUS
  <2> DEFINE x == g[j]
             r == Writei(x.fs, s, off + (j + 1) - 1, [name |-> "data", inum |-> 1])
  <2>1. Wrote(v, x.fs, s) /\ j + 1 \in 0 .. k /\ j + 1 # 0 /\ (j + 1) - 1 = j
    BY <1>2
  <2>2. g[j + 1] = One(x, s, off, j + 1)
    BY <2>1 DEF Loop
  <2> HIDE DEF x
  <2>3. One(x, s, off, j + 1).fs = x.fs \/ One(x, s, off, j + 1).fs = r.fs
    BY DEF One
  <2>4. Wrote(x.fs, r.fs, s)
    BY <2>1, WriteiWrote DEF Wrote
  <2> HIDE DEF r
  <2> QED BY <2>1, <2>2, <2>3, <2>4, WroteTwice
<1> HIDE DEF S
<1>3. k \in S
  BY <1>1, <1>2, Induction
<1> QED BY <1>3 DEF S

(* The whole of a transaction of filewrite().                               *)
LEMMA WriteisWrote ==
  ASSUME NEW v, NEW s, NEW off, NEW k \in Nat, Shape(v)
  PROVE  Wrote(v, Writeis(v, s, off, k).fs, s)
<1> DEFINE w == CHOOSE g : Loop(g, v, s, off, k)
<1>1. Loop(w, v, s, off, k)
  BY LoopExists
<1>2. Writeis(v, s, off, k) = IF off > v.itab[s].size \/ off + k > MaxUnits THEN [fs |-> v, n |-> -1] ELSE w[k]
  BY DEF Writeis, Loop, One
<1> HIDE DEF w
<1>3. Wrote(v, w[k].fs, s) /\ Wrote(v, v, s)
  BY <1>1, LoopWrote, WroteSelf
<1> QED BY <1>2, <1>3

-----------------------------------------------------------------------------
(* What filewrite() has written is part of what it is asked to.             *)
DoneOK ==
  \A p \in Procs :
    /\ c[p].done \in Nat
    /\ c[p].done # 0 => /\ pc[p] = "user" /\ script[p] # <<>> /\ Call(p).op = "write"
                        /\ c[p].done < Call(p).n

(* The variables when done is set.                                          *)
LEMMA DoneLocals ==
  ASSUME NEW y, Locals(y), NEW n, NEW x, x = [y EXCEPT !.done = n]
  PROVE  Locals(x) /\ x.done = n
<1> QED BY DEF Locals

(* The units of the next transaction are a number, and no more than are     *)
(* left.                                                                    *)
LEMMA WriteLength ==
  ASSUME NEW p \in Procs, VarsOK, DoneOK, Calls(p, {"write"})
  PROVE  /\ Min({Call(p).n - c[p].done, MaxWrite}) \in Nat /\ Call(p).n \in Nat /\ c[p].done \in Nat
         /\ c[p].done <= Call(p).n
<1>1. Call(p) \in SysCalls
  BY DEF VarsOK, Calls, At, Call
<1>2. Call(p).n \in Nat /\ c[p].done \in Nat /\ c[p].done <= Call(p).n
  <2>1. Call(p).n \in Nat
    BY <1>1, ScriptsAssumption
  <2>2. c[p].done \in Nat /\ (c[p].done # 0 => c[p].done < Call(p).n)
    BY DEF DoneOK
  <2> QED BY <2>1, <2>2
<1> DEFINE S == {Call(p).n - c[p].done, MaxWrite}
<1>3. S \in SUBSET Nat /\ S # {}
  BY <1>2, FsAssumption
<1> HIDE DEF S
<1>4. Min(S) \in Nat
  BY <1>3, Least
<1> QED BY <1>2, <1>4 DEF S

(* filewrite(): the reference is that of the open file.                     *)
LEMMA SysWriteKeeps ==
  ASSUME NEW p \in Procs, RefInv, DoneOK, SysWrite(p)
  PROVE  RefInv'
<1> DEFINE f == Reg(p)
           s == ofile[f].ip
           k == Min({Call(p).n - c[p].done, MaxWrite})
           v == Ilock(fs, s, p)
           r == Writeis(v, s, ofile[f].off, k)
           d == cwd[p]
<1>1. /\ pc[p] = "user" /\ pc[p] \notin PutLabels /\ script[p] # <<>> /\ UNCHANGED <<file, cwd>>
      /\ Calls(p, {"write"}) /\ VarsOK
  BY DEF SysWrite, Calls, At, PutLabels, userVars, RefInv
<1>2. /\ Shape(fs) /\ (\A t \in Slots : fs.itab[t].ref \in Nat) /\ Effect(p, fs, fs, None, None, None)
      /\ Ready(pc[p], c[p], Call(p).op) /\ d \in Slots /\ script[p] \in Seq(SysCalls)
      /\ cwd' = [cwd EXCEPT ![p] = d]
  BY <1>1, Here, NoEffect DEF VarsOK
<1>3. k \in Nat
  BY <1>1, WriteLength
<1>4. PICK n, z :
        /\ z \in Seq(SysCalls)
        /\ c' = [c EXCEPT ![p].done = n] /\ pc' = [pc EXCEPT ![p] = "user"]
        /\ script' = [script EXCEPT ![p] = z] /\ UNCHANGED <<todo, cont>>
  <2>1. CASE \E a, m : c' = [c EXCEPT ![p].done = m] /\ Return(p, a)
    BY <1>1, <2>1, ReturnTo
  <2>2. CASE \E m : c' = [c EXCEPT ![p].done = m] /\ Go(p, "user")
    <3>1. script = [script EXCEPT ![p] = script[p]]
      BY <1>1 DEF VarsOK
    <3> QED BY <1>2, <2>2, <3>1 DEF Go
  <2> HIDE DEF f, k, r
  <2> QED BY <2>1, <2>2 DEF SysWrite
<1> DEFINE x == [c[p] EXCEPT !.done = n]
<1>5. /\ \A q \in Procs : q # p => Label(q)' = Label(q)
      /\ Label(p)' \notin {"unborn", "zombie"}
  <2>1. (\A q \in Procs : q # p => pc'[q] = pc[q] /\ cont'[q] = cont[q]) /\ pc'[p] = "user"
    BY <1>1, <1>4 DEF VarsOK
  <2> QED BY <2>1 DEF Label, PutLabels
<1>6. Effect(p, fs, fs', None, None, None) /\ FilesOK' /\ \A t : Opens(t)' = Opens(t)
  <2>1. CASE UNCHANGED <<fs, ofile>>
    BY <1>1, <1>2, <1>5, <2>1, FilesSame
  <2>2. CASE Unlocked(s) /\ fs' = Iunlock(r.fs, s) /\ \E o : ofile' = [ofile EXCEPT ![f].off = o]
    <3> HIDE DEF f, s, k
    <3>1. Wrote(v, r.fs, s)
      BY <1>2, <1>3, IlockShape, WriteisWrote
    <3> HIDE DEF r
    <3>2. Effect(p, fs, fs', None, None, None)
      BY <1>2, <2>2, <3>1, VisitWrote
    <3>3. PICK o : ofile' = [ofile EXCEPT ![f].off = o]
      BY <2>2
    <3> QED BY <1>1, <1>5, <3>2, <3>3, FilesOff
  <2>3. \/ UNCHANGED <<fs, ofile>>
        \/ Unlocked(s) /\ fs' = Iunlock(r.fs, s) /\ ofile' = [ofile EXCEPT ![f].off = IF r.n > 0 THEN @ + r.n ELSE @]
    BY DEF SysWrite, userVars
  <2> HIDE DEF f, s, k, r
  <2> QED BY <2>1, <2>2, <2>3
<1>7. Locks(pc[p], c[p]) \subseteq {None} /\ None \in Locks(pc[p], c[p]) \cup {None}
  BY <1>1, LocksAt
<1>8. \A u \in Slots : Num(d = u) + (Cardinality(Opens(u)') - Cardinality(Opens(u)))
                        = Refs(pc[p], c[p], Call(p).op, cwd[p], u)
  BY <1>1, <1>6, SameOpens, RefsAt DEF Num
<1>9. Locals(x) /\ c' = [c EXCEPT ![p] = x]
  BY <1>2, <1>4, DoneLocals DEF Ready
<1> HIDE DEF x, d
<1>10. Leaves(p, z, x, d, None)
  BY <1>1, <1>2, <1>4, <1>6, <1>7, <1>8, <1>9 DEF Leaves
<1> QED BY <1>6, <1>10, Leave

(* A step of p that is none of filewrite().                                 *)
Ends(p) == (\E l : Go(p, l)) \/ (\E t, l : Puts(p, t, l)) \/ (\E r : Return(p, r)) \/ NextPut(p)

(* Such a step leaves the other processes where they are.                   *)
LEMMA EndsAlone ==
  ASSUME NEW p \in Procs, Ends(p), VarsOK
  PROVE  \A q \in Procs : q # p => pc'[q] = pc[q] /\ script'[q] = script[q]
<1>1. ASSUME NEW l, Go(p, l) PROVE \A q \in Procs : q # p => pc'[q] = pc[q] /\ script'[q] = script[q]
  BY <1>1 DEF Go, VarsOK
<1>2. ASSUME NEW t, NEW l, Puts(p, t, l)
      PROVE  \A q \in Procs : q # p => pc'[q] = pc[q] /\ script'[q] = script[q]
  BY <1>2 DEF Puts, VarsOK
<1>3. ASSUME NEW r, Return(p, r) PROVE \A q \in Procs : q # p => pc'[q] = pc[q] /\ script'[q] = script[q]
  BY <1>3 DEF Return, VarsOK
<1>4. ASSUME NextPut(p) PROVE \A q \in Procs : q # p => pc'[q] = pc[q] /\ script'[q] = script[q]
  BY <1>4 DEF NextPut, VarsOK
<1> QED BY <1>1, <1>2, <1>3, <1>4 DEF Ends

(* A step that leaves the number of p at 0 and moves nobody who has written *)
(* part.                                                                    *)
LEMMA DoneStep ==
  ASSUME NEW p \in Procs, VarsOK, DoneOK, \A q \in Procs : q # p => c'[q] = c[q], c'[p].done = 0,
         \A q \in Procs : q # p => (pc'[q] = pc[q] /\ script'[q] = script[q]) \/ c[q].done = 0
  PROVE  DoneOK'
BY DEF DoneOK, Call

(* A call that writes nothing leaves the number at 0.                       *)
LEMMA DoneNext ==
  ASSUME NEW p \in Procs, VarsOK, DoneOK, Ends(p), Locals(c[p]), c[p].done = 0,
         \/ UNCHANGED c
         \/ \E i, par, l, r : c' = [c EXCEPT ![p] = Walk(@, i, par, l, r)]
         \/ \E s, name : c' = [c EXCEPT ![p] = Parent(@, s, name)]
         \/ \E i, r : c' = [c EXCEPT ![p] = Onward(@, i, r)]
         \/ \E i, o : c' = [c EXCEPT ![p] = Found(@, i, o)]
         \/ \E i : c' = [c EXCEPT ![p].ip = i]
         \/ \E i : c' = [c EXCEPT ![p].old = i]
         \/ \E i : c' = [c EXCEPT ![p].inum = i]
  PROVE  DoneOK'
<1>1. ASSUME NEW x, x.done = 0, c' = [c EXCEPT ![p] = x] PROVE DoneOK'
  BY <1>1, EndsAlone, DoneStep DEF VarsOK
<1> DEFINE y == c[p]
<1>2. Locals(y) /\ y.done = 0
  OBVIOUS
<1> HIDE DEF y
<1>3. CASE UNCHANGED c
  <2>1. c' = [c EXCEPT ![p] = y]
    BY <1>3 DEF VarsOK, y
  <2> QED BY <1>1, <1>2, <2>1
<1>4. ASSUME NEW i, NEW par, NEW l, NEW r, c' = [c EXCEPT ![p] = Walk(@, i, par, l, r)] PROVE DoneOK'
  <2>1. c' = [c EXCEPT ![p] = Walk(y, i, par, l, r)]
    BY <1>4 DEF y
  <2>2. Walk(y, i, par, l, r).done = 0
    BY <1>2 DEF Walk, Locals
  <2> QED BY <1>1, <2>1, <2>2
<1>5. ASSUME NEW s, NEW name, c' = [c EXCEPT ![p] = Parent(@, s, name)] PROVE DoneOK'
  <2>1. c' = [c EXCEPT ![p] = Parent(y, s, name)]
    BY <1>5 DEF y
  <2>2. Parent(y, s, name).done = 0
    BY <1>2 DEF Parent, Locals
  <2> QED BY <1>1, <2>1, <2>2
<1>6. ASSUME NEW i, NEW r, c' = [c EXCEPT ![p] = Onward(@, i, r)] PROVE DoneOK'
  <2>1. c' = [c EXCEPT ![p] = Onward(y, i, r)]
    BY <1>6 DEF y
  <2>2. Onward(y, i, r).done = 0
    BY <1>2 DEF Onward, Locals
  <2> QED BY <1>1, <2>1, <2>2
<1>7. ASSUME NEW i, NEW o, c' = [c EXCEPT ![p] = Found(@, i, o)] PROVE DoneOK'
  <2>1. c' = [c EXCEPT ![p] = Found(y, i, o)]
    BY <1>7 DEF y
  <2>2. Found(y, i, o).done = 0
    BY <1>2 DEF Found, Locals
  <2> QED BY <1>1, <2>1, <2>2
<1>8. ASSUME NEW i, c' = [c EXCEPT ![p].ip = i] PROVE DoneOK'
  <2>1. c' = [c EXCEPT ![p] = [y EXCEPT !.ip = i]]
    BY <1>8 DEF y
  <2>2. [y EXCEPT !.ip = i].done = 0
    BY <1>2 DEF Locals
  <2> QED BY <1>1, <2>1, <2>2
<1>9. ASSUME NEW i, c' = [c EXCEPT ![p].old = i] PROVE DoneOK'
  <2>1. c' = [c EXCEPT ![p] = [y EXCEPT !.old = i]]
    BY <1>9 DEF y
  <2>2. [y EXCEPT !.old = i].done = 0
    BY <1>2 DEF Locals
  <2> QED BY <1>1, <2>1, <2>2
<1>10. ASSUME NEW i, c' = [c EXCEPT ![p].inum = i] PROVE DoneOK'
  <2>1. c' = [c EXCEPT ![p] = [y EXCEPT !.inum = i]]
    BY <1>10 DEF y
  <2>2. [y EXCEPT !.inum = i].done = 0
    BY <1>2 DEF Locals
  <2> QED BY <1>1, <2>1, <2>2
<1> QED BY <1>3, <1>4, <1>5, <1>6, <1>7, <1>8, <1>9, <1>10

(* One step of a call leaves the number at 0, or is filewrite()'s.          *)
Plain(p) ==
  /\ Ends(p)
  /\ pc[p] # "user" \/ Call(p).op # "write"
  /\ \/ UNCHANGED c
     \/ \E i, par, l, r : c' = [c EXCEPT ![p] = Walk(@, i, par, l, r)]
     \/ \E s, name : c' = [c EXCEPT ![p] = Parent(@, s, name)]
     \/ \E i, r : c' = [c EXCEPT ![p] = Onward(@, i, r)]
     \/ \E i, o : c' = [c EXCEPT ![p] = Found(@, i, o)]
     \/ \E i : c' = [c EXCEPT ![p].ip = i]
     \/ \E i : c' = [c EXCEPT ![p].old = i]
     \/ \E i : c' = [c EXCEPT ![p].inum = i]

(* A step of SysPath is plain.                                              *)
LEMMA SysPathPlain == ASSUME NEW p, SysPath(p) PROVE Plain(p)
BY DEF SysPath, Plain, Ends, StartNamex, Calls, At, Call, Walk

(* A step of NamexEnd is plain.                                             *)
LEMMA NamexEndPlain == ASSUME NEW p, NamexEnd(p) PROVE Plain(p)
BY DEF NamexEnd, Plain, Ends, At

(* A step of NotFound is plain.                                             *)
LEMMA NotFoundPlain == ASSUME NEW p, NotFound(p) PROVE Plain(p)
BY DEF NotFound, At, Plain, Ends

(* A step of EndOp is plain.                                                *)
LEMMA EndOpPlain == ASSUME NEW p, EndOp(p) PROVE Plain(p)
BY DEF EndOp, Plain, Ends, At

(* A step of Iput is plain.                                                 *)
LEMMA IputPlain == ASSUME NEW p, Iput(p) PROVE Plain(p)
BY DEF Iput, Plain, Ends, At

(* A step of IputFree is plain.                                             *)
LEMMA IputFreePlain == ASSUME NEW p, IputFree(p) PROVE Plain(p)
BY DEF IputFree, Plain, Ends, At

(* A step of IputUnlock is plain.                                           *)
LEMMA IputUnlockPlain == ASSUME NEW p, IputUnlock(p) PROVE Plain(p)
BY DEF IputUnlock, Plain, Ends, At

(* A step of IputDrop is plain.                                             *)
LEMMA IputDropPlain == ASSUME NEW p, IputDrop(p) PROVE Plain(p)
BY DEF IputDrop, Plain, Ends, At

(* A step of SysOpen is plain.                                              *)
LEMMA SysOpenPlain == ASSUME NEW p, SysOpen(p) PROVE Plain(p)
BY DEF SysOpen, Plain, Ends, At, OpenEnd

(* A step of Exists is plain.                                               *)
LEMMA ExistsPlain == ASSUME NEW p, Exists(p) PROVE Plain(p)
BY DEF Exists, Plain, Ends, At, OpenEnd

(* A step of IallocGet is plain.                                            *)
LEMMA IallocGetPlain == ASSUME NEW p, IallocGet(p) PROVE Plain(p)
BY DEF IallocGet, Plain, Ends, At

(* A step of Fill is plain.                                                 *)
LEMMA FillPlain == ASSUME NEW p, Fill(p) PROVE Plain(p)
BY DEF Fill, Plain, Ends, At

(* A step of Made is plain.                                                 *)
LEMMA MadePlain == ASSUME NEW p, Made(p) PROVE Plain(p)
BY DEF Made, Plain, Ends, At, OpenEnd

(* A step of Undo is plain.                                                 *)
LEMMA UndoPlain == ASSUME NEW p, Undo(p) PROVE Plain(p)
BY DEF Undo, Plain, Ends, At

(* A step of UnlinkIp is plain.                                             *)
LEMMA UnlinkIpPlain == ASSUME NEW p, UnlinkIp(p) PROVE Plain(p)
BY DEF UnlinkIp, Plain, Ends, At

(* A step of UnlinkEnd is plain.                                            *)
LEMMA UnlinkEndPlain == ASSUME NEW p, UnlinkEnd(p) PROVE Plain(p)
BY DEF UnlinkEnd, Plain, Ends, At

(* A step of Link is plain.                                                 *)
LEMMA LinkPlain == ASSUME NEW p, Link(p) PROVE Plain(p)
BY DEF Link, Plain, Ends, At

(* A step of LinkNew is plain.                                              *)
LEMMA LinkNewPlain == ASSUME NEW p, LinkNew(p) PROVE Plain(p)
BY DEF LinkNew, Plain, Ends, At, StartNamex, Walk

(* A step of LinkBad is plain.                                              *)
LEMMA LinkBadPlain == ASSUME NEW p, LinkBad(p) PROVE Plain(p)
BY DEF LinkBad, Plain, Ends, At

(* A step of Chdir is plain.                                                *)
LEMMA ChdirPlain == ASSUME NEW p, Chdir(p) PROVE Plain(p)
BY DEF Chdir, Plain, Ends, At

(* A step of ChdirEnd is plain.                                             *)
LEMMA ChdirEndPlain == ASSUME NEW p, ChdirEnd(p) PROVE Plain(p)
BY DEF ChdirEnd, Plain, Ends, At

(* A step of SysRead is plain.                                              *)
LEMMA SysReadPlain == ASSUME NEW p, SysRead(p) PROVE Plain(p)
BY DEF SysRead, Plain, Ends, Calls, At, Call

(* A step of BadWrite is plain.                                             *)
LEMMA BadWritePlain == ASSUME NEW p, BadWrite(p) PROVE Plain(p)
BY DEF BadWrite, Plain, Ends, Calls, At, Call

(* A step of SysClose is plain.                                             *)
LEMMA SysClosePlain == ASSUME NEW p, SysClose(p) PROVE Plain(p)
BY DEF SysClose, Plain, Ends, Calls, At, Call

(* A step of SysExit is plain.                                              *)
LEMMA SysExitPlain == ASSUME NEW p, SysExit(p) PROVE Plain(p)
BY DEF SysExit, Plain, Ends, Calls, At, Call

(* So is every step of a walk, which changes ip and rest or ip and dp,      *)
LEMMA NamexPlain == ASSUME NEW p, Namex(p) PROVE Plain(p)
<1> DEFINE s == c[p].ip
           v == Ilock(fs, s, p)
           name == Head(c[p].rest)
           ents == Lookup(v, s, name)
           g == Iget(v, UnitAt(v, v.itab[s], Min(ents)).inum)
<1>1. pc[p] = "namex"
  BY DEF Namex, At
<1>2. \/ (\E l : Go(p, l)) /\ c' = [c EXCEPT ![p] = [@ EXCEPT !.dp = s, !.ip = None, !.name = name]]
      \/ (\E t, l : Puts(p, t, l)) /\ c' = [c EXCEPT ![p].ip = None]
      \/ (\E t, l : Puts(p, t, l)) /\ c' = [c EXCEPT ![p] = [@ EXCEPT !.ip = g.s, !.rest = Tail(c[p].rest)]]
  BY DEF Namex
<1> HIDE DEF s, name, g
<1> QED BY <1>1, <1>2 DEF Plain, Ends, Parent, Onward

(* of create(),                                                             *)
LEMMA CreatePlain == ASSUME NEW p, Create(p) PROVE Plain(p)
<1>1. pc[p] = "create"
  BY DEF Create, At
<1>2. \/ (\E t, l : Puts(p, t, l)) /\ (UNCHANGED c \/ \E i : c' = [c EXCEPT ![p].ip = i])
      \/ (\E l : Go(p, l)) /\ \E i : c' = [c EXCEPT ![p].inum = i]
  BY DEF Create
<1> QED BY <1>1, <1>2 DEF Plain, Ends

(* of sys_unlink(),                                                         *)
LEMMA UnlinkPlain == ASSUME NEW p, Unlink(p) PROVE Plain(p)
<1>1. pc[p] = "unlink"
  BY DEF Unlink, At
<1>2. \/ (\E t, l : Puts(p, t, l)) /\ UNCHANGED c
      \/ (\E l : Go(p, l)) /\ \E i, o : c' = [c EXCEPT ![p] = [@ EXCEPT !.ip = i, !.off = o]]
  BY DEF Unlink
<1> QED BY <1>1, <1>2 DEF Plain, Ends, Found

(* and of sys_link().                                                       *)
LEMMA LinkDpPlain == ASSUME NEW p, LinkDp(p) PROVE Plain(p)
<1>1. pc[p] = "link_dp" /\ UNCHANGED c
  BY DEF LinkDp, At
<1>2. (\E t, l : Puts(p, t, l)) \/ (\E l : Go(p, l))
  BY DEF LinkDp
<1> QED BY <1>1, <1>2 DEF Plain, Ends

(* A step that is plain keeps what filewrite() has written.                 *)
LEMMA PlainDone ==
  ASSUME NEW p \in Procs, RefInv, DoneOK, Plain(p)
  PROVE  DoneOK'
<1>1. VarsOK /\ Locals(c[p])
  BY DEF RefInv, LocalsOK, Ready
<1>2. c[p].done = 0
  BY DEF DoneOK, Plain
<1>3. Ends(p)
  BY DEF Plain
<1> QED BY <1>1, <1>2, <1>3, DoneNext DEF Plain

(* filewrite() has written less than it was asked to, or returns.           *)
LEMMA SysWriteDone ==
  ASSUME NEW p \in Procs, RefInv, DoneOK, SysWrite(p)
  PROVE  DoneOK'
<1> DEFINE f == Reg(p)
           k == Min({Call(p).n - c[p].done, MaxWrite})
           y == c[p]
<1>1. VarsOK /\ Locals(y) /\ Calls(p, {"write"})
  BY DEF RefInv, LocalsOK, Ready, SysWrite
<1>2. k \in Nat /\ Call(p).n \in Nat /\ c[p].done \in Nat
  BY <1>1, WriteLength
<1>3. CASE \E a : c' = [c EXCEPT ![p].done = 0] /\ Return(p, a)
  <2> DEFINE x == [y EXCEPT !.done = 0]
  <2>1. Ends(p) /\ c' = [c EXCEPT ![p] = x]
    BY <1>3 DEF Ends
  <2> HIDE DEF x, y
  <2>2. x.done = 0
    BY <1>1, DoneLocals DEF x
  <2> QED BY <1>1, <2>1, <2>2, EndsAlone, DoneStep DEF VarsOK
<1>4. CASE c[p].done + k < Call(p).n /\ c' = [c EXCEPT ![p].done = c[p].done + k] /\ Go(p, "user")
  <2> DEFINE n == c[p].done + k
             x == [y EXCEPT !.done = n]
  <2>1. Ends(p) /\ c' = [c EXCEPT ![p] = x] /\ pc' = [pc EXCEPT ![p] = "user"] /\ script' = script
    BY <1>4 DEF Ends, Go
  <2>2. n \in Nat /\ n < Call(p).n
    BY <1>2, <1>4
  <2> HIDE DEF n, x, y
  <2>3. x.done = n
    BY <1>1, DoneLocals DEF x
  <2>4. \A q \in Procs : q # p => c'[q] = c[q] /\ pc'[q] = pc[q] /\ script'[q] = script[q]
    BY <1>1, <2>1 DEF VarsOK
  <2>5. c'[p] = x /\ pc'[p] = "user" /\ script[p] # <<>> /\ Call(p).op = "write"
    BY <1>1, <2>1 DEF VarsOK, Calls, At, Call
  <2> QED BY <2>1, <2>2, <2>3, <2>4, <2>5 DEF DoneOK, Call
<1>5. \/ \E a : c' = [c EXCEPT ![p].done = 0] /\ Return(p, a)
      \/ c[p].done + k < Call(p).n /\ c' = [c EXCEPT ![p].done = c[p].done + k] /\ Go(p, "user")
  BY DEF SysWrite
<1> HIDE DEF k, y
<1> QED BY <1>3, <1>4, <1>5

(* fork(), wait() and the choice of the next calls come between calls.      *)
LEMMA OthersDone ==
  ASSUME NEW p \in Procs, RefInv, DoneOK, SysFork(p) \/ SysWait(p) \/ AnyCall(p)
  PROVE  DoneOK'
<1>1. VarsOK /\ c' = c /\ pc[p] = "user" /\ Call(p).op # "write"
  BY DEF RefInv, SysFork, SysWait, AnyCall, Calls, At, Call
<1>2. c[p].done = 0
  BY <1>1 DEF DoneOK
<1>3. \A q \in Procs : q # p => (pc'[q] = pc[q] /\ script'[q] = script[q]) \/ c[q].done = 0
  <2>1. CASE AnyCall(p)
    BY <1>1, <2>1 DEF AnyCall, VarsOK
  <2>2. ASSUME NEW q \in Procs, pc[q] # "user", NEW l, NEW y, NEW z,
               pc' = [pc EXCEPT ![q] = l], script' = [script EXCEPT ![p] = y, ![q] = z]
        PROVE  \A r \in Procs : r # p => (pc'[r] = pc[r] /\ script'[r] = script[r]) \/ c[r].done = 0
    BY <1>1, <2>2 DEF VarsOK, DoneOK
  <2>3. CASE SysFork(p)
    <3>1. PICK q \in Procs : /\ pc[q] = "unborn" /\ pc' = [pc EXCEPT ![q] = "user"]
                             /\ script' = [script EXCEPT ![p] = Tail(script[p]), ![q] = Call(p).child]
      BY <2>3 DEF SysFork, At
    <3> QED BY <2>2, <3>1
  <2>4. CASE SysWait(p)
    <3>1. PICK q \in Procs : /\ pc[q] = "zombie" /\ pc' = [pc EXCEPT ![q] = "unborn"]
                             /\ script' = [script EXCEPT ![p] = Tail(script[p]), ![q] = <<>>]
      BY <2>4 DEF SysWait, At
    <3> QED BY <2>2, <3>1
  <2> QED BY <2>1, <2>3, <2>4
<1> QED BY <1>1, <1>2, <1>3, DoneStep

(* One step.                                                                *)
Inv == (RefInv /\ DoneOK) \/ Stopped

(* One step of a process keeps the invariant.                               *)
LEMMA StepKeeps ==
  ASSUME NEW p \in Procs, RefInv, DoneOK, Step(p)
  PROVE  (RefInv' \/ Stopped') /\ DoneOK'
<1>1. CASE SysPath(p)
  BY <1>1, SysPathKeeps, SysPathPlain, PlainDone
<1>2. CASE NamexEnd(p)
  BY <1>2, NamexEndKeeps, NamexEndPlain, PlainDone
<1>3. CASE Namex(p)
  BY <1>3, NamexKeeps, NamexPlain, PlainDone
<1>4. CASE NotFound(p)
  BY <1>4, NotFoundKeeps, NotFoundPlain, PlainDone
<1>5. CASE EndOp(p)
  BY <1>5, EndOpKeeps, EndOpPlain, PlainDone
<1>6. CASE Iput(p)
  BY <1>6, IputKeeps, IputPlain, PlainDone
<1>7. CASE IputFree(p)
  BY <1>7, IputFreeKeeps, IputFreePlain, PlainDone
<1>8. CASE IputUnlock(p)
  BY <1>8, IputUnlockKeeps, IputUnlockPlain, PlainDone
<1>9. CASE IputDrop(p)
  BY <1>9, IputDropKeeps, IputDropPlain, PlainDone
<1>10. CASE SysOpen(p)
  BY <1>10, SysOpenKeeps, SysOpenPlain, PlainDone
<1>11. CASE Create(p)
  BY <1>11, CreateKeeps, CreatePlain, PlainDone
<1>12. CASE Exists(p)
  BY <1>12, ExistsKeeps, ExistsPlain, PlainDone
<1>13. CASE IallocGet(p)
  BY <1>13, IallocGetKeeps, IallocGetPlain, PlainDone
<1>14. CASE Fill(p)
  BY <1>14, FillKeeps, FillPlain, PlainDone
<1>15. CASE Made(p)
  BY <1>15, MadeKeeps, MadePlain, PlainDone
<1>16. CASE Undo(p)
  BY <1>16, UndoKeeps, UndoPlain, PlainDone
<1>17. CASE Unlink(p)
  BY <1>17, UnlinkKeeps, UnlinkPlain, PlainDone
<1>18. CASE UnlinkIp(p)
  BY <1>18, UnlinkIpKeeps, UnlinkIpPlain, PlainDone
<1>19. CASE UnlinkEnd(p)
  BY <1>19, UnlinkEndKeeps, UnlinkEndPlain, PlainDone
<1>20. CASE Link(p)
  BY <1>20, LinkKeeps, LinkPlain, PlainDone
<1>21. CASE LinkNew(p)
  BY <1>21, LinkNewKeeps, LinkNewPlain, PlainDone
<1>22. CASE LinkDp(p)
  BY <1>22, LinkDpKeeps, LinkDpPlain, PlainDone
<1>23. CASE LinkBad(p)
  BY <1>23, LinkBadKeeps, LinkBadPlain, PlainDone
<1>24. CASE Chdir(p)
  BY <1>24, ChdirKeeps, ChdirPlain, PlainDone
<1>25. CASE ChdirEnd(p)
  BY <1>25, ChdirEndKeeps, ChdirEndPlain, PlainDone
<1>26. CASE SysRead(p)
  BY <1>26, SysReadKeeps, SysReadPlain, PlainDone
<1>27. CASE SysWrite(p)
  BY <1>27, SysWriteKeeps, SysWriteDone
<1>28. CASE BadWrite(p)
  BY <1>28, BadWriteKeeps, BadWritePlain, PlainDone
<1>29. CASE SysClose(p)
  BY <1>29, SysCloseKeeps, SysClosePlain, PlainDone
<1>30. CASE SysFork(p)
  BY <1>30, SysForkKeeps, OthersDone
<1>31. CASE SysExit(p)
  BY <1>31, SysExitKeeps, SysExitPlain, PlainDone
<1>32. CASE SysWait(p)
  BY <1>32, SysWaitKeeps, OthersDone
<1>33. CASE AnyCall(p)
  BY <1>33, AnyCallKeeps, OthersDone
<1> QED
  BY <1>1, <1>2, <1>3, <1>4, <1>5, <1>6, <1>7, <1>8, <1>9, <1>10, <1>11, <1>12, <1>13, <1>14, <1>15,
     <1>16, <1>17, <1>18, <1>19, <1>20, <1>21, <1>22, <1>23, <1>24, <1>25, <1>26, <1>27, <1>28, <1>29,
     <1>30, <1>31, <1>32, <1>33 DEF Step

-----------------------------------------------------------------------------
(* The image that mkfs makes: no slot of the inode table is in use.         *)
Clean(v) == Shape(v) /\ \A s \in Slots : v.itab[s] = NoSlot

(* A slot that is filled field by field.                                    *)
LEMMA SlotOfShape ==
  \A d, i, r, v : SlotShape(SlotOf(d, i, r, v))
BY DEF SlotShape, SlotOf

(* mkfs's ialloc() writes the disk only.                                    *)
LEMMA IallocClean ==
  ASSUME NEW v, Clean(v), NEW i, NEW type
  PROVE  Clean(MkfsIalloc(v, i, type))
<1> DEFINE d == [FreeInode EXCEPT !.type = type, !.nlink = 1]
<1>1. MkfsIalloc(v, i, type) = [v EXCEPT !.dinode[i] = d]
  BY DEF MkfsIalloc
<1> HIDE DEF d
<1>2. Clean([v EXCEPT !.dinode[i] = d])
  BY DEF Clean, Shape
<1> QED BY <1>1, <1>2

(* mkfs's iappend() does, with the inode in a slot for as long.             *)
LEMMA IappendClean ==
  ASSUME NEW v, Clean(v), NEW i, NEW name, NEW j
  PROVE  Clean(Iappend(v, i, name, j))
<1> DEFINE n == SlotOf(v.dinode[i], i, 1, TRUE)
           w == [v EXCEPT !.itab[1] = n]
           o == v.dinode[i].size
           u == [name |-> name, inum |-> j]
           x == Writei(w, 1, o, u).fs
           y == [x EXCEPT !.itab[1] = NoSlot]
<1>1. Iappend(v, i, name, j) = y
  BY DEF Iappend
<1>2. SlotShape(n) /\ SlotShape(NoSlot)
  BY SlotOfShape DEF NoSlot
<1> HIDE DEF n, o, u
<1>3. Shape(w) /\ \A t \in Slots : t # 1 => w.itab[t] = NoSlot
  <2> DEFINE one == 1
             x1 == [v EXCEPT !.itab[one] = n]
  <2>1. Shape(v)
    BY DEF Clean
  <2> HIDE DEF one
  <2>2. Shape(x1) /\ \A t \in Slots : x1.itab[t] = IF t = one THEN n ELSE v.itab[t]
    BY <1>2, <2>1, SlotPut
  <2>3. x1 = w
    BY DEF one
  <2> HIDE DEF x1, w
  <2> QED BY <2>2, <2>3 DEF one, Clean
<1> HIDE DEF w
<1>4. Wrote(w, x, 1)
  BY <1>3, WriteiWrote
<1> HIDE DEF x
<1>5. Shape(x) /\ \A t \in Slots : t # 1 => x.itab[t] = NoSlot
  BY <1>3, <1>4 DEF Wrote
<1>6. Shape(y) /\ \A t \in Slots : y.itab[t] = IF t = 1 THEN NoSlot ELSE x.itab[t]
  <2> DEFINE one == 1
             y1 == [x EXCEPT !.itab[one] = NoSlot]
  <2> HIDE DEF one
  <2>2. Shape(y1) /\ \A t \in Slots : y1.itab[t] = IF t = one THEN NoSlot ELSE x.itab[t]
    BY <1>2, <1>5, SlotPut
  <2>3. y1 = y
    BY DEF one
  <2> HIDE DEF y1, y
  <2> QED BY <2>2, <2>3 DEF one
<1> HIDE DEF y
<1> QED BY <1>1, <1>5, <1>6 DEF Clean

(* mkfs's loop over the files.                                              *)
Add(v, k) ==
  Iappend(Iappend(MkfsIalloc(v, k + 1, "FILE"), Root, MkfsFiles[k], k + 1), k + 1, "data", 1)
Adds(g, v, n) == g = [k \in 0 .. n |-> IF k = 0 THEN v ELSE Add(g[k - 1], k)]

(* The loop has its sequence of images, by induction.                       *)
LEMMA AddsExists ==
  ASSUME NEW v, NEW k \in Nat
  PROVE  \E g : Adds(g, v, k)
<1> DEFINE S == {n \in Nat : \E g : Adds(g, v, n)}
<1>1. 0 \in S
  <2> DEFINE g == [j \in 0 .. 0 |-> v]
  <2>1. Adds(g, v, 0)
    BY DEF Adds
  <2> HIDE DEF g
  <2> QED BY <2>1
<1>2. ASSUME NEW n \in Nat, n \in S PROVE n + 1 \in S
  <2>1. PICK g : Adds(g, v, n)
    BY <1>2
  <2>0. g = [j \in 0 .. n |-> IF j = 0 THEN v ELSE Add(g[j - 1], j)]
    BY <2>1 DEF Adds
  <2> DEFINE h == [j \in 0 .. (n + 1) |-> IF j = n + 1 THEN Add(g[n], n + 1) ELSE g[j]]
             e == [j \in 0 .. (n + 1) |-> IF j = 0 THEN v ELSE Add(h[j - 1], j)]
  <2>2. ASSUME NEW j \in 0 .. (n + 1) PROVE h[j] = e[j]
    <3>1. CASE j = 0
      BY <2>0, <3>1
    <3>2. CASE j = n + 1
      <4>1. j # 0 /\ j - 1 = n /\ n \in 0 .. (n + 1) /\ n # n + 1
        BY <3>2
      <4> QED BY <3>2, <4>1
    <3>3. CASE j # 0 /\ j # n + 1
      <4>1. j \in 0 .. n /\ j - 1 \in 0 .. (n + 1) /\ j - 1 # n + 1
        BY <3>3
      <4>2. g[j] = Add(g[j - 1], j)
        BY <2>0, <3>3, <4>1
      <4> QED BY <3>3, <4>1, <4>2
    <3> QED BY <3>1, <3>2, <3>3
  <2>3. h = e
    <3> HIDE DEF h
    <3>1. DOMAIN h = 0 .. (n + 1) /\ h = [j \in DOMAIN h |-> h[j]]
      BY DEF h
    <3> QED BY <2>2, <3>1
  <2> HIDE DEF h
  <2>4. Adds(h, v, n + 1)
    BY <2>3 DEF Adds
  <2> QED BY <2>4
<1> HIDE DEF S
<1>3. k \in S
  BY <1>1, <1>2, Induction
<1> QED BY <1>3 DEF S

(* No slot is in use in any of them, by induction.                          *)
LEMMA AddsClean ==
  ASSUME NEW v, NEW k \in Nat, NEW g, Adds(g, v, k), Clean(v)
  PROVE  Clean(g[k])
<1> DEFINE S == {j \in Nat : j <= k => Clean(g[j])}
<1>1. 0 \in S
  BY DEF Adds
<1>2. ASSUME NEW j \in Nat, j \in S PROVE j + 1 \in S
  <2> SUFFICES ASSUME j + 1 <= k PROVE Clean(g[j + 1])
    OBVIOUS
  <2>1. Clean(g[j]) /\ j + 1 \in 0 .. k /\ j + 1 # 0 /\ (j + 1) - 1 = j
    BY <1>2
  <2>2. g[j + 1] = Add(g[j], j + 1)
    BY <2>1 DEF Adds
  <2> QED BY <2>1, <2>2, IallocClean, IappendClean DEF Add
<1> HIDE DEF S
<1>3. k \in S
  BY <1>1, <1>2, Induction
<1> QED BY <1>3 DEF S

(* The image has no slot in use.                                            *)
LEMMA MkfsClean == Clean(MkfsImage)
<1> DEFINE root == Iappend(Iappend(MkfsIalloc(EmptyImage, Root, "DIR"), Root, ".", Root), Root, "..", Root)
           n == Len(MkfsFiles)
           add == CHOOSE g : Adds(g, root, n)
           a == add[n]
<1>1. Clean(EmptyImage)
  BY SlotOfShape DEF Clean, Shape, EmptyImage, NoSlot
<1>2. Clean(root)
  BY <1>1, IallocClean, IappendClean
<1>3. MkfsImage = [a EXCEPT !.dinode[Root].size = ((@ \div UPB) + 1) * UPB]
  BY DEF MkfsImage, Adds, Add
<1> HIDE DEF root
<1>4. n \in Nat
  BY FsAssumption
<1> HIDE DEF n
<1>5. Adds(add, root, n)
  BY <1>4, AddsExists
<1> HIDE DEF add
<1>6. Clean(a)
  BY <1>2, <1>4, <1>5, AddsClean
<1> HIDE DEF a
<1>7. \A x : Clean([a EXCEPT !.dinode = x])
  BY <1>6 DEF Clean, Shape
<1>8. MkfsImage = [a EXCEPT !.dinode = MkfsImage.dinode]
  <2>1. PICK z : MkfsImage = [a EXCEPT !.dinode[Root].size = z]
    BY <1>3
  <2> QED BY <1>6, <2>1 DEF Clean, Shape
<1> QED BY <1>7, <1>8

-----------------------------------------------------------------------------
(* The initial states.                                                      *)
(* The first iget() takes the first slot.                                   *)
LEMMA InitSlots ==
  ASSUME Init
  PROVE  /\ Shape(fs)
         /\ \A s \in Slots : fs.itab[s].lock = None /\ fs.itab[s].ref = IF s = 1 THEN 1 ELSE 0
<1> DEFINE v == MkfsImage
           empty == {s \in Slots : v.itab[s].ref = 0}
           s1 == Min(empty)
           n == v.itab[s1]
           m == [n EXCEPT !.inum = Root, !.ref = 1, !.valid = FALSE]
<1>1. Shape(v) /\ \A s \in Slots : v.itab[s] = NoSlot
  BY MkfsClean DEF Clean
<1>2. NoSlot.ref = 0 /\ NoSlot.lock = None
  BY DEF NoSlot, SlotOf
<1>3. 1 \in Slots /\ Slots \in SUBSET Nat /\ \A s \in Slots : 1 <= s
  BY FsAssumption DEF Slots
<1> HIDE DEF v
<1>4. empty = Slots
  BY <1>1, <1>2
<1>5. s1 \in Slots /\ s1 <= 1
  BY <1>3, <1>4, Least
<1>6. s1 = 1
  <2>1. s1 \in Nat /\ 1 <= s1 /\ s1 <= 1
    BY <1>3, <1>5
  <2> HIDE DEF s1
  <2> QED BY <2>1
<1>7. Iget(v, Root) = [fs |-> [v EXCEPT !.itab[s1] = m], s |-> s1]
  <2>1. {s \in Slots : v.itab[s].ref > 0 /\ v.itab[s].inum = Root} = {}
    BY <1>1, <1>2
  <2>2. empty # {}
    BY <1>3, <1>4
  <2> QED BY <2>1, <2>2 DEF Iget
<1> HIDE DEF empty, s1
<1>8. SlotShape(n)
  BY <1>1, <1>5 DEF Shape
<1>9. SlotShape(m) /\ m.lock = n.lock /\ m.ref = 1
  BY <1>8, NewSlot
<1>10. n = NoSlot
  BY <1>1, <1>5
<1> HIDE DEF m, n
<1> DEFINE w == [v EXCEPT !.itab[s1] = m]
<1>11. Shape(w) /\ \A t \in Slots : w.itab[t] = IF t = s1 THEN m ELSE v.itab[t]
  BY <1>1, <1>9, SlotPut
<1>12. fs = w
  <2>1. fs = Iget(v, Root).fs
    BY DEF Init, v
  <2> HIDE DEF w
  <2>2. Iget(v, Root).fs = w
    BY <1>7 DEF w
  <2> QED BY <2>1, <2>2
<1> HIDE DEF w
<1> QED BY <1>1, <1>2, <1>6, <1>9, <1>10, <1>11, <1>12

(* One process, with no call under way, and one reference.                  *)
LEMMA InitProcs ==
  ASSUME Init
  PROVE  /\ VarsOK /\ DoneOK
         /\ \A p \in Procs : /\ LocalsOK(p) /\ Held(p) = {}
                             /\ \A s \in Slots : Cnt(p, s) = Num(p = 1 /\ s = 1)
<1>1. PICK t \in Scripts : script = [p \in Procs |-> IF p = 1 THEN t ELSE <<>>]
  BY DEF Init
<1>2. t \in Seq(SysCalls) /\ 1 \in Slots /\ 1 \in Procs
  BY ScriptsAssumption, FsAssumption DEF Slots
<1>3. VarsOK
  <2>1. script \in [Procs -> Seq(SysCalls)]
    BY <1>1, <1>2
  <2>2. todo \in [Procs -> Seq(Slots)] /\ cwd \in [Procs -> Slots]
    <3>1. todo = [p \in Procs |-> <<>>] /\ cwd = [p \in Procs |-> 1]
      BY DEF Init
    <3>2. <<>> \in Seq(Slots)
      OBVIOUS
    <3>3. todo \in [Procs -> Seq(Slots)]
      BY <3>1, <3>2
    <3> QED BY <1>2, <3>1, <3>3
  <2> QED BY <2>1, <2>2 DEF Init, VarsOK
<1>4. ASSUME NEW p \in Procs
      PROVE  /\ pc[p] = IF p = 1 THEN "user" ELSE "unborn"
             /\ c[p] = NoLocals /\ todo[p] = <<>> /\ cwd[p] = 1
  BY DEF Init
<1>5. DoneOK
  <2>1. NoLocals.done = 0
    BY DEF NoLocals
  <2>2. \A p \in Procs : c[p].done = 0
    BY <1>4, <2>1
  <2> QED BY <2>2 DEF DoneOK
<1>6. ASSUME NEW p \in Procs
      PROVE  /\ LocalsOK(p) /\ Held(p) = {}
             /\ \A s \in Slots : Cnt(p, s) = Num(p = 1 /\ s = 1)
  <2>1. pc[p] \notin PutLabels /\ Label(p) = pc[p] /\ pc[p] \in {"user", "unborn"}
    BY <1>4 DEF Label, PutLabels
  <2>2. Locals(NoLocals)
    BY DEF NoLocals, Locals
  <2>3. \A op : Ready(pc[p], c[p], op)
    BY <1>4, <2>1, <2>2 DEF Ready, HasOld, Ahead
  <2>4. Len(todo[p]) = 0
    BY <1>4
  <2>5. LocalsOK(p)
    BY <1>4, <2>1, <2>3, <2>4 DEF LocalsOK, PutLabels
  <2>6. Held(p) = {}
    BY <2>1 DEF Held, Locks, PutLabels
  <2>7. ASSUME NEW s \in Slots PROVE Cnt(p, s) = Num(p = 1 /\ s = 1)
    <3>1. Occ(todo[p], s) = 0
      BY <2>4 DEF Occ, Num
    <3>2. \A x, op : ~HasOld(pc[p], x, op)
      BY <2>1 DEF HasOld
    <3>3. \A op : Refs(pc[p], c[p], op, cwd[p], s) = Num(pc[p] = "user" /\ cwd[p] = s)
      BY <2>1, <3>2 DEF Refs, Num
    <3>4. (pc[p] = "user" /\ cwd[p] = s) <=> (p = 1 /\ s = 1)
      BY <1>4
    <3>5. Cnt(p, s) = Num(pc[p] = "user" /\ cwd[p] = s) + 0
      BY <2>1, <3>1, <3>3 DEF Cnt
    <3> QED BY <3>4, <3>5 DEF Num
  <2> QED BY <2>5, <2>6, <2>7
<1> QED BY <1>3, <1>5, <1>6

(* The invariant holds at first.                                            *)
LEMMA InitKeeps ==
  ASSUME Init
  PROVE  RefInv /\ DoneOK
<1>1. /\ Shape(fs)
      /\ \A s \in Slots : fs.itab[s].lock = None /\ fs.itab[s].ref = IF s = 1 THEN 1 ELSE 0
  BY InitSlots
<1>2. /\ VarsOK /\ DoneOK
      /\ \A p \in Procs : /\ LocalsOK(p) /\ Held(p) = {}
                          /\ \A s \in Slots : Cnt(p, s) = Num(p = 1 /\ s = 1)
  BY InitProcs
<1>3. LocksOK
  BY <1>1, <1>2, FsAssumption DEF LocksOK
<1>4. FilesOK
  <2>1. file = [p \in Procs |-> [k \in Regs |-> None]] /\ None \in 0 .. NFILE
    <3>1. file = [p \in Procs |-> [k \in Regs |-> None]]
      BY DEF Init
    <3>2. None \in 0 .. NFILE
      BY FsAssumption DEF None
    <3> QED BY <3>1, <3>2
  <2>2. file \in [Procs -> [Regs -> 0 .. NFILE]]
    BY <2>1
  <2>3. ofile = [f \in 1 .. NFILE |-> [ref |-> 0, ip |-> None, off |-> 0, w |-> FALSE]]
    BY DEF Init
  <2>4. ASSUME NEW f \in 1 .. NFILE
        PROVE  /\ FileShape(ofile[f]) /\ ofile[f].ref = 0
               /\ IsFiniteSet(Fds(f)) /\ Cardinality(Fds(f)) = 0
    <3>1. Fds(f) = {}
      BY <2>1, FsAssumption DEF Fds, None
    <3>2. FileShape(ofile[f]) /\ ofile[f].ref = 0
      BY <2>3 DEF FileShape
    <3> QED BY <3>1, <3>2, FS_EmptySet
  <2>5. \A f \in 1 .. NFILE :
          /\ FileShape(ofile[f]) /\ ofile[f].ref \in Nat /\ (ofile[f].ref > 0 => ofile[f].ip \in Slots)
          /\ IsFiniteSet(Fds(f)) /\ Cardinality(Fds(f)) <= ofile[f].ref
    BY <2>4
  <2>6. ofile = [f \in 1 .. NFILE |-> ofile[f]]
    BY <2>3
  <2>7. \A p \in Procs : file[p] = [k \in Regs |-> None]
    BY <2>1
  <2> QED BY <2>2, <2>5, <2>6, <2>7 DEF FilesOK
<1>5. RefsOK
  <2> SUFFICES ASSUME NEW s \in Slots
               PROVE  /\ IsFiniteSet(Tokens(Cnts(s)))
                      /\ fs.itab[s].ref = Cardinality(Tokens(Cnts(s))) + Cardinality(Opens(s))
    BY DEF RefsOK
  <2>1. Opens(s) = {}
    <3>1. ofile = [f \in 1 .. NFILE |-> [ref |-> 0, ip |-> None, off |-> 0, w |-> FALSE]]
      BY DEF Init
    <3>2. \A f \in 1 .. NFILE : ofile[f].ref = 0
      BY <3>1
    <3> QED BY <3>2 DEF Opens
  <2>2. \A p \in Procs : Cnts(s)[p] = Num(p = 1 /\ s = 1)
    BY <1>2 DEF Cnts
  <2>3. Cardinality(Opens(s)) = 0
    BY <2>1, FS_EmptySet
  <2>4. CASE s = 1
    <3>1. Tokens(Cnts(s)) = {<<1, 0>>}
      BY <2>2, <2>4, FsAssumption DEF Tokens, Num
    <3>2. IsFiniteSet({<<1, 0>>}) /\ Cardinality({<<1, 0>>}) = 1
      BY FS_Singleton
    <3> QED BY <1>1, <2>3, <2>4, <3>1, <3>2
  <2>5. CASE s # 1
    <3>1. Tokens(Cnts(s)) = {}
      BY <2>2, <2>5 DEF Tokens, Num
    <3> QED BY <1>1, <2>3, <2>5, <3>1, FS_EmptySet
  <2> QED BY <2>4, <2>5
<1> QED BY <1>1, <1>2, <1>3, <1>4, <1>5 DEF RefInv

-----------------------------------------------------------------------------
(* The theorems.                                                            *)
(* A step that changes nothing keeps the invariant.                         *)
LEMMA StutterKeeps ==
  ASSUME RefInv, DoneOK, UNCHANGED vars
  PROVE  RefInv' /\ DoneOK'
<1>1. /\ fs' = fs /\ file' = file /\ ofile' = ofile /\ cwd' = cwd /\ pc' = pc /\ c' = c
      /\ todo' = todo /\ cont' = cont /\ script' = script
  BY DEF vars
<1>2. \A q \in Procs : Steady(q)
  BY <1>1 DEF Steady
<1>3. VarsOK'
  BY <1>1 DEF RefInv, VarsOK
<1>4. Shape(fs)'
  BY <1>1 DEF RefInv
<1>5. \A q \in Procs : LocalsOK(q)' /\ Label(q)' = Label(q) /\ Held(q)' = Held(q)
  BY <1>2, SteadyKeeps DEF RefInv
<1>6. \A s : Cnts(s)' = Cnts(s) /\ Opens(s)' = Opens(s)
  <2>1. \A q \in Procs : \A s : Cnt(q, s)' = Cnt(q, s)
    BY <1>2, SteadyKeeps
  <2> QED BY <1>1, <2>1 DEF Cnts, Opens
<1>7. RefsOK'
  BY <1>1, <1>6 DEF RefInv, RefsOK
<1>8. LocksOK'
  BY <1>1, <1>5 DEF RefInv, LocksOK
<1>9. FilesOK'
  <2>1. \A f : Fds(f)' = Fds(f)
    BY <1>1 DEF Fds
  <2> QED BY <1>1, <1>5, <2>1 DEF RefInv, FilesOK
<1>10. DoneOK'
  <2>1. \A q \in Procs : Call(q)' = Call(q)
    BY <1>1 DEF Call
  <2> QED BY <1>1, <2>1 DEF DoneOK
<1> QED BY <1>3, <1>4, <1>5, <1>7, <1>8, <1>9, <1>10 DEF RefInv

(* Nobody makes a step after a panic.                                       *)
LEMMA StepRuns ==
  ASSUME NEW p \in Procs, Step(p)
  PROVE  ~fs.panic
<1>1. CASE SysPath(p)
  BY <1>1 DEF SysPath, At, Calls
<1>2. CASE NamexEnd(p)
  BY <1>2 DEF NamexEnd, At
<1>3. CASE Namex(p)
  BY <1>3 DEF Namex, At
<1>4. CASE NotFound(p)
  BY <1>4 DEF NotFound, At
<1>5. CASE EndOp(p)
  BY <1>5 DEF EndOp, At
<1>6. CASE Iput(p)
  BY <1>6 DEF Iput, At
<1>7. CASE IputFree(p)
  BY <1>7 DEF IputFree, At
<1>8. CASE IputUnlock(p)
  BY <1>8 DEF IputUnlock, At
<1>9. CASE IputDrop(p)
  BY <1>9 DEF IputDrop, At
<1>10. CASE SysOpen(p)
  BY <1>10 DEF SysOpen, At
<1>11. CASE Create(p)
  BY <1>11 DEF Create, At
<1>12. CASE Exists(p)
  BY <1>12 DEF Exists, At
<1>13. CASE IallocGet(p)
  BY <1>13 DEF IallocGet, At
<1>14. CASE Fill(p)
  BY <1>14 DEF Fill, At
<1>15. CASE Made(p)
  BY <1>15 DEF Made, At
<1>16. CASE Undo(p)
  BY <1>16 DEF Undo, At
<1>17. CASE Unlink(p)
  BY <1>17 DEF Unlink, At
<1>18. CASE UnlinkIp(p)
  BY <1>18 DEF UnlinkIp, At
<1>19. CASE UnlinkEnd(p)
  BY <1>19 DEF UnlinkEnd, At
<1>20. CASE Link(p)
  BY <1>20 DEF Link, At
<1>21. CASE LinkNew(p)
  BY <1>21 DEF LinkNew, At
<1>22. CASE LinkDp(p)
  BY <1>22 DEF LinkDp, At
<1>23. CASE LinkBad(p)
  BY <1>23 DEF LinkBad, At
<1>24. CASE Chdir(p)
  BY <1>24 DEF Chdir, At
<1>25. CASE ChdirEnd(p)
  BY <1>25 DEF ChdirEnd, At
<1>26. CASE SysRead(p)
  BY <1>26 DEF SysRead, At, Calls
<1>27. CASE SysWrite(p)
  BY <1>27 DEF SysWrite, At, Calls
<1>28. CASE BadWrite(p)
  BY <1>28 DEF BadWrite, At, Calls
<1>29. CASE SysClose(p)
  BY <1>29 DEF SysClose, At, Calls
<1>30. CASE SysFork(p)
  BY <1>30 DEF SysFork, At, Calls
<1>31. CASE SysExit(p)
  BY <1>31 DEF SysExit, At, Calls
<1>32. CASE SysWait(p)
  BY <1>32 DEF SysWait, At, Calls
<1>33. CASE AnyCall(p)
  BY <1>33 DEF AnyCall, At, Calls
<1> QED
  BY <1>1, <1>2, <1>3, <1>4, <1>5, <1>6, <1>7, <1>8, <1>9, <1>10, <1>11, <1>12, <1>13, <1>14, <1>15,
     <1>16, <1>17, <1>18, <1>19, <1>20, <1>21, <1>22, <1>23, <1>24, <1>25, <1>26, <1>27, <1>28,
     <1>29, <1>30, <1>31, <1>32, <1>33 DEF Step

(* The state of the inode table, of the locks and of the open files is what *)
(* the calls that are under way account for, until the kernel panics in the *)
(* middle of one.                                                           *)
THEOREM FsInv == Spec => []Inv
<1>1. Init => Inv
  BY InitKeeps DEF Inv
<1>2. Inv /\ [Next]_vars => Inv'
  <2> SUFFICES ASSUME Inv, [Next]_vars PROVE Inv'
    OBVIOUS
  <2>1. CASE Next
    <3>1. ~fs.panic /\ \E p \in Procs : Step(p)
      BY <2>1, StepRuns DEF Next
    <3>2. RefInv /\ DoneOK
      BY <3>1 DEF Inv, Stopped
    <3> QED BY <3>1, <3>2, StepKeeps DEF Inv
  <2>2. CASE UNCHANGED vars
    <3>1. CASE RefInv /\ DoneOK
      BY <2>2, <3>1, StutterKeeps DEF Inv
    <3>2. CASE Stopped
      BY <2>2, <3>2 DEF Inv, Stopped, Quiet, vars
    <3> QED BY <3>1, <3>2 DEF Inv
  <2> QED BY <2>1, <2>2
<1> QED BY <1>1, <1>2, PTL DEF Spec

(* When no call is under way, the processes in a directory are the          *)
(* references of processes to its slot.                                     *)
LEMMA QuietCounts ==
  ASSUME RefInv, Quiet, NEW s \in Slots
  PROVE  Cardinality(Tokens(Cnts(s))) = Cardinality({p \in Procs : pc[p] = "user" /\ cwd[p] = s})
<1> DEFINE T == Tokens(Cnts(s))
           U == {p \in Procs : pc[p] = "user" /\ cwd[p] = s}
           g == [x \in T |-> x[1]]
<1>1. ASSUME NEW p \in Procs PROVE Cnts(s)[p] = Num(p \in U)
  <2>1. pc[p] \in {"user", "unborn", "zombie"} /\ pc[p] \notin PutLabels
    BY DEF Quiet, PutLabels
  <2>2. Label(p) = pc[p] /\ todo[p] = <<>>
    BY <2>1 DEF RefInv, LocalsOK, Label
  <2>3. Occ(todo[p], s) = 0
    BY <2>2 DEF Occ, Num
  <2>4. \A x, op : ~HasOld(pc[p], x, op)
    BY <2>1 DEF HasOld
  <2>5. \A op : Refs(pc[p], c[p], op, cwd[p], s) = Num(pc[p] = "user" /\ cwd[p] = s)
    BY <2>1, <2>4 DEF Refs, Num
  <2>6. Cnts(s)[p] = Num(pc[p] = "user" /\ cwd[p] = s) + 0
    BY <2>2, <2>3, <2>5 DEF Cnts, Cnt
  <2> QED BY <2>6 DEF Num
<1>2. T = {<<p, 0>> : p \in U}
  <2>1. ASSUME NEW x \in T PROVE x[1] \in U /\ x = <<x[1], 0>>
    <3>1. x \in Procs \X Nat /\ x[2] < Cnts(s)[x[1]]
      BY DEF Tokens
    <3>2. x[2] \in Nat /\ x[2] < Num(x[1] \in U) /\ x = <<x[1], x[2]>>
      BY <1>1, <3>1
    <3> QED BY <3>2 DEF Num
  <2>2. ASSUME NEW p \in U PROVE <<p, 0>> \in T
    <3>1. p \in Procs /\ Cnts(s)[p] = 1
      BY <1>1 DEF Num
    <3> QED BY <3>1 DEF Tokens
  <2> HIDE DEF T, U
  <2> QED BY <2>1, <2>2
<1>3. IsFiniteSet(T)
  BY DEF RefInv, RefsOK
<1> HIDE DEF T, U
<1>4. g \in Bijection(T, U)
  <2>1. g \in [T -> U]
    BY <1>2
  <2>2. \A i, j \in T : g[i] = g[j] => i = j
    BY <1>2
  <2>3. \A u \in U : \E x \in T : g[x] = u
    <3>1. ASSUME NEW u \in U PROVE <<u, 0>> \in T /\ g[<<u, 0>>] = u
      BY <1>2
    <3> QED BY <3>1
  <2> HIDE DEF g
  <2> QED BY <2>1, <2>2, <2>3 DEF Bijection, Injection, Surjection, IsInjective
<1>5. ExistsBijection(T, U)
  BY <1>4 DEF ExistsBijection
<1>6. Cardinality(T) = Cardinality(U)
  BY <1>3, <1>5, FS_Bijection
<1> QED BY <1>6 DEF T, U

(* When no call is under way every reference to a slot of the inode table   *)
(* is counted: one for each process in the directory and for each open file *)
(* (iget(), idup() and iput() of fs.c, as every call of sysfile.c pairs     *)
(* them), however the calls came in between each other.                     *)
THEOREM RefsCountedHolds == Spec => []RefsCounted
<1>1. Inv => RefsCounted
  <2> SUFFICES ASSUME Inv, Quiet, NEW s \in Slots
               PROVE  fs.itab[s].ref = Cardinality({p \in Procs : pc[p] = "user" /\ cwd[p] = s})
                        + Cardinality({f \in DOMAIN ofile : ofile[f].ref > 0 /\ ofile[f].ip = s})
    BY DEF RefsCounted
  <2>1. RefInv
    BY DEF Inv, Stopped
  <2>2. {f \in DOMAIN ofile : ofile[f].ref > 0 /\ ofile[f].ip = s} = Opens(s)
    <3>1. DOMAIN ofile = 1 .. NFILE
      BY <2>1 DEF RefInv, FilesOK
    <3> QED BY <3>1 DEF Opens
  <2>3. fs.itab[s].ref = Cardinality(Tokens(Cnts(s))) + Cardinality(Opens(s))
    BY <2>1 DEF RefInv, RefsOK
  <2> QED BY <2>1, <2>2, <2>3, QuietCounts
<1> QED BY <1>1, FsInv, PTL

(* "ip->ref == 1 means no other process can have ip locked, so this         *)
(* acquiresleep() won't block (or deadlock)" (iput(), fs.c): the lock that  *)
(* iput() takes while it holds itable.lock is free.                         *)
PutLockFree ==
  \A p \in Procs : At(p, "put") /\ LastPut(fs.itab[Head(todo[p])]) => Unlocked(Head(todo[p]))

(* iput() never waits for the lock and the kernel does not panic there.     *)
THEOREM PutLockFreeHolds == Spec => []PutLockFree
<1>1. Inv => PutLockFree
  BY LastPutUnlocked DEF Inv, Stopped, PutLockFree, At
<1> QED BY <1>1, FsInv, PTL

(* No call returns with an inode locked: when none is under way every lock  *)
(* of the table is free.                                                    *)
LocksReleased == Quiet => \A s \in Slots : Unlocked(s)

(* However the calls come in between each other, no lock of an inode is     *)
(* left behind.                                                             *)
THEOREM LocksReleasedHolds == Spec => []LocksReleased
<1>1. Inv => LocksReleased
  <2> SUFFICES ASSUME Inv, Quiet, NEW s \in Slots PROVE Unlocked(s)
    BY DEF LocksReleased
  <2>1. RefInv
    BY DEF Inv, Stopped
  <2>2. ASSUME NEW p \in Procs PROVE Held(p) = {}
    <3>1. pc[p] \in {"user", "unborn", "zombie"}
      BY DEF Quiet
    <3> QED BY <3>1 DEF Held, Label, Locks, PutLabels
  <2>3. fs.itab[s].lock \in Procs \cup {None} /\ \A p \in Procs : fs.itab[s].lock = p <=> s \in Held(p)
    BY <2>1 DEF RefInv, LocksOK
  <2> QED BY <2>2, <2>3 DEF Unlocked
<1> QED BY <1>1, FsInv, PTL

(* A variable of a process never names a file that is closed: fileclose()   *)
(* of one descriptor, exit() and fork() keep ref at the number of the       *)
(* descriptors or above, and an open file has its inode.                    *)
DescriptorsOpen ==
  ~fs.panic => \A p \in Procs, k \in Regs :
    file[p][k] # None => ofile[file[p][k]].ref > 0 /\ ofile[file[p][k]].ip \in Slots

(* So argfd() never hands out a file that has been closed.                  *)
THEOREM DescriptorsOpenHolds == Spec => []DescriptorsOpen
<1>1. Inv => DescriptorsOpen
  <2> SUFFICES ASSUME Inv, ~fs.panic, NEW p \in Procs, NEW k \in Regs, file[p][k] # None
               PROVE  ofile[file[p][k]].ref > 0 /\ ofile[file[p][k]].ip \in Slots
    BY DEF DescriptorsOpen
  <2> DEFINE f == file[p][k]
  <2>1. FilesOK
    BY DEF Inv, Stopped, RefInv
  <2>2. f \in 1 .. NFILE /\ <<p, k>> \in Fds(f)
    BY <2>1, FsAssumption DEF FilesOK, None, Fds
  <2> HIDE DEF f
  <2>3. /\ ofile[f].ref \in Nat /\ (ofile[f].ref > 0 => ofile[f].ip \in Slots)
        /\ IsFiniteSet(Fds(f)) /\ Cardinality(Fds(f)) <= ofile[f].ref
    BY <2>1, <2>2 DEF FilesOK
  <2>4. Cardinality(Fds(f)) # 0 /\ Cardinality(Fds(f)) \in Nat
    BY <2>2, <2>3, FS_EmptySet, FS_CardinalityType
  <2>5. ofile[f].ref > 0
    BY <2>3, <2>4
  <2> QED BY <2>3, <2>5 DEF f
<1> QED BY <1>1, FsInv, PTL
=============================================================================
